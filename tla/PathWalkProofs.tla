----------------------------- MODULE PathWalkProofs -----------------------------
(****************************************************************************)
(* Paths lead where they lead in the tree, for any volumes, calls and size  *)
(* of the cache, as long as no dentry that is in use is put out of it.      *)
(****************************************************************************)
EXTENDS PathWalk, SequenceFacts, FiniteSetTheorems

\* What dget and vfs_rm take for granted: counts of directories do not wrap, and no
\* directory is removed.
Orderly ==
    /\ \A i \in cache : dentry[i].d_inode \in Dir => dentry[i].d_count < Word - 1
    /\ deleted \cap Dir = {}

\* What dcache_put_LRU leaves behind when its first loop finds a dentry (vfscache.c:172):
\* those in use stay, and the current directory does, which has no reference.
Kept(ca) == \A i \in cache \ ca : dentry[i].d_count = 0 /\ i # pwd.dentry
KeepsUsed == Kept(cache')

--------------------------------------------------------------------------------
(* The inductive invariant; dt is the memory of dentries, ca the cache *)

Fixed == {root_dentry, ext2_root_dentry, ext2_mountpoint}
Roots == {root_dentry, ext2_root_dentry}

Typed(dt, ca) ==
    /\ dt \in [Address -> Dentries]
    /\ ca \subseteq Address /\ Cardinality(ca) <= DCACHE_CAPACITY /\ Fixed \subseteq ca

\* The volumes are mounted.
Mounted(dt) ==
    /\ dt[root_dentry].d_parent = None /\ dt[root_dentry].d_inode = Root
    /\ dt[ext2_root_dentry].d_parent = None /\ dt[ext2_root_dentry].d_inode = Ext2Root
    /\ dt[ext2_mountpoint].d_parent = root_dentry /\ dt[ext2_mountpoint].d_name = "ext2"
    /\ dt[ext2_mountpoint].d_inode = Ext2Root

\* Every dentry in the cache but the roots has its parent there: a directory, and not the
\* mount point.
Parented(dt, ca) ==
    \A i \in ca \ Roots : /\ dt[i].d_parent \in ca \ {ext2_mountpoint}
                          /\ dt[dt[i].d_parent].d_inode \in Dir

\* A dentry says what is on the disk, a name is cached once, and so is an inode.
Told(dt, ca, gone) ==
    \A i \in ca \ Fixed :
        dt[i].d_inode = InodeOf(Tree, gone, dt[dt[i].d_parent].d_inode, dt[i].d_name)
NameOnce(dt, ca) ==
    \A i, j \in ca \ Roots :
        dt[i].d_parent = dt[j].d_parent /\ dt[i].d_name = dt[j].d_name => i = j
InodeOnce(dt, ca) ==
    \A i, j \in ca \ {ext2_mountpoint} :
        dt[i].d_inode = dt[j].d_inode /\ dt[i].d_inode # None => i = j

Sound(dt, ca, gone) ==
    /\ Typed(dt, ca) /\ Mounted(dt) /\ Parented(dt, ca)
    /\ Told(dt, ca, gone) /\ NameOnce(dt, ca) /\ InodeOnce(dt, ca)

\* A directory counts its dentries in the cache, and the references in f.
ChildrenOf(dt, ca, d) == { i \in ca : dt[i].d_parent = d }
Counted(dt, ca, f) ==
    \A d \in ca : dt[d].d_inode \in Dir =>
        Cardinality(ChildrenOf(dt, ca, d)) + f[d] <= dt[d].d_count

\* The references of the mounts, and of a walk at i besides.
MountRefs == [d \in Address |-> IF d \in Fixed THEN 1 ELSE 0]
Plus(f, i) == [f EXCEPT ![i] = @ + 1]
Minus(f, i) == [f EXCEPT ![i] = @ - 1]
Refs == IF Walking THEN Plus(MountRefs, nd.dentry) ELSE MountRefs

\* At dentry i under mount m: a directory of the volume that is mounted there.
Stands(dt, ca, i, m) ==
    /\ i \in ca \ {ext2_mountpoint} /\ m \in Mount
    /\ dt[i].d_inode \in Dir
    /\ dt[i].d_inode \in Ext2Dir <=> m = "ext2_root_mnt"

IInv ==
    /\ Sound(dentry, cache, deleted)
    /\ Counted(dentry, cache, Refs)
    /\ pwd \in [dentry : Address, mnt : Mount]
    /\ Stands(dentry, cache, pwd.dentry, pwd.mnt)
    /\ Walking => /\ nd \in Nameidata /\ nd.rest # <<>> /\ (nd.op = "cd" => nd.dir)
                  /\ Stands(dentry, cache, nd.dentry, nd.mnt)

--------------------------------------------------------------------------------
(* Dentries and their counts *)

LEMMA Places ==
    /\ Fixed \subseteq Address /\ Roots \subseteq Fixed /\ ext2_mountpoint \in Fixed
    /\ root_dentry # ext2_root_dentry /\ ext2_mountpoint \notin Roots
    /\ Address \subseteq Nat /\ IsFiniteSet(Address) /\ None \notin Address
    /\ Cardinality(Address) = DCACHE_CAPACITY + 1
<1>1. DCACHE_CAPACITY \in Nat /\ DCACHE_CAPACITY >= 3 /\ None \notin Address
  BY PathWalkAssumption
<1>2. IsFiniteSet(1 .. DCACHE_CAPACITY + 1)
      /\ Cardinality(1 .. DCACHE_CAPACITY + 1) = DCACHE_CAPACITY + 1
  BY <1>1, FS_Interval
<1> QED
  BY <1>1, <1>2 DEF Address, Fixed, Roots, root_dentry, ext2_root_dentry, ext2_mountpoint

\* The memory of dentries with the same parents, names and inodes.
SameShape(dt, du) ==
    \A j \in Address : /\ du[j].d_parent = dt[j].d_parent /\ du[j].d_name = dt[j].d_name
                       /\ du[j].d_inode = dt[j].d_inode

\* A count stays in its range, and is one more or less unless it wraps.
LEMMA CountFacts ==
    ASSUME NEW c \in 0 .. Word - 1
    PROVE  /\ (c + 1) % Word \in 0 .. Word - 1 /\ (c - 1) % Word \in 0 .. Word - 1
           /\ c < Word - 1 => (c + 1) % Word = c + 1
           /\ c > 0 => (c - 1) % Word = c - 1
<1>1. Word \in Nat \ {0}
  BY PathWalkAssumption
<1>2. \A w \in Nat \ {0} : \A k \in 0 .. w - 1 :
         /\ (k + 1) % w \in 0 .. w - 1 /\ (k - 1) % w \in 0 .. w - 1
         /\ k < w - 1 => (k + 1) % w = k + 1
         /\ k > 0 => (k - 1) % w = k - 1
  BY SMT
<1> QED BY <1>1, <1>2

LEMMA DgetFacts ==
    ASSUME NEW dt \in [Address -> Dentries], NEW i \in Address
    PROVE  /\ dget(dt, i) \in [Address -> Dentries]
           /\ SameShape(dt, dget(dt, i))
           /\ \A j \in Address : j # i => dget(dt, i)[j] = dt[j]
           /\ dt[i].d_count < Word - 1 => dget(dt, i)[i].d_count = dt[i].d_count + 1
<1>1. dt[i] \in Dentries /\ dt[i].d_count \in 0 .. Word - 1
  BY DEF Dentries
<1>2. /\ (dt[i].d_count + 1) % Word \in 0 .. Word - 1
      /\ dt[i].d_count < Word - 1 => (dt[i].d_count + 1) % Word = dt[i].d_count + 1
  BY <1>1, CountFacts
<1> QED BY <1>1, <1>2 DEF dget, Dentries, SameShape

LEMMA DputFacts ==
    ASSUME NEW dt \in [Address -> Dentries], NEW i \in Address
    PROVE  /\ dput(dt, i) \in [Address -> Dentries]
           /\ SameShape(dt, dput(dt, i))
           /\ \A j \in Address : j # i => dput(dt, i)[j] = dt[j]
           /\ dt[i].d_count > 0 => dput(dt, i)[i].d_count = dt[i].d_count - 1
<1>1. dt[i] \in Dentries /\ dt[i].d_count \in 0 .. Word - 1
  BY DEF Dentries
<1>2. /\ (dt[i].d_count - 1) % Word \in 0 .. Word - 1
      /\ dt[i].d_count > 0 => (dt[i].d_count - 1) % Word = dt[i].d_count - 1
  BY <1>1, CountFacts
<1> QED BY <1>1, <1>2 DEF dput, Dentries, SameShape

\* What a sound cache is does not depend on the counts.
LEMMA SoundShape ==
    ASSUME NEW dt, NEW du \in [Address -> Dentries], NEW ca, NEW gone,
           Sound(dt, ca, gone), SameShape(dt, du)
    PROVE  /\ Sound(du, ca, gone)
           /\ \A i, m : Stands(dt, ca, i, m) => Stands(du, ca, i, m)
<1>1. ca \subseteq Address /\ Typed(du, ca)
  BY DEF Sound, Typed
<1>2. \A j \in Address : /\ du[j].d_parent = dt[j].d_parent /\ du[j].d_name = dt[j].d_name
                         /\ du[j].d_inode = dt[j].d_inode
  BY DEF SameShape
<1>3. Mounted(du)
  BY <1>2, Places DEF Sound, Mounted, Fixed, Roots
<1>4. Parented(du, ca)
  BY <1>1, <1>2 DEF Sound, Parented
<1>5. Told(du, ca, gone)
  <2>1. SUFFICES ASSUME NEW i \in ca \ Fixed
                 PROVE  du[i].d_inode
                          = InodeOf(Tree, gone, du[du[i].d_parent].d_inode, du[i].d_name)
    BY DEF Told
  <2>2. i \in ca \ Roots
    BY Places
  <2>3. dt[i].d_parent \in Address
    BY <1>1, <2>2 DEF Sound, Parented
  <2> QED BY <1>1, <1>2, <2>3 DEF Sound, Told
<1>6. NameOnce(du, ca) /\ InodeOnce(du, ca)
  BY <1>1, <1>2 DEF Sound, NameOnce, InodeOnce
<1>7. \A i, m : Stands(dt, ca, i, m) => Stands(du, ca, i, m)
  BY <1>1, <1>2 DEF Stands
<1> QED BY <1>1, <1>3, <1>4, <1>5, <1>6, <1>7 DEF Sound

LEMMA ChildrenFinite ==
    ASSUME NEW dt, NEW ca \in SUBSET Address, NEW d
    PROVE  /\ IsFiniteSet(ca) /\ IsFiniteSet(ChildrenOf(dt, ca, d))
           /\ Cardinality(ChildrenOf(dt, ca, d)) \in Nat
<1>1. IsFiniteSet(ca)
  BY Places, FS_Subset
<1>2. ChildrenOf(dt, ca, d) \subseteq ca
  BY DEF ChildrenOf
<1> QED BY <1>1, <1>2, FS_Subset, FS_CardinalityType

\* A reference taken is counted.
LEMMA Take ==
    ASSUME NEW dt \in [Address -> Dentries], NEW ca \in SUBSET Address,
           NEW f \in [Address -> Nat], NEW i \in Address, Counted(dt, ca, f),
           i \in ca /\ dt[i].d_inode \in Dir => dt[i].d_count < Word - 1
    PROVE  Counted(dget(dt, i), ca, Plus(f, i)) /\ Plus(f, i) \in [Address -> Nat]
<1>1. /\ dget(dt, i) \in [Address -> Dentries] /\ SameShape(dt, dget(dt, i))
      /\ \A j \in Address : j # i => dget(dt, i)[j] = dt[j]
      /\ dt[i].d_count < Word - 1 => dget(dt, i)[i].d_count = dt[i].d_count + 1
  BY DgetFacts
<1>2. \A d : ChildrenOf(dget(dt, i), ca, d) = ChildrenOf(dt, ca, d)
  BY <1>1 DEF ChildrenOf, SameShape
<1>3. ASSUME NEW d \in ca, dget(dt, i)[d].d_inode \in Dir
      PROVE  Cardinality(ChildrenOf(dt, ca, d)) + Plus(f, i)[d] <= dget(dt, i)[d].d_count
  <2>1. dt[d].d_inode \in Dir /\ Cardinality(ChildrenOf(dt, ca, d)) + f[d] <= dt[d].d_count
    BY <1>1, <1>3 DEF SameShape, Counted
  <2>2. Cardinality(ChildrenOf(dt, ca, d)) \in Nat /\ dt[d].d_count \in Nat /\ f[d] \in Nat
    BY ChildrenFinite, PathWalkAssumption DEF Dentries
  <2> QED BY <1>1, <2>1, <2>2 DEF Plus
<1> QED BY <1>2, <1>3 DEF Counted, Plus

\* A reference given back was counted, unless nobody counts.
LEMMA Give ==
    ASSUME NEW dt \in [Address -> Dentries], NEW ca \in SUBSET Address,
           NEW f \in [Address -> Nat], NEW i \in Address, Counted(dt, ca, f), f[i] > 0
    PROVE  Counted(dput(dt, i), ca, Minus(f, i)) /\ Minus(f, i) \in [Address -> Nat]
<1>1. /\ dput(dt, i) \in [Address -> Dentries] /\ SameShape(dt, dput(dt, i))
      /\ \A j \in Address : j # i => dput(dt, i)[j] = dt[j]
      /\ dt[i].d_count > 0 => dput(dt, i)[i].d_count = dt[i].d_count - 1
  BY DputFacts
<1>2. \A d : ChildrenOf(dput(dt, i), ca, d) = ChildrenOf(dt, ca, d)
  BY <1>1 DEF ChildrenOf, SameShape
<1>3. ASSUME NEW d \in ca, dput(dt, i)[d].d_inode \in Dir
      PROVE  Cardinality(ChildrenOf(dt, ca, d)) + Minus(f, i)[d] <= dput(dt, i)[d].d_count
  <2>1. dt[d].d_inode \in Dir /\ Cardinality(ChildrenOf(dt, ca, d)) + f[d] <= dt[d].d_count
    BY <1>1, <1>3 DEF SameShape, Counted
  <2>2. Cardinality(ChildrenOf(dt, ca, d)) \in Nat /\ dt[d].d_count \in Nat /\ f[d] \in Nat
    BY ChildrenFinite, PathWalkAssumption DEF Dentries
  <2> QED BY <1>1, <2>1, <2>2 DEF Minus
<1> QED BY <1>2, <1>3 DEF Counted, Minus

\* One too many given back for a file harms nothing.
LEMMA GiveFile ==
    ASSUME NEW dt \in [Address -> Dentries], NEW ca \in SUBSET Address,
           NEW f \in [Address -> Nat], NEW i \in Address, Counted(dt, ca, f),
           dt[i].d_inode \notin Dir
    PROVE  Counted(dput(dt, i), ca, f)
<1>1. /\ dput(dt, i) \in [Address -> Dentries] /\ SameShape(dt, dput(dt, i))
      /\ \A j \in Address : j # i => dput(dt, i)[j] = dt[j]
  BY DputFacts
<1>2. \A d : ChildrenOf(dput(dt, i), ca, d) = ChildrenOf(dt, ca, d)
  BY <1>1 DEF ChildrenOf, SameShape
<1> QED BY <1>1, <1>2 DEF Counted, SameShape

LEMMA PlusMinus ==
    ASSUME NEW f \in [Address -> Nat], NEW i \in Address
    PROVE  /\ Plus(f, i) \in [Address -> Nat] /\ Plus(f, i)[i] = f[i] + 1 /\ Plus(f, i)[i] > 0
           /\ \A j \in Address : j # i => Plus(f, i)[j] = f[j]
           /\ Minus(Plus(f, i), i) = f
<1>1. /\ Plus(f, i) \in [Address -> Nat] /\ Plus(f, i)[i] = f[i] + 1
      /\ \A j \in Address : j # i => Plus(f, i)[j] = f[j]
  BY DEF Plus
<1>2. /\ f[i] \in Nat /\ DOMAIN Minus(Plus(f, i), i) = Address
      /\ \A j \in Address : Minus(Plus(f, i), i)[j] = f[j]
  BY <1>1 DEF Minus
<1>3. Minus(Plus(f, i), i) = [j \in Address |-> f[j]]
  BY <1>1, <1>2 DEF Minus
<1> QED BY <1>1, <1>2, <1>3

\* Fewer references are counted too.
LEMMA Fewer ==
    ASSUME NEW dt \in [Address -> Dentries], NEW ca \in SUBSET Address,
           NEW f \in [Address -> Nat], NEW g \in [Address -> Nat], Counted(dt, ca, f),
           \A d \in ca : dt[d].d_inode \in Dir => g[d] <= f[d]
    PROVE  Counted(dt, ca, g)
<1>1. ASSUME NEW d \in ca, dt[d].d_inode \in Dir
      PROVE  Cardinality(ChildrenOf(dt, ca, d)) + g[d] <= dt[d].d_count
  <2>1. Cardinality(ChildrenOf(dt, ca, d)) \in Nat /\ dt[d].d_count \in Nat
        /\ f[d] \in Nat /\ g[d] \in Nat
    BY ChildrenFinite, PathWalkAssumption DEF Dentries
  <2> QED BY <1>1, <2>1 DEF Counted
<1> QED BY <1>1 DEF Counted

--------------------------------------------------------------------------------
(* Looking up a name on the disk and making a dentry for it *)

LEMMA InodeFacts ==
    ASSUME NEW gone, NEW dir, NEW name
    PROVE  LET x == InodeOf(Tree, gone, dir, name)
           IN  /\ x # None => \E e \in Tree : /\ e.dir = dir /\ e.name = name /\ e.inode = x
                                              /\ x \notin gone
               /\ \A e \in Tree : e.dir = dir /\ e.name = name /\ e.inode \notin gone => x = e.inode
               /\ x \in Inode \cup {None} /\ x \notin {Root, Ext2Root}
               /\ x \in Dir => (x \in Ext2Dir <=> dir \in Ext2Dir)
<1> DEFINE found == { e \in Tree : e.dir = dir /\ e.name = name /\ e.inode \notin gone }
           x == InodeOf(Tree, gone, dir, name)
<1>1. /\ \A e \in Tree : /\ e.dir \in Dir /\ e.inode \notin {None, Root, Ext2Root}
                         /\ e.inode \in Dir => (e.inode \in Ext2Dir <=> e.dir \in Ext2Dir)
      /\ \A e, f \in Tree : e.dir = f.dir /\ e.name = f.name => e = f
      /\ None \notin Dir /\ Root \in Dir /\ Ext2Root \in Dir
  BY PathWalkAssumption, TreeAssumption
<1>2. x = IF found = {} THEN None ELSE (CHOOSE e \in found : TRUE).inode
  BY DEF InodeOf
<1>3. CASE found = {}
  BY <1>1, <1>2, <1>3
<1>4. CASE found # {}
  <2>1. PICK e \in found : e = CHOOSE f \in found : TRUE
    BY <1>4
  <2>2. e \in Tree /\ x = e.inode
    BY <1>2, <1>4, <2>1
  <2> QED BY <1>1, <2>1, <2>2 DEF Inode
<1> QED BY <1>3, <1>4

\* There is room for a new dentry outside the cache.
LEMMA NewFacts ==
    ASSUME NEW dt, Typed(dt, cache)
    PROVE  New \in Address \ cache
<1>1. cache \subseteq Address /\ Cardinality(cache) <= DCACHE_CAPACITY
  BY DEF Typed
<1>2. DCACHE_CAPACITY \in Nat /\ IsFiniteSet(Address) /\ Address \subseteq Nat
      /\ Cardinality(Address) = DCACHE_CAPACITY + 1
  BY Places, PathWalkAssumption
<1>3. Address \ cache # {}
  <2>1. SUFFICES ASSUME Address \ cache = {}  PROVE FALSE
    OBVIOUS
  <2>2. cache = Address
    BY <1>1, <2>1
  <2> QED BY <1>1, <1>2, <2>2
<1>4. \E x \in Address \ cache : \A y \in Address \ cache : x <= y
  BY <1>2, <1>3, LeastNat
<1> QED BY <1>4 DEF New, Min

\* A dentry made for a name that is not cached, with one put out in which nothing is.
LEMMA Added ==
    ASSUME NEW dt, NEW ca, NEW gone, Sound(dt, ca, gone),
           NEW p \in ca \ {ext2_mountpoint}, dt[p].d_inode \in Dir, NEW n,
           \A j \in ca : ~(dt[j].d_parent = p /\ dt[j].d_name = n),
           NEW w \in Address \ ca, NEW i, i \notin Fixed, i # p,
           \A j \in ca \ Roots : dt[j].d_parent # i,
           Cardinality((ca \ {i}) \cup {w}) <= DCACHE_CAPACITY,
           NEW du \in [Address -> Dentries],
           /\ du[w].d_parent = p /\ du[w].d_name = n
           /\ du[w].d_inode = InodeOf(Tree, gone, dt[p].d_inode, n),
           \A j \in Address \ {w} : /\ du[j].d_parent = dt[j].d_parent
                                    /\ du[j].d_name = dt[j].d_name
                                    /\ du[j].d_inode = dt[j].d_inode
    PROVE  Sound(du, (ca \ {i}) \cup {w}, gone)
<1> DEFINE cb == (ca \ {i}) \cup {w}
           x == InodeOf(Tree, gone, dt[p].d_inode, n)
<1>1. /\ ca \subseteq Address /\ Fixed \subseteq ca /\ dt \in [Address -> Dentries]
      /\ Mounted(dt) /\ Parented(dt, ca) /\ Told(dt, ca, gone)
      /\ NameOnce(dt, ca) /\ InodeOnce(dt, ca)
  BY DEF Sound, Typed
<1>2. \A j \in ca : j \in Address \ {w}
  BY <1>1
<1>3. w \notin Fixed /\ w \notin Roots /\ w # p
  BY <1>1, Places
<1>4. Typed(du, cb)
  BY <1>1 DEF Typed
<1>5. Mounted(du)
  BY <1>1, <1>2, Places DEF Mounted, Fixed, Roots
<1>6. Parented(du, cb)
  <2>1. ASSUME NEW j \in ca \ Roots
        PROVE  du[j].d_parent \in cb \ {ext2_mountpoint} /\ du[du[j].d_parent].d_inode \in Dir
    <3>1. dt[j].d_parent \in ca \ {ext2_mountpoint} /\ dt[dt[j].d_parent].d_inode \in Dir
      BY <1>1 DEF Parented
    <3> QED BY <1>2, <3>1
  <2>2. du[w].d_parent \in cb \ {ext2_mountpoint} /\ du[du[w].d_parent].d_inode \in Dir
    BY <1>2
  <2> QED BY <2>1, <2>2 DEF Parented
<1>7. Told(du, cb, gone)
  <2>1. ASSUME NEW j \in ca \ Fixed
        PROVE  du[j].d_inode = InodeOf(Tree, gone, du[du[j].d_parent].d_inode, du[j].d_name)
    <3>1. dt[j].d_parent \in ca
      BY <1>1, Places DEF Parented
    <3>2. dt[j].d_inode = InodeOf(Tree, gone, dt[dt[j].d_parent].d_inode, dt[j].d_name)
      BY <1>1 DEF Told
    <3> QED BY <1>2, <3>1, <3>2
  <2>2. du[w].d_inode = InodeOf(Tree, gone, du[du[w].d_parent].d_inode, du[w].d_name)
    BY <1>2
  <2> QED BY <2>1, <2>2 DEF Told
<1>8. NameOnce(du, cb)
  BY <1>1, <1>2 DEF NameOnce
<1>9. InodeOnce(du, cb)
  <2>1. ASSUME NEW j \in ca \ {ext2_mountpoint}, x # None, dt[j].d_inode = x
        PROVE  FALSE
    <3>1. x \notin {Root, Ext2Root}
      BY InodeFacts
    <3>2. j \notin Fixed
      BY <1>1, <2>1, <3>1 DEF Mounted, Fixed
    <3>3. j \in ca \ Roots
      BY <3>2, Places
    <3>4. dt[j].d_parent \in ca \ {ext2_mountpoint} /\ dt[dt[j].d_parent].d_inode \in Dir
      BY <1>1, <3>3 DEF Parented
    <3>5. dt[j].d_inode = InodeOf(Tree, gone, dt[dt[j].d_parent].d_inode, dt[j].d_name)
      BY <1>1, <3>2 DEF Told
    <3>6. PICK e \in Tree : e.dir = dt[p].d_inode /\ e.name = n /\ e.inode = x
      BY <2>1, InodeFacts
    <3>7. PICK g \in Tree : /\ g.dir = dt[dt[j].d_parent].d_inode /\ g.name = dt[j].d_name
                            /\ g.inode = x
      BY <2>1, <3>5, InodeFacts
    <3>8. e = g
      BY <3>6, <3>7, TreeAssumption
    <3>9. dt[dt[j].d_parent].d_inode = dt[p].d_inode /\ dt[p].d_inode # None
      BY <3>6, <3>7, <3>8, PathWalkAssumption
    <3>10. dt[j].d_parent = p
      BY <1>1, <3>4, <3>9 DEF InodeOnce
    <3> QED BY <3>6, <3>7, <3>8, <3>10
  <2> QED BY <1>1, <1>2, <2>1 DEF InodeOnce
<1> QED BY <1>4, <1>5, <1>6, <1>7, <1>8, <1>9 DEF Sound

\* Its reference to its directory is counted there, and its own in it.
LEMMA AddedCounted ==
    ASSUME NEW dt, NEW ca, NEW gone, Sound(dt, ca, gone), NEW f \in [Address -> Nat],
           Counted(dt, ca, f), NEW p \in ca, dt[p].d_count < Word - 1,
           NEW w \in Address \ ca, f[w] = 0, NEW cb, cb \subseteq ca \cup {w}, 1 < Word,
           NEW e \in Dentries, e.d_parent = p, e.d_count = 1,
           NEW put \in [Address -> Dentries], put[w] = e,
           \A j \in Address \ {w} : put[j] = dt[j],
           NEW made, made = dget(put, p)
    PROVE  /\ made \in [Address -> Dentries]
           /\ made[w].d_parent = p /\ made[w].d_name = e.d_name /\ made[w].d_inode = e.d_inode
           /\ \A j \in Address \ {w} : /\ made[j].d_parent = dt[j].d_parent
                                       /\ made[j].d_name = dt[j].d_name
                                       /\ made[j].d_inode = dt[j].d_inode
           /\ \A j \in Address \ {w, p} : made[j] = dt[j]
           /\ made[p].d_count = dt[p].d_count + 1 /\ made[w].d_count = 1
           /\ Counted(made, cb, Plus(f, w))
<1>1. /\ ca \subseteq Address /\ dt \in [Address -> Dentries] /\ Parented(dt, ca)
      /\ Mounted(dt) /\ Fixed \subseteq ca
  BY DEF Sound, Typed
<1>3. put \in [Address -> Dentries] /\ put[w] = e /\ w # p
      /\ \A j \in Address \ {w} : put[j] = dt[j]
  BY <1>1
<1>4. /\ made \in [Address -> Dentries] /\ SameShape(put, made)
      /\ \A j \in Address : j # p => made[j] = put[j]
      /\ made[p].d_count = dt[p].d_count + 1
  BY <1>1, <1>3, DgetFacts
<1>5. /\ made[w].d_parent = p /\ made[w].d_name = e.d_name /\ made[w].d_inode = e.d_inode
      /\ made[w].d_count = 1
      /\ \A j \in Address \ {w} : /\ made[j].d_parent = dt[j].d_parent
                                  /\ made[j].d_name = dt[j].d_name
                                  /\ made[j].d_inode = dt[j].d_inode
  <2>1. put[w].d_parent = p /\ put[w].d_name = e.d_name /\ put[w].d_inode = e.d_inode /\ put[w].d_count = 1
    BY <1>3
  <2>2. made[w] = put[w]
    BY <1>3, <1>4
  <2>3. \A j \in Address \ {w} : /\ made[j].d_parent = dt[j].d_parent
                                /\ made[j].d_name = dt[j].d_name
                                /\ made[j].d_inode = dt[j].d_inode
    BY <1>3, <1>4 DEF SameShape
  <2> QED BY <2>1, <2>2, <2>3
<1>6. \A j \in Address \ {w, p} : made[j] = dt[j]
  BY <1>3, <1>4
<1>7. cb \subseteq Address /\ ca \in SUBSET Address
  BY <1>1
<1>8. ASSUME NEW d \in cb, made[d].d_inode \in Dir
      PROVE  Cardinality(ChildrenOf(made, cb, d)) + Plus(f, w)[d] <= made[d].d_count
  <2>1. CASE d = w
    <3>1. \A j \in ca : dt[j].d_parent # w
      BY <1>1, Places DEF Parented, Mounted, Roots
    <3>2. ChildrenOf(made, cb, w) = {}
      <4>1. ASSUME NEW j \in cb  PROVE made[j].d_parent # w
        <5>1. CASE j = w
          BY <1>3, <1>5, <5>1
        <5>2. CASE j # w
          BY <1>1, <1>5, <3>1, <5>2
        <5> QED BY <5>1, <5>2
      <4> QED BY <4>1 DEF ChildrenOf
    <3>3. Plus(f, w)[w] = 1
      BY DEF Plus
    <3>4. Cardinality(ChildrenOf(made, cb, w)) = 0
      BY <3>2, FS_EmptySet
    <3> QED BY <1>5, <2>1, <3>3, <3>4
  <2>2. CASE d # w
    <3> DEFINE old == ChildrenOf(dt, ca, d)
    <3>1. d \in ca /\ dt[d].d_inode \in Dir /\ Plus(f, w)[d] = f[d] /\ f[d] \in Nat
      BY <1>1, <1>5, <1>8, <2>2 DEF Plus
    <3>2. Cardinality(old) + f[d] <= dt[d].d_count /\ dt[d].d_count \in Nat
      BY <1>1, <3>1, PathWalkAssumption DEF Counted, Dentries
    <3>3. IsFiniteSet(old) /\ Cardinality(old) \in Nat
      BY <1>7, ChildrenFinite
    <3>4. CASE d = p
      <4>1. ChildrenOf(made, cb, d) \subseteq old \cup {w}
        BY <1>1, <1>5 DEF ChildrenOf
      <4>2. IsFiniteSet(old \cup {w}) /\ Cardinality(old \cup {w}) <= Cardinality(old) + 1
            /\ Cardinality(old \cup {w}) \in Nat
        <5>1. IsFiniteSet(old)
          BY <3>3
        <5>2. /\ IsFiniteSet(old \cup {w})
              /\ Cardinality(old \cup {w})
                   = IF w \in old THEN Cardinality(old) ELSE Cardinality(old) + 1
          BY <5>1, FS_AddElement
        <5> QED BY <3>3, <5>2
      <4>3. Cardinality(ChildrenOf(made, cb, d)) <= Cardinality(old \cup {w})
            /\ Cardinality(ChildrenOf(made, cb, d)) \in Nat
        BY <4>1, <4>2, FS_Subset, FS_CardinalityType
      <4> QED BY <1>4, <3>1, <3>2, <3>3, <3>4, <4>2, <4>3
    <3>5. CASE d # p
      <4>1. ChildrenOf(made, cb, d) \subseteq old
        BY <1>1, <1>5, <3>5 DEF ChildrenOf
      <4>2. Cardinality(ChildrenOf(made, cb, d)) <= Cardinality(old)
            /\ Cardinality(ChildrenOf(made, cb, d)) \in Nat
        BY <3>3, <4>1, FS_Subset, FS_CardinalityType
      <4>3. made[d] = dt[d]
        BY <1>1, <1>6, <2>2, <3>1, <3>5
      <4> QED BY <3>1, <3>2, <3>3, <4>2, <4>3
    <3> QED BY <3>4, <3>5
  <2> QED BY <2>1, <2>2
<1>9. Counted(made, cb, Plus(f, w))
  BY <1>8 DEF Counted
<1> QED BY <1>4, <1>5, <1>6, <1>9

--------------------------------------------------------------------------------
(* do_lookup *)

LEMMA NamesLeft ==
    ASSUME NEW S, NEW s \in Seq(S), s # <<>>
    PROVE  /\ Head(s) \in S /\ Len(s) \in Nat \ {0} /\ Tail(s) \in Seq(S)
           /\ Len(Tail(s)) = Len(s) - 1 /\ (Len(s) # 1 => Tail(s) # <<>>)
<1>1. Head(s) \in S /\ Len(s) \in Nat \ {0} /\ Tail(s) \in Seq(S) /\ Len(Tail(s)) = Len(s) - 1
  OBVIOUS
<1>2. Tail(s) = <<>> => Len(Tail(s)) = 0
  BY <1>1, EmptySeq
<1> QED BY <1>1, <1>2

\* What a walk knows of the dentry where it is.
LEMMA WalkFacts ==
    ASSUME IInv, Orderly, Walking
    PROVE  /\ nd \in Nameidata /\ Name \in Filename /\ Len(nd.rest) \in Nat \ {0}
           /\ Tail(nd.rest) \in Seq(Filename) /\ (~IsLast => Tail(nd.rest) # <<>>)
           /\ nd.dentry \in cache \ {ext2_mountpoint} /\ nd.dentry \in Address
           /\ dentry \in [Address -> Dentries] /\ cache \in SUBSET Address
           /\ dentry[nd.dentry].d_inode \in Dir
           /\ Refs = Plus(MountRefs, nd.dentry) /\ Refs \in [Address -> Nat]
           /\ MountRefs \in [Address -> Nat]
           /\ Refs[nd.dentry] > 0 /\ \A i \in Fixed : Refs[i] > 0
           /\ \A i \in Address : i \notin Fixed /\ i # nd.dentry => Refs[i] = 0
           /\ dentry[nd.dentry].d_count \in Nat /\ dentry[nd.dentry].d_count > 0
           /\ dentry[nd.dentry].d_count < Word - 1 /\ Word > 2
<1>1. /\ nd \in Nameidata /\ nd.rest # <<>> /\ Stands(dentry, cache, nd.dentry, nd.mnt)
      /\ Sound(dentry, cache, deleted) /\ Counted(dentry, cache, Refs)
  BY DEF IInv
<1>2. /\ nd.dentry \in cache \ {ext2_mountpoint} /\ dentry[nd.dentry].d_inode \in Dir
      /\ dentry \in [Address -> Dentries] /\ cache \in SUBSET Address /\ nd.dentry \in Address
  BY <1>1 DEF Stands, Sound, Typed
<1>3. nd.rest \in Seq(Filename) /\ nd.rest # <<>>
  BY <1>1 DEF Nameidata
<1>4. /\ Name \in Filename /\ Len(nd.rest) \in Nat \ {0} /\ Tail(nd.rest) \in Seq(Filename)
      /\ Len(Tail(nd.rest)) = Len(nd.rest) - 1
  BY <1>3, NamesLeft DEF Name
<1>5. ~IsLast => Tail(nd.rest) # <<>>
  BY <1>3, NamesLeft DEF IsLast
<1>6. /\ MountRefs \in [Address -> Nat] /\ Refs = Plus(MountRefs, nd.dentry)
      /\ \A i \in Fixed : MountRefs[i] = 1
      /\ \A i \in Address \ Fixed : MountRefs[i] = 0
  BY Places DEF MountRefs, Refs
<1>7. /\ Refs \in [Address -> Nat] /\ Refs[nd.dentry] > 0
      /\ \A i \in Address : i \notin Fixed /\ i # nd.dentry => Refs[i] = 0
  BY <1>2, <1>6 DEF Plus
<1>8. \A i \in Fixed : Refs[i] > 0
  BY <1>2, <1>6, Places DEF Plus
<1>9. /\ Cardinality(ChildrenOf(dentry, cache, nd.dentry)) + Refs[nd.dentry]
           <= dentry[nd.dentry].d_count
      /\ Cardinality(ChildrenOf(dentry, cache, nd.dentry)) \in Nat
      /\ dentry[nd.dentry].d_count \in Nat
  BY <1>1, <1>2, ChildrenFinite, PathWalkAssumption DEF Counted, Dentries
<1>10. dentry[nd.dentry].d_count > 0 /\ dentry[nd.dentry].d_count < Word - 1
  BY <1>2, <1>7, <1>9 DEF Orderly
<1>11. Word > 2
  BY <1>9, <1>10, PathWalkAssumption
<1> QED BY <1>1, <1>2, <1>4, <1>5, <1>6, <1>7, <1>8, <1>9, <1>10, <1>11

\* The dentry put out has no references, and so nothing in it.
LEMMA PutOut ==
    ASSUME IInv, Orderly, Walking, NEW i \in cache, dentry[i].d_count = 0, i # pwd.dentry
    PROVE  /\ i \in cache \ Fixed /\ i # nd.dentry /\ i # pwd.dentry
           /\ \A j \in cache : dentry[j].d_parent # i
<1>1. /\ cache \in SUBSET Address /\ dentry \in [Address -> Dentries]
      /\ nd.dentry \in Address /\ dentry[nd.dentry].d_count \in Nat
      /\ dentry[nd.dentry].d_count > 0 /\ Refs \in [Address -> Nat]
      /\ \A j \in Fixed : Refs[j] > 0
      /\ Counted(dentry, cache, Refs) /\ Mounted(dentry) /\ Parented(dentry, cache)
  BY WalkFacts DEF IInv, Sound
<1>7. i \in cache
  OBVIOUS
<1>8. i # nd.dentry /\ dentry[i].d_count = 0 /\ i # pwd.dentry
  BY <1>1
<1>9. CASE dentry[i].d_inode \in Dir
  <2>1. /\ Cardinality(ChildrenOf(dentry, cache, i)) + Refs[i] <= 0
        /\ Cardinality(ChildrenOf(dentry, cache, i)) \in Nat /\ Refs[i] \in Nat
    BY <1>1, <1>7, <1>8, <1>9, ChildrenFinite DEF Counted
  <2>2. Refs[i] = 0 /\ Cardinality(ChildrenOf(dentry, cache, i)) = 0
    BY <2>1
  <2>3. IsFiniteSet(ChildrenOf(dentry, cache, i))
    BY <1>1, ChildrenFinite
  <2>4. ChildrenOf(dentry, cache, i) = {}
    BY <2>2, <2>3, FS_EmptySet
  <2>5. i \notin Fixed
    BY <1>1, <2>2
  <2>6. \A j \in cache : dentry[j].d_parent # i
    BY <2>4 DEF ChildrenOf
  <2> QED BY <1>7, <1>8, <2>5, <2>6
<1>10. CASE dentry[i].d_inode \notin Dir
  <2>1. i \notin Fixed
    BY <1>1, <1>10, PathWalkAssumption DEF Mounted, Fixed
  <2>2. ASSUME NEW j \in cache, dentry[j].d_parent = i  PROVE FALSE
    <3>1. CASE j \in Roots
      BY <1>1, <1>7, <2>2, <3>1, Places DEF Mounted, Roots
    <3>2. CASE j \notin Roots
      BY <1>1, <1>10, <2>2, <3>2 DEF Parented
    <3> QED BY <3>1, <3>2
  <2> QED BY <1>7, <1>8, <2>1, <2>2
<1> QED BY <1>9, <1>10

\* The inode of a name on the disk where the walk is.
OnDisk == InodeOf(Tree, deleted, dentry[nd.dentry].d_inode, Name)

\* The outcomes of real_lookup: a cache that tells the disk, and holds the new dentry.
LEMMA RealLookup ==
    ASSUME IInv, Orderly, Walking, dcache_look_up(nd.dentry, Name) = {},
           NEW r \in real_lookup(nd.dentry, Name), Kept(r.cache)
    PROVE  /\ Sound(r.mem, r.cache, deleted) /\ r.mem \in [Address -> Dentries]
           /\ r.cache \in SUBSET Address /\ r.next = New /\ New \in r.cache \ cache
           /\ nd.dentry \in r.cache /\ pwd.dentry \in r.cache /\ r.fails \in BOOLEAN
           /\ r.mem[New].d_parent = nd.dentry /\ r.mem[New].d_name = Name
           /\ r.mem[New].d_inode = OnDisk
           /\ \A j \in cache : r.mem[j].d_inode = dentry[j].d_inode
           /\ r.fails <=> OnDisk = None /\ dentry[nd.dentry].d_inode \in Ext2Dir
           /\ OnDisk # None \/ r.fails => Counted(r.mem, r.cache, Refs) /\ r.mem[New].d_count = 0
           /\ ~(OnDisk # None \/ r.fails) => Counted(r.mem, r.cache, Plus(Refs, New))
<1> DEFINE p == nd.dentry
           new == Dentry(p, Name, OnDisk, 1, OnDisk # None)
           made == dget([dentry EXCEPT ![New] = new], p)
           gives == OnDisk # None \/ (OnDisk = None /\ dentry[p].d_inode \in Ext2Dir)
           put == IF Cardinality(cache) = DCACHE_CAPACITY THEN dcache_put_LRU(made) ELSE {0}
<1>1. /\ Sound(dentry, cache, deleted) /\ Counted(dentry, cache, Refs)
      /\ New \in Address \ cache /\ Fixed \subseteq cache /\ Cardinality(cache) <= DCACHE_CAPACITY
      /\ pwd.dentry \in cache
  BY NewFacts DEF IInv, Sound, Typed, Stands
<1>2. /\ p \in cache \ {ext2_mountpoint} /\ dentry[p].d_inode \in Dir /\ Refs \in [Address -> Nat]
      /\ Refs[New] = 0 /\ dentry[p].d_count < Word - 1 /\ 1 < Word /\ Name \in Filename
      /\ cache \in SUBSET Address /\ OnDisk \in Inode \cup {None}
  BY <1>1, WalkFacts, InodeFacts, PathWalkAssumption DEF OnDisk
<1>3. PICK i \in put : r = [next |-> New, fails |-> OnDisk = None /\ dentry[p].d_inode \in Ext2Dir,
                            cache |-> (cache \ {i}) \cup {New},
                            stray |-> i \in cache /\ ~made[i].d_alias,
                            mem |-> IF gives THEN dput(made, New) ELSE made]
  BY DEF real_lookup, inode_lookup, OnDisk
<1>4. /\ made \in [Address -> Dentries]
      /\ made[New].d_parent = p /\ made[New].d_name = Name /\ made[New].d_inode = OnDisk
      /\ \A j \in Address \ {New} : /\ made[j].d_parent = dentry[j].d_parent
                                    /\ made[j].d_name = dentry[j].d_name
                                    /\ made[j].d_inode = dentry[j].d_inode
      /\ \A j \in Address \ {New, p} : made[j] = dentry[j]
      /\ made[p].d_count = dentry[p].d_count + 1 /\ made[New].d_count = 1
      /\ Counted(made, (cache \ {i}) \cup {New}, Plus(Refs, New))
  <2>1. 1 \in 0 .. Word - 1
    BY <1>2, PathWalkAssumption
  <2>2. /\ new.d_parent = p /\ new.d_name = Name /\ new.d_inode = OnDisk /\ new.d_count = 1
        /\ new \in Dentries
    BY <1>2, <2>1 DEF Dentry, Dentries
  <2>3. PICK e \in Dentries : e = new
    BY <2>2
  <2>4. e.d_parent = p /\ e.d_name = Name /\ e.d_inode = OnDisk /\ e.d_count = 1
    BY <2>2, <2>3
  <2>5. made = dget([dentry EXCEPT ![New] = e], p)
    BY <2>3
  <2> HIDE DEF new, made
  <2> DEFINE cb == (cache \ {i}) \cup {New}
  <2>6. PICK w \in Address \ cache : w = New
    BY <1>1
  <2>7. PICK q \in cache : q = p
    BY <1>2
  <2> DEFINE laid == [dentry EXCEPT ![w] = e]
  <2>10. laid \in [Address -> Dentries] /\ laid[w] = e /\ \A j \in Address \ {w} : laid[j] = dentry[j]
    BY <1>1, <2>3, <2>6 DEF Sound, Typed
  <2>8. /\ made = dget(laid, q)
        /\ e.d_parent = q /\ Refs[w] = 0 /\ dentry[q].d_count < Word - 1 /\ 1 < Word
    BY <1>2, <2>4, <2>5, <2>6, <2>7
  <2>9. /\ made \in [Address -> Dentries]
        /\ made[w].d_parent = q /\ made[w].d_name = e.d_name /\ made[w].d_inode = e.d_inode
        /\ \A j \in Address \ {w} : /\ made[j].d_parent = dentry[j].d_parent
                                    /\ made[j].d_name = dentry[j].d_name
                                    /\ made[j].d_inode = dentry[j].d_inode
        /\ \A j \in Address \ {w, q} : made[j] = dentry[j]
        /\ made[q].d_count = dentry[q].d_count + 1 /\ made[w].d_count = 1
        /\ Counted(made, cb, Plus(Refs, w))
    <3>1. /\ Sound(dentry, cache, deleted) /\ Counted(dentry, cache, Refs)
          /\ Refs \in [Address -> Nat] /\ e \in Dentries /\ w \in Address \ cache /\ q \in cache
          /\ cb \subseteq cache \cup {w} /\ e.d_count = 1
      BY <1>1, <1>2, <2>3, <2>4, <2>6, <2>7
    <3> HIDE DEF cb, laid
    <3> QED BY <2>8, <2>10, <3>1, AddedCounted, SMTT(100)
  <2> QED BY <2>4, <2>6, <2>7, <2>9
<1> DEFINE cb == (cache \ {i}) \cup {New}
<1> HIDE DEF made
<1>5. /\ i \notin Fixed /\ i # p /\ i # pwd.dentry
      /\ \A j \in cache \ Roots : dentry[j].d_parent # i
      /\ Cardinality(cb) <= DCACHE_CAPACITY
  <2>1. IsFiniteSet(cache) /\ Cardinality(cache) \in Nat /\ DCACHE_CAPACITY \in Nat
    BY <1>2, Places, FS_Subset, FS_CardinalityType, PathWalkAssumption
  <2>2. CASE Cardinality(cache) = DCACHE_CAPACITY
    <3>0. i \in cache /\ dentry[i].d_count = 0 /\ i # pwd.dentry
      <4>1. i \in cache
        BY <1>3, <2>2 DEF dcache_put_LRU
      <4>2. i \notin r.cache
        BY <1>1, <1>3, <4>1
      <4> QED BY <4>1, <4>2 DEF Kept
    <3>1. /\ i \in cache \ Fixed /\ i # p /\ i # pwd.dentry
          /\ \A j \in cache : dentry[j].d_parent # i
      BY <3>0, PutOut
    <3>2. IsFiniteSet(cache \ {i}) /\ Cardinality(cache \ {i}) = Cardinality(cache) - 1
      BY <2>1, <3>1, FS_RemoveElement
    <3>3. Cardinality(cb) = Cardinality(cache \ {i}) + 1
      BY <1>1, <3>2, FS_AddElement
    <3> QED BY <2>1, <2>2, <3>1, <3>2, <3>3
  <2>3. CASE Cardinality(cache) # DCACHE_CAPACITY
    <3>1. i = 0
      BY <1>3, <2>3
    <3>2. 0 \notin Address
      BY PathWalkAssumption DEF Address
    <3>3. cb = cache \cup {New}
      BY <1>2, <3>1, <3>2
    <3>4. Cardinality(cb) = Cardinality(cache) + 1
      BY <1>1, <2>1, <3>3, FS_AddElement
    <3>5. \A j \in cache \ Roots : dentry[j].d_parent # i
      BY <1>1, <1>2, <3>1, <3>2 DEF Sound, Parented
    <3> QED BY <1>1, <1>2, <2>1, <2>3, <3>1, <3>2, <3>4, <3>5, Places
  <2> QED BY <2>2, <2>3

<1>6. Sound(made, cb, deleted)
  <2>1. \A j \in cache : ~(dentry[j].d_parent = p /\ dentry[j].d_name = Name)
    BY DEF dcache_look_up
  <2>2. made[New].d_inode = InodeOf(Tree, deleted, dentry[p].d_inode, Name)
    BY <1>4 DEF OnDisk
  <2> HIDE DEF p, gives, put
  <2> QED BY <1>1, <1>2, <1>4, <1>5, <2>1, <2>2, Added
<1>7. /\ dput(made, New) \in [Address -> Dentries] /\ SameShape(made, dput(made, New))
      /\ dput(made, New)[New].d_count = 0
  BY <1>1, <1>4, DputFacts
<1>8. cb \in SUBSET Address /\ New \in cb /\ p \in cb /\ pwd.dentry \in cb
  BY <1>1, <1>2, <1>5
<1>9. r.mem = (IF gives THEN dput(made, New) ELSE made) /\ r.cache = cb /\ r.next = New
      /\ r.fails = (OnDisk = None /\ dentry[p].d_inode \in Ext2Dir)
  BY <1>3
<1>10. SameShape(made, r.mem) /\ r.mem \in [Address -> Dentries]
  BY <1>4, <1>7, <1>9 DEF SameShape
<1>11. Sound(r.mem, r.cache, deleted)
  BY <1>6, <1>9, <1>10, SoundShape
<1>12. /\ Plus(Refs, New) \in [Address -> Nat] /\ Plus(Refs, New)[New] > 0
       /\ Minus(Plus(Refs, New), New) = Refs
  BY <1>1, <1>2, PlusMinus
<1>13. Counted(dput(made, New), cb, Refs)
  <2>1. PICK dt, ca, f, w : dt = made /\ ca = cb /\ f = Plus(Refs, New) /\ w = New
    OBVIOUS
  <2>2. /\ dt \in [Address -> Dentries] /\ ca \in SUBSET Address /\ f \in [Address -> Nat]
        /\ w \in Address /\ Counted(dt, ca, f) /\ f[w] > 0
    BY <1>1, <1>4, <1>8, <1>12, <2>1
  <2>3. Counted(dput(dt, w), ca, Minus(f, w))
    BY <2>2, Give
  <2> QED BY <1>12, <2>1, <2>3
<1>14. \A j \in cache : r.mem[j].d_inode = dentry[j].d_inode
  BY <1>1, <1>2, <1>4, <1>10 DEF SameShape
<1>15. /\ r.mem[New].d_parent = p /\ r.mem[New].d_name = Name /\ r.mem[New].d_inode = OnDisk
  BY <1>1, <1>4, <1>10 DEF SameShape
<1> QED
  BY <1>1, <1>4, <1>7, <1>8, <1>9, <1>10, <1>11, <1>13, <1>14, <1>15

\* The outcomes of do_lookup: the dentry that was cached, or a new one.
LEMMA LookedUp ==
    ASSUME IInv, Orderly, Walking, NEW r \in do_lookup(nd.dentry, Name), Kept(r.cache)
    PROVE  /\ Sound(r.mem, r.cache, deleted) /\ r.mem \in [Address -> Dentries]
           /\ r.cache \in SUBSET Address /\ nd.dentry \in r.cache /\ pwd.dentry \in r.cache
           /\ \A j \in cache : r.mem[j].d_inode = dentry[j].d_inode
           /\ r.fails => OnDisk = None /\ Counted(r.mem, r.cache, Refs)
           /\ ~r.fails => /\ Counted(r.mem, r.cache, Plus(Refs, r.next))
                          /\ r.next \in r.cache \ Roots
                          /\ r.next # ext2_mountpoint => r.mem[r.next].d_inode = OnDisk
                          /\ r.next = ext2_mountpoint =>
                                r.cache = cache /\ r.mem = dget(dentry, ext2_mountpoint)
           /\ r.next = ext2_mountpoint <=> nd.dentry = root_dentry /\ Name = "ext2"
           /\ r.next = ext2_mountpoint => ~r.fails
<1> DEFINE p == nd.dentry
           found == dcache_look_up(p, Name)
<1>1. /\ Sound(dentry, cache, deleted) /\ Counted(dentry, cache, Refs)
      /\ Mounted(dentry) /\ Parented(dentry, cache) /\ Fixed \subseteq cache
      /\ Told(dentry, cache, deleted) /\ NameOnce(dentry, cache) /\ pwd.dentry \in cache
  BY DEF IInv, Sound, Typed, Stands
<1>2. /\ p \in cache \ {ext2_mountpoint} /\ Refs \in [Address -> Nat] /\ p \in Address
      /\ dentry \in [Address -> Dentries] /\ cache \in SUBSET Address /\ Word > 2
  BY WalkFacts
<1>3. CASE found # {}
  <2>1. PICK i \in found : r = [next |-> i, fails |-> FALSE, stray |-> FALSE,
                                mem |-> dget(dentry, i), cache |-> cache]
    BY <1>3 DEF do_lookup
  <2>2. i \in cache /\ i \in Address /\ dentry[i].d_parent = p /\ dentry[i].d_name = Name
    BY <1>2, <2>1 DEF dcache_look_up
  <2>3. dget(dentry, i) \in [Address -> Dentries] /\ SameShape(dentry, dget(dentry, i))
    BY <1>2, <2>2, DgetFacts
  <2>4. Sound(dget(dentry, i), cache, deleted)
    BY <1>1, <2>3, SoundShape
  <2>5. Counted(dget(dentry, i), cache, Plus(Refs, i))
    BY <1>1, <1>2, <2>2, Take DEF Orderly
  <2>6. i \notin Roots
    BY <1>1, <1>2, <2>2, Places DEF Mounted, Roots
  <2>7. i # ext2_mountpoint => dget(dentry, i)[i].d_inode = OnDisk
    BY <1>1, <2>2, <2>3, <2>6 DEF Told, OnDisk, SameShape, Fixed, Roots
  <2>8. i = ext2_mountpoint <=> p = root_dentry /\ Name = "ext2"
    BY <1>1, <2>2, <2>6, Places DEF Mounted, NameOnce
  <2>9. \A j \in cache : dget(dentry, i)[j].d_inode = dentry[j].d_inode
    BY <1>2, <2>3 DEF SameShape
  <2> QED BY <1>1, <1>2, <2>1, <2>2, <2>3, <2>4, <2>5, <2>6, <2>7, <2>8, <2>9
<1>4. CASE found = {}
  <2>1. PICK s \in real_lookup(p, Name) :
             r = [s EXCEPT !.mem = IF s.fails THEN @ ELSE dget(@, s.next)]
    BY <1>4 DEF do_lookup
  <2>2. /\ Sound(s.mem, s.cache, deleted) /\ s.mem \in [Address -> Dentries]
        /\ s.cache \in SUBSET Address /\ s.next = New /\ New \in s.cache \ cache
        /\ p \in s.cache /\ pwd.dentry \in s.cache /\ s.fails \in BOOLEAN
        /\ s.mem[New].d_inode = OnDisk
        /\ \A j \in cache : s.mem[j].d_inode = dentry[j].d_inode
        /\ s.fails <=> OnDisk = None /\ dentry[p].d_inode \in Ext2Dir
        /\ OnDisk # None \/ s.fails => Counted(s.mem, s.cache, Refs) /\ s.mem[New].d_count = 0
        /\ ~(OnDisk # None \/ s.fails) => Counted(s.mem, s.cache, Plus(Refs, New))
    <3>1. \E n, f, c, a, m : s = [next |-> n, fails |-> f, cache |-> c, stray |-> a, mem |-> m]
      BY DEF real_lookup
    <3>2. Kept(s.cache)
      BY <2>1, <3>1
    <3> QED BY <1>4, <3>2, RealLookup
  <2>3. \E n, f, c, a, m : s = [next |-> n, fails |-> f, cache |-> c, stray |-> a, mem |-> m]
    BY DEF real_lookup
  <2>4. /\ r.next = New /\ r.fails = s.fails /\ r.cache = s.cache
        /\ r.mem = IF s.fails THEN s.mem ELSE dget(s.mem, New)
    BY <2>1, <2>2, <2>3
  <2>5. New \in Address /\ New \notin Fixed /\ New \notin Roots
    BY <1>1, <2>2, Places
  <2>6. dget(s.mem, New) \in [Address -> Dentries] /\ SameShape(s.mem, dget(s.mem, New))
    BY <2>2, <2>5, DgetFacts
  <2>7. r.mem \in [Address -> Dentries] /\ SameShape(s.mem, r.mem)
    BY <2>2, <2>4, <2>6 DEF SameShape
  <2>8. Sound(r.mem, r.cache, deleted)
    BY <2>2, <2>4, <2>7, SoundShape
  <2>9. ASSUME ~s.fails  PROVE Counted(r.mem, r.cache, Plus(Refs, New))
    <3>1. CASE OnDisk # None
      <4>1. s.mem[New].d_count < Word - 1 /\ Counted(s.mem, s.cache, Refs)
        BY <1>2, <2>2, <3>1, PathWalkAssumption
      <4>2. Counted(dget(s.mem, New), s.cache, Plus(Refs, New))
        BY <1>2, <2>2, <2>5, <4>1, Take
      <4> QED BY <2>4, <2>9, <4>2
    <3>2. CASE OnDisk = None
      <4>1. OnDisk \notin Dir
        BY <3>2, PathWalkAssumption
      <4> DEFINE g == Plus(Refs, New)
                 h == Plus(g, New)
                 m == dget(s.mem, New)
      <4>2. /\ g \in [Address -> Nat] /\ h \in [Address -> Nat]
            /\ \A j \in Address : j # New => h[j] = g[j]
        BY <1>2, <2>5, PlusMinus
      <4>3. Counted(m, s.cache, h)
        BY <2>2, <2>5, <2>9, <3>2, <4>1, <4>2, Take
      <4>4. ASSUME NEW d \in s.cache, m[d].d_inode \in Dir  PROVE g[d] <= h[d]
        <5>1. d \in Address /\ d # New
          BY <2>2, <2>5, <2>6, <4>1, <4>4 DEF SameShape
        <5> QED BY <4>2, <5>1
      <4> HIDE DEF g, h, m
      <4>5. m \in [Address -> Dentries]
        BY <2>6 DEF m
      <4>6. Counted(m, s.cache, g)
        BY <2>2, <4>2, <4>3, <4>4, <4>5, Fewer
      <4>7. Counted(dget(s.mem, New), s.cache, Plus(Refs, New))
        BY <4>6 DEF g, m
      <4> QED BY <2>4, <2>9, <4>7
    <3> QED BY <3>1, <3>2
  <2>10. ~(p = root_dentry /\ Name = "ext2")
    BY <1>1, <1>4 DEF dcache_look_up, Mounted, Fixed
  <2>11. r.mem[New].d_inode = OnDisk /\ \A j \in cache : r.mem[j].d_inode = dentry[j].d_inode
    BY <1>2, <2>2, <2>5, <2>7 DEF SameShape
  <2>12. New # ext2_mountpoint
    BY <2>5 DEF Fixed
  <2> QED BY <2>2, <2>4, <2>5, <2>7, <2>8, <2>9, <2>10, <2>11, <2>12
<1> QED BY <1>3, <1>4

\* Then follow_mount: a dentry of the volume that p.mnt says, for the node of the name.
LEMMA Followed ==
    ASSUME IInv, Orderly, Walking, NEW r \in do_lookup(nd.dentry, Name), ~r.fails,
           Kept(r.cache),
           NEW p, p = follow_mount(r, nd.mnt)
    PROVE  /\ Sound(p.mem, p.cache, deleted) /\ p.mem \in [Address -> Dentries]
           /\ p.cache \in SUBSET Address /\ p.cache = r.cache
           /\ Counted(p.mem, p.cache, Plus(Refs, p.next))
           /\ p.next \in p.cache \ {ext2_mountpoint} /\ p.next \in Address
           /\ \A j \in cache : p.mem[j].d_inode = dentry[j].d_inode
           /\ p.mem[p.next].d_inode \in Dir => Stands(p.mem, p.cache, p.next, p.mnt)
           /\ p.mem[p.next].d_inode
                = IF nd.dentry = root_dentry /\ Name = "ext2" THEN Ext2Root ELSE OnDisk
<1>1. /\ Sound(dentry, cache, deleted) /\ Counted(dentry, cache, Refs)
      /\ Mounted(dentry) /\ Fixed \subseteq cache
      /\ Stands(dentry, cache, nd.dentry, nd.mnt)
  BY DEF IInv, Sound, Typed
<1>2. /\ nd.dentry \in cache \ {ext2_mountpoint} /\ Refs \in [Address -> Nat]
      /\ dentry \in [Address -> Dentries] /\ cache \in SUBSET Address
  BY WalkFacts
<1>3. /\ Sound(r.mem, r.cache, deleted) /\ r.mem \in [Address -> Dentries]
      /\ r.cache \in SUBSET Address /\ nd.dentry \in r.cache
      /\ \A j \in cache : r.mem[j].d_inode = dentry[j].d_inode
      /\ Counted(r.mem, r.cache, Plus(Refs, r.next))
      /\ r.next \in r.cache \ Roots
      /\ r.next # ext2_mountpoint => r.mem[r.next].d_inode = OnDisk
      /\ r.next = ext2_mountpoint => r.cache = cache /\ r.mem = dget(dentry, ext2_mountpoint)
      /\ r.next = ext2_mountpoint <=> nd.dentry = root_dentry /\ Name = "ext2"
  BY LookedUp
<1>4. CASE r.next = ext2_mountpoint
  <2> DEFINE put == dput(r.mem, ext2_mountpoint)
  <2>1. nd.mnt = "root_mnt"
    BY <1>1, <1>3, <1>4, PathWalkAssumption DEF Stands, Mounted, Mount
  <2>2. /\ p.next = ext2_root_dentry /\ p.mnt = "ext2_root_mnt" /\ p.cache = cache
        /\ p.mem = dget(put, ext2_root_dentry) /\ r.cache = cache
    BY <1>3, <1>4, <2>1 DEF follow_mount
  <2>3. /\ ext2_mountpoint \in Address /\ ext2_root_dentry \in cache
        /\ ext2_root_dentry \in Address /\ ext2_root_dentry # ext2_mountpoint
    BY <1>1, Places DEF Fixed, Roots, ext2_root_dentry, ext2_mountpoint
  <2>4. /\ put \in [Address -> Dentries] /\ SameShape(r.mem, put)
        /\ put[ext2_root_dentry] = dentry[ext2_root_dentry]
    <3>1. r.mem[ext2_root_dentry] = dentry[ext2_root_dentry]
      BY <1>2, <1>3, <1>4, <2>3, DgetFacts
    <3>2. /\ put \in [Address -> Dentries] /\ SameShape(r.mem, put)
          /\ put[ext2_root_dentry] = r.mem[ext2_root_dentry]
      BY <1>3, <2>3, DputFacts
    <3> QED BY <3>1, <3>2
  <2>5. /\ Plus(Refs, ext2_mountpoint)[ext2_mountpoint] > 0
        /\ Plus(Refs, ext2_mountpoint) \in [Address -> Nat]
        /\ Minus(Plus(Refs, ext2_mountpoint), ext2_mountpoint) = Refs
    BY <1>2, <2>3, PlusMinus
  <2>6. Counted(put, cache, Refs)
    BY <1>2, <1>3, <1>4, <2>2, <2>3, <2>5, Give
  <2>7. dentry[ext2_root_dentry].d_inode = Ext2Root
    BY <1>1 DEF Mounted
  <2>8. dentry[ext2_root_dentry].d_count < Word - 1
    BY <2>3, <2>7, PathWalkAssumption DEF Orderly
  <2>9. Counted(p.mem, cache, Plus(Refs, ext2_root_dentry))
    BY <1>2, <2>2, <2>3, <2>4, <2>6, <2>8, Take
  <2>10. p.mem \in [Address -> Dentries] /\ SameShape(put, p.mem)
    BY <2>2, <2>3, <2>4, DgetFacts
  <2>11. SameShape(r.mem, p.mem)
    BY <2>4, <2>10 DEF SameShape
  <2>12. Sound(p.mem, cache, deleted)
    BY <1>3, <2>2, <2>10, <2>11, SoundShape
  <2>13. \A j \in cache : p.mem[j].d_inode = dentry[j].d_inode
    BY <1>2, <1>3, <2>11 DEF SameShape
  <2>14. p.mem[ext2_root_dentry].d_inode = Ext2Root
    BY <2>3, <2>7, <2>13
  <2>15. Stands(p.mem, cache, ext2_root_dentry, "ext2_root_mnt")
    BY <2>3, <2>14, PathWalkAssumption DEF Stands, Mount
  <2> QED BY <1>2, <1>3, <1>4, <2>2, <2>3, <2>9, <2>10, <2>12, <2>13, <2>14, <2>15
<1>5. CASE r.next # ext2_mountpoint
  <2>1. p.next = r.next /\ p.mnt = nd.mnt /\ p.cache = r.cache /\ p.mem = r.mem
    BY <1>5 DEF follow_mount
  <2>2. r.mem[r.next].d_inode = OnDisk
    BY <1>3, <1>5
  <2>3. OnDisk \in Dir => (OnDisk \in Ext2Dir <=> dentry[nd.dentry].d_inode \in Ext2Dir)
    BY InodeFacts DEF OnDisk
  <2>4. OnDisk \in Dir => Stands(r.mem, r.cache, r.next, nd.mnt)
    BY <1>1, <1>3, <1>5, <2>2, <2>3 DEF Stands
  <2> QED BY <1>3, <1>5, <2>1, <2>2, <2>4
<1> QED BY <1>4, <1>5

--------------------------------------------------------------------------------
(* How a step ends, in PathWalk and in Namespace *)

\* The memory with the inode taken from a dentry, as vfs_rm does.
Cleared(mem, i) == [mem EXCEPT ![i].d_inode = None]

\* A file that is removed: its dentry and the disk say so.
LEMMA Removed ==
    ASSUME NEW mem, NEW ca, NEW gone, Sound(mem, ca, gone), NEW i \in ca,
           NEW x, x = mem[i].d_inode, x \notin Dir, x # None,
           NEW du, du = Cleared(mem, i)
    PROVE  /\ Sound(du, ca, gone \cup {x})
           /\ \A f : Counted(mem, ca, f) => Counted(du, ca, f)
           /\ \A j \in ca : j # i => du[j].d_inode = mem[j].d_inode
<1>1. /\ mem \in [Address -> Dentries] /\ ca \subseteq Address /\ Fixed \subseteq ca
      /\ Cardinality(ca) <= DCACHE_CAPACITY
      /\ Mounted(mem) /\ Parented(mem, ca) /\ Told(mem, ca, gone)
      /\ NameOnce(mem, ca) /\ InodeOnce(mem, ca)
  BY DEF Sound, Typed
<1>2. i \notin Fixed
  BY <1>1, PathWalkAssumption DEF Mounted, Fixed
<1>3. /\ du \in [Address -> Dentries] /\ du[i].d_inode = None
      /\ \A j \in Address : /\ du[j].d_parent = mem[j].d_parent /\ du[j].d_name = mem[j].d_name
                            /\ du[j].d_count = mem[j].d_count
                            /\ j # i => du[j].d_inode = mem[j].d_inode
  BY <1>1 DEF Dentries, Cleared
<1>4. Typed(du, ca)
  BY <1>1, <1>3 DEF Typed
<1>5. Mounted(du)
  BY <1>1, <1>2, <1>3, Places DEF Mounted, Fixed
<1>6. \A j \in ca \ Roots : /\ mem[j].d_parent \in ca \ {ext2_mountpoint}
                            /\ mem[mem[j].d_parent].d_inode \in Dir /\ mem[j].d_parent # i
  BY <1>1 DEF Parented
<1>7. Parented(du, ca)
  BY <1>1, <1>3, <1>6 DEF Parented
<1>8. ASSUME NEW j \in ca \ Fixed
      PROVE  du[j].d_inode
               = InodeOf(Tree, gone \cup {x}, du[du[j].d_parent].d_inode, du[j].d_name)
  <2> DEFINE d == mem[mem[j].d_parent].d_inode
             n == mem[j].d_name
             y == InodeOf(Tree, gone, d, n)
             z == InodeOf(Tree, gone \cup {x}, d, n)
  <2>1. j \in ca \ Roots
    BY Places
  <2>2. du[du[j].d_parent].d_inode = d /\ du[j].d_name = n
    BY <1>1, <1>3, <1>6, <2>1
  <2>3. mem[j].d_inode = y
    BY <1>1 DEF Told
  <2>4. /\ y # None => \E e \in Tree : e.dir = d /\ e.name = n /\ e.inode = y /\ y \notin gone
        /\ \A e \in Tree : e.dir = d /\ e.name = n /\ e.inode \notin gone => y = e.inode
    BY InodeFacts
  <2>5. /\ z # None => \E e \in Tree : /\ e.dir = d /\ e.name = n /\ e.inode = z
                                       /\ z \notin gone \cup {x}
        /\ \A e \in Tree : e.dir = d /\ e.name = n /\ e.inode \notin gone \cup {x} => z = e.inode
    BY InodeFacts
  <2> HIDE DEF d, n, y, z
  <2>6. CASE j = i
    <3>1. y = x
      BY <2>3, <2>6
    <3>2. z # None => z = y
      BY <2>4, <2>5
    <3>3. z = None
      BY <2>5, <3>1, <3>2
    <3> QED BY <1>3, <2>2, <2>6, <3>3 DEF z
  <2>7. CASE j # i
    <3>1. y # x
      BY <1>1, <1>2, <2>3, <2>7, Places DEF InodeOnce
    <3>2. z = y
      BY <2>4, <2>5, <3>1
    <3> QED BY <1>1, <1>3, <2>2, <2>3, <2>7, <3>2 DEF z
  <2> QED BY <2>6, <2>7
<1>9. NameOnce(du, ca)
  BY <1>1, <1>3 DEF NameOnce
<1>10. InodeOnce(du, ca)
  BY <1>1, <1>3 DEF InodeOnce
<1>11. ASSUME NEW f, Counted(mem, ca, f)  PROVE Counted(du, ca, f)
  <2>1. \A d : ChildrenOf(du, ca, d) = ChildrenOf(mem, ca, d)
    BY <1>1, <1>3 DEF ChildrenOf
  <2>2. ASSUME NEW d \in ca, du[d].d_inode \in Dir
        PROVE  Cardinality(ChildrenOf(du, ca, d)) + f[d] <= du[d].d_count
    <3>1. d # i
      BY <1>3, <2>2, PathWalkAssumption
    <3> QED BY <1>1, <1>3, <1>11, <2>1, <2>2, <3>1 DEF Counted
  <2> QED BY <2>2 DEF Counted
<1>12. \A j \in ca : j # i => du[j].d_inode = mem[j].d_inode
  BY <1>1, <1>3
<1>13. Told(du, ca, gone \cup {x})
  BY <1>8 DEF Told
<1>14. Sound(du, ca, gone \cup {x})
  BY <1>4, <1>5, <1>7, <1>9, <1>10, <1>13 DEF Sound
<1> QED BY <1>11, <1>12, <1>14

\* What a step leaves: memory and a cache that are sound, the current directory in it, the
\* old dentries with their inodes, and the references in f counted.
Intact(mem, ca) ==
    /\ Sound(mem, ca, deleted) /\ ca \in SUBSET Address /\ pwd.dentry \in ca
    /\ \A j \in cache : mem[j].d_inode = dentry[j].d_inode
Leaves(mem, ca, f) == Intact(mem, ca) /\ Counted(mem, ca, f)

\* The current directory stays where it is.
LEMMA PwdStays ==
    ASSUME IInv, NEW mem, NEW ca, NEW f, Leaves(mem, ca, f)
    PROVE  /\ pwd.dentry \in cache /\ pwd.dentry \in ca
           /\ pwd \in [dentry : Address, mnt : Mount]
           /\ mem[pwd.dentry].d_inode = dentry[pwd.dentry].d_inode
           /\ Stands(mem, ca, pwd.dentry, pwd.mnt)
BY DEF IInv, Stands, Leaves, Intact

\* A walk in Namespace.
Walk == IF nd = None THEN None
        ELSE [op |-> nd.op, dir |-> nd.dir, at |-> dentry[nd.dentry].d_inode, rest |-> nd.rest]

LEMMA Returned ==
    ASSUME IInv, NEW error, NEW mem, Return(error, mem), Leaves(mem, cache', MountRefs)
    PROVE  IInv' /\ Names!Fail(error)
<1>1. /\ nd' = None /\ answer' = error /\ dentry' = mem /\ pwd' = pwd /\ deleted' = deleted
  BY DEF Return
<1>2. /\ mem[pwd.dentry].d_inode = dentry[pwd.dentry].d_inode
      /\ Stands(mem, cache', pwd.dentry, pwd.mnt) /\ pwd \in [dentry : Address, mnt : Mount]
  BY <1>1, PwdStays
<1>3. Refs' = MountRefs
  BY <1>1 DEF Refs, Walking, MountRefs
<1>4. IInv'
  BY <1>1, <1>2, <1>3 DEF IInv, Leaves, Intact, Walking
<1>5. Names!Fail(error)
  BY <1>1, <1>2 DEF Names!Fail
<1> QED BY <1>4, <1>5

LEMMA RecordOf ==
    ASSUME NEW A, NEW B, NEW C, NEW D, NEW z \in [op : A, dir : B, at : C, rest : D]
    PROVE  z = [op |-> z.op, dir |-> z.dir, at |-> z.at, rest |-> z.rest]
OBVIOUS

LEMMA WentOn ==
    ASSUME IInv, Orderly, Walking, ~IsLast, NEW i \in Address, NEW m \in Mount, NEW mem,
           On(i, m, mem), Leaves(mem, cache', Plus(MountRefs, i)), Stands(mem, cache', i, m)
    PROVE  /\ IInv'
           /\ Walk' = [op |-> nd.op, dir |-> nd.dir, at |-> mem[i].d_inode, rest |-> Tail(nd.rest)]
           /\ UNCHANGED <<deleted, dentry[pwd.dentry].d_inode, answer>>
<1>1. /\ nd' = [nd EXCEPT !.dentry = i, !.mnt = m, !.rest = Tail(@)]
      /\ dentry' = mem /\ pwd' = pwd /\ deleted' = deleted /\ answer' = answer
  BY DEF On
<1>2. nd \in Nameidata /\ Tail(nd.rest) \in Seq(Filename) /\ Tail(nd.rest) # <<>>
      /\ (nd.op = "cd" => nd.dir)
  BY WalkFacts DEF IInv
<1>3. /\ nd' \in Nameidata /\ nd'.dentry = i /\ nd'.mnt = m /\ nd'.rest = Tail(nd.rest)
      /\ nd'.op = nd.op /\ nd'.dir = nd.dir
  BY <1>1, <1>2 DEF Nameidata
<1>4. nd' # None /\ nd # None
  BY <1>3, CallsAssumption DEF Walking
<1>5. /\ mem[pwd.dentry].d_inode = dentry[pwd.dentry].d_inode
      /\ Stands(mem, cache', pwd.dentry, pwd.mnt) /\ pwd \in [dentry : Address, mnt : Mount]
  BY <1>1, PwdStays
<1>6. Refs' = Plus(MountRefs, i)
  BY <1>3, <1>4 DEF Refs, Walking, MountRefs, Plus
<1>7. IInv'
  BY <1>1, <1>2, <1>3, <1>5, <1>6 DEF IInv, Leaves, Intact
<1>8. Walk' = [op |-> nd.op, dir |-> nd.dir, at |-> mem[i].d_inode, rest |-> Tail(nd.rest)]
  <2>1. dentry'[nd'.dentry].d_inode = mem[i].d_inode
    BY <1>1, <1>3
  <2> QED BY <1>3, <1>4, <2>1 DEF Walk
<1> QED BY <1>1, <1>5, <1>7, <1>8

LEMMA FoundIt ==
    ASSUME IInv, Orderly', NEW op, NEW i \in Address, NEW m \in Mount, NEW mem,
           Found(op, i, m, mem), Leaves(mem, cache', MountRefs), i \in cache',
           mem[i].d_inode # None, op = "cd" => Stands(mem, cache', i, m)
    PROVE  IInv' /\ Names!Found(op, mem[i].d_inode)
<1> DEFINE x == mem[i].d_inode
<1>1. /\ nd' = None /\ answer' = x
      /\ pwd' = IF op = "cd" THEN [dentry |-> i, mnt |-> m] ELSE pwd
  BY DEF Found
<1>2. Refs' = MountRefs /\ ~Walking'
  BY <1>1 DEF Refs, Walking, MountRefs
<1>3. CASE op = "rm"
  <2>1. deleted' = deleted \cup {x} /\ dentry' = [mem EXCEPT ![i].d_inode = None] /\ pwd' = pwd
    BY <1>1, <1>3 DEF Found
  <2>2. x \notin Dir
    BY <2>1 DEF Orderly
  <2>3. /\ Sound(dentry', cache', deleted') /\ Counted(dentry', cache', MountRefs)
        /\ \A j \in cache' : j # i => dentry'[j].d_inode = mem[j].d_inode
    <3>1. /\ Sound(mem, cache', deleted) /\ Counted(mem, cache', MountRefs)
          /\ x # None
      BY DEF Leaves, Intact
    <3>2. PICK du : du = Cleared(mem, i)
      OBVIOUS
    <3>3. PICK ca : ca = cache'
      OBVIOUS
    <3>4. PICK y : y = mem[i].d_inode
      OBVIOUS
    <3> HIDE DEF x
    <3>5. Sound(mem, ca, deleted) /\ i \in ca /\ y \notin Dir /\ y # None /\ x = y
      BY <2>2, <3>1, <3>3, <3>4 DEF x
    <3>6. /\ Sound(du, ca, deleted \cup {y})
          /\ \A f : Counted(mem, ca, f) => Counted(du, ca, f)
          /\ \A j \in ca : j # i => du[j].d_inode = mem[j].d_inode
      BY <3>2, <3>4, <3>5, Removed
    <3> QED BY <2>1, <3>1, <3>2, <3>3, <3>5, <3>6 DEF Cleared
  <2>4. /\ pwd.dentry \in cache' /\ pwd \in [dentry : Address, mnt : Mount]
        /\ mem[pwd.dentry].d_inode = dentry[pwd.dentry].d_inode
        /\ Stands(mem, cache', pwd.dentry, pwd.mnt)
    BY <2>1, PwdStays
  <2>5. pwd.dentry # i
    BY <2>2, <2>4 DEF Stands
  <2>6. dentry'[pwd.dentry].d_inode = dentry[pwd.dentry].d_inode
        /\ Stands(dentry', cache', pwd.dentry, pwd.mnt)
    BY <2>3, <2>4, <2>5 DEF Stands
  <2>7. IInv'
    BY <1>2, <2>1, <2>3, <2>4, <2>6 DEF IInv
  <2>8. Names!Found(op, x)
    BY <1>1, <1>3, <2>1, <2>6 DEF Names!Found
  <2> QED BY <2>7, <2>8
<1>4. CASE op = "cd"
  <2>1. deleted' = deleted /\ dentry' = mem /\ pwd' = [dentry |-> i, mnt |-> m]
    BY <1>1, <1>4 DEF Found
  <2>2. pwd' \in [dentry : Address, mnt : Mount] /\ pwd'.dentry = i /\ pwd'.mnt = m
    BY <2>1
  <2>3. IInv'
    BY <1>2, <1>4, <2>1, <2>2 DEF IInv, Leaves, Intact
  <2>4. Names!Found(op, x)
    BY <1>1, <1>4, <2>1, <2>2 DEF Names!Found
  <2> QED BY <2>3, <2>4
<1>5. CASE op \notin {"rm", "cd"}
  <2>1. deleted' = deleted /\ dentry' = mem /\ pwd' = pwd
    BY <1>1, <1>5 DEF Found
  <2>2. /\ mem[pwd.dentry].d_inode = dentry[pwd.dentry].d_inode
        /\ Stands(mem, cache', pwd.dentry, pwd.mnt) /\ pwd \in [dentry : Address, mnt : Mount]
    BY <2>1, PwdStays
  <2>3. IInv'
    BY <1>2, <2>1, <2>2 DEF IInv, Leaves, Intact
  <2>4. Names!Found(op, x)
    BY <1>1, <1>5, <2>1, <2>2 DEF Names!Found
  <2> QED BY <2>3, <2>4
<1> QED BY <1>3, <1>4, <1>5

--------------------------------------------------------------------------------
(* Where a name leads, in PathWalk and in Namespace *)

LEMMA NodeFound ==
    ASSUME IInv, Orderly, Walking, Name \notin {".", ".."}
    PROVE  Names!Node(dentry[nd.dentry].d_inode, Name)
             = IF nd.dentry = root_dentry /\ Name = "ext2" THEN Ext2Root ELSE OnDisk
<1> DEFINE d == dentry[nd.dentry].d_inode
           x == InodeOf(Tree, {}, d, Name)
           y == InodeOf(Tree, deleted, d, Name)
<1>1. d = Root <=> nd.dentry = root_dentry
  <2>1. root_dentry \in cache \ {ext2_mountpoint} /\ dentry[root_dentry].d_inode = Root
    BY Places DEF IInv, Sound, Typed, Mounted, Fixed, Roots
  <2>2. nd.dentry \in cache \ {ext2_mountpoint}
    BY WalkFacts
  <2>3. InodeOnce(dentry, cache) /\ Root # None
    BY PathWalkAssumption DEF IInv, Sound
  <2> QED BY <2>1, <2>2, <2>3 DEF InodeOnce
<1>2. Ext2Root \notin deleted
  BY PathWalkAssumption DEF Orderly
<1>3. y = IF x \in deleted THEN None ELSE x
  <2>1. /\ x # None => \E e \in Tree : e.dir = d /\ e.name = Name /\ e.inode = x
        /\ \A e \in Tree : e.dir = d /\ e.name = Name => x = e.inode
    BY InodeFacts
  <2>2. /\ y # None => \E e \in Tree : /\ e.dir = d /\ e.name = Name /\ e.inode = y
                                       /\ y \notin deleted
        /\ \A e \in Tree : e.dir = d /\ e.name = Name /\ e.inode \notin deleted => y = e.inode
    BY InodeFacts
  <2> HIDE DEF d, x, y
  <2> QED BY <2>1, <2>2
<1> QED BY <1>1, <1>2, <1>3 DEF Names!Node, Child, OnDisk

\* ".." leads to the directory of the one where the walk is, also over the mount point.
LEMMA DotDot ==
    ASSUME IInv, NEW i, NEW m, Stands(dentry, cache, i, m), NEW to, to = follow_dotdot(i, m)
    PROVE  /\ Stands(dentry, cache, to.dentry, to.mnt)
           /\ dentry[to.dentry].d_inode = Parent(dentry[i].d_inode)
<1>1. /\ Mounted(dentry) /\ Parented(dentry, cache) /\ Told(dentry, cache, deleted)
      /\ Fixed \subseteq cache /\ i \in cache \ {ext2_mountpoint} /\ m \in Mount
      /\ dentry[i].d_inode \in Dir
      /\ dentry[i].d_inode \in Ext2Dir <=> m = "ext2_root_mnt"
  BY DEF IInv, Sound, Typed, Stands
<1>2. Stands(dentry, cache, root_dentry, "root_mnt")
  BY <1>1, Places, PathWalkAssumption DEF Stands, Mounted, Mount, Fixed, Roots
<1>3. CASE i = root_dentry
  <2>1. m = "root_mnt"
    BY <1>1, <1>3, PathWalkAssumption DEF Mounted, Mount
  <2>2. to.dentry = root_dentry /\ to.mnt = "root_mnt"
    BY <1>3, <2>1 DEF follow_dotdot
  <2> QED BY <1>1, <1>2, <1>3, <2>2 DEF Mounted, Parent
<1>4. CASE i = ext2_root_dentry
  <2>1. m = "ext2_root_mnt"
    BY <1>1, <1>4, PathWalkAssumption DEF Mounted
  <2>2. to.dentry = root_dentry /\ to.mnt = "root_mnt"
    BY <1>1, <1>4, <2>1 DEF follow_dotdot, mnt_root, mnt_mountpoint, Mounted
  <2> QED BY <1>1, <1>2, <1>4, <2>2 DEF Mounted, Parent
<1>5. CASE i \notin Roots
  <2> DEFINE p == dentry[i].d_parent
  <2>1. to.dentry = p /\ to.mnt = m
    BY <1>5 DEF follow_dotdot, mnt_root, Roots
  <2>2. p \in cache \ {ext2_mountpoint} /\ dentry[p].d_inode \in Dir
    BY <1>1, <1>5 DEF Parented
  <2>3. dentry[i].d_inode = InodeOf(Tree, deleted, dentry[p].d_inode, dentry[i].d_name)
    BY <1>1, <1>5 DEF Told, Fixed, Roots
  <2>4. dentry[i].d_inode # None
    BY <1>1, PathWalkAssumption
  <2>5. /\ \E e \in Tree : e.dir = dentry[p].d_inode /\ e.inode = dentry[i].d_inode
        /\ dentry[i].d_inode \notin {Root, Ext2Root}
        /\ dentry[i].d_inode \in Ext2Dir <=> dentry[p].d_inode \in Ext2Dir
    BY <1>1, <2>3, <2>4, InodeFacts
  <2>6. PICK e \in Tree : e.dir = dentry[p].d_inode /\ e.inode = dentry[i].d_inode
    BY <2>5
  <2>7. \A f \in Tree : f.inode = dentry[i].d_inode => f = e
    BY <2>6, TreeAssumption
  <2>8. (CHOOSE f \in Tree : f.inode = dentry[i].d_inode) = e
    BY <2>6, <2>7
  <2>9. Parent(dentry[i].d_inode) = dentry[p].d_inode
    BY <2>5, <2>6, <2>8 DEF Parent
  <2> QED BY <1>1, <2>1, <2>2, <2>5, <2>9 DEF Stands
<1> QED BY <1>3, <1>4, <1>5 DEF Roots

LEMMA WalkIs ==
    ASSUME IInv, Orderly, Walking
    PROVE  /\ Walk # None
           /\ Walk = [op |-> nd.op, dir |-> nd.dir, at |-> dentry[nd.dentry].d_inode,
                      rest |-> nd.rest]
<1>1. Walk = [op |-> nd.op, dir |-> nd.dir, at |-> dentry[nd.dentry].d_inode, rest |-> nd.rest]
  BY DEF Walk, Walking
<1>2. /\ nd.op \in {"open", "cd", "rm"} /\ nd.dir \in BOOLEAN /\ nd.rest \in Seq(Filename)
      /\ dentry[nd.dentry].d_inode \in Dir
  BY WalkFacts DEF Nameidata
<1> QED BY <1>1, <1>2, CallsAssumption

\* The three ends of a step are those of Namespace.
LEMMA GoFails ==
    ASSUME IInv, Orderly, Walking, NEW x, x = Names!Node(dentry[nd.dentry].d_inode, Name),
           NEW e, Names!Fail(e),
           IF x = None THEN e = "ENOENT"
                       ELSE x \notin Dir /\ (~IsLast \/ nd.dir) /\ e = "ENOTDIR"
    PROVE  Names!Go
<1>1. /\ Walk # None /\ Walk.dir = nd.dir /\ Walk.at = dentry[nd.dentry].d_inode
      /\ Walk.rest = nd.rest
  BY WalkIs
<1> QED BY <1>1 DEF Names!Go, Walk, Name, IsLast

LEMMA GoFinds ==
    ASSUME IInv, Orderly, Walking, NEW x, x = Names!Node(dentry[nd.dentry].d_inode, Name),
           Names!Found(nd.op, x), x # None, x \in Dir \/ ~nd.dir, IsLast
    PROVE  Names!Go
<1>1. /\ Walk # None /\ Walk.dir = nd.dir /\ Walk.at = dentry[nd.dentry].d_inode
      /\ Walk.rest = nd.rest /\ Walk.op = nd.op
  BY WalkIs
<1> QED BY <1>1 DEF Names!Go, Walk, Name, IsLast

LEMMA GoGoesOn ==
    ASSUME IInv, Orderly, Walking, NEW x, x = Names!Node(dentry[nd.dentry].d_inode, Name),
           Walk' = [op |-> nd.op, dir |-> nd.dir, at |-> x, rest |-> Tail(nd.rest)],
           UNCHANGED <<deleted, dentry[pwd.dentry].d_inode, answer>>, x # None, x \in Dir, ~IsLast
    PROVE  Names!Go
<1>1. /\ Walk # None /\ Walk.dir = nd.dir /\ Walk.at = dentry[nd.dentry].d_inode
      /\ Walk.rest = nd.rest /\ Walk.op = nd.op
      /\ Walk = [op |-> nd.op, dir |-> nd.dir, at |-> dentry[nd.dentry].d_inode, rest |-> nd.rest]
  BY WalkIs
<1>2. Walk' = [Walk EXCEPT !.at = x, !.rest = Tail(@)]
  <2>1. PICK w : w = Walk
    OBVIOUS
  <2>2. PICK op, dir, at, rest : /\ op = nd.op /\ dir = nd.dir /\ rest = nd.rest
                                 /\ at = dentry[nd.dentry].d_inode
    OBVIOUS
  <2>3. w = [op |-> op, dir |-> dir, at |-> at, rest |-> rest]
    BY <1>1, <2>1, <2>2
  <2> DEFINE z == [w EXCEPT !.at = x, !.rest = Tail(@)]
  <2>4. /\ z \in [op : {op}, dir : {dir}, at : {at, x}, rest : {rest, Tail(rest)}]
        /\ z.op = op /\ z.dir = dir /\ z.at = x /\ z.rest = Tail(rest)
    BY <2>3
  <2> HIDE DEF z
  <2>5. z = [op |-> op, dir |-> dir, at |-> x, rest |-> Tail(rest)]
    BY <2>4, RecordOf
  <2> QED BY <2>1, <2>2, <2>5 DEF z
<1> QED BY <1>1, <1>2 DEF Names!Go, Walk, Name, IsLast

--------------------------------------------------------------------------------
(* The steps *)

\* References taken and given back leave the rest intact.
LEMMA CountsApart ==
    ASSUME IInv, NEW mem, NEW ca, Intact(mem, ca), NEW i \in Address,
           NEW du \in {dget(mem, i), dput(mem, i)}
    PROVE  /\ mem \in [Address -> Dentries] /\ du \in [Address -> Dentries]
           /\ Intact(du, ca)
           /\ \A j \in Address : du[j].d_inode = mem[j].d_inode
           /\ \A j, m : Stands(mem, ca, j, m) => Stands(du, ca, j, m)
<1>1. Sound(mem, ca, deleted) /\ mem \in [Address -> Dentries] /\ cache \subseteq Address
  BY DEF Intact, Sound, Typed, IInv
<1>2. du \in [Address -> Dentries] /\ SameShape(mem, du)
  BY <1>1, DgetFacts, DputFacts
<1>3. Sound(du, ca, deleted) /\ \A j, m : Stands(mem, ca, j, m) => Stands(du, ca, j, m)
  BY <1>1, <1>2, SoundShape
<1> QED BY <1>1, <1>2, <1>3 DEF Intact, SameShape

\* A walk that moves on counts where it comes instead of where it was.
LEMMA Moves ==
    ASSUME NEW mem \in [Address -> Dentries], NEW ca \in SUBSET Address,
           NEW f \in [Address -> Nat], NEW d \in Address, NEW i \in Address,
           Counted(mem, ca, Plus(Plus(f, d), i))
    PROVE  Counted(dput(mem, d), ca, Plus(f, i))
<1> DEFINE g == Plus(f, d)
           h == Plus(g, i)
<1>1. /\ g \in [Address -> Nat] /\ g[d] > 0
      /\ \A j \in Address : g[j] = f[j] + (IF j = d THEN 1 ELSE 0)
  BY DEF Plus
<1> HIDE DEF g
<1>2. /\ h \in [Address -> Nat] /\ h[d] > 0
      /\ \A j \in Address : h[j] = g[j] + (IF j = i THEN 1 ELSE 0)
  BY <1>1 DEF Plus
<1> HIDE DEF h
<1>3. Counted(mem, ca, h)
  BY DEF g, h
<1>4. Counted(dput(mem, d), ca, Minus(h, d)) /\ Minus(h, d) \in [Address -> Nat]
  BY <1>2, <1>3, Give
<1>5. Plus(f, i) \in [Address -> Nat]
  BY PlusMinus
<1>6. \A j \in Address : Plus(f, i)[j] = Minus(h, d)[j]
  BY <1>1, <1>2 DEF Plus, Minus
<1>7. \A j \in Address : Plus(f, i)[j] <= Minus(h, d)[j]
  BY <1>5, <1>6
<1>8. dput(mem, d) \in [Address -> Dentries]
  BY DputFacts
<1> QED BY <1>4, <1>5, <1>7, <1>8, Fewer

\* The references of the mounts alone.
LEMMA MountsOnly ==
    ASSUME NEW mem \in [Address -> Dentries], NEW ca \in SUBSET Address, NEW i \in Address,
           Counted(mem, ca, Plus(MountRefs, i))
    PROVE  Counted(mem, ca, MountRefs)
<1>1. MountRefs \in [Address -> Nat]
  BY DEF MountRefs
<1>2. /\ Plus(MountRefs, i) \in [Address -> Nat]
      /\ Plus(MountRefs, i)[i] = MountRefs[i] + 1
      /\ \A j \in Address : j # i => Plus(MountRefs, i)[j] = MountRefs[j]
  BY <1>1, PlusMinus
<1>3. \A j \in Address : MountRefs[j] <= Plus(MountRefs, i)[j]
  <2>1. SUFFICES ASSUME NEW j \in Address  PROVE MountRefs[j] <= Plus(MountRefs, i)[j]
    OBVIOUS
  <2>2. MountRefs[j] \in Nat
    BY <1>1
  <2> QED BY <1>2, <2>2
<1> QED BY <1>1, <1>2, <1>3, Fewer

LEMMA StartStep ==
    ASSUME IInv, Orderly, Orderly', NEW c \in Calls, path_lookup(c)
    PROVE  IInv' /\ Names!Start(c)
<1> DEFINE i == IF c.absolute THEN root_dentry ELSE pwd.dentry
           m == IF c.absolute THEN "root_mnt" ELSE pwd.mnt
           from == IF c.absolute THEN Root ELSE dentry[pwd.dentry].d_inode
           mem == dget(dentry, i)
<1>1. /\ nd = None /\ cache' = cache
      /\ IF c.names = <<>>
         THEN Found(c.op, i, m, mem)
         ELSE /\ nd' = [op |-> c.op, dir |-> c.dir, rest |-> c.names, dentry |-> i, mnt |-> m]
              /\ dentry' = mem
              /\ UNCHANGED <<pwd, deleted, answer>>
  BY DEF path_lookup
<1>2. /\ Mounted(dentry) /\ Fixed \subseteq cache /\ dentry \in [Address -> Dentries]
      /\ cache \in SUBSET Address /\ Intact(dentry, cache) /\ Counted(dentry, cache, MountRefs)
      /\ Stands(dentry, cache, pwd.dentry, pwd.mnt) /\ pwd \in [dentry : Address, mnt : Mount]
  BY <1>1 DEF IInv, Sound, Typed, Intact, Refs, Walking, Stands
<1>3. Stands(dentry, cache, i, m) /\ i \in Address /\ m \in Mount /\ dentry[i].d_inode = from
  BY <1>2, Places, PathWalkAssumption DEF Stands, Mounted, Mount, Fixed, Roots
<1>4. MountRefs \in [Address -> Nat]
  BY DEF MountRefs
<1>5. dentry[i].d_inode \in Dir /\ dentry[i].d_count < Word - 1 /\ i \in cache
  BY <1>3 DEF Stands, Orderly
<1> HIDE DEF i, m, from
<1>6. Counted(mem, cache, Plus(MountRefs, i))
  BY <1>2, <1>3, <1>4, <1>5, Take
<1>7. /\ mem \in [Address -> Dentries] /\ Intact(mem, cache)
      /\ mem[i].d_inode = from /\ Stands(mem, cache, i, m)
  BY <1>2, <1>3, CountsApart
<1>8. from \in Dir /\ from # None
  BY <1>3, <1>5, PathWalkAssumption
<1> HIDE DEF mem
<1>9. CASE c.names = <<>>
  <2>1. Leaves(mem, cache', MountRefs)
    BY <1>1, <1>2, <1>3, <1>6, <1>7, MountsOnly DEF Leaves
  <2>2. IInv' /\ Names!Found(c.op, from)
    BY <1>1, <1>3, <1>5, <1>7, <1>8, <1>9, <2>1, FoundIt
  <2> QED BY <1>1, <1>9, <2>2 DEF Names!Start, from
<1>10. CASE c.names # <<>>
  <2>1. /\ nd' = [op |-> c.op, dir |-> c.dir, rest |-> c.names, dentry |-> i, mnt |-> m]
        /\ dentry' = mem /\ pwd' = pwd /\ deleted' = deleted /\ answer' = answer
    BY <1>1, <1>10
  <2>2. /\ c.op \in {"open", "cd", "rm"} /\ c.dir \in BOOLEAN /\ c.names \in Seq(Filename)
        /\ c.op = "cd" => c.dir
    BY CallsAssumption
  <2>3. nd' \in Nameidata /\ nd' # None /\ nd'.dentry = i /\ nd'.mnt = m /\ nd'.rest = c.names
        /\ nd'.op = c.op /\ nd'.dir = c.dir
    BY <1>3, <2>1, <2>2, CallsAssumption DEF Nameidata
  <2>4. Refs' = Plus(MountRefs, i)
    BY <2>3 DEF Refs, Walking, MountRefs, Plus
  <2>5. /\ mem[pwd.dentry].d_inode = dentry[pwd.dentry].d_inode
        /\ Stands(mem, cache, pwd.dentry, pwd.mnt)
    BY <1>2, <1>7, <2>1 DEF Intact, Stands
  <2>6. IInv'
    BY <1>1, <1>2, <1>6, <1>7, <1>10, <2>1, <2>2, <2>3, <2>4, <2>5 DEF IInv, Intact
  <2>7. Walk' = [op |-> c.op, dir |-> c.dir, at |-> from, rest |-> c.names]
    BY <1>7, <2>1, <2>3 DEF Walk
  <2> QED BY <1>1, <1>10, <2>1, <2>5, <2>6, <2>7 DEF Names!Start, Walk, from
<1> QED BY <1>9, <1>10

LEMMA DotsStep ==
    ASSUME IInv, Orderly, Orderly', Dots
    PROVE  IInv' /\ Names!Go
<1> DEFINE to == IF Name = "." THEN nd ELSE follow_dotdot(nd.dentry, nd.mnt)
           i == to.dentry
           m == to.mnt
           put == dput(dentry, nd.dentry)
           mem == dget(put, i)
           x == Names!Node(dentry[nd.dentry].d_inode, Name)
<1>1. /\ Walking /\ Name \in {".", ".."} /\ cache' = cache
      /\ IF IsLast THEN Found(nd.op, i, m, mem) ELSE On(i, m, mem)
  BY DEF Dots
<1>2. /\ nd \in Nameidata /\ nd.dentry \in Address /\ Refs = Plus(MountRefs, nd.dentry)
      /\ MountRefs \in [Address -> Nat] /\ Refs \in [Address -> Nat] /\ Refs[nd.dentry] > 0
      /\ dentry \in [Address -> Dentries] /\ cache \in SUBSET Address
      /\ dentry[nd.dentry].d_count > 0
  BY <1>1, WalkFacts
<1>3. /\ Intact(dentry, cache) /\ Counted(dentry, cache, Refs)
      /\ Stands(dentry, cache, nd.dentry, nd.mnt)
  BY <1>1, <1>2 DEF IInv, Intact, Stands
<1>4. Stands(dentry, cache, i, m) /\ dentry[i].d_inode = x
  <2>1. CASE Name = "."
    BY <1>3, <2>1 DEF Names!Node
  <2>2. CASE Name = ".."
    <3>1. PICK t : t = follow_dotdot(nd.dentry, nd.mnt)
      OBVIOUS
    <3>2. /\ Stands(dentry, cache, t.dentry, t.mnt)
          /\ dentry[t.dentry].d_inode = Parent(dentry[nd.dentry].d_inode)
      BY <1>3, <3>1, DotDot
    <3> QED BY <2>2, <3>1, <3>2 DEF Names!Node
  <2> QED BY <1>1, <2>1, <2>2
<1> HIDE DEF to, x
<1>5. i \in Address /\ m \in Mount /\ i \in cache /\ dentry[i].d_inode \in Dir
      /\ dentry[i].d_count < Word - 1 /\ x \in Dir /\ x # None
  BY <1>2, <1>4, PathWalkAssumption DEF Stands, Orderly
<1> HIDE DEF i, m
<1>6. Counted(put, cache, MountRefs)
  BY <1>2, <1>3, Give, PlusMinus
<1>7. /\ put \in [Address -> Dentries] /\ Intact(put, cache)
      /\ put[i].d_inode = x /\ Stands(put, cache, i, m)
  BY <1>2, <1>3, <1>4, <1>5, CountsApart
<1>8. put[i].d_count < Word - 1
  <2>1. /\ put[nd.dentry].d_count = dentry[nd.dentry].d_count - 1
        /\ \A j \in Address : j # nd.dentry => put[j] = dentry[j]
    BY <1>2, DputFacts
  <2>2. dentry[nd.dentry].d_count \in Int /\ Word \in Int
    BY <1>2, PathWalkAssumption DEF Dentries
  <2> QED BY <1>5, <2>1, <2>2
<1> HIDE DEF put
<1>9. Counted(mem, cache, Plus(MountRefs, i))
  BY <1>2, <1>5, <1>6, <1>7, <1>8, Take
<1>10. /\ mem \in [Address -> Dentries] /\ Intact(mem, cache)
       /\ mem[i].d_inode = x /\ Stands(mem, cache, i, m)
  BY <1>5, <1>7, CountsApart
<1> HIDE DEF mem
<1>11. CASE IsLast
  <2>1. Leaves(mem, cache', MountRefs)
    BY <1>1, <1>2, <1>5, <1>9, <1>10, MountsOnly DEF Leaves
  <2>2. IInv' /\ Names!Found(nd.op, x)
    BY <1>1, <1>5, <1>10, <1>11, <2>1, FoundIt
  <2> QED BY <1>1, <1>5, <1>11, <2>2, GoFinds DEF x
<1>12. CASE ~IsLast
  <2>1. Leaves(mem, cache', Plus(MountRefs, i))
    BY <1>1, <1>9, <1>10 DEF Leaves
  <2>2. /\ IInv'
        /\ Walk' = [op |-> nd.op, dir |-> nd.dir, at |-> x, rest |-> Tail(nd.rest)]
        /\ UNCHANGED <<deleted, dentry[pwd.dentry].d_inode, answer>>
    BY <1>1, <1>5, <1>10, <1>12, <2>1, WentOn
  <2> QED BY <1>1, <1>5, <1>12, <2>2, GoGoesOn DEF x
<1> QED BY <1>11, <1>12

\* The outcome of do_lookup and follow_mount, for a name that is not a dot.
LEMMA Looked ==
    ASSUME IInv, Orderly, Walking, Name \notin {".", ".."}, NEW r \in do_lookup(nd.dentry, Name),
           Kept(r.cache), NEW p, p = follow_mount(r, nd.mnt),
           NEW x, x = Names!Node(dentry[nd.dentry].d_inode, Name)
    PROVE  /\ r.fails => Intact(r.mem, p.cache) /\ Counted(r.mem, p.cache, Refs) /\ x = None
           /\ ~r.fails => /\ Intact(p.mem, p.cache) /\ Counted(p.mem, p.cache, Plus(Refs, p.next))
                          /\ p.next \in p.cache \ {ext2_mountpoint} /\ p.next \in Address
                          /\ p.mem[p.next].d_inode = x
                          /\ x \in Dir => Stands(p.mem, p.cache, p.next, p.mnt)
<1>1. x = IF nd.dentry = root_dentry /\ Name = "ext2" THEN Ext2Root ELSE OnDisk
  BY NodeFound
<1>2. CASE r.fails
  <2>1. /\ Sound(r.mem, r.cache, deleted) /\ r.cache \in SUBSET Address
        /\ \A j \in cache : r.mem[j].d_inode = dentry[j].d_inode
        /\ OnDisk = None /\ Counted(r.mem, r.cache, Refs) /\ pwd.dentry \in r.cache
        /\ r.next # ext2_mountpoint
        /\ ~(nd.dentry = root_dentry /\ Name = "ext2")
    BY <1>2, LookedUp
  <2>2. p.cache = r.cache
    BY DEF follow_mount
  <2> QED BY <1>1, <1>2, <2>1, <2>2 DEF Intact
<1>3. CASE ~r.fails
  <2>1. /\ Sound(p.mem, p.cache, deleted) /\ p.cache \in SUBSET Address
        /\ Counted(p.mem, p.cache, Plus(Refs, p.next))
        /\ p.next \in p.cache \ {ext2_mountpoint} /\ p.next \in Address
        /\ \A j \in cache : p.mem[j].d_inode = dentry[j].d_inode
        /\ p.mem[p.next].d_inode \in Dir => Stands(p.mem, p.cache, p.next, p.mnt)
        /\ p.mem[p.next].d_inode
             = IF nd.dentry = root_dentry /\ Name = "ext2" THEN Ext2Root ELSE OnDisk
        /\ pwd.dentry \in p.cache
    BY <1>3, Followed, LookedUp
  <2> QED BY <1>1, <1>3, <2>1 DEF Intact
<1> QED BY <1>2, <1>3

\* A lookup that fails gives the reference of the walk back.
LEMMA LookupFails ==
    ASSUME IInv, Orderly, Orderly', Walking, NEW mem, NEW ca, Intact(mem, ca), ca = cache',
           Counted(mem, ca, Refs), Names!Node(dentry[nd.dentry].d_inode, Name) = None,
           Return("ENOENT", dput(mem, nd.dentry))
    PROVE  IInv' /\ Names!Go
<1>1. /\ nd.dentry \in Address /\ Refs = Plus(MountRefs, nd.dentry) /\ Refs[nd.dentry] > 0
      /\ MountRefs \in [Address -> Nat] /\ Refs \in [Address -> Nat]
  BY WalkFacts
<1> DEFINE put == dput(mem, nd.dentry)
<1>2. Intact(put, ca) /\ mem \in [Address -> Dentries] /\ ca \in SUBSET Address
  BY <1>1, CountsApart DEF Intact
<1>3. Counted(put, ca, MountRefs)
  BY <1>1, <1>2, Give, PlusMinus
<1> HIDE DEF put
<1>4. Leaves(put, cache', MountRefs)
  BY <1>2, <1>3 DEF Leaves
<1>5. Return("ENOENT", put)
  BY DEF put
<1>6. IInv' /\ Names!Fail("ENOENT")
  BY <1>4, <1>5, Returned
<1>7. Names!Go
  BY <1>6, GoFails
<1> QED BY <1>6, <1>7

LEMMA ComponentStep ==
    ASSUME IInv, Orderly, Orderly', KeepsUsed, Component
    PROVE  IInv' /\ Names!Go
<1>1. Walking /\ Name \notin {".", ".."} /\ ~IsLast
  BY DEF Component
<1> DEFINE Ends(r, p) ==
         /\ cache' = p.cache
         /\ LET inode == p.mem[p.next].d_inode
                mem   == dput(p.mem, nd.dentry)
            IN  IF r.fails THEN Return("ENOENT", dput(r.mem, nd.dentry))
                ELSE IF inode = None THEN Return("ENOENT", dput(mem, p.next))
                ELSE IF inode \notin Dir THEN Return("ENOTDIR", dput(mem, p.next))
                ELSE On(p.next, p.mnt, mem)
<1>2. PICK r \in do_lookup(nd.dentry, Name) : Ends(r, follow_mount(r, nd.mnt))
  BY DEF Component
<1>3. PICK p : p = follow_mount(r, nd.mnt) /\ Ends(r, p)
  BY <1>2
<1> DEFINE x == Names!Node(dentry[nd.dentry].d_inode, Name)
<1>4. /\ r.fails => Intact(r.mem, p.cache) /\ Counted(r.mem, p.cache, Refs) /\ x = None
      /\ ~r.fails => /\ Intact(p.mem, p.cache) /\ Counted(p.mem, p.cache, Plus(Refs, p.next))
                     /\ p.next \in p.cache \ {ext2_mountpoint} /\ p.next \in Address
                     /\ p.mem[p.next].d_inode = x
                     /\ x \in Dir => Stands(p.mem, p.cache, p.next, p.mnt)
  <2>1. p.cache = r.cache /\ cache' = p.cache
    BY <1>3 DEF follow_mount
  <2>2. Kept(r.cache)
    BY <2>1 DEF KeepsUsed
  <2> QED BY <1>1, <1>3, <2>2, Looked
<1> HIDE DEF x
<1>5. CASE r.fails
  <2>1. Return("ENOENT", dput(r.mem, nd.dentry))
    BY <1>3, <1>5
  <2> QED BY <1>1, <1>3, <1>4, <1>5, <2>1, LookupFails DEF x
<1>6. CASE ~r.fails
  <2> DEFINE i == p.next
             mem == dput(p.mem, nd.dentry)
             back == dput(mem, i)
  <2>1. /\ nd.dentry \in Address /\ Refs = Plus(MountRefs, nd.dentry)
        /\ MountRefs \in [Address -> Nat]
    BY <1>1, WalkFacts
  <2>2. /\ i \in p.cache /\ i \in Address /\ Intact(p.mem, p.cache)
        /\ Counted(p.mem, p.cache, Plus(Plus(MountRefs, nd.dentry), i))
        /\ p.mem[i].d_inode = x /\ p.cache \in SUBSET Address
    BY <1>4, <1>6, <2>1 DEF Intact
  <2>3. /\ mem \in [Address -> Dentries] /\ Intact(mem, p.cache) /\ mem[i].d_inode = x
        /\ p.mem \in [Address -> Dentries]
        /\ x \in Dir => Stands(mem, p.cache, i, p.mnt)
    BY <1>4, <1>6, <2>1, <2>2, CountsApart
  <2>4. Counted(mem, p.cache, Plus(MountRefs, i))
    BY <2>1, <2>2, <2>3, Moves
  <2> HIDE DEF mem
  <2>5. CASE x \in Dir
    <3>1. x # None
      BY <2>5, PathWalkAssumption
    <3>2. On(i, p.mnt, mem)
      BY <1>3, <1>6, <2>2, <2>5, <3>1 DEF mem
    <3>3. Stands(mem, p.cache, i, p.mnt) /\ p.mnt \in Mount
      BY <2>3, <2>5 DEF Stands
    <3>4. Leaves(mem, cache', Plus(MountRefs, i))
      BY <1>3, <2>3, <2>4 DEF Leaves
    <3> HIDE DEF i
    <3>5. /\ IInv'
          /\ Walk' = [op |-> nd.op, dir |-> nd.dir, at |-> x, rest |-> Tail(nd.rest)]
          /\ UNCHANGED <<deleted, dentry[pwd.dentry].d_inode, answer>>
      BY <1>1, <1>3, <2>2, <2>3, <3>2, <3>3, <3>4, WentOn
    <3> QED BY <1>1, <2>5, <3>1, <3>5, GoGoesOn DEF x
  <2>6. CASE x \notin Dir
    <3> DEFINE e == IF x = None THEN "ENOENT" ELSE "ENOTDIR"
    <3>1. Return(e, back)
      BY <1>3, <1>6, <2>2, <2>6 DEF mem
    <3> HIDE DEF i
    <3>2. Intact(back, p.cache)
      BY <2>2, <2>3, CountsApart
    <3>3. Counted(back, p.cache, MountRefs)
      BY <2>1, <2>2, <2>3, <2>4, Give, PlusMinus
    <3> HIDE DEF back
    <3>4. Leaves(back, cache', MountRefs)
      BY <1>3, <3>2, <3>3 DEF Leaves
    <3> HIDE DEF e
    <3>5. IInv' /\ Names!Fail(e)
      BY <3>1, <3>4, Returned
    <3>6. IF x = None THEN e = "ENOENT" ELSE x \notin Dir /\ (~IsLast \/ nd.dir) /\ e = "ENOTDIR"
      BY <1>1, <2>6 DEF e
    <3>7. Names!Go
      BY <1>1, <3>5, <3>6, GoFails DEF x
    <3> QED BY <3>5, <3>7
  <2> QED BY <2>5, <2>6
<1> QED BY <1>5, <1>6

LEMMA LastStep ==
    ASSUME IInv, Orderly, Orderly', KeepsUsed, LastComponent
    PROVE  IInv' /\ Names!Go
<1>1. Walking /\ Name \notin {".", ".."} /\ IsLast
  BY DEF LastComponent
<1> DEFINE Ends(r, p) ==
         /\ cache' = p.cache
         /\ LET mem   == dput(p.mem, p.next)
                inode == mem[p.next].d_inode
            IN  IF r.fails THEN Return("ENOENT", dput(r.mem, nd.dentry))
                ELSE IF inode = None THEN Return("ENOENT", dput(mem, p.next))
                ELSE IF nd.dir /\ inode \notin Dir THEN Return("ENOTDIR", dput(mem, p.next))
                ELSE Found(nd.op, p.next, p.mnt, mem)
<1>2. PICK r \in do_lookup(nd.dentry, Name) : Ends(r, follow_mount(r, nd.mnt))
  BY DEF LastComponent
<1>3. PICK p : p = follow_mount(r, nd.mnt) /\ Ends(r, p)
  BY <1>2
<1> DEFINE x == Names!Node(dentry[nd.dentry].d_inode, Name)
<1>4. /\ r.fails => Intact(r.mem, p.cache) /\ Counted(r.mem, p.cache, Refs) /\ x = None
      /\ ~r.fails => /\ Intact(p.mem, p.cache) /\ Counted(p.mem, p.cache, Plus(Refs, p.next))
                     /\ p.next \in p.cache \ {ext2_mountpoint} /\ p.next \in Address
                     /\ p.mem[p.next].d_inode = x
                     /\ x \in Dir => Stands(p.mem, p.cache, p.next, p.mnt)
  <2>1. p.cache = r.cache /\ cache' = p.cache
    BY <1>3 DEF follow_mount
  <2>2. Kept(r.cache)
    BY <2>1 DEF KeepsUsed
  <2> QED BY <1>1, <1>3, <2>2, Looked
<1> HIDE DEF x
<1>5. CASE r.fails
  <2>1. Return("ENOENT", dput(r.mem, nd.dentry))
    BY <1>3, <1>5
  <2> QED BY <1>1, <1>3, <1>4, <1>5, <2>1, LookupFails DEF x
<1>6. CASE ~r.fails
  <2> DEFINE i == p.next
             mem == dput(p.mem, i)
             back == dput(mem, i)
  <2>1. /\ nd.dentry \in Address /\ Refs = Plus(MountRefs, nd.dentry) /\ Refs \in [Address -> Nat]
        /\ MountRefs \in [Address -> Nat] /\ (nd.op = "cd" => nd.dir)
    BY <1>1, WalkFacts DEF IInv
  <2>2. /\ i \in p.cache /\ i \in Address /\ Intact(p.mem, p.cache)
        /\ Counted(p.mem, p.cache, Plus(Refs, i))
        /\ p.mem[i].d_inode = x /\ p.cache \in SUBSET Address
    BY <1>4, <1>6 DEF Intact
  <2>3. /\ mem \in [Address -> Dentries] /\ Intact(mem, p.cache) /\ mem[i].d_inode = x
        /\ p.mem \in [Address -> Dentries]
        /\ x \in Dir => Stands(mem, p.cache, i, p.mnt)
    BY <1>4, <1>6, <2>2, CountsApart
  <2>4. Counted(mem, p.cache, Refs)
    <3> HIDE DEF i
    <3>1. /\ Plus(Refs, i) \in [Address -> Nat] /\ Plus(Refs, i)[i] > 0
          /\ Minus(Plus(Refs, i), i) = Refs
      BY <2>1, <2>2, PlusMinus
    <3>2. Counted(mem, p.cache, Minus(Plus(Refs, i), i))
      BY <2>2, <2>3, <3>1, Give
    <3> QED BY <3>1, <3>2
  <2>5. Counted(mem, p.cache, MountRefs)
    BY <2>1, <2>2, <2>3, <2>4, MountsOnly
  <2> HIDE DEF mem
  <2>6. CASE x # None /\ (x \in Dir \/ ~nd.dir)
    <3>1. Found(nd.op, i, p.mnt, mem)
      BY <1>3, <1>6, <2>3, <2>6 DEF mem
    <3>2. Leaves(mem, cache', MountRefs)
      BY <1>3, <2>3, <2>5 DEF Leaves
    <3>3. p.mnt \in Mount
      <4>1. nd.mnt \in Mount
        BY <1>1, WalkFacts DEF Nameidata
      <4> QED BY <1>3, <4>1 DEF follow_mount, Mount
    <3>4. nd.op = "cd" => Stands(mem, p.cache, i, p.mnt)
      BY <2>1, <2>3, <2>6
    <3> HIDE DEF i
    <3>5. IInv' /\ Names!Found(nd.op, x)
      BY <1>3, <2>2, <2>3, <2>6, <3>1, <3>2, <3>3, <3>4, FoundIt
    <3> QED BY <1>1, <2>6, <3>5, GoFinds DEF x
  <2>7. CASE x = None \/ (x \notin Dir /\ nd.dir)
    <3> DEFINE e == IF x = None THEN "ENOENT" ELSE "ENOTDIR"
    <3>1. Return(e, back)
      BY <1>3, <1>6, <2>3, <2>7 DEF mem
    <3>2. x \notin Dir
      BY <2>7, PathWalkAssumption
    <3> HIDE DEF i
    <3>3. Intact(back, p.cache)
      BY <2>2, <2>3, CountsApart
    <3>4. Counted(back, p.cache, MountRefs)
      BY <2>1, <2>2, <2>3, <2>5, <3>2, GiveFile
    <3> HIDE DEF back
    <3>5. Leaves(back, cache', MountRefs)
      BY <1>3, <3>3, <3>4 DEF Leaves
    <3> HIDE DEF e
    <3>6. IInv' /\ Names!Fail(e)
      BY <3>1, <3>5, Returned
    <3>7. IF x = None THEN e = "ENOENT" ELSE x \notin Dir /\ (~IsLast \/ nd.dir) /\ e = "ENOTDIR"
      BY <1>1, <2>7 DEF e
    <3>8. Names!Go
      BY <1>1, <3>6, <3>7, GoFails DEF x
    <3> QED BY <3>6, <3>8
  <2> QED BY <2>6, <2>7
<1> QED BY <1>5, <1>6

--------------------------------------------------------------------------------
(* The theorems *)

LEMMA InitInv ==
    ASSUME Init, Orderly
    PROVE  IInv
<1>1. /\ DCACHE_CAPACITY \in Nat /\ DCACHE_CAPACITY >= 3 /\ Word \in Nat
      /\ Root \in Dir \ Ext2Dir /\ Ext2Root \in Ext2Dir /\ Ext2Dir \subseteq Dir
      /\ None \notin Dir /\ None \notin Address
  BY PathWalkAssumption
<1>2. /\ 1 \in Address /\ 2 \in Address /\ 3 \in Address
      /\ cache = {1, 2, 3} /\ Fixed = {1, 2, 3} /\ Roots = {1, 2}
  <2>1. cache = {root_dentry, ext2_root_dentry, ext2_mountpoint}
    BY DEF Init
  <2> QED
    BY <1>1, <2>1 DEF Address, Fixed, Roots, root_dentry, ext2_root_dentry, ext2_mountpoint
<1>3. /\ dentry[1] = Dentry(None, "/", Root, 2, TRUE) /\ dentry[2] = Dentry(None, "/", Ext2Root, 1, TRUE)
      /\ dentry[3] = Dentry(1, "ext2", Ext2Root, 1, FALSE)
      /\ \A i \in Address \ {1, 2, 3} : dentry[i] = Dentry(None, "/", None, 0, FALSE)
      /\ dentry = [i \in Address |-> dentry[i]]
  <2>1. dentry = [i \in Address |->
                    CASE i = 1 -> Dentry(None, "/", Root, 2, TRUE)
                      [] i = 2 -> Dentry(None, "/", Ext2Root, 1, TRUE)
                      [] i = 3 -> Dentry(1, "ext2", Ext2Root, 1, FALSE)
                      [] OTHER -> Dentry(None, "/", None, 0, FALSE)]
    BY DEF Init, root_dentry, ext2_root_dentry, ext2_mountpoint
  <2>2. DOMAIN dentry = Address
    BY <2>1
  <2>3. \A i \in Address :
          /\ i = 1 => dentry[i] = Dentry(None, "/", Root, 2, TRUE)
          /\ i = 2 => dentry[i] = Dentry(None, "/", Ext2Root, 1, TRUE)
          /\ i = 3 => dentry[i] = Dentry(1, "ext2", Ext2Root, 1, FALSE)
          /\ i \notin {1, 2, 3} => dentry[i] = Dentry(None, "/", None, 0, FALSE)
    BY <2>1 DEF Dentry
  <2>4. /\ dentry[1] = Dentry(None, "/", Root, 2, TRUE)
        /\ dentry[2] = Dentry(None, "/", Ext2Root, 1, TRUE)
        /\ dentry[3] = Dentry(1, "ext2", Ext2Root, 1, FALSE)
    BY <1>2, <2>3
  <2>5. \A i \in Address \ {1, 2, 3} : dentry[i] = Dentry(None, "/", None, 0, FALSE)
    BY <2>3
  <2>6. dentry = [i \in Address |-> dentry[i]]
    BY <2>1
  <2> QED BY <2>4, <2>5, <2>6
<1>4. /\ dentry[1].d_parent = None /\ dentry[1].d_inode = Root /\ dentry[1].d_count = 2
      /\ dentry[2].d_parent = None /\ dentry[2].d_inode = Ext2Root /\ dentry[2].d_count = 1
      /\ dentry[3].d_parent = 1 /\ dentry[3].d_name = "ext2"
      /\ dentry[3].d_inode = Ext2Root /\ dentry[3].d_count = 1
  BY <1>3 DEF Dentry
<1>5. Word > 2
  BY <1>1, <1>2, <1>4 DEF Orderly
<1>6. dentry \in [Address -> Dentries]
  <2>1. 0 \in 0 .. Word - 1 /\ 1 \in 0 .. Word - 1 /\ 2 \in 0 .. Word - 1
    BY <1>1, <1>5
  <2>2. Root \in Inode /\ Ext2Root \in Inode
    BY <1>1 DEF Inode
  <2>3. "/" \in Filename /\ "ext2" \in Filename
    BY DEF Filename
  <2>4. /\ Dentry(None, "/", Root, 2, TRUE) \in Dentries /\ Dentry(None, "/", Ext2Root, 1, TRUE) \in Dentries
        /\ Dentry(1, "ext2", Ext2Root, 1, FALSE) \in Dentries /\ Dentry(None, "/", None, 0, FALSE) \in Dentries
    BY <1>2, <2>1, <2>2, <2>3 DEF Dentry, Dentries
  <2>5. \A i \in Address : dentry[i] \in Dentries
    BY <1>3, <2>4
  <2> QED BY <1>3, <2>5
<1>7. Cardinality(cache) <= DCACHE_CAPACITY
  <2>1. 1 .. 3 = {1, 2, 3}
    OBVIOUS
  <2>2. Cardinality(1 .. 3) = 3 - 1 + 1
    BY FS_Interval, 1 \in Int, 3 \in Int, ~(1 > 3)
  <2> QED BY <1>1, <1>2, <2>1, <2>2
<1>8. Typed(dentry, cache) /\ Mounted(dentry) /\ Parented(dentry, cache)
  BY <1>1, <1>2, <1>4, <1>6, <1>7
     DEF Typed, Mounted, Parented, root_dentry, ext2_root_dentry, ext2_mountpoint
<1>9. Told(dentry, cache, deleted) /\ NameOnce(dentry, cache) /\ InodeOnce(dentry, cache)
  BY <1>1, <1>2, <1>4 DEF Told, NameOnce, InodeOnce, ext2_mountpoint
<1>10. Refs = MountRefs /\ ~Walking
  BY DEF Init, Refs, Walking
<1>11. Counted(dentry, cache, Refs)
  <2>1. /\ ChildrenOf(dentry, cache, 1) = {3} /\ ChildrenOf(dentry, cache, 2) = {}
        /\ ChildrenOf(dentry, cache, 3) = {}
    BY <1>1, <1>2, <1>4 DEF ChildrenOf
  <2>2. Cardinality({3}) = 1 /\ Cardinality({}) = 0
    BY FS_Singleton, FS_EmptySet
  <2>3. MountRefs[1] = 1 /\ MountRefs[2] = 1 /\ MountRefs[3] = 1
    BY <1>2 DEF MountRefs
  <2> QED BY <1>2, <1>4, <1>10, <2>1, <2>2, <2>3 DEF Counted
<1>12. /\ pwd \in [dentry : Address, mnt : Mount] /\ pwd.dentry = 1 /\ pwd.mnt = "root_mnt"
  BY <1>2 DEF Init, Mount, root_dentry
<1>13. Stands(dentry, cache, pwd.dentry, pwd.mnt)
  BY <1>1, <1>2, <1>4, <1>12 DEF Stands, Mount, ext2_mountpoint
<1> QED BY <1>8, <1>9, <1>10, <1>11, <1>12, <1>13 DEF IInv, Sound

LEMMA NextInv ==
    ASSUME IInv, Orderly, Orderly', [KeepsUsed]_vars, [Next]_vars
    PROVE  IInv' /\ [Names!Next]_(Names!vars)
<1>1. CASE Dots
  BY <1>1, DotsStep DEF Names!Next
<1> Kept(cache) /\ (UNCHANGED vars => cache' = cache)
  BY DEF Kept, vars
<1>6. KeepsUsed
  BY DEF KeepsUsed
<1>2. CASE Component
  BY <1>2, <1>6, ComponentStep DEF Names!Next
<1>3. CASE LastComponent
  BY <1>3, <1>6, LastStep DEF Names!Next
<1>4. ASSUME NEW c \in Calls, path_lookup(c)
      PROVE  IInv' /\ [Names!Next]_(Names!vars)
  BY <1>4, StartStep DEF Names!Next
<1>5. CASE Stray \/ UNCHANGED vars
  <2>1. /\ dentry' = dentry /\ cache' = cache /\ pwd' = pwd /\ deleted' = deleted /\ nd' = nd
        /\ answer' = answer
    BY <1>5 DEF vars, Stray
  <2>2. Refs' = Refs /\ Walking' = Walking
    BY <2>1 DEF Refs, Walking, MountRefs, Plus
  <2>3. IInv'
    BY <2>1, <2>2 DEF IInv
  <2>4. UNCHANGED Names!vars
    BY <2>1 DEF Names!vars
  <2> QED BY <2>3, <2>4
<1> QED BY <1>1, <1>2, <1>3, <1>4, <1>5 DEF Next

\* The cache tells the disk and counts the references to directories, for any volumes and
\* any calls (open.c, vfscache.c).
THEOREM Invariant == Spec /\ []Orderly /\ [][KeepsUsed]_vars => []IInv
<1>1. Init /\ Orderly => IInv
  BY InitInv
<1>2. IInv /\ Orderly /\ Orderly' /\ [KeepsUsed]_vars /\ [Next]_vars => IInv'
  BY NextInv
<1> QED BY <1>1, <1>2, PTL DEF Spec

LEMMA AstrayType == Spec => [](astray \in BOOLEAN)
<1>1. Init => astray \in BOOLEAN
  BY DEF Init
<1>2. astray \in BOOLEAN /\ [Next]_vars => (astray \in BOOLEAN)'
  <2> SUFFICES ASSUME astray \in BOOLEAN, [Next]_vars  PROVE astray' \in BOOLEAN
    OBVIOUS
  <2>1. CASE Dots
    BY <2>1 DEF Dots, On
  <2>2. CASE Component
    BY <2>2 DEF Component, On, Return
  <2>3. CASE LastComponent
    BY <2>3 DEF LastComponent, Return
  <2>4. ASSUME NEW c \in Calls, path_lookup(c)  PROVE astray' \in BOOLEAN
    BY <2>4 DEF path_lookup
  <2>5. CASE Stray \/ UNCHANGED vars
    BY <2>5 DEF Stray, vars
  <2> QED BY <2>1, <2>2, <2>3, <2>4, <2>5 DEF Next
<1> QED BY <1>1, <1>2, PTL DEF Spec

\* A path leads where it leads in the tree: from the initial state, and at every step.
THEOREM NamespaceCorrect == Spec /\ []Orderly /\ [][KeepsUsed]_vars => ImplementsNamespace
<1>1. Init /\ Orderly => Names!Init
  <2>1. SUFFICES ASSUME Init, Orderly  PROVE Names!Init
    OBVIOUS
  <2>2. Mounted(dentry) /\ pwd.dentry = root_dentry
    BY <2>1, InitInv DEF Init, IInv, Sound
  <2> QED BY <2>1, <2>2 DEF Init, Names!Init, Mounted
<1>2. IInv /\ Orderly /\ Orderly' /\ [KeepsUsed]_vars /\ [Next]_vars => [Names!Next]_(Names!vars)
  BY NextInv
<1> QED BY <1>1, <1>2, Invariant, PTL DEF Spec, ImplementsNamespace, Names!Spec

\* The references by which dentries are put out are counted: a directory has at least one
\* for each dentry in it and for a walk that is there.
THEOREM PathCorrect == Spec /\ []Orderly /\ [][KeepsUsed]_vars => []PathInv
<1>1. ASSUME IInv, astray \in BOOLEAN  PROVE TypeOK
  BY <1>1 DEF IInv, Sound, Typed, TypeOK
<1>2. ASSUME IInv  PROVE HeldByChildren
  <2>1. SUFFICES ASSUME NEW d \in cache
                 PROVE  Cardinality(ChildrenOf(dentry, cache, d))
                          + (IF Walking /\ nd.dentry = d THEN 1 ELSE 0) <= dentry[d].d_count
    BY DEF HeldByChildren, ChildrenOf
  <2>2. /\ Counted(dentry, cache, Refs) /\ Mounted(dentry) /\ Parented(dentry, cache)
        /\ dentry \in [Address -> Dentries] /\ cache \in SUBSET Address
        /\ Walking => Stands(dentry, cache, nd.dentry, nd.mnt)
    BY <1>2 DEF IInv, Sound, Typed
  <2>3. d \in Address /\ dentry[d].d_count \in Nat
    BY <2>2, PathWalkAssumption DEF Dentries
  <2>4. Cardinality(ChildrenOf(dentry, cache, d)) \in Nat
    BY <2>2, ChildrenFinite
  <2>5. CASE dentry[d].d_inode \in Dir
    <3>1. Cardinality(ChildrenOf(dentry, cache, d)) + Refs[d] <= dentry[d].d_count
      BY <2>2, <2>5 DEF Counted
    <3>2. MountRefs \in [Address -> Nat]
      BY DEF MountRefs
    <3>3. Refs[d] \in Nat /\ (Walking /\ nd.dentry = d => Refs[d] >= 1)
      BY <2>3, <3>2 DEF Refs, Plus
    <3> QED BY <2>3, <2>4, <3>1, <3>3
  <2>6. CASE dentry[d].d_inode \notin Dir
    <3>1. \A i \in cache : dentry[i].d_parent # d
      BY <2>2, <2>3, <2>6, Places DEF Parented, Mounted, Roots
    <3>2. ChildrenOf(dentry, cache, d) = {}
      BY <3>1 DEF ChildrenOf
    <3>3. ~(Walking /\ nd.dentry = d)
      BY <2>2, <2>6 DEF Stands
    <3> QED BY <2>3, <3>2, <3>3, FS_EmptySet
  <2> QED BY <2>5, <2>6
<1>3. IInv /\ astray \in BOOLEAN => PathInv
  BY <1>1, <1>2 DEF PathInv
<1> QED BY <1>3, Invariant, AstrayType, PTL

\* No dentry that is reached was freed.
THEOREM ReachedCorrect == Spec /\ []Orderly /\ [][KeepsUsed]_vars => []ReachedAreCached
<1>1. ASSUME IInv  PROVE ReachedAreCached
  <2>1. /\ Fixed \subseteq cache /\ Mounted(dentry) /\ Parented(dentry, cache)
        /\ Stands(dentry, cache, pwd.dentry, pwd.mnt)
        /\ Walking => Stands(dentry, cache, nd.dentry, nd.mnt)
    BY <1>1 DEF IInv, Sound, Typed
  <2>2. \A i \in cache : dentry[i].d_parent # None => dentry[i].d_parent \in cache
    BY <2>1 DEF Parented, Mounted, Roots
  <2> QED BY <2>1, <2>2 DEF ReachedAreCached, PwdIsCached, Stands, Fixed
<1> QED BY <1>1, Invariant, PTL

\* What the cache says of a name is what is on the disk.
THEOREM CacheCorrect == Spec /\ []Orderly /\ [][KeepsUsed]_vars => []CacheTellsTheDisk
<1>1. ASSUME IInv  PROVE CacheTellsTheDisk
  <2>1. /\ Told(dentry, cache, deleted) /\ NameOnce(dentry, cache) /\ Mounted(dentry)
        /\ Parented(dentry, cache) /\ cache \subseteq Address
    BY <1>1 DEF IInv, Sound, Typed
  <2>2. ASSUME NEW i \in cache \ Fixed
        PROVE  /\ \A j \in cache : dentry[i].d_parent = dentry[j].d_parent
                                     /\ dentry[i].d_name = dentry[j].d_name => i = j
               /\ dentry[i].d_inode
                    = inode_lookup(dentry[dentry[i].d_parent].d_inode, dentry[i].d_name)
    <3>1. i \in cache \ Roots /\ dentry[i].d_parent # None
      BY <2>1, Places DEF Parented
    <3>2. \A j \in Roots : dentry[j].d_parent = None
      BY <2>1 DEF Mounted, Roots
    <3> QED BY <2>1, <3>1, <3>2 DEF NameOnce, Told, inode_lookup
  <2> QED BY <2>2 DEF CacheTellsTheDisk, Fixed
<1> QED BY <1>1, Invariant, PTL
================================================================================
