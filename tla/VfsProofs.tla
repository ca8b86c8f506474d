------------------------------ MODULE VfsProofs ------------------------------
(***************************************************************************)
(* Proofs about Vfs, for any number of inodes and mounts and any paths.    *)
(*                                                                         *)
(* Where a path leads plays no part: every operation tests what it has     *)
(* come to.  What the tree needs is that no name leads to a free inode,    *)
(* for else the next inode that is made would have a name already.         *)
(***************************************************************************)
EXTENDS Vfs, TLAPS, FiniteSetTheorems, NaturalsInduction, WellFoundedInduction

\* A tree as RamDir keeps it.
IsNode(x) == x = [kind |-> x.kind, kids |-> x.kids, data |-> x.data, target |-> x.target]
Nodes(n) == n = [i \in Ram |-> n[i]] /\ \A i \in Ram : IsNode(n[i])
Named(n, d, c) == d \in Ram /\ c \in DOMAIN n[d].kids
Linked(n) == \A d \in Ram : \A c \in DOMAIN n[d].kids :
               n[d].kids[c] \in Ram \ {Root} /\ n[n[d].kids[c]] # Free
OnlyDirs(n) == n[Root].kind = "dir" /\ \A i \in Ram : n[i].kind # "dir" => DOMAIN n[i].kids = {}
OneName(n) == \A d, e \in Ram : \A c \in DOMAIN n[d].kids, b \in DOMAIN n[e].kids :
                n[d].kids[c] = n[e].kids[b] => d = e /\ c = b
TreeInv(n) == Nodes(n) /\ Linked(n) /\ OnlyDirs(n) /\ OneName(n)
-----------------------------------------------------------------------------
\* A set of numbers that is not empty has a least element.
LEMMA Least ==
  ASSUME NEW T, T \subseteq Nat, T # {}
  PROVE  \E n \in T : \A m \in T : n <= m
<1>1. OpToRel(<, Nat) = {ss \in Nat \X Nat : ss[1] < ss[2]}
  BY Zenon DEF OpToRel
<1>2. \E n \in T : \A m \in T : ~(<<m, n>> \in OpToRel(<, Nat))
  BY WFMin, NatLessThanWellFounded, Zenon
<1>3. PICK n \in T : \A m \in T : ~(<<m, n>> \in {ss \in Nat \X Nat : ss[1] < ss[2]})
  BY <1>1, <1>2, Zenon
<1>4. ASSUME NEW m \in T, m < n PROVE FALSE
  <2>1. <<m, n>> \in Nat \X Nat /\ <<m, n>>[1] = m /\ <<m, n>>[2] = n
    BY Zenon
  <2>2. <<m, n>> \in {ss \in Nat \X Nat : ss[1] < ss[2]}
    BY <1>4, <2>1, Zenon
  <2> QED BY <1>3, <2>2, Zenon
<1>5. ASSUME NEW m \in T PROVE n <= m
  BY <1>4
<1> QED BY <1>5, Zenon

LEMMA MinFacts ==
  ASSUME NEW T, T \subseteq Nat, T # {}
  PROVE  Min(T) \in T /\ \A m \in T : Min(T) <= m
BY Least, Zenon DEF Min
-----------------------------------------------------------------------------
(***************************************************************************)
(* What the operators on trees do.                                         *)
(***************************************************************************)
\* The node that stands for an inode that was freed.
LEMMA FreeNode ==
  /\ IsNode(Free) /\ Free.kind = "free" /\ DOMAIN Free.kids = {}
BY DEF Free, IsNode

\* Reach is closed, holds what it starts from, and is the least such set.
LEMMA ReachFacts ==
  ASSUME NEW n, NEW from
  PROVE  /\ Reach(n, from) \subseteq Ram
         /\ \A i \in from \cap Ram : i \in Reach(n, from)
         /\ \A S \in SUBSET Ram : from \cap Ram \subseteq S /\ Closed(n, S) => Reach(n, from) \subseteq S
BY Zenon DEF Reach

LEMMA ReachClosed ==
  ASSUME NEW n, NEW from, Linked(n)
  PROVE  \A i \in Reach(n, from) : \A c \in DOMAIN n[i].kids : n[i].kids[c] \in Reach(n, from)
<1> SUFFICES ASSUME NEW i \in Reach(n, from), NEW c \in DOMAIN n[i].kids
             PROVE  n[i].kids[c] \in Reach(n, from)
  BY Zenon
<1>1. i \in Ram
  BY Zenon DEF Reach
<1>2. n[i].kids[c] \in Ram
  BY <1>1, Zenon DEF Linked
<1>3. ASSUME NEW S \in SUBSET Ram, from \cap Ram \subseteq S, Closed(n, S) PROVE n[i].kids[c] \in S
  <2>1. i \in S
    BY <1>3, Zenon DEF Reach
  <2> QED
    BY <1>3, <2>1, Zenon DEF Closed
<1> QED
  BY <1>2, <1>3, Zenon DEF Reach

\* Insert, Without and the node of a new inode, at every inode.
LEMMA InsertFacts ==
  ASSUME NEW n, Nodes(n), NEW dir \in Ram, NEW name, NEW i
  PROVE  LET m == Insert(n, dir, name, i)
         IN /\ Nodes(m)
            /\ \A d \in Ram : m[d].kind = n[d].kind
            /\ \A d \in Ram \ {dir} : m[d] = n[d]
            /\ DOMAIN m[dir].kids = DOMAIN n[dir].kids \cup {name}
            /\ m[dir].kids[name] = i
            /\ \A c \in DOMAIN n[dir].kids \ {name} : m[dir].kids[c] = n[dir].kids[c]
<1> DEFINE m == Insert(n, dir, name, i)
           k == [c \in DOMAIN n[dir].kids \cup {name} |-> IF c = name THEN i ELSE n[dir].kids[c]]
<1>1. /\ DOMAIN k = DOMAIN n[dir].kids \cup {name}
      /\ k[name] = i
      /\ \A c \in DOMAIN n[dir].kids \ {name} : k[c] = n[dir].kids[c]
  BY Zenon
<1>2. m = [d \in Ram |-> IF d = dir THEN [n[d] EXCEPT !.kids = k] ELSE n[d]]
  BY Zenon DEF Insert, Nodes
<1>3. m[dir] = [n[dir] EXCEPT !.kids = k]
  BY <1>2, Zenon
<1>4. n[dir] = [kind |-> n[dir].kind, kids |-> n[dir].kids, data |-> n[dir].data, target |-> n[dir].target]
  BY Zenon DEF Nodes, IsNode
<1> HIDE DEF k, m
<1>5. m[dir].kids = k /\ m[dir].kind = n[dir].kind /\ IsNode(m[dir])
  BY <1>3, <1>4, Zenon DEF IsNode
<1>6. \A d \in Ram \ {dir} : m[d] = n[d]
  BY <1>2, Zenon
<1>7. Nodes(m)
  BY <1>2, <1>5, <1>6, Zenon DEF Nodes
<1> QED
  BY <1>1, <1>5, <1>6, <1>7, Zenon DEF m

LEMMA WithoutFacts ==
  ASSUME NEW n, Nodes(n), NEW dir \in Ram, NEW name
  PROVE  LET m == Without(n, dir, name)
         IN /\ Nodes(m)
            /\ \A d \in Ram : m[d].kind = n[d].kind
            /\ \A d \in Ram \ {dir} : m[d] = n[d]
            /\ DOMAIN m[dir].kids = DOMAIN n[dir].kids \ {name}
            /\ \A c \in DOMAIN n[dir].kids \ {name} : m[dir].kids[c] = n[dir].kids[c]
<1> DEFINE m == Without(n, dir, name)
           k == [c \in DOMAIN n[dir].kids \ {name} |-> n[dir].kids[c]]
<1>1. /\ DOMAIN k = DOMAIN n[dir].kids \ {name}
      /\ \A c \in DOMAIN n[dir].kids \ {name} : k[c] = n[dir].kids[c]
  BY Zenon
<1>2. m = [d \in Ram |-> IF d = dir THEN [n[d] EXCEPT !.kids = k] ELSE n[d]]
  BY Zenon DEF Without, Nodes
<1>3. m[dir] = [n[dir] EXCEPT !.kids = k]
  BY <1>2, ZenonT(30)
<1>4. n[dir] = [kind |-> n[dir].kind, kids |-> n[dir].kids, data |-> n[dir].data, target |-> n[dir].target]
  BY Zenon DEF Nodes, IsNode
<1> HIDE DEF k, m
<1>5. m[dir].kids = k /\ m[dir].kind = n[dir].kind /\ IsNode(m[dir])
  BY <1>3, <1>4, Zenon DEF IsNode
<1>6. \A d \in Ram \ {dir} : m[d] = n[d]
  BY <1>2, Zenon
<1>7. Nodes(m)
  BY <1>2, <1>5, <1>6, Zenon DEF Nodes
<1> QED
  BY <1>1, <1>5, <1>6, <1>7, Zenon DEF m

\* What Become leaves of a tree: some inodes are as they were, the others free,
\* and those have no names.
LEMMA BecomeFacts ==
  ASSUME NEW n, NEW at, TreeInv(n), Become(n, at)
  PROVE  TreeInv(node')
<1> DEFINE R == Reach(n, {Root, at})
<1>1. R \subseteq Ram /\ Root \in R
  <2>1. Root \in {Root, at} \cap Ram
    BY VfsAssumption DEF Root, Ram
  <2> QED
    BY <2>1, ReachFacts, Zenon
<1>2. \A i \in R : \A c \in DOMAIN n[i].kids : n[i].kids[c] \in R
  BY ReachClosed, Zenon DEF TreeInv
<1>3. node' = [i \in Ram |-> IF i \in R THEN n[i] ELSE Free]
  BY Zenon DEF Become
<1> HIDE DEF R
<1>4. \A i \in R : node'[i] = n[i]
  BY <1>1, <1>3, Zenon
<1>5. \A i \in Ram \ R : node'[i] = Free
  BY <1>3, Zenon
<1>6. \A i \in Ram : \A c \in DOMAIN node'[i].kids : i \in R
  BY <1>5, FreeNode, Zenon
<1>7. Nodes(node')
  BY <1>1, <1>3, <1>4, <1>5, FreeNode, Zenon DEF TreeInv, Nodes
<1>8. Linked(node')
  BY <1>1, <1>2, <1>4, <1>6, ZenonT(60) DEF TreeInv, Linked
<1>9. OnlyDirs(node')
  BY <1>1, <1>4, <1>5, FreeNode, Zenon DEF TreeInv, OnlyDirs
<1>10. OneName(node')
  BY <1>1, <1>4, <1>6 DEF TreeInv, OneName
<1> QED
  BY <1>7, <1>8, <1>9, <1>10, Zenon DEF TreeInv

\* alloc_ino gives a number without a node.
LEMMA FreshFacts ==
  ASSUME NEW n, HasFresh(n)
  PROVE  Fresh(n) \in Ram /\ n[Fresh(n)] = Free
<1> DEFINE T == {i \in Ram : n[i] = Free}
<1>1. T \subseteq Nat /\ T # {}
  BY VfsAssumption DEF HasFresh, Ram
<1>2. Min(T) \in T
  BY <1>1, MinFacts, Zenon
<1> QED
  BY <1>2, Zenon DEF Fresh

\* A new inode with a name of its own keeps a tree a tree.
Leaf(x) == IsNode(x) /\ x # Free /\ DOMAIN x.kids = {}

LEMMA NewNode ==
  ASSUME NEW n, TreeInv(n), NEW f \in Ram, n[f] = Free, NEW new, Leaf(new)
  PROVE  LET m == [n EXCEPT ![f] = new]
         IN /\ TreeInv(m) /\ f # Root /\ m[f] # Free
            /\ \A i \in Ram \ {f} : m[i] = n[i]
            /\ \A i \in Ram : DOMAIN m[i].kids = DOMAIN n[i].kids
            /\ \A d \in Ram : \A c \in DOMAIN m[d].kids : m[d].kids[c] # f
<1> DEFINE m == [n EXCEPT ![f] = new]
<1>0. Root \in Ram
  BY VfsAssumption DEF Root, Ram
<1>1. m = [i \in Ram |-> IF i = f THEN new ELSE n[i]]
  BY Zenon DEF TreeInv, Nodes
<1>2. m[f] = new /\ \A i \in Ram \ {f} : m[i] = n[i]
  BY <1>1, Zenon
<1>3. f # Root
  BY FreeNode, Zenon DEF TreeInv, OnlyDirs
<1> HIDE DEF m
<1>4. \A i \in Ram : DOMAIN m[i].kids = DOMAIN n[i].kids
  BY <1>2, FreeNode, Zenon DEF Leaf
<1>5. \A d \in Ram : \A c \in DOMAIN n[d].kids : d # f /\ n[d].kids[c] # f
  BY FreeNode, Zenon DEF TreeInv, Linked
<1>6. \A d \in Ram : \A c \in DOMAIN m[d].kids : m[d].kids[c] = n[d].kids[c] /\ m[d].kids[c] # f
  BY <1>2, <1>4, <1>5, Zenon
<1>7. Nodes(m)
  BY <1>1, <1>2, Zenon DEF TreeInv, Nodes, Leaf
<1>8. Linked(m)
  BY <1>2, <1>4, <1>6 DEF TreeInv, Linked
<1>9. OnlyDirs(m)
  BY <1>0, <1>2, <1>3, <1>4, ZenonT(60) DEF TreeInv, OnlyDirs, Leaf
<1>10. OneName(m)
  BY <1>4, <1>6 DEF TreeInv, OneName
<1> QED
  BY <1>2, <1>3, <1>4, <1>6, <1>7, <1>8, <1>9, <1>10, ZenonT(30) DEF m, TreeInv, Leaf

\* An inode without a name gets one, which may have been another's.
LEMMA InsertTree ==
  ASSUME NEW n, TreeInv(n), NEW dir \in Ram, n[dir].kind = "dir", NEW name,
         NEW i \in Ram \ {Root}, n[i] # Free,
         \A d \in Ram : \A c \in DOMAIN n[d].kids : n[d].kids[c] # i
  PROVE  TreeInv(Insert(n, dir, name, i))
<1> DEFINE m == Insert(n, dir, name, i)
<1>0. Root \in Ram
  BY VfsAssumption DEF Root, Ram
<1>1. /\ Nodes(m)
      /\ \A d \in Ram : m[d].kind = n[d].kind
      /\ \A d \in Ram \ {dir} : m[d] = n[d]
      /\ DOMAIN m[dir].kids = DOMAIN n[dir].kids \cup {name}
      /\ m[dir].kids[name] = i
      /\ \A c \in DOMAIN n[dir].kids \ {name} : m[dir].kids[c] = n[dir].kids[c]
  BY InsertFacts DEF TreeInv
<1> HIDE DEF m
<1>2. \A d \in Ram : \A c \in DOMAIN m[d].kids :
        \/ d = dir /\ c = name /\ m[d].kids[c] = i
        \/ c \in DOMAIN n[d].kids /\ m[d].kids[c] = n[d].kids[c] /\ m[d].kids[c] # i
  BY <1>1
<1>3. \A j \in Ram : n[j] # Free => m[j] # Free
  BY <1>1, FreeNode, ZenonT(60)
<1>4. Linked(m)
  BY <1>2, <1>3 DEF TreeInv, Linked
<1>5. OnlyDirs(m)
  BY <1>0, <1>1, ZenonT(60) DEF TreeInv, OnlyDirs
<1>6. OneName(m)
  BY <1>2 DEF TreeInv, OneName
<1> QED
  BY <1>1, <1>4, <1>5, <1>6, Zenon DEF TreeInv, m

\* A name less.
LEMMA WithoutTree ==
  ASSUME NEW n, TreeInv(n), NEW dir \in Ram, n[dir].kind = "dir", NEW name
  PROVE  /\ TreeInv(Without(n, dir, name))
         /\ \A j \in Ram : n[j] # Free => Without(n, dir, name)[j] # Free
<1> DEFINE m == Without(n, dir, name)
<1>0. Root \in Ram
  BY VfsAssumption DEF Root, Ram
<1>1. /\ Nodes(m)
      /\ \A d \in Ram : m[d].kind = n[d].kind
      /\ \A d \in Ram \ {dir} : m[d] = n[d]
      /\ DOMAIN m[dir].kids = DOMAIN n[dir].kids \ {name}
      /\ \A c \in DOMAIN n[dir].kids \ {name} : m[dir].kids[c] = n[dir].kids[c]
  BY WithoutFacts DEF TreeInv
<1> HIDE DEF m
<1>2. \A d \in Ram : \A c \in DOMAIN m[d].kids :
        c \in DOMAIN n[d].kids /\ m[d].kids[c] = n[d].kids[c]
  BY <1>1, Zenon
<1>3. \A j \in Ram : n[j] # Free => m[j] # Free
  BY <1>1, FreeNode, Zenon
<1>4. Linked(m)
  BY <1>2, <1>3 DEF TreeInv, Linked
<1>5. OnlyDirs(m)
  BY <1>0, <1>1, Zenon DEF TreeInv, OnlyDirs
<1>6. OneName(m)
  BY <1>2 DEF TreeInv, OneName
<1> QED
  BY <1>1, <1>3, <1>4, <1>5, <1>6, Zenon DEF TreeInv, m

\* RamDir::create, mkdir and symlink.
LEMMA AddTree ==
  ASSUME NEW n, TreeInv(n), NEW dir, NEW name, CanAdd(n, dir, name), NEW new, Leaf(new)
  PROVE  TreeInv(Add(n, dir, name, new))
<1> DEFINE f == Fresh(n)
           m == [n EXCEPT ![f] = new]
<1>1. dir \in Ram /\ n[dir].kind = "dir" /\ f \in Ram /\ n[f] = Free
  BY FreshFacts, Zenon DEF CanAdd, IsRamDir
<1> HIDE DEF f
<1>2. /\ TreeInv(m) /\ f # Root /\ m[f] # Free
      /\ \A i \in Ram \ {f} : m[i] = n[i]
      /\ \A d \in Ram : \A c \in DOMAIN m[d].kids : m[d].kids[c] # f
  BY <1>1, NewNode
<1>3. dir # f
  BY <1>1, FreeNode, Zenon
<1> HIDE DEF m
<1>4. TreeInv(Insert(m, dir, name, f))
  BY <1>1, <1>2, <1>3, InsertTree, Zenon
<1> QED
  BY <1>4, Zenon DEF Add, f, m

LEMMA NewLeaves ==
  /\ Leaf(Dir(<<>>))
  /\ \A data : Leaf(File(data))
  /\ \A target : Leaf(Link(target))
BY DEF Leaf, Dir, File, Link, IsNode, Free

LEMMA AddAtTree ==
  ASSUME TreeInv(node), NEW path, NEW new, Leaf(new), AddAt(path, new)
  PROVE  TreeInv(node')
<1>1. TreeInv(Add(node, ResolveParent(path), LastName(path), new))
  BY AddTree, Zenon DEF AddAt
<1> QED
  BY <1>1, BecomeFacts, Zenon DEF AddAt

\* What a lookup in ramfs finds.
LEMMA LookupFacts ==
  ASSUME NEW dir \in Ram, NEW name, Lookup(dir, name) \in Ram
  PROVE  /\ node[dir].kind = "dir" /\ name \in DOMAIN node[dir].kids
         /\ Lookup(dir, name) = node[dir].kids[name]
BY VfsAssumption DEF Lookup, LookupIn, IsDir, NodeOf, ENOTDIR, ENOENT, Ram

LEMMA RenameTree ==
  ASSUME TreeInv(node), NEW p, NEW q, Rename(p, q)
  PROVE  TreeInv(node')
<1> DEFINE from == ResolveParent(p)
           to == ResolveParent(q)
           a == LastName(p)
           i == Lookup(from, a)
           m == Without(node, from, a)
<1>1. /\ from \in Ram /\ i \in Ram
      /\ Become(IF IsRamDir(node, to) THEN Insert(m, to, LastName(q), i) ELSE m, cwd)
  BY Zenon DEF Rename
<1> HIDE DEF from, to, a
<1>2. node[from].kind = "dir" /\ a \in DOMAIN node[from].kids /\ i = node[from].kids[a]
  BY <1>1, LookupFacts, Zenon
<1> HIDE DEF i
<1>3. i # Root /\ node[i] # Free
  BY <1>1, <1>2, Zenon DEF TreeInv, Linked
<1>4. TreeInv(m) /\ m[i] # Free
  BY <1>1, <1>2, <1>3, WithoutTree, Zenon
<1>5. /\ \A d \in Ram : m[d].kind = node[d].kind
      /\ \A d \in Ram \ {from} : m[d] = node[d]
      /\ DOMAIN m[from].kids = DOMAIN node[from].kids \ {a}
      /\ \A c \in DOMAIN node[from].kids \ {a} : m[from].kids[c] = node[from].kids[c]
  BY <1>1, WithoutFacts DEF TreeInv
<1> HIDE DEF m
<1>6. \A d \in Ram : \A c \in DOMAIN m[d].kids : m[d].kids[c] # i
  BY <1>1, <1>2, <1>5 DEF TreeInv, OneName
<1>7. CASE IsRamDir(node, to)
  <2>1. to \in Ram /\ m[to].kind = "dir"
    BY <1>7, <1>5, Zenon DEF IsRamDir
  <2>2. TreeInv(Insert(m, to, LastName(q), i))
    BY <1>1, <1>3, <1>4, <1>6, <2>1, InsertTree, Zenon
  <2> QED
    BY <1>1, <1>7, <2>2, BecomeFacts, Zenon
<1>8. CASE ~IsRamDir(node, to)
  BY <1>1, <1>4, <1>8, BecomeFacts, Zenon
<1> QED
  BY <1>7, <1>8, Zenon

\* Unlink and Rmdir.
LEMMA RemoveTree ==
  ASSUME TreeInv(node), NEW dir \in Ram, NEW name, Lookup(dir, name) \in Ram, RemoveEntry(dir, name)
  PROVE  TreeInv(node')
BY LookupFacts, WithoutTree, BecomeFacts, ZenonT(30) DEF RemoveEntry

LEMMA WriteFileTree ==
  ASSUME TreeInv(node), NEW p, NEW buf, WriteFile(p, buf)
  PROVE  TreeInv(node')
<1> DEFINE i == Resolve(p)
           data == Write(Truncate(node[i].data, 0), 0, buf)
<1>1. CASE i \in Ram /\ node[i].kind = "file" /\ node' = [node EXCEPT ![i].data = data]
  <2> HIDE DEF i, data
  <2>1. node' = [j \in Ram |-> IF j = i THEN [node[j] EXCEPT !.data = data] ELSE node[j]]
    BY <1>1, Zenon DEF TreeInv, Nodes
  <2>2. node[i] = [kind |-> node[i].kind, kids |-> node[i].kids, data |-> node[i].data, target |-> node[i].target]
    BY <1>1, Zenon DEF TreeInv, Nodes, IsNode
  <2>3. node'[i].kids = node[i].kids /\ node'[i].kind = node[i].kind /\ IsNode(node'[i])
    BY <1>1, <2>1, <2>2, ZenonT(30) DEF IsNode
  <2>4. \A j \in Ram : node'[j].kids = node[j].kids /\ node'[j].kind = node[j].kind
    BY <2>1, <2>3, Zenon
  <2>5. \A j \in Ram : node[j] # Free => node'[j] # Free
    BY <1>1, <2>1, <2>3, FreeNode, Zenon
  <2>6. Nodes(node')
    BY <2>1, <2>3, ZenonT(30) DEF TreeInv, Nodes
  <2>7. Linked(node')
    BY <2>4, <2>5, ZenonT(60) DEF TreeInv, Linked
  <2>8. OnlyDirs(node')
    BY <2>4, VfsAssumption DEF TreeInv, OnlyDirs, Root, Ram
  <2>9. OneName(node')
    BY <2>4 DEF TreeInv, OneName
  <2> QED
    BY <2>6, <2>7, <2>8, <2>9, Zenon DEF TreeInv
<1>2. CASE AddAt(MakeAbsolute(p), File(Write(<<>>, 0, buf)))
  BY <1>2, AddAtTree, NewLeaves, Zenon
<1> QED
  BY <1>1, <1>2, Zenon DEF WriteFile
-----------------------------------------------------------------------------
(***************************************************************************)
(* mkdir_p, one component after the other.                                 *)
(***************************************************************************)
\* All names of n are names of m.
Grown(n, m) == \A d \in Ram : \A c \in DOMAIN n[d].kids :
                 c \in DOMAIN m[d].kids /\ m[d].kids[c] = n[d].kids[c]

LEMMA AddGrows ==
  ASSUME NEW n, TreeInv(n), NEW dir, NEW name, CanAdd(n, dir, name), NEW new, Leaf(new)
  PROVE  Grown(n, Add(n, dir, name, new))
<1> DEFINE f == Fresh(n)
           m == [n EXCEPT ![f] = new]
           a == Insert(m, dir, name, f)
<1>1. /\ dir \in Ram /\ n[dir].kind = "dir" /\ f \in Ram /\ n[f] = Free
      /\ name \notin DOMAIN n[dir].kids
  BY FreshFacts, Zenon DEF CanAdd, IsRamDir
<1> HIDE DEF f
<1>2. /\ TreeInv(m) /\ \A i \in Ram \ {f} : m[i] = n[i]
      /\ \A i \in Ram : DOMAIN m[i].kids = DOMAIN n[i].kids
  BY <1>1, NewNode
<1>3. DOMAIN n[f].kids = {}
  BY <1>1, FreeNode, Zenon
<1> HIDE DEF m
<1>4. /\ \A d \in Ram \ {dir} : a[d] = m[d]
      /\ DOMAIN a[dir].kids = DOMAIN m[dir].kids \cup {name}
      /\ \A c \in DOMAIN m[dir].kids \ {name} : a[dir].kids[c] = m[dir].kids[c]
  BY <1>1, <1>2, InsertFacts DEF TreeInv
<1> HIDE DEF a
<1>5. Grown(n, a)
  BY <1>1, <1>2, <1>3, <1>4, ZenonT(60) DEF Grown
<1> QED
  BY <1>5, Zenon DEF Add, f, m, a

\* What holds of the tree before a component holds after it.
LEMMA MkdirStepTree ==
  ASSUME NEW n, NEW s, NEW c, s = [n |-> s.n, at |-> s.at], TreeInv(s.n), Grown(n, s.n)
  PROVE  LET t == MkdirStep(s, c)
         IN t = [n |-> t.n, at |-> t.at] /\ TreeInv(t.n) /\ Grown(n, t.n)
<1> DEFINE t == MkdirStep(s, c)
           a == Add(s.n, s.at, c, Dir(<<>>))
<1>1. ASSUME CanAdd(s.n, s.at, c) PROVE TreeInv(a) /\ Grown(n, a)
  <2>1. TreeInv(a) /\ Grown(s.n, a)
    BY <1>1, AddTree, AddGrows, NewLeaves, Zenon
  <2> QED
    BY <2>1, ZenonT(60) DEF Grown
<1> HIDE DEF a
<1> DEFINE next == LookupIn(s.n, s.at, c)
           to == IF IsDir(s.n, next) THEN next ELSE ENOTDIR
<1>2. t = CASE s.at < 0 -> s
            [] s.at > 0 /\ next > 0 -> [s EXCEPT !.at = to]
            [] s.at > 0 /\ next < 0 /\ CanAdd(s.n, s.at, c) -> [n |-> a, at |-> Fresh(s.n)]
            [] OTHER -> [s EXCEPT !.at = next]
  BY Zenon DEF MkdirStep, a
<1> HIDE DEF t, next, to
<1>3. \/ t = s \/ t = [s EXCEPT !.at = to] \/ t = [s EXCEPT !.at = next]
      \/ CanAdd(s.n, s.at, c) /\ t = [n |-> a, at |-> Fresh(s.n)]
  BY <1>2
<1>4. \/ t = [n |-> t.n, at |-> t.at] /\ t.n = s.n
      \/ t = [n |-> t.n, at |-> t.at] /\ CanAdd(s.n, s.at, c) /\ t.n = a
  BY <1>3
<1> QED
  BY <1>1, <1>4, Zenon DEF t

\* g is the trace of the loop over the first k components.
Walked(g, s, cs, k) == g = [i \in 0..k |-> IF i = 0 THEN s ELSE MkdirStep(g[i - 1], cs[i])]

\* The recursion of MkdirP defines such a trace.
LEMMA WalkExists ==
  ASSUME NEW s, NEW cs, NEW N \in Nat
  PROVE  \E g : Walked(g, s, cs, N)
<1> DEFINE T == {k \in Nat : ~\E g : Walked(g, s, cs, k)}
<1> SUFFICES ASSUME T # {} PROVE FALSE
  BY Zenon
<1>1. PICK k \in T : \A m \in T : k <= m
  BY Least, Zenon
<1>2. CASE k = 0
  <2>1. Walked([i \in 0..0 |-> s], s, cs, 0)
    BY DEF Walked
  <2> QED
    BY <1>2, <2>1, Zenon
<1>3. CASE k # 0
  <2>1. k - 1 \in Nat /\ k - 1 \notin T
    BY <1>1, <1>3
  <2>2. PICK g : Walked(g, s, cs, k - 1)
    BY <2>1, Zenon
  <2> DEFINE h == [i \in 0..k |-> IF i = k THEN MkdirStep(g[k - 1], cs[k]) ELSE g[i]]
  <2>3. \A i \in 0..(k - 1) : g[i] = IF i = 0 THEN s ELSE MkdirStep(g[i - 1], cs[i])
    BY <2>1, <2>2, ZenonT(30) DEF Walked
  <2>4. \A i \in 0..k : h[i] = IF i = 0 THEN s ELSE MkdirStep(h[i - 1], cs[i])
    BY <1>3, <2>1, <2>3
  <2>5. h = [i \in 0..k |-> h[i]]
    BY Zenon
  <2> HIDE DEF h
  <2>6. Walked(h, s, cs, k)
    BY <2>4, <2>5, Zenon DEF Walked
  <2> QED
    BY <2>6, Zenon
<1> QED
  BY <1>2, <1>3, Zenon

LEMMA MkdirPTree ==
  ASSUME TreeInv(node), NEW p, Len(Components(p)) \in Nat
  PROVE  TreeInv(MkdirP(p)) /\ Grown(node, MkdirP(p))
<1> DEFINE cs == Components(p)
           N == Len(cs)
           s == [n |-> node, at |-> IF IsAbsolute(p) THEN Root ELSE cwd]
           g == CHOOSE g : Walked(g, s, cs, N)
           Good(x) == x = [n |-> x.n, at |-> x.at] /\ TreeInv(x.n) /\ Grown(node, x.n)
<1>0. N \in Nat
  BY Zenon
<1>1. MkdirP(p) = g[N].n
  BY Zenon DEF MkdirP, Walked
<1>2. Good(s)
  BY Zenon DEF Grown
<1>3. ASSUME NEW x, NEW c, Good(x) PROVE Good(MkdirStep(x, c))
  BY <1>3, MkdirStepTree, ZenonT(30)
<1> HIDE DEF s, cs, N, Good
<1>4. Walked(g, s, cs, N)
  BY <1>0, WalkExists, Zenon
<1> HIDE DEF g
<1>5. g[0] = s /\ \A k \in 1..N : g[k] = MkdirStep(g[k - 1], cs[k])
  BY <1>0, <1>4 DEF Walked
<1> DEFINE T == {k \in 0..N : ~Good(g[k])}
<1>6. T = {}
  <2> SUFFICES ASSUME T # {} PROVE FALSE
    BY Zenon
  <2>0. T \subseteq Nat
    BY <1>0
  <2>1. PICK k \in T : \A m \in T : k <= m
    BY <2>0, Least, Zenon
  <2>2. k # 0
    BY <1>2, <1>5, <2>1, Zenon
  <2>3. k \in 1..N /\ k - 1 \in 0..N /\ k - 1 \notin T
    BY <1>0, <2>1, <2>2
  <2>4. Good(MkdirStep(g[k - 1], cs[k]))
    BY <1>3, <2>3, Zenon
  <2> QED
    BY <1>5, <2>1, <2>3, <2>4, Zenon
<1>7. Good(g[N])
  BY <1>0, <1>6
<1> QED
  BY <1>1, <1>7, Zenon DEF Good
-----------------------------------------------------------------------------
(***************************************************************************)
(* Sequences: filter and retain, and the length of a path.                 *)
(***************************************************************************)
\* kept is what the recursion of Dropping makes of the first N members of s.
Filtered(kept, s, S, N) ==
  kept = [k \in 0..N |-> CASE k = 0 -> <<>>
                           [] k > 0 /\ s[k] \in S -> kept[k - 1]
                           [] OTHER -> Append(kept[k - 1], s[k])]

LEMMA FilteredSteps ==
  ASSUME NEW kept, NEW s, NEW S, NEW N \in Nat, Filtered(kept, s, S, N)
  PROVE  /\ kept[0] = <<>>
         /\ \A k \in 1..N : kept[k] = IF s[k] \in S THEN kept[k - 1] ELSE Append(kept[k - 1], s[k])
<1>1. \A k \in 0..N : kept[k] = CASE k = 0 -> <<>>
                                 [] k > 0 /\ s[k] \in S -> kept[k - 1]
                                 [] OTHER -> Append(kept[k - 1], s[k])
  BY Zenon DEF Filtered
<1> QED
  BY <1>1

LEMMA FilterExists ==
  ASSUME NEW s, NEW S, NEW N \in Nat
  PROVE  \E kept : Filtered(kept, s, S, N)
<1> DEFINE T == {k \in Nat : ~\E g : Filtered(g, s, S, k)}
<1> SUFFICES ASSUME T # {} PROVE FALSE
  BY Zenon
<1>1. PICK k \in T : \A m \in T : k <= m
  BY Least, Zenon
<1>2. CASE k = 0
  <2>1. Filtered([i \in 0..0 |-> <<>>], s, S, 0)
    BY DEF Filtered
  <2> QED
    BY <1>2, <2>1, ZenonT(30)
<1>3. CASE k # 0
  <2>1. k - 1 \in Nat /\ k - 1 \notin T
    BY <1>1, <1>3
  <2>2. PICK g : Filtered(g, s, S, k - 1)
    BY <2>1, Zenon
  <2> DEFINE x == IF s[k] \in S THEN g[k - 1] ELSE Append(g[k - 1], s[k])
             h == [i \in 0..k |-> IF i = k THEN x ELSE g[i]]
  <2>3. /\ g[0] = <<>>
        /\ \A i \in 1..(k - 1) : g[i] = IF s[i] \in S THEN g[i - 1] ELSE Append(g[i - 1], s[i])
    BY <2>1, <2>2, FilteredSteps
  <2>4. h[k] = x /\ \A i \in 0..(k - 1) : h[i] = g[i]
    BY <2>1
  <2>5. h = [i \in 0..k |-> h[i]]
    BY Zenon
  <2> HIDE DEF h
  <2>6. \A i \in 0..k : h[i] = CASE i = 0 -> <<>>
                                [] i > 0 /\ s[i] \in S -> h[i - 1]
                                [] OTHER -> Append(h[i - 1], s[i])
    <3> SUFFICES ASSUME NEW i \in 0..k
                 PROVE  h[i] = CASE i = 0 -> <<>>
                                 [] i > 0 /\ s[i] \in S -> h[i - 1]
                                 [] OTHER -> Append(h[i - 1], s[i])
      BY Zenon
    <3>1. CASE i = 0
      BY <3>1, <1>3, <2>1, <2>3, <2>4
    <3>2. CASE i \in 1..(k - 1)
      <4>1. h[i] = g[i] /\ h[i - 1] = g[i - 1]
        BY <3>2, <2>1, <2>4
      <4> QED
        BY <3>2, <4>1, <2>3
    <3>3. CASE i = k
      <4>1. h[k - 1] = g[k - 1]
        BY <2>1, <2>4
      <4> QED
        BY <3>3, <4>1, <2>4, <1>3
    <3> QED
      BY <3>1, <3>2, <3>3, <2>1
  <2>7. Filtered(h, s, S, k)
    BY <2>5, <2>6, Zenon DEF Filtered
  <2> QED
    BY <2>7, Zenon
<1> QED
  BY <1>2, <1>3, Zenon

\* What is left is a sequence, in the order of s.
InOrder(t, s, k) ==
  /\ \A i \in 1..Len(t) : \E x \in 1..k : t[i] = s[x]
  /\ \A i, j \in 1..Len(t) : i < j => \E x, y \in 1..k : x < y /\ t[i] = s[x] /\ t[j] = s[y]

LEMMA AppendInOrder ==
  ASSUME NEW A, NEW s \in Seq(A), NEW k \in 1..Len(s), NEW t \in Seq(A), InOrder(t, s, k - 1)
  PROVE  InOrder(t, s, k) /\ InOrder(Append(t, s[k]), s, k)
<1>1. InOrder(t, s, k)
  BY DEF InOrder
<1> DEFINE u == Append(t, s[k])
<1>2. Len(u) = Len(t) + 1 /\ u[Len(t) + 1] = s[k] /\ \A i \in 1..Len(t) : u[i] = t[i]
  OBVIOUS
<1> HIDE DEF u
<1>3. \A i \in 1..Len(u) : \E x \in 1..k : u[i] = s[x]
  <2>0. \A i \in 1..Len(t) : \E x \in 1..k : t[i] = s[x]
    BY <1>1, Zenon DEF InOrder
  <2>1. \A i \in 1..Len(t) : \E x \in 1..k : u[i] = s[x]
    BY <1>2, <2>0, Zenon
  <2>2. k \in 1..k /\ \A i \in 1..Len(u) : i \in 1..Len(t) \/ i = Len(t) + 1
    BY <1>2
  <2> QED
    BY <1>2, <2>1, <2>2, Zenon
<1>4. \A i, j \in 1..Len(u) : i < j => \E x, y \in 1..k : x < y /\ u[i] = s[x] /\ u[j] = s[y]
  <2> SUFFICES ASSUME NEW i \in 1..Len(u), NEW j \in 1..Len(u), i < j
               PROVE  \E x, y \in 1..k : x < y /\ u[i] = s[x] /\ u[j] = s[y]
    BY Zenon
  <2>1. CASE j <= Len(t)
    <3>1. i \in 1..Len(t) /\ j \in 1..Len(t) /\ u[i] = t[i] /\ u[j] = t[j]
      BY <2>1, <1>2
    <3> QED
      BY <3>1, <1>1 DEF InOrder
  <2>2. CASE j = Len(t) + 1
    <3>1. i \in 1..Len(t) /\ u[i] = t[i] /\ u[j] = s[k]
      BY <2>2, <1>2
    <3>2. PICK x \in 1..(k - 1) : t[i] = s[x]
      BY <3>1, Zenon DEF InOrder
    <3>3. x \in 1..k /\ k \in 1..k /\ x < k
      BY <3>2
    <3> QED
      BY <3>1, <3>2, <3>3, Zenon
  <2> QED
    BY <1>2, <2>1, <2>2, SMTT(30)
<1> QED
  BY <1>1, <1>3, <1>4, Zenon DEF InOrder, u

LEMMA DroppingFacts ==
  ASSUME NEW A, NEW s \in Seq(A), NEW S
  PROVE  Dropping(s, S) \in Seq(A) /\ InOrder(Dropping(s, S), s, Len(s))
<1> DEFINE N == Len(s)
           g == CHOOSE g : Filtered(g, s, S, N)
           Good(k) == g[k] \in Seq(A) /\ InOrder(g[k], s, k)
           T == {k \in 0..N : ~Good(k)}
<1>1. N \in Nat
  OBVIOUS
<1>2. Dropping(s, S) = g[N]
  BY Zenon DEF Dropping, Filtered
<1>3. Filtered(g, s, S, N)
  BY <1>1, FilterExists, Zenon
<1> HIDE DEF g
<1>4. /\ g[0] = <<>>
      /\ \A k \in 1..N : g[k] = IF s[k] \in S THEN g[k - 1] ELSE Append(g[k - 1], s[k])
  BY <1>1, <1>3, FilteredSteps
<1>5. Good(0)
  BY <1>4 DEF InOrder
<1>6. ASSUME NEW k \in 1..N, Good(k - 1) PROVE Good(k)
  <2>1. s[k] \in A
    OBVIOUS
  <2>2. InOrder(g[k - 1], s, k) /\ InOrder(Append(g[k - 1], s[k]), s, k)
    BY <1>6, AppendInOrder, Zenon
  <2>3. CASE s[k] \in S
    <3>1. g[k] = g[k - 1]
      BY <1>4, <2>3, Zenon
    <3> QED
      BY <1>6, <2>2, <3>1, Zenon
  <2>4. CASE s[k] \notin S
    <3>1. g[k] = Append(g[k - 1], s[k])
      BY <1>4, <2>4, ZenonT(30)
    <3>2. g[k] \in Seq(A)
      BY <1>6, <2>1, <3>1
    <3> QED
      BY <2>2, <3>1, <3>2, Zenon
  <2> QED
    BY <2>3, <2>4, Zenon
<1> HIDE DEF Good, N
<1>7. T = {}
  <2> SUFFICES ASSUME T # {} PROVE FALSE
    BY Zenon
  <2>0. T \subseteq Nat
    BY <1>1
  <2>1. PICK k \in T : \A m \in T : k <= m
    BY <2>0, Least, Zenon
  <2>2. k \in 1..N /\ k - 1 \in 0..N /\ k - 1 \notin T
    BY <1>1, <1>5, <2>1
  <2> QED
    BY <1>6, <2>1, <2>2, Zenon
<1>8. Good(N)
  BY <1>1, <1>7
<1> QED
  BY <1>2, <1>8, Zenon DEF Good, N

\* len counts the characters of the first N names of p, and the slashes.
Counted(len, p, N) ==
  len = [k \in 0..N |-> IF k = 0 THEN Len(p) - 1 ELSE len[k - 1] + NameLen(p[k])]

LEMMA CountExists ==
  ASSUME NEW p, NEW N \in Nat
  PROVE  \E len : Counted(len, p, N)
<1> DEFINE T == {k \in Nat : ~\E g : Counted(g, p, k)}
<1> SUFFICES ASSUME T # {} PROVE FALSE
  BY Zenon
<1>1. PICK k \in T : \A m \in T : k <= m
  BY Least, Zenon
<1>2. CASE k = 0
  <2>1. Counted([i \in 0..0 |-> Len(p) - 1], p, 0)
    BY DEF Counted
  <2> QED
    BY <1>2, <2>1, Zenon
<1>3. CASE k # 0
  <2>1. k - 1 \in Nat /\ k - 1 \notin T
    BY <1>1, <1>3
  <2>2. PICK g : Counted(g, p, k - 1)
    BY <2>1, Zenon
  <2> DEFINE x == g[k - 1] + NameLen(p[k])
             h == [i \in 0..k |-> IF i = k THEN x ELSE g[i]]
  <2>3. \A i \in 0..(k - 1) : g[i] = IF i = 0 THEN Len(p) - 1 ELSE g[i - 1] + NameLen(p[i])
    BY <2>1, <2>2, Zenon DEF Counted
  <2>4. h[k] = x /\ \A i \in 0..(k - 1) : h[i] = g[i]
    BY <2>1
  <2>5. h = [i \in 0..k |-> h[i]]
    BY Zenon
  <2> HIDE DEF h
  <2>6. \A i \in 0..k : h[i] = IF i = 0 THEN Len(p) - 1 ELSE h[i - 1] + NameLen(p[i])
    BY <1>3, <2>1, <2>3, <2>4
  <2>7. Counted(h, p, k)
    BY <2>5, <2>6, Zenon DEF Counted
  <2> QED
    BY <2>7, Zenon
<1> QED
  BY <1>2, <1>3, Zenon

\* What the loop has counted after k names.
LEMMA StrLenFacts ==
  ASSUME NEW p \in Seq(STRING)
  PROVE  \E len : /\ len[0] = Len(p) - 1 /\ StrLen(p) = len[Len(p)]
                  /\ \A k \in 0..Len(p) : len[k] \in Int
                  /\ \A k \in 1..Len(p) : len[k] = len[k - 1] + NameLen(p[k])
<1> DEFINE N == Len(p)
           g == CHOOSE g : Counted(g, p, N)
           T == {k \in 0..N : g[k] \notin Int}
<1>1. N \in Nat
  OBVIOUS
<1>2. StrLen(p) = g[N]
  BY Zenon DEF StrLen, Counted
<1>3. Counted(g, p, N)
  BY <1>1, CountExists, Zenon
<1> HIDE DEF g
<1>4. g[0] = N - 1 /\ \A k \in 1..N : g[k] = g[k - 1] + NameLen(p[k])
  BY <1>1, <1>3 DEF Counted
<1>5. \A c : NameLen(c) \in Nat
  BY Zenon DEF NameLen
<1> HIDE DEF N
<1>6. T = {}
  <2> SUFFICES ASSUME T # {} PROVE FALSE
    BY Zenon
  <2>0. T \subseteq Nat
    BY <1>1
  <2>1. PICK k \in T : \A m \in T : k <= m
    BY <2>0, Least, Zenon
  <2>2. k \in 1..N /\ k - 1 \in 0..N /\ k - 1 \notin T
    BY <1>1, <1>4, <2>1
  <2>3. g[k] = g[k - 1] + NameLen(p[k]) /\ g[k - 1] \in Int
    BY <1>4, <2>2, ZenonT(30)
  <2> QED
    BY <1>5, <2>1, <2>3
<1> QED
  BY <1>2, <1>4, <1>6, Zenon DEF N

\* A path is longer than what it begins with.
LEMMA PrefixShorter ==
  ASSUME NEW p \in Seq(STRING), NEW q \in Seq(STRING), Len(p) < Len(q),
         \A j \in 1..Len(p) : p[j] = q[j]
  PROVE  StrLen(p) \in Int /\ StrLen(q) \in Int /\ StrLen(p) < StrLen(q)
<1>1. PICK f : /\ f[0] = Len(p) - 1 /\ StrLen(p) = f[Len(p)]
               /\ \A k \in 0..Len(p) : f[k] \in Int
               /\ \A k \in 1..Len(p) : f[k] = f[k - 1] + NameLen(p[k])
  BY StrLenFacts, Zenon
<1>2. PICK g : /\ g[0] = Len(q) - 1 /\ StrLen(q) = g[Len(q)]
               /\ \A k \in 0..Len(q) : g[k] \in Int
               /\ \A k \in 1..Len(q) : g[k] = g[k - 1] + NameLen(q[k])
  BY StrLenFacts, Zenon
<1>3. \A c : NameLen(c) \in Nat
  BY Zenon DEF NameLen
<1>4. \A k \in 0..Len(p) : f[k] < g[k]
  <2> DEFINE T == {k \in 0..Len(p) : ~(f[k] < g[k])}
  <2> SUFFICES ASSUME T # {} PROVE FALSE
    BY Zenon
  <2>0. T \subseteq Nat
    OBVIOUS
  <2>1. PICK k \in T : \A m \in T : k <= m
    BY <2>0, Least, Zenon
  <2>2. k # 0
    BY <1>1, <1>2, <2>1
  <2>3. k \in 1..Len(p) /\ k - 1 \in 0..Len(p) /\ k - 1 \notin T
    BY <2>1, <2>2
  <2>4. f[k] = f[k - 1] + NameLen(p[k]) /\ g[k] = g[k - 1] + NameLen(q[k]) /\ p[k] = q[k]
    BY <1>1, <1>2, <2>3
  <2>5. f[k - 1] < g[k - 1] /\ f[k - 1] \in Int /\ g[k - 1] \in Int
    BY <1>1, <1>2, <2>3
  <2>6. f[k] < g[k]
    BY <1>3, <2>4, <2>5
  <2> QED
    BY <2>1, <2>6, Zenon
<1>5. \A k \in Len(p)..Len(q) : g[Len(p)] <= g[k]
  <2> DEFINE T == {k \in Len(p)..Len(q) : ~(g[Len(p)] <= g[k])}
  <2> SUFFICES ASSUME T # {} PROVE FALSE
    BY Zenon
  <2>0. T \subseteq Nat
    OBVIOUS
  <2>1. PICK k \in T : \A m \in T : k <= m
    BY <2>0, Least, ZenonT(30)
  <2>2. k # Len(p)
    BY <1>2, <2>1
  <2>3. k \in 1..Len(q) /\ k - 1 \in Len(p)..Len(q) /\ k - 1 \notin T
    BY <2>1, <2>2
  <2>4. g[k] = g[k - 1] + NameLen(q[k]) /\ g[Len(p)] <= g[k - 1]
    BY <1>2, <2>3, Zenon
  <2>5. g[k - 1] \in Int /\ g[Len(p)] \in Int
    BY <1>2, <2>3
  <2> QED
    BY <1>3, <2>1, <2>4, <2>5
<1>6. f[Len(p)] < g[Len(p)] /\ g[Len(p)] <= g[Len(q)]
  BY <1>4, <1>5
<1>7. f[Len(p)] \in Int /\ g[Len(p)] \in Int /\ g[Len(q)] \in Int
  BY <1>1, <1>2
<1> QED
  BY <1>1, <1>2, <1>6, <1>7
-----------------------------------------------------------------------------
(***************************************************************************)
(* The mount table.                                                        *)
(***************************************************************************)
LEMMA MaxFacts ==
  ASSUME NEW N \in Nat, NEW T, T \subseteq 1..N, T # {}
  PROVE  Max(T) \in T
<1> DEFINE U == {N - x : x \in T}
<1>0. \A x \in T : x \in Int /\ N - x \in Nat
  OBVIOUS
<1>1. U \subseteq Nat /\ U # {}
  BY <1>0, Zenon
<1>2. PICK u \in U : \A v \in U : u <= v
  BY <1>1, Least, Zenon
<1>3. PICK x \in T : u = N - x
  BY <1>2, Zenon
<1>4. \A y \in T : x >= y
  <2> SUFFICES ASSUME NEW y \in T PROVE x >= y
    BY Zenon
  <2>1. N - y \in U
    BY Zenon
  <2>2. N - x <= N - y
    BY <1>2, <1>3, <2>1, Zenon
  <2> QED
    BY <1>0, <2>2
<1> QED
  BY <1>4, Zenon DEF Max

\* trim_end_matches of a path is a path.
LEMMA TrimEndType ==
  ASSUME NEW p \in Seq(STRING), p # <<>>
  PROVE  TrimEnd(p) \in Seq(STRING)
<1> DEFINE T == {k \in DOMAIN p : p[k] # ""} \cup {1}
<1>0. DOMAIN p = 1..Len(p) /\ Len(p) \in Nat /\ 1 \in 1..Len(p)
  OBVIOUS
<1>1. T \subseteq 1..Len(p) /\ T # {} /\ Len(p) \in Nat
  BY <1>0, Zenon
<1> HIDE DEF T
<1>2. Max(T) \in T
  BY <1>1, MaxFacts, Zenon
<1>3. Max(T) \in 1..Len(p)
  BY <1>1, <1>2, Zenon
<1>4. SubSeq(p, 1, Max(T)) \in Seq(STRING)
  BY <1>3
<1> QED
  BY <1>4, Zenon DEF TrimEnd, T

\* The entries are sorted, the longest mount point first.
Entry == [mp : Seq(STRING), root : Volumes]
SortedTable(table) ==
  \A j, k \in 1..Len(table) : j < k => StrLen(table[j].mp) >= StrLen(table[k].mp)
MountsInv == mounts \in Seq(Entry) /\ SortedTable(mounts)

LEMMA StrLenType ==
  ASSUME NEW p \in Seq(STRING)
  PROVE  StrLen(p) \in Int
BY StrLenFacts

LEMMA MountTable ==
  ASSUME MountsInv, NEW p \in MountPoints, NEW v \in Volumes, Mount(p, v)
  PROVE  MountsInv'
<1> DEFINE mp == IF p = SlashPath THEN p ELSE TrimEnd(p)
           e == [mp |-> mp, root |-> v]
           P == Position(mp)
           N == Len(mounts)
           len == [k \in 1..N |-> StrLen(mounts[k].mp)]
<1>1. mp \in Seq(STRING)
  BY VfsAssumption, TrimEndType, ZenonT(30) DEF SlashPath
<1> HIDE DEF mp
<1>2. e \in Entry /\ e.mp = mp
  BY <1>1, Zenon DEF Entry
<1>3. \A k \in 1..N : mounts[k] \in Entry /\ mounts[k].mp \in Seq(STRING) /\ len[k] \in Int
  <2> SUFFICES ASSUME NEW k \in 1..N PROVE mounts[k] \in Entry /\ mounts[k].mp \in Seq(STRING) /\ len[k] \in Int
    BY Zenon
  <2>1. mounts[k] \in Entry
    BY DEF MountsInv
  <2>2. mounts[k].mp \in Seq(STRING)
    BY <2>1, Zenon DEF Entry
  <2>3. StrLen(mounts[k].mp) \in Int
    BY <2>2, StrLenType, ZenonT(30)
  <2> QED
    BY <2>1, <2>2, <2>3, Zenon
<1>4. N \in Nat /\ StrLen(mp) \in Int
  BY <1>1, StrLenType DEF MountsInv
<1> DEFINE T == {k \in DOMAIN mounts : StrLen(mounts[k].mp) < StrLen(mp)} \cup {N + 1}
<1>5. T \subseteq Nat /\ T # {} /\ T \subseteq 1..(N + 1)
  BY <1>4 DEF MountsInv
<1>6. P = Min(T)
  BY Zenon DEF Position
<1> HIDE DEF P, T
<1>7. P \in T /\ \A m \in T : P <= m
  <2>1. Min(T) \in T /\ \A m \in T : Min(T) <= m
    BY <1>5, MinFacts, Zenon
  <2> QED
    BY <1>6, <2>1, ZenonT(30)
<1>8. P \in 1..(N + 1)
  BY <1>5, <1>7, ZenonT(30)
<1>9. /\ \A k \in 1..(P - 1) : len[k] >= StrLen(mp)
      /\ P <= N => len[P] < StrLen(mp)
  <2>1. DOMAIN mounts = 1..N
    BY DEF MountsInv
  <2>2. ASSUME NEW k \in 1..(P - 1) PROVE len[k] >= StrLen(mp)
    BY <1>3, <1>4, <1>7, <1>8, <2>1 DEF T
  <2>3. ASSUME P <= N PROVE len[P] < StrLen(mp)
    BY <1>4, <1>7, <1>8, <2>1, <2>3 DEF T
  <2> QED
    BY <2>2, <2>3, Zenon
<1> HIDE DEF e, N
<1>10. mounts' = (SubSeq(mounts, 1, P - 1) \o <<e>>) \o SubSeq(mounts, P, Len(mounts))
  BY ZenonT(30) DEF Mount, mp, P, e
<1> DEFINE w == mounts'
<1>11. /\ w \in Seq(Entry) /\ Len(w) = N + 1
       /\ \A j \in 1..(P - 1) : w[j] = mounts[j]
       /\ w[P] = e
       /\ \A j \in (P + 1)..(N + 1) : w[j] = mounts[j - 1]
  <2>1. mounts \in Seq(Entry) /\ N = Len(mounts)
    BY ZenonT(30) DEF MountsInv, N
  <2> DEFINE a == SubSeq(mounts, 1, P - 1)
             b == SubSeq(mounts, P, N)
  <2>2. a \in Seq(Entry) /\ Len(a) = P - 1 /\ \A j \in 1..(P - 1) : a[j] = mounts[j]
    BY <1>4, <1>8, <2>1
  <2>3. b \in Seq(Entry) /\ Len(b) = N - P + 1 /\ \A j \in 1..(N - P + 1) : b[j] = mounts[P + j - 1]
    BY <1>4, <1>8, <2>1
  <2>4. w = (a \o <<e>>) \o b
    BY <1>10, <2>1, ZenonT(30)
  <2> HIDE DEF a, b, w
  <2> DEFINE c == a \o <<e>>
  <2>5. c \in Seq(Entry) /\ Len(c) = P /\ c[P] = e /\ \A j \in 1..(P - 1) : c[j] = mounts[j]
    BY <1>2, <1>8, <2>2
  <2> HIDE DEF c
  <2>6. w = c \o b
    BY <2>4, Zenon DEF c
  <2>7. w \in Seq(Entry) /\ Len(w) = N + 1
    BY <1>4, <1>8, <2>3, <2>5, <2>6
  <2>8. \A j \in 1..P : w[j] = c[j]
    BY <1>8, <2>3, <2>5, <2>6
  <2>9. \A j \in (P + 1)..(N + 1) : w[j] = b[j - P]
    BY <1>4, <1>8, <2>3, <2>5, <2>6
  <2>10. \A j \in (P + 1)..(N + 1) : w[j] = mounts[j - 1]
    BY <1>4, <1>8, <2>3, <2>9
  <2> QED
    BY <1>8, <2>5, <2>7, <2>8, <2>10
<1> HIDE DEF w
<1>12. /\ \A j \in 1..(P - 1) : StrLen(w[j].mp) = len[j]
       /\ StrLen(w[P].mp) = StrLen(mp)
       /\ \A j \in (P + 1)..(N + 1) : StrLen(w[j].mp) = len[j - 1]
  BY <1>2, <1>4, <1>8, <1>11
<1>13. \A j, k \in 1..N : j < k => len[j] >= len[k]
  BY Zenon DEF MountsInv, SortedTable, N
<1> HIDE DEF len
<1>14. SortedTable(w)
  <2> SUFFICES ASSUME NEW j \in 1..(N + 1), NEW k \in 1..(N + 1), j < k
               PROVE  StrLen(w[j].mp) >= StrLen(w[k].mp)
    BY <1>11, ZenonT(30) DEF SortedTable
  <2>1. CASE k < P
    BY <2>1, <1>4, <1>8, <1>12, <1>13
  <2>2. CASE k = P
    BY <2>2, <1>4, <1>8, <1>9, <1>12
  <2>3. CASE j = P
    <3>1. P <= N /\ len[P] < StrLen(mp) /\ k - 1 \in P..N
      BY <2>3, <1>4, <1>8, <1>9
    <3>2. len[P] >= len[k - 1]
      BY <1>3, <1>4, <1>8, <1>13, <3>1
    <3> QED
      BY <2>3, <1>3, <1>4, <1>8, <1>12, <3>1, <3>2
  <2>4. CASE j < P /\ k > P
    BY <2>4, <1>4, <1>8, <1>12, <1>13
  <2>5. CASE j > P
    BY <2>5, <1>4, <1>8, <1>12, <1>13
  <2> QED
    BY <1>4, <1>8, <2>1, <2>2, <2>3, <2>4, <2>5
<1> QED
  BY <1>11, <1>14, Zenon DEF MountsInv, w

LEMMA UmountTable ==
  ASSUME MountsInv, NEW p, Umount(p)
  PROVE  MountsInv'
<1> DEFINE S == {m \in Range(mounts) : m.mp = p}
           w == Dropping(mounts, S)
<1>1. mounts' = w
  BY Zenon DEF Umount
<1> HIDE DEF S
<1>2. w \in Seq(Entry) /\ InOrder(w, mounts, Len(mounts))
  BY DroppingFacts, Zenon DEF MountsInv
<1> HIDE DEF w
<1>3. SortedTable(w)
  <2> SUFFICES ASSUME NEW i \in 1..Len(w), NEW j \in 1..Len(w), i < j
               PROVE  StrLen(w[i].mp) >= StrLen(w[j].mp)
    BY Zenon DEF SortedTable
  <2>1. PICK x \in 1..Len(mounts), y \in 1..Len(mounts) : x < y /\ w[i] = mounts[x] /\ w[j] = mounts[y]
    BY <1>2, Zenon DEF InOrder
  <2>2. StrLen(mounts[x].mp) >= StrLen(mounts[y].mp)
    BY <2>1, Zenon DEF MountsInv, SortedTable
  <2> QED
    BY <2>1, <2>2, Zenon
<1> QED
  BY <1>1, <1>2, <1>3, Zenon DEF MountsInv

\* The table is sorted by the number of characters; among mount points that
\* cover the same path that is the order by components.
LEMMA SortedLongest == MountsInv => LongestMount
<1> SUFFICES ASSUME MountsInv, NEW p \in Paths, NEW k \in Covering(MakeAbsolute(p))
             PROVE  Len(mounts[k].mp) <= Len(mounts[Chosen(MakeAbsolute(p))].mp)
  BY Zenon DEF LongestMount
<1> DEFINE abs == MakeAbsolute(p)
           C == Covering(abs)
           c == Chosen(abs)
<1>1. C \subseteq 1..Len(mounts) /\ Len(mounts) \in Nat
  BY DEF Covering, MountsInv
<1>2. c \in C /\ \A m \in C : c <= m
  <2>1. C \subseteq Nat /\ C # {}
    BY <1>1
  <2> HIDE DEF C
  <2>2. Min(C) \in C /\ \A m \in C : Min(C) <= m
    BY <2>1, MinFacts, ZenonT(30)
  <2> QED
    BY <2>2, Zenon DEF Chosen, C
<1>3. \A i \in C : Len(mounts[i].mp) \in Nat /\ mounts[i].mp \in Seq(STRING)
                   /\ \A j \in 1..Len(mounts[i].mp) : mounts[i].mp[j] = abs[j]
  <2> SUFFICES ASSUME NEW i \in C
               PROVE  Len(mounts[i].mp) \in Nat /\ mounts[i].mp \in Seq(STRING)
                      /\ \A j \in 1..Len(mounts[i].mp) : mounts[i].mp[j] = abs[j]
    BY Zenon
  <2>1. mounts[i] \in Entry
    BY <1>1 DEF MountsInv
  <2> DEFINE m == mounts[i].mp
  <2>2. m \in Seq(STRING)
    BY <2>1, Zenon DEF Entry
  <2>3. m = SubSeq(abs, 1, Len(m))
    BY Zenon DEF Covering
  <2> HIDE DEF m, abs
  <2>4. \A j \in 1..Len(m) : SubSeq(abs, 1, Len(m))[j] = abs[j]
    BY <2>2
  <2> QED
    BY <2>2, <2>3, <2>4 DEF m
<1> HIDE DEF C, c, abs
<1> DEFINE a == mounts[c].mp
           b == mounts[k].mp
<1>4. k \in C
  BY Zenon DEF C, abs
<1>5. SUFFICES ASSUME Len(a) < Len(b) PROVE FALSE
  BY <1>2, <1>3, <1>4 DEF c, abs
<1>6. \A j \in 1..Len(a) : a[j] = b[j]
  BY <1>2, <1>3, <1>4, <1>5
<1>7. a \in Seq(STRING) /\ b \in Seq(STRING)
  BY <1>2, <1>3, <1>4, Zenon
<1>8. StrLen(a) \in Int /\ StrLen(b) \in Int /\ StrLen(a) < StrLen(b)
  BY <1>5, <1>6, <1>7, PrefixShorter, ZenonT(30)
<1>9. c < k /\ c \in 1..Len(mounts) /\ k \in 1..Len(mounts)
  BY <1>1, <1>2, <1>4, <1>5, <1>3
<1>10. StrLen(a) >= StrLen(b)
  BY <1>9, ZenonT(30) DEF MountsInv, SortedTable
<1> QED
  BY <1>8, <1>10
-----------------------------------------------------------------------------
(***************************************************************************)
(* Every step.                                                             *)
(***************************************************************************)
LEMMA InitTree == Init => TreeInv(node)
<1> SUFFICES ASSUME Init PROVE TreeInv(node)
  BY Zenon
<1> DEFINE k == [c \in {"d"} |-> 2]
<1>1. Root \in Ram /\ 2 \in Ram /\ 2 # Root
  BY VfsAssumption DEF Root, Ram
<1>2. node = [i \in Ram |-> CASE i = Root -> Dir(k) [] i = 2 -> Dir(<<>>) [] OTHER -> Free]
  BY Zenon DEF Init
<1>3. node[Root] = Dir(k) /\ node[2] = Dir(<<>>) /\ \A i \in Ram \ {Root, 2} : node[i] = Free
  BY <1>1, <1>2, Zenon
<1>4. DOMAIN k = {"d"} /\ k["d"] = 2
  BY Zenon
<1> HIDE DEF k
<1>5. /\ IsNode(Dir(k)) /\ Dir(k).kind = "dir" /\ Dir(k).kids = k
      /\ IsNode(Dir(<<>>)) /\ Dir(<<>>).kind = "dir" /\ DOMAIN Dir(<<>>).kids = {}
  BY DEF IsNode, Dir
<1>6. Nodes(node)
  BY <1>2, <1>3, <1>5, FreeNode, ZenonT(30) DEF Nodes
<1>7. \A d \in Ram : \A c \in DOMAIN node[d].kids : d = Root /\ c = "d" /\ node[d].kids[c] = 2
  BY <1>1, <1>3, <1>4, <1>5, FreeNode, Zenon
<1>8. Linked(node)
  <2>1. node[2] # Free
    BY <1>3, <1>5, FreeNode, ZenonT(30)
  <2> QED
    BY <1>1, <1>7, <2>1, ZenonT(30) DEF Linked
<1>9. OnlyDirs(node)
  BY <1>1, <1>3, <1>5, FreeNode, Zenon DEF OnlyDirs
<1>10. OneName(node)
  BY <1>7, Zenon DEF OneName
<1> QED
  BY <1>6, <1>8, <1>9, <1>10, ZenonT(30) DEF TreeInv

\* mkdir_p in mount.
LEMMA MountMkdir ==
  ASSUME TreeInv(node), NEW p \in MountPoints, NEW v, Mount(p, v)
  PROVE  \E n : TreeInv(n) /\ Grown(node, n) /\ Become(n, cwd)
<1> DEFINE mp == IF p = SlashPath THEN p ELSE TrimEnd(p)
<1>1. mp \in Seq(STRING)
  BY VfsAssumption, TrimEndType, Zenon DEF SlashPath
<1>2. Become(MkdirP(mp), cwd)
  BY Zenon DEF Mount
<1> HIDE DEF mp
<1>3. Components(mp) \in Seq(STRING)
  BY <1>1, DroppingFacts, Zenon DEF Components
<1>4. Len(Components(mp)) \in Nat
  BY <1>3
<1>5. TreeInv(MkdirP(mp)) /\ Grown(node, MkdirP(mp))
  BY <1>4, MkdirPTree, Zenon
<1> QED
  BY <1>2, <1>5, Zenon

LEMMA UnlinkEntry ==
  ASSUME NEW p, Unlink(p) \/ Rmdir(p), TreeInv(node)
  PROVE  \E dir \in Ram : \E name :
           /\ Lookup(dir, name) \in Ram /\ DOMAIN node[Lookup(dir, name)].kids = {}
           /\ RemoveEntry(dir, name)
<1> DEFINE dir == ResolveParent(MakeAbsolute(p))
           name == LastName(MakeAbsolute(p))
<1>1. dir \in Ram /\ Lookup(dir, name) \in Ram /\ RemoveEntry(dir, name)
  BY Zenon DEF Unlink, Rmdir
<1>2. \/ ~IsDir(node, Lookup(dir, name))
      \/ node[Lookup(dir, name)].kids = <<>>
  BY Zenon DEF Unlink, Rmdir
<1> HIDE DEF dir, name
<1>3. DOMAIN node[Lookup(dir, name)].kids = {}
  <2>1. NodeOf(node, Lookup(dir, name)) = node[Lookup(dir, name)]
    BY <1>1, VfsAssumption, ZenonT(30) DEF NodeOf
  <2> QED
    BY <1>1, <1>2, <2>1 DEF TreeInv, OnlyDirs, IsDir
<1> QED
  BY <1>1, <1>3, Zenon

LEMMA TreeStep == TreeInv(node) /\ [Next]_vars => TreeInv(node')
<1> SUFFICES ASSUME TreeInv(node), [Next]_vars PROVE TreeInv(node')
  BY Zenon
<1>1. CASE UNCHANGED vars
  BY <1>1, Zenon DEF vars
<1>2. ASSUME NEW p \in Paths, Mkdir(p) PROVE TreeInv(node')
  BY <1>2, AddAtTree, NewLeaves, Zenon DEF Mkdir
<1>3. ASSUME NEW p \in Paths, Touch(p) PROVE TreeInv(node')
  BY <1>3, AddAtTree, NewLeaves, ZenonT(30) DEF Touch
<1>4. ASSUME NEW p \in Paths, NEW buf, WriteFile(p, buf) PROVE TreeInv(node')
  BY <1>4, WriteFileTree, Zenon
<1>5. ASSUME NEW p \in Paths, NEW q \in Paths, Copy(p, q) PROVE TreeInv(node')
  BY <1>5, WriteFileTree, Zenon DEF Copy
<1>6. ASSUME NEW p \in Paths, Unlink(p) \/ Rmdir(p) PROVE TreeInv(node')
  BY <1>6, UnlinkEntry, RemoveTree, ZenonT(30)
<1>7. ASSUME NEW p \in Paths, NEW target \in Targets, Symlink(target, p) PROVE TreeInv(node')
  BY <1>7, AddAtTree, NewLeaves, Zenon DEF Symlink
<1>8. ASSUME NEW p \in Paths, NEW q \in Paths, Rename(p, q) PROVE TreeInv(node')
  BY <1>8, RenameTree, Zenon
<1>9. ASSUME NEW p \in Paths, Cd(p) PROVE TreeInv(node')
  BY <1>9, BecomeFacts, ZenonT(30) DEF Cd
<1>10. ASSUME NEW p \in MountPoints, NEW v \in Volumes, Mount(p, v) PROVE TreeInv(node')
  BY <1>10, MountMkdir, BecomeFacts, Zenon
<1>11. ASSUME NEW p \in MountPoints, Umount(p) PROVE TreeInv(node')
  BY <1>11, Zenon DEF Umount
<1> QED
  BY <1>1, <1>2, <1>3, <1>4, <1>5, <1>6, <1>7, <1>8, <1>9, <1>10, <1>11, Zenon DEF Next

LEMMA MountsStep == MountsInv /\ [Next]_vars => MountsInv'
<1> SUFFICES ASSUME MountsInv, [Next]_vars PROVE MountsInv'
  BY Zenon
<1>1. CASE UNCHANGED mounts
  <2>1. mounts' = mounts
    BY <1>1, ZenonT(30)
  <2>2. mounts' \in Seq(Entry) /\ SortedTable(mounts')
    BY <2>1, Zenon DEF MountsInv
  <2> QED
    BY <2>2, Zenon DEF MountsInv
<1>2. ASSUME NEW p \in MountPoints, NEW v \in Volumes, Mount(p, v) PROVE MountsInv'
  BY <1>2, MountTable, Zenon
<1>3. ASSUME NEW p \in MountPoints, Umount(p) PROVE MountsInv'
  BY <1>3, UmountTable, ZenonT(30)
<1>4. \/ UNCHANGED mounts
      \/ \E p \in MountPoints, v \in Volumes : Mount(p, v)
      \/ \E p \in MountPoints : Umount(p)
  BY Zenon DEF Next, vars, Mkdir, Touch, WriteFile, Copy, Unlink, Rmdir, RemoveEntry, Symlink, Rename, Cd
<1> QED
  BY <1>1, <1>2, <1>3, <1>4, Zenon

\* What has a name in the tree before a step, and keeps it, is in the tree
\* after it.
Losing(n, X) ==
  /\ X \subseteq Ram /\ \A x \in X : DOMAIN node[x].kids = {}
  /\ \A d \in Ram : \A c \in DOMAIN node[d].kids :
       \/ node[d].kids[c] \in X
       \/ c \in DOMAIN n[d].kids /\ n[d].kids[c] = node[d].kids[c]

LEMMA StaysInTree ==
  ASSUME TreeInv(node), TreeInv(node'), NEW n, NEW at, TreeInv(n), Become(n, at), NEW X, Losing(n, X)
  PROVE  InTree(node) \ InTree(node') \subseteq X
<1> DEFINE R == Reach(n, {Root, at})
           J == InTree(node')
           S == J \cup X
<1>0. Root \in Ram
  BY VfsAssumption DEF Root, Ram
<1>1. node' = [i \in Ram |-> IF i \in R THEN n[i] ELSE Free]
  BY Zenon DEF Become
<1>2. R \subseteq Ram /\ Root \in R
  BY <1>0, ReachFacts, Zenon
<1>3. \A i \in R : \A c \in DOMAIN n[i].kids : n[i].kids[c] \in R
  BY ReachClosed, Zenon DEF TreeInv
<1> HIDE DEF R
<1>4. \A i \in R : node'[i] = n[i]
  BY <1>1, <1>2, Zenon
<1>5. J \subseteq R
  <2>1. R \in SUBSET Ram /\ {Root} \cap Ram \subseteq R
    BY <1>2, Zenon
  <2>2. Closed(node', R)
    BY <1>3, <1>4, Zenon DEF Closed
  <2> QED
    BY <2>1, <2>2, ReachFacts, ZenonT(30) DEF InTree
<1>6. J \subseteq Ram /\ Root \in J
  BY <1>0, ReachFacts, ZenonT(30) DEF InTree
<1>7. \A i \in J : \A c \in DOMAIN node'[i].kids : node'[i].kids[c] \in J
  BY ReachClosed, Zenon DEF TreeInv, InTree
<1> HIDE DEF J
<1>8. Closed(node, S)
  <2> SUFFICES ASSUME NEW i \in S, NEW c \in DOMAIN node[i].kids PROVE node[i].kids[c] \in S
    BY Zenon DEF Closed
  <2>1. i \in J /\ i \in Ram
    BY <1>6, Zenon DEF Losing
  <2>2. node'[i] = n[i]
    BY <1>4, <1>5, <2>1, ZenonT(30)
  <2> QED
    BY <1>7, <2>1, <2>2 DEF Losing
<1>9. InTree(node) \subseteq S
  <2>1. S \in SUBSET Ram /\ {Root} \cap Ram \subseteq S
    BY <1>6, Zenon DEF Losing
  <2> HIDE DEF S
  <2> QED
    BY <1>8, <2>1, ReachFacts, Zenon DEF InTree
<1> QED
  BY <1>9, Zenon DEF J

\* No name is lost.
LEMMA KeepsTree ==
  ASSUME TreeInv(node), TreeInv(node'), NEW n, NEW at, TreeInv(n), Grown(node, n), Become(n, at)
  PROVE  InTree(node) \ InTree(node') = {}
<1>1. Losing(n, {})
  BY ZenonT(30) DEF Grown, Losing
<1>2. InTree(node) \ InTree(node') \subseteq {}
  BY <1>1, StaysInTree, Zenon
<1> QED
  BY <1>2, Zenon

LEMMA AddAtKeeps ==
  ASSUME TreeInv(node), TreeInv(node'), NEW path, NEW new, Leaf(new), AddAt(path, new)
  PROVE  InTree(node) \ InTree(node') = {}
<1> DEFINE n == Add(node, ResolveParent(path), LastName(path), new)
<1>1. TreeInv(n) /\ Grown(node, n) /\ Become(n, cwd)
  BY AddTree, AddGrows, ZenonT(30) DEF AddAt
<1> HIDE DEF n
<1> QED
  BY <1>1, KeepsTree, Zenon

\* The name of an inode without children is removed.
LEMMA RemoveKeeps ==
  ASSUME TreeInv(node), TreeInv(node'), NEW dir \in Ram, NEW name, Lookup(dir, name) \in Ram,
         DOMAIN node[Lookup(dir, name)].kids = {}, RemoveEntry(dir, name)
  PROVE  InTree(node) \ InTree(node') \subseteq {Lookup(dir, name)}
<1> DEFINE n == Without(node, dir, name)
           i == Lookup(dir, name)
<1>1. node[dir].kind = "dir" /\ name \in DOMAIN node[dir].kids /\ i = node[dir].kids[name]
  BY LookupFacts, Zenon
<1>2. TreeInv(n) /\ Become(n, cwd)
  BY <1>1, WithoutTree, Zenon DEF RemoveEntry
<1>3. /\ \A d \in Ram \ {dir} : n[d] = node[d]
      /\ DOMAIN n[dir].kids = DOMAIN node[dir].kids \ {name}
      /\ \A c \in DOMAIN node[dir].kids \ {name} : n[dir].kids[c] = node[dir].kids[c]
  BY WithoutFacts DEF TreeInv
<1>4. {i} \in SUBSET Ram /\ \A x \in {i} : DOMAIN node[x].kids = {}
  BY Zenon
<1> HIDE DEF n, i
<1>5. Losing(n, {i})
  BY <1>1, <1>3, <1>4, ZenonT(30) DEF Losing
<1>6. InTree(node) \ InTree(node') \subseteq {i}
  BY <1>2, <1>5, StaysInTree, Zenon
<1> QED
  BY <1>6, Zenon DEF i

LEMMA WriteKeeps ==
  ASSUME TreeInv(node), TreeInv(node'), NEW p, NEW buf, WriteFile(p, buf)
  PROVE  InTree(node) \ InTree(node') = {}
<1> DEFINE i == Resolve(p)
           data == Write(Truncate(node[i].data, 0), 0, buf)
<1>1. CASE i \in Ram /\ node' = [node EXCEPT ![i].data = data]
  <2> HIDE DEF i, data
  <2>1. node' = [j \in Ram |-> IF j = i THEN [node[j] EXCEPT !.data = data] ELSE node[j]]
    BY <1>1, Zenon DEF TreeInv, Nodes
  <2>2. node[i] = [kind |-> node[i].kind, kids |-> node[i].kids, data |-> node[i].data, target |-> node[i].target]
    BY <1>1, Zenon DEF TreeInv, Nodes, IsNode
  <2>3. \A j \in Ram : node'[j].kids = node[j].kids
    BY <1>1, <2>1, <2>2, Zenon
  <2>4. \A S \in SUBSET Ram : Closed(node', S) => Closed(node, S)
    BY <2>3, Zenon DEF Closed
  <2>5. InTree(node) \subseteq InTree(node')
    BY <2>4, ZenonT(30) DEF InTree, Reach
  <2> QED
    BY <2>5, Zenon
<1>2. CASE AddAt(MakeAbsolute(p), File(Write(<<>>, 0, buf)))
  BY <1>2, AddAtKeeps, NewLeaves, Zenon
<1> QED
  BY <1>1, <1>2, Zenon DEF WriteFile

LEMMA OneAtMost ==
  ASSUME NEW S, NEW x, S \subseteq {x}
  PROVE  Cardinality(S) <= 1
<1>1. S = {} \/ S = {x}
  BY Zenon
<1>2. Cardinality({}) = 0
  BY FS_EmptySet, Zenon
<1>3. Cardinality({x}) = 1
  BY FS_Singleton, Zenon
<1> QED
  BY <1>1, <1>2, <1>3

LEMMA RemovesStep ==
  TreeInv(node) /\ [Next]_vars =>
    \/ Cardinality(InTree(node) \ InTree(node')) <= 1
    \/ \E p \in Paths, q \in Paths : Rename(p, q)
    \/ UNCHANGED vars
<1> SUFFICES ASSUME TreeInv(node), [Next]_vars,
                    ~\E p \in Paths, q \in Paths : Rename(p, q), ~UNCHANGED vars
             PROVE  \E x : InTree(node) \ InTree(node') \subseteq {x}
  BY OneAtMost, Zenon
<1> DEFINE Fine == \E x : InTree(node) \ InTree(node') \subseteq {x}
<1>1. TreeInv(node')
  BY TreeStep, Zenon
<1>2. ASSUME InTree(node) \ InTree(node') = {} PROVE Fine
  BY <1>2, ZenonT(30)
<1> HIDE DEF Fine
<1>3. ASSUME NEW path, NEW new, Leaf(new), AddAt(path, new) PROVE Fine
  BY <1>1, <1>2, <1>3, AddAtKeeps, Zenon
<1>4. ASSUME NEW p \in Paths, NEW buf, WriteFile(p, buf) PROVE Fine
  BY <1>1, <1>2, <1>4, WriteKeeps, Zenon
<1>5. ASSUME NEW p \in Paths, Unlink(p) \/ Rmdir(p) PROVE Fine
  <2>1. PICK dir \in Ram : \E name :
          /\ Lookup(dir, name) \in Ram /\ DOMAIN node[Lookup(dir, name)].kids = {}
          /\ RemoveEntry(dir, name)
    BY <1>5, UnlinkEntry, ZenonT(30)
  <2>2. PICK name : /\ Lookup(dir, name) \in Ram /\ DOMAIN node[Lookup(dir, name)].kids = {}
                    /\ RemoveEntry(dir, name)
    BY <2>1, Zenon
  <2>3. InTree(node) \ InTree(node') \subseteq {Lookup(dir, name)}
    BY <1>1, <2>2, RemoveKeeps, Zenon
  <2> QED
    BY <2>3, Zenon DEF Fine
<1>6. ASSUME NEW p \in Paths, Cd(p) PROVE Fine
  <2>1. Grown(node, node) /\ Become(node, Resolve(p))
    BY <1>6, ZenonT(30) DEF Grown, Cd
  <2> QED
    BY <1>1, <1>2, <2>1, KeepsTree, ZenonT(30)
<1>7. ASSUME NEW p \in MountPoints, NEW v \in Volumes, Mount(p, v) PROVE Fine
  BY <1>1, <1>2, <1>7, MountMkdir, KeepsTree, Zenon
<1>8. ASSUME NEW p \in MountPoints, Umount(p) PROVE Fine
  <2>1. node' = node
    BY <1>8, Zenon DEF Umount
  <2> QED
    BY <1>2, <2>1, ZenonT(30)
<1>9. ASSUME NEW p \in Paths, Mkdir(p) PROVE Fine
  BY <1>3, <1>9, NewLeaves, Zenon DEF Mkdir
<1>10. ASSUME NEW p \in Paths, Touch(p) PROVE Fine
  BY <1>3, <1>10, NewLeaves, ZenonT(30) DEF Touch
<1>11. ASSUME NEW p \in Paths, NEW target \in Targets, Symlink(target, p) PROVE Fine
  BY <1>3, <1>11, NewLeaves, ZenonT(30) DEF Symlink
<1>12. ASSUME NEW p \in Paths, NEW q \in Paths, Copy(p, q) PROVE Fine
  BY <1>4, <1>12, Zenon DEF Copy
<1>13. Fine
  BY <1>4, <1>5, <1>6, <1>7, <1>8, <1>9, <1>10, <1>11, <1>12, Zenon DEF Next
<1> QED
  BY <1>13, Zenon DEF Fine

-----------------------------------------------------------------------------
(***************************************************************************)
(* The theorems.                                                           *)
(***************************************************************************)
\* The nodes of ramfs and the mount table are at any time what the operations
\* take them for: no name leads to an inode that was freed.
THEOREM AlwaysSound == Spec => [](TreeInv(node) /\ MountsInv)
<1>1. Init => MountsInv
  <2> SUFFICES ASSUME Init PROVE MountsInv
    BY Zenon
  <2>1. mounts = <<>>
    BY Zenon DEF Init
  <2> QED
    BY <2>1 DEF MountsInv, SortedTable
<1>2. TreeInv(node) /\ MountsInv /\ [Next]_vars => TreeInv(node') /\ MountsInv'
  BY TreeStep, MountsStep, Zenon
<1>3. TreeInv(node)' <=> TreeInv(node')
  BY Zenon
<1> QED
  BY InitTree, <1>1, <1>2, <1>3, PTL DEF Spec

\* No inode has two names and the root has none, whatever rename moves where.
THEOREM AlwaysTree == Spec => []Tree
<1>1. TreeInv(node) => Tree
  <2> SUFFICES ASSUME TreeInv(node) PROVE Tree
    BY Zenon
  <2>1. \A i : \A e \in Names(i) :
          e = <<e[1], e[2]>> /\ e[1] \in Ram /\ e[2] \in DOMAIN node[e[1]].kids /\ node[e[1]].kids[e[2]] = i
    BY DEF Names
  <2>2. Names(Root) = {}
    BY <2>1 DEF TreeInv, Linked
  <2>3. ASSUME NEW i \in Ram PROVE Cardinality(Names(i)) <= 1
    <3>1. \A e, f \in Names(i) : e = f
      <4> SUFFICES ASSUME NEW e \in Names(i), NEW f \in Names(i) PROVE e = f
        BY Zenon
      <4>1. e[1] = f[1] /\ e[2] = f[2]
        BY <2>1 DEF TreeInv, OneName
      <4> QED
        BY <2>1, <4>1
    <3>2. \E x : Names(i) \subseteq {x}
      BY <3>1
    <3> QED
      BY <3>2, OneAtMost, ZenonT(30)
  <2> QED
    BY <2>2, <2>3, Zenon DEF Tree
<1> QED
  BY <1>1, AlwaysSound, PTL

\* resolve_abs, which takes the first entry of the mount table that covers the
\* path, takes one with the longest mount point: mount keeps the table sorted
\* by the characters of the mount points, and umount leaves it so.
THEOREM AlwaysLongestMount == Spec => []LongestMount
BY AlwaysSound, SortedLongest, PTL

\* No operation but rename takes more than one inode out of the tree.
THEOREM AlwaysRemovesOne == Spec => RemovesOne
<1>1. TreeInv(node) /\ [Next]_vars =>
        [\/ Cardinality(InTree(node) \ InTree(node')) <= 1
         \/ \E p \in Paths, q \in Paths : Rename(p, q)]_vars
  BY RemovesStep, Zenon
<1> QED
  BY <1>1, AlwaysSound, PTL DEF Spec, RemovesOne
=============================================================================
