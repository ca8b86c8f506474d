-------------------------------- MODULE Vfs --------------------------------
(***************************************************************************)
(* src/fs: the tree of src/fs/ramfs.rs, the path walk of src/fs/path.rs    *)
(* and the mounts, current directory and operations of src/fs/mount.rs.    *)
(* with_vfs runs every operation under the lock of VFS, so each is a step. *)
(*                                                                         *)
(* A path is the sequence that split('/') makes of it: "/a/b" is           *)
(* <<"", "a", "b">>, "/" is <<"", "">>, "a/" is <<"a", "">>. A result is   *)
(* an inode number or, below 0, an Errno. An operation that fails leaves   *)
(* everything alone, and is not a step, except where an action says so.    *)
(***************************************************************************)
EXTENDS Integers, Sequences, FiniteSetsExt

CONSTANTS
  MaxIno,       \* bound: ramfs inodes that exist at a time
  MaxDepth,     \* 40 in resolve_inner
  MaxMounts,    \* bound: entries of the mount table
  MaxCwd,       \* bound: components of cwd_path
  Paths,        \* paths given to the commands
  Targets,      \* targets given to symbolic links
  MountPoints,  \* paths given to mount and umount
  Contents,     \* file contents given to write
  Volumes,      \* inode numbers of the roots of the FAT32 volumes
  FatName       \* the name of the one file each volume holds

Root == 1
Ram == 1..MaxIno
FatFile(v) == v + 1
Inodes == Ram \cup Volumes \cup {FatFile(v) : v \in Volumes}

ASSUME VfsAssumption ==
  /\ MaxIno \in Nat \ {0, 1} /\ MaxDepth \in Nat /\ MaxMounts \in Nat /\ MaxCwd \in Nat
  /\ MountPoints \subseteq Seq(STRING) \ {<<>>}
  /\ \A v \in Volumes : v \in Nat /\ {v, FatFile(v)} \cap Ram = {} /\ FatFile(v) \notin Volumes

ENOENT == -2
ENOTDIR == -20
ELOOP == -40

Dir(kids) == [kind |-> "dir", kids |-> kids, data |-> <<>>, target |-> <<>>]
File(data) == [kind |-> "file", kids |-> <<>>, data |-> data, target |-> <<>>]
Link(target) == [kind |-> "link", kids |-> <<>>, data |-> <<>>, target |-> target]
Free == [kind |-> "free", kids |-> <<>>, data |-> <<>>, target |-> <<>>]

VARIABLES
  node,      \* the inodes of ramfs
  cwd,       \* VfsContext::cwd, an inode
  cwd_path,  \* VfsContext::cwd_path
  mounts     \* VfsContext::mounts

vars == <<node, cwd, cwd_path, mounts>>

SlashPath == <<"", "">>

\* init_rootfs makes an empty ramfs and some directories: "d" stands for them.
Init ==
  /\ node = [i \in Ram |-> CASE i = Root -> Dir([c \in {"d"} |-> 2])
                             [] i = 2 -> Dir(<<>>)
                             [] OTHER -> Free]
  /\ cwd = Root /\ cwd_path = SlashPath
  /\ mounts = <<>>
-----------------------------------------------------------------------------
\* InodeOps of either file system, on the tree n.
NodeOf(n, i) ==
  CASE i \in Ram -> n[i]
    [] i \in Volumes -> Dir([c \in {FatName} |-> FatFile(i)])
    [] OTHER -> File(<<7>>)

IsDir(n, i) == NodeOf(n, i).kind = "dir"

LookupIn(n, i, name) ==
  IF ~IsDir(n, i) THEN ENOTDIR
  ELSE LET kids == NodeOf(n, i).kids IN IF name \in DOMAIN kids THEN kids[name] ELSE ENOENT

Lookup(i, name) == LookupIn(node, i, name)

\* filter and retain: s without the members of S.
Dropping(s, S) ==
  LET kept[k \in 0..Len(s)] ==
        CASE k = 0 -> <<>>
          [] k > 0 /\ s[k] \in S -> kept[k - 1]
          [] OTHER -> Append(kept[k - 1], s[k])
  IN kept[Len(s)]

\* path.starts_with('/'), the non-empty components, and trim_end_matches('/').
IsAbsolute(p) == Len(p) > 1 /\ p[1] = ""
Components(p) == Dropping(p, {""})
TrimEnd(p) == SubSeq(p, 1, Max({k \in DOMAIN p : p[k] # ""} \cup {1}))

\* resolve_inner: Walk[depth, i, cs] is where the components cs lead from i.
ResolveFrom(root, dir, path) ==
  LET Start(i, p) == IF IsAbsolute(p) THEN root ELSE i
      Walk[depth \in Nat, i \in Int, cs \in Seq(STRING)] ==
        IF i < 0 \/ cs = <<>> THEN i
        ELSE LET next == Lookup(i, Head(cs))
                 target == NodeOf(node, next).target
                 to == CASE Head(cs) = "." -> i
                         [] Head(cs) = ".." -> IF next < 0 THEN root ELSE next
                         [] OTHER ->
                              IF next < 0 \/ NodeOf(node, next).kind # "link" THEN next
                              ELSE IF depth + 1 > MaxDepth THEN ELOOP
                              ELSE Walk[depth + 1, Start(i, target), Components(target)]
             IN Walk[depth, to, Tail(cs)]
  IN Walk[0, Start(dir, path), Components(path)]

\* split_last.
LastName(p) == LET t == TrimEnd(p) IN t[Len(t)]
ParentPath(p) ==
  LET t == TrimEnd(p)
  IN CASE Len(t) = 1 -> <<"">>
       [] Len(t) = 2 /\ t[1] = "" -> SlashPath
       [] OTHER -> SubSeq(t, 1, Len(t) - 1)

\* resolve_parent as VfsContext calls it: from the root of ramfs, whatever is
\* mounted.
ResolveParent(p) ==
  IF ParentPath(p) = <<"">> THEN cwd ELSE ResolveFrom(Root, cwd, ParentPath(p))

MakeAbsolute(p) ==
  CASE IsAbsolute(p) -> p
    [] ~IsAbsolute(p) /\ cwd_path = SlashPath -> <<"">> \o p
    [] OTHER -> cwd_path \o p

\* The entry of the mount table resolve_abs stops at.
Covering(abs) ==
  {k \in DOMAIN mounts :
     LET mp == mounts[k].mp IN Len(mp) <= Len(abs) /\ mp = SubSeq(abs, 1, Len(mp))}
Chosen(abs) == Min(Covering(abs))

ResolveAbs(abs) ==
  IF Covering(abs) = {} THEN ResolveFrom(Root, cwd, abs)
  ELSE LET m == mounts[Chosen(abs)]
       IN IF abs = m.mp THEN m.root
          ELSE ResolveFrom(m.root, m.root, <<"">> \o SubSeq(abs, Len(m.mp) + 1, Len(abs)))

Resolve(p) == ResolveAbs(MakeAbsolute(p))

\* read_file: a directory has size 0 and reads as nothing.
ReadFile(p) == NodeOf(node, Resolve(p)).data
-----------------------------------------------------------------------------
\* The inodes that can be reached from those in from, which are in every set
\* that no name leads out of: the others were freed with the last Arc to them.
Closed(n, S) == \A i \in S : \A c \in DOMAIN n[i].kids : n[i].kids[c] \in S
Reach(n, from) ==
  {i \in Ram : \A S \in SUBSET Ram : from \cap Ram \subseteq S /\ Closed(n, S) => i \in S}

Become(n, at) == node' = [i \in Ram |-> IF i \in Reach(n, {Root, at}) THEN n[i] ELSE Free]

\* alloc_ino: a number nobody uses. Bound: at most MaxIno inodes at a time.
HasFresh(n) == \E i \in Ram : n[i] = Free
Fresh(n) == Min({i \in Ram : n[i] = Free})

IsRamDir(n, i) == i \in Ram /\ n[i].kind = "dir"

\* RamDir::create, mkdir and symlink refuse a name that is taken; the other
\* inodes refuse them all.
CanAdd(n, dir, name) == IsRamDir(n, dir) /\ name \notin DOMAIN n[dir].kids /\ HasFresh(n)

Insert(n, dir, name, i) ==
  [n EXCEPT ![dir].kids = [c \in DOMAIN @ \cup {name} |-> IF c = name THEN i ELSE @[c]]]
Add(n, dir, name, new) == Insert([n EXCEPT ![Fresh(n)] = new], dir, name, Fresh(n))
Without(n, dir, name) ==
  [n EXCEPT ![dir].kids = [c \in DOMAIN @ \ {name} |-> @[c]]]

AddAt(path, new) ==
  LET dir == ResolveParent(path)
  IN CanAdd(node, dir, LastName(path)) /\ Become(Add(node, dir, LastName(path), new), cwd)
-----------------------------------------------------------------------------
\* VfsContext::mkdir.
Mkdir(p) == AddAt(MakeAbsolute(p), Dir(<<>>)) /\ UNCHANGED <<cwd, cwd_path, mounts>>

\* RamFile::truncate and RamFile::write, at an offset that counts from 0.
Truncate(data, size) == [k \in 1..size |-> IF k <= Len(data) THEN data[k] ELSE 0]
Write(data, offset, buf) ==
  [k \in 1..Max({Len(data), offset + Len(buf)}) |->
     IF k > offset /\ k <= offset + Len(buf) THEN buf[k - offset]
     ELSE IF k <= Len(data) THEN data[k] ELSE 0]

\* cmd_touch: open with O_CREAT. The file is looked for under the mounts and
\* created in ramfs.
Touch(p) ==
  /\ Resolve(p) = ENOENT
  /\ AddAt(MakeAbsolute(p), File(<<>>))
  /\ UNCHANGED <<cwd, cwd_path, mounts>>

\* Mutant: open without O_TRUNC.
WriteFileOver(p, buf) ==
  LET i == Resolve(p)
  IN /\ \/ /\ i \in Ram /\ node[i].kind = "file"
           /\ node' = [node EXCEPT ![i].data = Write(@, 0, buf)]
        \/ /\ i = ENOENT
           /\ AddAt(MakeAbsolute(p), File(Write(<<>>, 0, buf)))
     /\ UNCHANGED <<cwd, cwd_path, mounts>>

\* write_file: open with O_CREAT and O_TRUNC, then write. Directories and the
\* files of a volume refuse truncate.
WriteFile(p, buf) ==
  LET i == Resolve(p)
  IN /\ \/ /\ i \in Ram /\ node[i].kind = "file"
           /\ node' = [node EXCEPT ![i].data = Write(Truncate(@, 0), 0, buf)]
        \/ /\ i = ENOENT
           /\ AddAt(MakeAbsolute(p), File(Write(<<>>, 0, buf)))
     /\ UNCHANGED <<cwd, cwd_path, mounts>>

\* cmd_cp.
Copy(p, q) == Resolve(p) > 0 /\ WriteFile(q, ReadFile(p))

RemoveEntry(dir, name) == Become(Without(node, dir, name), cwd) /\ UNCHANGED <<cwd, cwd_path, mounts>>

\* VfsContext::unlink, RamDir::unlink.
Unlink(p) ==
  LET dir == ResolveParent(MakeAbsolute(p))
      i == Lookup(dir, LastName(MakeAbsolute(p)))
  IN dir \in Ram /\ i \in Ram /\ ~IsDir(node, i) /\ RemoveEntry(dir, LastName(MakeAbsolute(p)))

\* Mutant: a directory that still has children is removed.
RmdirFull(p) ==
  LET dir == ResolveParent(MakeAbsolute(p))
      i == Lookup(dir, LastName(MakeAbsolute(p)))
  IN dir \in Ram /\ i \in Ram /\ IsDir(node, i) /\ RemoveEntry(dir, LastName(MakeAbsolute(p)))

\* VfsContext::rmdir, RamDir::rmdir.
Rmdir(p) ==
  LET dir == ResolveParent(MakeAbsolute(p))
      i == Lookup(dir, LastName(MakeAbsolute(p)))
  IN /\ dir \in Ram /\ i \in Ram
     /\ IsDir(node, i) /\ node[i].kids = <<>>
     /\ RemoveEntry(dir, LastName(MakeAbsolute(p)))

\* VfsContext::symlink: relative to the inode cwd, not to cwd_path.
Symlink(target, p) == AddAt(p, Link(target)) /\ UNCHANGED <<cwd, cwd_path, mounts>>

\* Mutant: the entry is inserted under its new name and never removed.
RenameCopies(p, q) ==
  LET from == ResolveParent(p)
      to == ResolveParent(q)
      i == Lookup(from, LastName(p))
  IN /\ from \in Ram /\ to > 0 /\ i \in Ram
     /\ Become(IF IsRamDir(node, to) THEN Insert(node, to, LastName(q), i) ELSE node, cwd)
     /\ UNCHANGED <<cwd, cwd_path, mounts>>

\* VfsContext::rename, RamDir::rename: the entry is removed first, and gone
\* when the new parent is not a directory of ramfs and insert_child fails.
Rename(p, q) ==
  LET from == ResolveParent(p)
      to == ResolveParent(q)
      i == Lookup(from, LastName(p))
      removed == Without(node, from, LastName(p))
  IN /\ from \in Ram /\ to > 0 /\ i \in Ram
     /\ Become(IF IsRamDir(node, to) THEN Insert(removed, to, LastName(q), i) ELSE removed, cwd)
     /\ UNCHANGED <<cwd, cwd_path, mounts>>

\* VfsContext::cd. Bound: MaxCwd.
Cd(p) ==
  LET i == Resolve(p)
      abs == MakeAbsolute(p)
  IN /\ i > 0 /\ IsDir(node, i)
     /\ cwd' = i
     /\ cwd_path' = IF abs = SlashPath THEN abs ELSE TrimEnd(abs)
     /\ Len(cwd_path') <= MaxCwd
     /\ Become(node, i)
     /\ UNCHANGED mounts

\* mkdir_p: the tree it leaves, whether or not it gets to the end of the path.
\* It looks "." and ".." up as names and follows no links.
MkdirStep(s, c) ==
  LET next == LookupIn(s.n, s.at, c)
  IN CASE s.at < 0 -> s
       [] s.at > 0 /\ next > 0 -> [s EXCEPT !.at = IF IsDir(s.n, next) THEN next ELSE ENOTDIR]
       [] s.at > 0 /\ next < 0 /\ CanAdd(s.n, s.at, c) ->
            [n |-> Add(s.n, s.at, c, Dir(<<>>)), at |-> Fresh(s.n)]
       [] OTHER -> [s EXCEPT !.at = next]

MkdirP(p) ==
  LET cs == Components(p)
      after[k \in 0..Len(cs)] ==
        IF k = 0 THEN [n |-> node, at |-> IF IsAbsolute(p) THEN Root ELSE cwd]
        ELSE MkdirStep(after[k - 1], cs[k])
  IN after[Len(cs)].n

\* The length of the path in characters; names have one.
NameLen(c) == CASE c = "" -> 0 [] c = ".." -> 2 [] OTHER -> 1
StrLen(p) ==
  LET to[k \in 0..Len(p)] == IF k = 0 THEN Len(p) - 1 ELSE to[k - 1] + NameLen(p[k])
  IN to[Len(p)]

\* Where mount inserts its entry.
\* Mutant: at the end.
PositionLast(mp) == Len(mounts) + 1

Position(mp) ==
  Min({k \in DOMAIN mounts : StrLen(mounts[k].mp) < StrLen(mp)} \cup {Len(mounts) + 1})

\* VfsContext::mount ignores the result of mkdir_p. Bounds: MaxMounts, MaxIno.
Mount(p, v) ==
  LET mp == IF p = SlashPath THEN p ELSE TrimEnd(p)
  IN /\ Len(mounts) < MaxMounts
     /\ Cardinality({i \in Ram : node[i] = Free}) >= Len(Components(mp))
     /\ Become(MkdirP(mp), cwd)
     /\ LET at == Position(mp) IN
        mounts' = SubSeq(mounts, 1, at - 1) \o <<[mp |-> mp, root |-> v]>> \o SubSeq(mounts, at, Len(mounts))
     /\ UNCHANGED <<cwd, cwd_path>>

Umount(p) ==
  /\ \E k \in DOMAIN mounts : mounts[k].mp = p
  /\ mounts' = Dropping(mounts, {m \in Range(mounts) : m.mp = p})
  /\ UNCHANGED <<node, cwd, cwd_path>>

Next ==
  \/ \E p \in Paths : Mkdir(p)
  \/ \E p \in Paths : Touch(p)
  \/ \E p \in Paths, buf \in Contents : WriteFile(p, buf)
  \/ \E p \in Paths, q \in Paths : Copy(p, q)
  \/ \E p \in Paths : Unlink(p)
  \/ \E p \in Paths : Rmdir(p)
  \/ \E p \in Paths, t \in Targets : Symlink(t, p)
  \/ \E p \in Paths, q \in Paths : Rename(p, q)
  \/ \E p \in Paths : Cd(p)
  \/ \E p \in MountPoints, v \in Volumes : Mount(p, v)
  \/ \E p \in MountPoints : Umount(p)

Spec == Init /\ [][Next]_vars
-----------------------------------------------------------------------------
\* The names of RamDir::children lead to inodes of ramfs that exist, cwd is
\* such an inode or one of a volume, and the mount table holds volumes.
TypeOK ==
  /\ \A i \in Ram :
       /\ node[i].kind \in {"dir", "file", "link", "free"}
       /\ \A c \in DOMAIN node[i].kids :
            node[i].kids[c] \in Ram /\ node[node[i].kids[c]] # Free
  /\ cwd \in Inodes /\ NodeOf(node, cwd).kind = "dir"
  /\ Len(cwd_path) \in 1..MaxCwd
  /\ \A k \in DOMAIN mounts : mounts[k].root \in Volumes
  /\ Len(mounts) <= MaxMounts

Names(i) ==
  {e \in {<<d, c>> : d \in Ram, c \in UNION {DOMAIN node[d].kids : d \in Ram}} :
     e[2] \in DOMAIN node[e[1]].kids /\ node[e[1]].kids[e[2]] = i}

\* No inode has two names and the root has none, whatever rename moves where:
\* what can be reached from the root is a tree, so rmdir, which holds the lock
\* of a directory while it asks a child whether it is empty, never takes the
\* same lock twice.
Tree == Names(Root) = {} /\ \A i \in Ram : Cardinality(Names(i)) <= 1

\* resolve_abs takes the first entry of the mount table that covers a path,
\* and that is one with the longest mount point.
LongestMount ==
  \A p \in Paths :
    LET abs == MakeAbsolute(p)
    IN \A k \in Covering(abs) : Len(mounts[k].mp) <= Len(mounts[Chosen(abs)].mp)

\* What write_file wrote, or cp through it, is what read_file then reads under
\* the same path, through links, dots and the current directory, old content
\* longer than the new included; paths below a mount point are excepted, for
\* there the file is created where no read will look.
WriteReads ==
  [][\A p \in Paths, buf \in Contents :
       WriteFile(p, buf) /\ Covering(MakeAbsolute(p)) = {} =>
         Resolve(p)' > 0 /\ ReadFile(p)' = buf]_vars

InTree(n) == Reach(n, {Root})

\* An operation other than rename takes at most one inode out of the tree: no
\* create replaces an entry, also when the path was looked for elsewhere (under
\* a mount, behind a dangling link) and not found, and no directory is removed
\* with what it holds.
RemovesOne ==
  [][\/ Cardinality(InTree(node) \ InTree(node')) <= 1
     \/ \E p \in Paths, q \in Paths : Rename(p, q)]_vars

\* After mount the mount point is a directory of ramfs, which the comments of
\* VfsContext::mount promise.
MountPointMade ==
  [][\A p \in MountPoints, v \in Volumes :
       Mount(p, v) => IsRamDir(node, ResolveFrom(Root, cwd, p))']_vars

\* A path leads to the same place when it is spelt without the components that
\* stand for nothing, "." and the empty one, also into a mounted volume.
Transparent ==
  \A p \in Paths :
    IsAbsolute(p) =>
      Resolve(p) = Resolve(<<"">> \o Dropping(p, {"", "."}))
====
