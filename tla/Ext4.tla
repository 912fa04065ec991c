-------------------------------- MODULE Ext4 --------------------------------
(***************************************************************************)
(* The ext4 file system of userspace/fs-service/src/ext4.rs: the in-memory *)
(* state of one mounted Ext4FileSystem and its operations as operators on  *)
(* that state.  The device reads and writes are placeholders in the code:  *)
(* an inode that is not cached is a regular file of size 0.  Of an inode   *)
(* its file type and size are kept.                                        *)
(***************************************************************************)
EXTENDS Integers, Sequences, Functions

CONSTANT FirstInode    \* 100 in the code
ASSUME Ext4Assumption == FirstInode \in Nat /\ FirstInode > 2

RootInode == 2
Root == <<"/">>
Put(f, k, v) == [x \in DOMAIN f \cup {k} |-> IF x = k THEN v ELSE f[x]]
Without(f, k) == Restrict(f, DOMAIN f \ {k})

Placeholder == [type |-> "Regular", size |-> 0]

\* new, init and a successful mount
Mounted == [inode_cache |-> << >>, path_to_inode |-> << >>, next_inode |-> FirstInode]

Resolves(fs, path) == path = Root \/ path \in DOMAIN fs.path_to_inode
resolve_path(fs, path) == IF path = Root THEN RootInode ELSE fs.path_to_inode[path]

\* read_inode: what it returns, and the cache it leaves
Inode(fs, n) == IF n \in DOMAIN fs.inode_cache THEN fs.inode_cache[n] ELSE Placeholder
read_inode(fs, n) == [fs EXCEPT !.inode_cache = Put(@, n, Inode(fs, n))]

BytesRead(fs, n, offset, len) ==
    LET size == Inode(fs, n).size
    IN  IF offset >= size THEN 0 ELSE IF len < size - offset THEN len ELSE size - offset

\* Mutant: the new size is not written back
ext4_write_uncached(fs, n, offset, len) == read_inode(fs, n)

ext4_write(fs, n, offset, len) ==
    LET cached == read_inode(fs, n)
    IN  IF offset + len > Inode(fs, n).size
        THEN [cached EXCEPT !.inode_cache[n].size = offset + len] ELSE cached

\* Mutant: the inode number is not used up
ext4_create_same_inode(fs, path, type) ==
    [fs EXCEPT !.inode_cache = Put(@, fs.next_inode, [type |-> type, size |-> 0]),
               !.path_to_inode = Put(@, path, fs.next_inode)]

ext4_create(fs, path, type) ==
    [inode_cache |-> Put(fs.inode_cache, fs.next_inode, [type |-> type, size |-> 0]),
     path_to_inode |-> Put(fs.path_to_inode, path, fs.next_inode),
     next_inode |-> fs.next_inode + 1]

\* the inode leaves the cache if it is, or is not, a directory
IsDirectory(fs, path) == Inode(fs, resolve_path(fs, path)).type = "Directory"
RemovedIf(fs, path, test) ==
    LET n == resolve_path(fs, path)
    IN  IF test THEN [fs EXCEPT !.inode_cache = Without(@, n)] ELSE read_inode(fs, n)
ext4_unlink(fs, path) == RemovedIf(fs, path, ~IsDirectory(fs, path))
ext4_rmdir(fs, path) == RemovedIf(fs, path, IsDirectory(fs, path))
=============================================================================
