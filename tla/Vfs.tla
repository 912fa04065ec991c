-------------------------------- MODULE Vfs ---------------------------------
(***************************************************************************)
(* The virtual file system of userspace/fs-service/src/vfs.rs over the     *)
(* file systems of Ext4: mount points, open file descriptors and the path  *)
(* and descriptor operations the service offers (lib.rs).  A path is the   *)
(* sequence of its characters, since mounts are looked up by string        *)
(* prefix; open flags are the set of the bits that are set.  A call that   *)
(* fails before it reaches the file system changes nothing and is no step. *)
(***************************************************************************)
EXTENDS Ext4, FiniteSetsExt, SequencesExt

CONSTANTS
    MountPaths, FilePaths,   \* paths mounted and paths used
    Flags,                   \* sets of open flag bits
    Lengths,                 \* sizes of read and write buffers
    MaxFds,                  \* bound: descriptors handed out
    MaxInodes,               \* bound: files in the mounted file systems
    MaxOffset                \* bound: file offsets

ASSUME VfsAssumption ==
    /\ MountPaths \subseteq {p \in FilePaths : p # << >> /\ p[1] = "/"}
    /\ Lengths \subseteq Nat /\ {MaxFds, MaxInodes, MaxOffset} \subseteq Nat

VARIABLES
    mount_points,    \* path -> read_only
    file_systems,    \* path -> state of the Ext4 file system mounted there
    open_files,      \* descriptor -> OpenFile
    next_fd

vars == <<mount_points, file_systems, open_files, next_fd>>

StartsWith(path, m) == IsPrefix(m, path)

\* find_mount_point: the longest mounted prefix
MountsOf(path) == {m \in DOMAIN mount_points : StartsWith(path, m)}
find_mount_point(path) == CHOOSE m \in MountsOf(path) : \A o \in MountsOf(path) : Len(o) <= Len(m)
relative_path(path, m) == IF path = m THEN Root ELSE SubSeq(path, Len(m) + 1, Len(path))

Init ==
    /\ mount_points = << >> /\ file_systems = << >> /\ open_files = << >>
    /\ next_fd = 1

mount(m, read_only) ==
    /\ m \notin DOMAIN mount_points
    /\ mount_points' = Put(mount_points, m, read_only)
    /\ file_systems' = Put(file_systems, m, Mounted)
    /\ UNCHANGED <<open_files, next_fd>>

\* Mutant: the open files are not looked at
NotBusyAlways(m) == TRUE
NotBusy(m) == \A fd \in DOMAIN open_files : open_files[fd].mount_point # m

unmount(m) ==
    /\ NotBusy(m) /\ m \in DOMAIN mount_points
    /\ file_systems' = Without(file_systems, m)
    /\ mount_points' = Without(mount_points, m)
    /\ UNCHANGED <<open_files, next_fd>>

\* The file system that path belongs to
Found(path, m) == /\ MountsOf(path) # {} /\ m = find_mount_point(path)
                  /\ m \in DOMAIN file_systems
SetFs(m, fs) == file_systems' = [file_systems EXCEPT ![m] = fs]

\* flags are compared as a whole with WRITE_ONLY and with READ_WRITE
RefusedReadOnly(m, flags) == mount_points[m] /\ flags \in {{"WRITE_ONLY"}, {"READ_WRITE"}}

MayOpen(path, flags, m) ==
    /\ Found(path, m) /\ ~RefusedReadOnly(m, flags)
    /\ Resolves(file_systems[m], relative_path(path, m))

open(path, flags) == \E m \in MountsOf(path) :
    /\ next_fd <= MaxFds
    /\ MayOpen(path, flags, m)
    /\ LET rel == relative_path(path, m)
           fs == file_systems[m]
       IN  /\ SetFs(m, read_inode(fs, resolve_path(fs, rel)))
           /\ open_files' = Put(open_files, next_fd,
                [inode |-> resolve_path(fs, rel), mount_point |-> m, flags |-> flags,
                 offset |-> 0, path |-> path])
    /\ next_fd' = next_fd + 1
    /\ UNCHANGED mount_points

close(fd) ==
    /\ fd \in DOMAIN open_files
    /\ open_files' = Without(open_files, fd)
    /\ UNCHANGED <<mount_points, file_systems, next_fd>>

Advanced(fd, n) == open_files' = [open_files EXCEPT ![fd].offset = @ + n]

MayRead(fd) == fd \in DOMAIN open_files /\ open_files[fd].flags # {"WRITE_ONLY"}
MayWrite(fd) == fd \in DOMAIN open_files /\ open_files[fd].flags # {}

read(fd, len) ==
    /\ MayRead(fd)
    /\ LET f == open_files[fd] IN
        /\ f.mount_point \in DOMAIN file_systems
        /\ SetFs(f.mount_point, read_inode(file_systems[f.mount_point], f.inode))
        /\ Advanced(fd, BytesRead(file_systems[f.mount_point], f.inode, f.offset, len))
    /\ UNCHANGED <<mount_points, next_fd>>

\* PermissionDenied for what is not a regular file, after its inode is cached
write(fd, len) ==
    /\ MayWrite(fd)
    /\ LET f == open_files[fd]
           m == f.mount_point
       IN  /\ m \in DOMAIN file_systems /\ f.offset + len <= MaxOffset
           /\ IF Inode(file_systems[m], f.inode).type = "Regular"
              THEN /\ SetFs(m, ext4_write(file_systems[m], f.inode, f.offset, len))
                   /\ Advanced(fd, len)
              ELSE SetFs(m, read_inode(file_systems[m], f.inode)) /\ UNCHANGED open_files
    /\ UNCHANGED <<mount_points, next_fd>>

\* stat and readdir: the inode is read into the cache
Lookup(path) == \E m \in MountsOf(path) :
    /\ Found(path, m) /\ Resolves(file_systems[m], relative_path(path, m))
    /\ SetFs(m, read_inode(file_systems[m], resolve_path(file_systems[m], relative_path(path, m))))
    /\ UNCHANGED <<mount_points, open_files, next_fd>>

stat(path) == Lookup(path)
readdir(path) == Lookup(path)

Created == MapThenSumSet(LAMBDA m : file_systems[m].next_inode - FirstInode, DOMAIN file_systems)

MayCreate(path, m) ==
    /\ Found(path, m) /\ ~mount_points[m]
    /\ relative_path(path, m) \notin DOMAIN file_systems[m].path_to_inode

create(path, type) == \E m \in MountsOf(path) :
    /\ MayCreate(path, m) /\ Created < MaxInodes
    /\ SetFs(m, ext4_create(file_systems[m], relative_path(path, m), type))
    /\ UNCHANGED <<mount_points, open_files, next_fd>>

mkdir(path) == create(path, "Directory")

\* what unlink (of a file) and rmdir (of a directory) have in common
RemovePath(path, directory) == \E m \in MountsOf(path) :
    /\ Found(path, m) /\ ~mount_points[m]
    /\ LET fs == file_systems[m]
           rel == relative_path(path, m)
       IN  /\ Resolves(fs, rel)
           /\ SetFs(m, IF directory THEN ext4_rmdir(fs, rel) ELSE ext4_unlink(fs, rel))
    /\ UNCHANGED <<mount_points, open_files, next_fd>>
unlink(path) == RemovePath(path, FALSE)
rmdir(path) == RemovePath(path, TRUE)

Next ==
    \/ \E m \in MountPaths : \/ \E ro \in BOOLEAN : mount(m, ro)
                             \/ unmount(m)
    \/ \E p \in FilePaths : \/ \E fl \in Flags : open(p, fl)
                            \/ create(p, "Regular") \/ mkdir(p)
                            \/ unlink(p) \/ rmdir(p) \/ stat(p) \/ readdir(p)
    \/ \E fd \in DOMAIN open_files : \/ close(fd)
                                     \/ \E n \in Lengths : read(fd, n) \/ write(fd, n)

Spec == Init /\ [][Next]_vars
-----------------------------------------------------------------------------
\* A descriptor's mount point stays mounted, whatever is mounted above or below it meanwhile,
\* and with it the file system its calls go to: read, write and close never answer NotMounted.
DescriptorsUsable ==
    /\ DOMAIN file_systems = DOMAIN mount_points
    /\ \A fd \in DOMAIN open_files : open_files[fd].mount_point \in DOMAIN mount_points

\* On one mount, two descriptors have the same inode exactly when the same path was opened,
\* across every creation, removal and lookup since.
SameFileSameInode ==
    \A a, b \in DOMAIN open_files :
        open_files[a].mount_point = open_files[b].mount_point =>
            (open_files[a].inode = open_files[b].inode) = (open_files[a].path = open_files[b].path)
=============================================================================
