----------------------------- MODULE FsService ------------------------------
(***************************************************************************)
(* The file system service: FileSystemService of                           *)
(* userspace/fs-service/src/main.rs over Vfs, run by the ServiceRunner of  *)
(* shared/kosh-service.  A request is one call of handle_request, which    *)
(* run_once is to make for a message it received; the reception of         *)
(* messages is a stub in the code.  A request that Vfs refuses is answered *)
(* with Empty, and every answer has the status Success.                    *)
(***************************************************************************)
EXTENDS Vfs

VARIABLES
    phase,    \* of ServiceRunner: "new", "running" or, once stopped, "stopped"
    reply     \* data of the last ServiceResponse

fsVars == <<vars, phase, reply>>

Empty == [kind |-> "Empty", value |-> 0]
Binary(n) == [kind |-> "Binary", value |-> n]
Text == [kind |-> "Text", value |-> 0]

ServiceInit == Init /\ phase = "new" /\ reply = Empty

\* ServiceRunner::start: initialize mounts the root for reading and writing.  shutdown does
\* not unmount it, so after a stop the mount, and with it start, fails.
start == phase = "new" /\ mount(Root, FALSE) /\ phase' = "running" /\ UNCHANGED reply
stop == phase = "running" /\ phase' = "stopped" /\ UNCHANGED <<vars, reply>>

Respond(data) == reply' = data /\ UNCHANGED phase
Refused == Respond(Empty) /\ UNCHANGED vars

Open(path, flags) ==
    \/ open(path, flags) /\ Respond(Binary(next_fd))
    \/ (\A m \in MountsOf(path) : ~ MayOpen(path, flags, m)) /\ Refused

Close(fd) ==
    \/ close(fd) /\ Respond(Empty)
    \/ fd \notin DOMAIN open_files /\ Refused

Read(fd, size) ==
    \/ /\ read(fd, size)
       /\ LET f == open_files[fd] IN
            Respond(Binary(BytesRead(file_systems[f.mount_point], f.inode, f.offset, size)))
    \/ ~ MayRead(fd) /\ Refused

Write(fd, len) ==
    \/ /\ write(fd, len)
       /\ LET f == open_files[fd] IN
            Respond(IF Inode(file_systems[f.mount_point], f.inode).type = "Regular"
                    THEN Binary(len) ELSE Empty)
    \/ ~ MayWrite(fd) /\ Refused

Create(path, type) ==
    \/ create(path, type) /\ Respond(Empty)
    \/ (\A m \in MountsOf(path) : ~ MayCreate(path, m)) /\ Refused

\* a fixed listing; Delete and requests for other services do nothing
List == Respond(Text) /\ UNCHANGED vars
Delete == Refused

handle_request ==
    \/ \E p \in FilePaths : \/ \E fl \in Flags : Open(p, fl)
                            \/ \E t \in {"Regular", "Directory"} : Create(p, t)
    \/ \E fd \in 1 .. MaxFds : \/ Close(fd)
                               \/ \E n \in Lengths : Read(fd, n) \/ Write(fd, n)
    \/ List \/ Delete

ServiceNext == start \/ stop \/ (phase = "running" /\ handle_request)

ServiceSpec == ServiceInit /\ [][ServiceNext]_fsVars
-----------------------------------------------------------------------------
\* The names of the store are the paths relative to the mounted root.
Relative(path) == relative_path(path, Root)

RootFs == IF phase = "new" THEN Mounted ELSE file_systems[Root]
StoredFiles ==
    [n \in {Root} \cup DOMAIN RootFs.path_to_inode |-> Inode(RootFs, resolve_path(RootFs, n))]
StoredHandles ==
    IF phase = "new" THEN << >>
    ELSE [fd \in DOMAIN open_files |->
            [name |-> Relative(open_files[fd].path), flags |-> open_files[fd].flags,
             offset |-> open_files[fd].offset]]

Store == INSTANCE FileStore WITH
    Names <- {Relative(p) : p \in FilePaths},
    serving <- phase = "running", files <- StoredFiles, handles <- StoredHandles,
    next <- IF phase = "new" THEN 1 ELSE next_fd

\* Through its inode numbers, its cache and its mount point the service behaves like a plain
\* store of files: a file has one size whichever descriptor looks at it, what is written
\* through one is there for the others, reads stop at the end of the file, descriptors do not
\* disturb one another, and a refused request changes nothing.
ImplementsFileStore == Store!Spec
=============================================================================
