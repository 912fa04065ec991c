-------------------------- MODULE FsServiceProofs ---------------------------
(***************************************************************************)
(* The file system service implements FileStore, for any paths, flags and  *)
(* sizes.                                                                  *)
(*                                                                         *)
(* The argument: the root stays the only mount point, so every request     *)
(* reaches the one file system mounted there.  Its names have inode        *)
(* numbers of their own, all below next_inode, so that creating or writing *)
(* a file leaves what the others' inodes say alone; and a descriptor's     *)
(* inode is the one its path still resolves to, its offset not past the    *)
(* end of the file.                                                        *)
(***************************************************************************)
EXTENDS FsService, TLAPS

Inodes == [type : {"Regular", "Directory"}, size : Nat]

\* What the operations keep true of one mounted file system
FsOK(fs) ==
    /\ fs = [inode_cache |-> fs.inode_cache, path_to_inode |-> fs.path_to_inode,
             next_inode |-> fs.next_inode]
    /\ fs.next_inode \in Nat /\ fs.next_inode >= FirstInode
    /\ fs.inode_cache \in [DOMAIN fs.inode_cache -> Inodes]
    /\ fs.path_to_inode \in [DOMAIN fs.path_to_inode -> FirstInode .. fs.next_inode - 1]
    /\ \A p, q \in DOMAIN fs.path_to_inode :
        fs.path_to_inode[p] = fs.path_to_inode[q] => p = q

\* What the names of a file system say: the files of the store
Listing(fs) == [n \in {Root} \cup DOMAIN fs.path_to_inode |-> Inode(fs, resolve_path(fs, n))]

OpenFile == [inode : Nat, mount_point : {Root}, flags : Flags, offset : Nat, path : FilePaths]

\* What an open file has to do with the file system it belongs to
FileOK(f, fs) ==
    /\ f \in OpenFile
    /\ Resolves(fs, Relative(f.path)) /\ f.inode = resolve_path(fs, Relative(f.path))
    /\ f.offset <= Inode(fs, f.inode).size

LEMMA MountedOK == FsOK(Mounted)
BY Ext4Assumption DEF FsOK, Mounted

LEMMA InodeType ==
    ASSUME NEW fs, FsOK(fs), NEW n
    PROVE  Inode(fs, n) \in Inodes
BY DEF FsOK, Inode, Placeholder, Inodes

\* Different names have different inodes, and all are used up.
LEMMA ResolveFacts ==
    ASSUME NEW fs, FsOK(fs), NEW p, NEW q, Resolves(fs, p), Resolves(fs, q)
    PROVE  /\ resolve_path(fs, p) \in Nat /\ resolve_path(fs, p) < fs.next_inode
           /\ resolve_path(fs, p) = resolve_path(fs, q) => p = q
BY Ext4Assumption DEF FsOK, Resolves, resolve_path, RootInode

\* Reading an inode caches it and tells nothing new.
LEMMA ReadFacts ==
    ASSUME NEW fs, FsOK(fs), NEW n
    PROVE  LET r == read_inode(fs, n)
           IN  /\ FsOK(r) /\ r.path_to_inode = fs.path_to_inode
               /\ \A k : Inode(r, k) = Inode(fs, k)
<1> DEFINE r == read_inode(fs, n)
<1>1. r = [inode_cache |-> Put(fs.inode_cache, n, Inode(fs, n)),
           path_to_inode |-> fs.path_to_inode, next_inode |-> fs.next_inode]
    BY DEF FsOK, read_inode
<1>2. Inode(fs, n) \in Inodes
    BY InodeType
<1>. QED
    BY <1>1, <1>2 DEF FsOK, Inode, Put

\* A write to a file lets its inode grow and touches no other.
LEMMA WriteFacts ==
    ASSUME NEW fs, FsOK(fs), NEW n, NEW offset \in Nat, NEW len \in Nat
    PROVE  LET w == ext4_write(fs, n, offset, len)
           IN  /\ FsOK(w) /\ w.path_to_inode = fs.path_to_inode
               /\ \A k : k # n => Inode(w, k) = Inode(fs, k)
               /\ Inode(w, n) = [type |-> Inode(fs, n).type,
                                 size |-> Store!Larger(Inode(fs, n).size, offset + len)]
<1> DEFINE r == read_inode(fs, n)
           i == Inode(fs, n)
<1>1. i \in Inodes /\ i = [type |-> i.type, size |-> i.size]
    BY InodeType DEF Inodes
<1>2. FsOK(r) /\ r.path_to_inode = fs.path_to_inode /\ \A k : Inode(r, k) = Inode(fs, k)
    BY ReadFacts
<1>3. n \in DOMAIN r.inode_cache /\ r.inode_cache[n] = i
    BY DEF FsOK, read_inode, Put
<1>4. CASE ~ (offset + len > i.size)
    <2>1. i.size \in Nat /\ Store!Larger(i.size, offset + len) = i.size
        BY <1>1, <1>4 DEF Inodes, Store!Larger
    <2>. QED BY <1>1, <1>2, <1>4, <2>1 DEF ext4_write
<1>5. CASE offset + len > i.size
    <2> DEFINE w == ext4_write(fs, n, offset, len)
               grown == [type |-> i.type, size |-> offset + len]
    <2>1. w = [r EXCEPT !.inode_cache[n].size = offset + len]
        BY <1>5 DEF ext4_write
    <2>2. w = [inode_cache |-> [r.inode_cache EXCEPT ![n] = grown],
               path_to_inode |-> fs.path_to_inode, next_inode |-> r.next_inode]
        BY <2>1, <1>1, <1>2, <1>3 DEF FsOK
    <2>3. grown \in Inodes
        BY <1>1 DEF Inodes
    <2>4. FsOK(w)
        BY <2>2, <2>3, <1>2, <1>3 DEF FsOK
    <2>5. Inode(w, n) = grown /\ \A k : k # n => Inode(w, k) = Inode(r, k)
        BY <2>2, <1>2, <1>3 DEF Inode, FsOK
    <2>6. Store!Larger(i.size, offset + len) = offset + len
        BY <1>1, <1>5, Zenon DEF Inodes, Store!Larger
    <2>. QED BY <2>2, <2>4, <2>5, <2>6, <1>2
<1>. QED BY <1>4, <1>5

\* A new file gets an inode no name has.
LEMMA CreateFacts ==
    ASSUME NEW fs, FsOK(fs), NEW path, path \notin DOMAIN fs.path_to_inode,
           NEW type \in {"Regular", "Directory"}
    PROVE  LET c == ext4_create(fs, path, type)
           IN  /\ FsOK(c)
               /\ DOMAIN c.path_to_inode = DOMAIN fs.path_to_inode \cup {path}
               /\ \A n : Resolves(fs, n) => /\ Resolves(c, n)
                                            /\ resolve_path(c, n) = resolve_path(fs, n)
                                            /\ Inode(c, resolve_path(c, n)) = Inode(fs, resolve_path(fs, n))
               /\ path # Root => Inode(c, resolve_path(c, path)) = [type |-> type, size |-> 0]
<1> DEFINE c == ext4_create(fs, path, type)
           new == [type |-> type, size |-> 0]
<1>1. /\ c.inode_cache = Put(fs.inode_cache, fs.next_inode, new)
      /\ c.path_to_inode = Put(fs.path_to_inode, path, fs.next_inode)
      /\ c.next_inode = fs.next_inode + 1
      /\ c = [inode_cache |-> c.inode_cache, path_to_inode |-> c.path_to_inode,
              next_inode |-> c.next_inode]
    BY Zenon DEF ext4_create
<1>2. new \in Inodes
    BY DEF Inodes
<1>3. FsOK(c)
    <2>1. c.inode_cache \in [DOMAIN c.inode_cache -> Inodes]
        BY <1>1, <1>2 DEF FsOK, Put
    <2>2. c.path_to_inode \in [DOMAIN c.path_to_inode -> FirstInode .. c.next_inode - 1]
        BY <1>1, Ext4Assumption DEF FsOK, Put
    <2>3. \A p, q \in DOMAIN c.path_to_inode :
            c.path_to_inode[p] = c.path_to_inode[q] => p = q
        BY <1>1, Ext4Assumption DEF FsOK, Put
    <2>. QED BY <1>1, <2>1, <2>2, <2>3, Ext4Assumption DEF FsOK
<1>4. DOMAIN c.path_to_inode = DOMAIN fs.path_to_inode \cup {path}
    BY <1>1, Zenon DEF Put
<1>5. ASSUME NEW n, Resolves(fs, n)
      PROVE  /\ Resolves(c, n) /\ resolve_path(c, n) = resolve_path(fs, n)
             /\ Inode(c, resolve_path(c, n)) = Inode(fs, resolve_path(fs, n))
    <2>1. Resolves(c, n) /\ resolve_path(c, n) = resolve_path(fs, n)
        BY <1>1, <1>4, <1>5, Zenon DEF Resolves, resolve_path, Put
    <2>2. resolve_path(fs, n) # fs.next_inode
        BY <1>5, ResolveFacts DEF FsOK
    <2>. QED BY <2>1, <2>2, <1>1 DEF Inode, Put
<1>6. path # Root => Inode(c, resolve_path(c, path)) = new
    BY <1>1 DEF Inode, resolve_path, Put
<1>. QED BY <1>3, <1>4, <1>5, <1>6, Zenon

-----------------------------------------------------------------------------
\* The inductive invariant: nothing is there before start, and afterwards the root is mounted
\* for writing, alone, with a file system and open files as above.
IInv ==
    /\ phase \in {"new", "running", "stopped"} /\ next_fd \in Nat \ {0}
    /\ phase = "new" => /\ mount_points = << >> /\ file_systems = << >>
                        /\ open_files = << >> /\ next_fd = 1
    /\ phase # "new" => /\ mount_points = [m \in {Root} |-> FALSE]
                        /\ file_systems = [m \in {Root} |-> file_systems[Root]]
                        /\ FsOK(file_systems[Root])
                        /\ open_files \in [DOMAIN open_files -> OpenFile]
                        /\ DOMAIN open_files \subseteq 1 .. next_fd - 1
                        /\ \A fd \in DOMAIN open_files : FileOK(open_files[fd], file_systems[Root])

Handle(f) == [name |-> Relative(f.path), flags |-> f.flags, offset |-> f.offset]

LEMMA EmptyHandles == << >> = [h \in {} |-> 0]
OBVIOUS

LEMMA InitStep == ServiceInit => IInv /\ Store!Init
<1> SUFFICES ASSUME ServiceInit PROVE IInv /\ Store!Init
    OBVIOUS
<1> USE DEF ServiceInit, Init
<1>1. IInv
    BY DEF IInv
<1>2. StoredFiles = [n \in {Root} |-> Store!File("Regular", 0)]
    BY DEF StoredFiles, RootFs, Mounted, Inode, Placeholder, Store!File
<1>3. StoredHandles = [h \in {} |-> 0]
    BY EmptyHandles DEF StoredHandles
<1>. QED
    BY <1>1, <1>2, <1>3 DEF Store!Init, Empty, Store!Empty

\* Starting mounts the root, which the store had from the beginning.
LEMMA StartStep ==
    ASSUME IInv, start
    PROVE  IInv' /\ Store!Next
<1> USE DEF IInv, start, mount
<1>1. /\ mount_points' = [m \in {Root} |-> FALSE]
      /\ file_systems' = [m \in {Root} |-> Mounted]
    BY DEF Put
<1>2. IInv'
    <2>1. FsOK(file_systems'[Root]) /\ file_systems' = [m \in {Root} |-> file_systems'[Root]]
        BY <1>1, MountedOK
    <2>2. open_files' = [h \in {} |-> 0] /\ next_fd' = 1 /\ phase' = "running"
        BY EmptyHandles
    <2>. QED BY <1>1, <2>1, <2>2, Zenon
<1>3. StoredFiles' = StoredFiles
    BY <1>1 DEF StoredFiles, RootFs
<1>4. StoredHandles' = StoredHandles
    BY EmptyHandles DEF StoredHandles
<1>5. Store!Switch(TRUE)
    BY <1>3, <1>4, Zenon DEF Store!Switch
<1>. QED
    BY <1>2, <1>5, Zenon DEF Store!Next

LEMMA StopStep ==
    ASSUME IInv, stop
    PROVE  IInv' /\ Store!Next
<1> USE DEF IInv, stop, vars
<1>1. IInv'
    BY DEF FileOK, Resolves, resolve_path, Inode
<1>2. StoredFiles' = StoredFiles /\ StoredHandles' = StoredHandles
    BY DEF StoredFiles, RootFs, StoredHandles
<1>3. Store!Switch(FALSE)
    BY <1>2, Zenon DEF Store!Switch
<1>. QED
    BY <1>1, <1>3, Zenon DEF Store!Next

\* A refused request, and one that is answered with a constant
LEMMA AnswerStep ==
    ASSUME IInv, phase = "running", NEW data \in {Empty, Text}, Respond(data), UNCHANGED vars
    PROVE  IInv' /\ Store!Next
<1> USE DEF IInv, Respond, vars
<1>1. IInv'
    OBVIOUS
<1>2. StoredFiles' = StoredFiles /\ StoredHandles' = StoredHandles
    BY DEF StoredFiles, RootFs, StoredHandles
<1>3. Store!Answer(data)
    BY <1>2 DEF Store!Answer
<1>. QED
    BY <1>1, <1>3 DEF Store!Next, Empty, Text, Store!Empty, Store!Text

-----------------------------------------------------------------------------
\* While the service runs, a path belongs to the root or to no mount point at all.
LEMMA OnlyRoot ==
    ASSUME IInv, phase # "new", NEW path, NEW m, Found(path, m)
    PROVE  m = Root /\ MountsOf(path) = {Root}
<1>1. DOMAIN mount_points = {Root} /\ MountsOf(path) \subseteq {Root}
    BY DEF IInv, MountsOf
<1>2. MountsOf(path) = {Root}
    BY <1>1 DEF Found
<1>3. m \in DOMAIN file_systems /\ DOMAIN file_systems = {Root}
    BY DEF IInv, Found
<1>. QED BY <1>2, <1>3

LEMMA RunningView ==
    ASSUME phase # "new"
    PROVE  /\ StoredFiles = Listing(file_systems[Root])
           /\ StoredHandles = [fd \in DOMAIN open_files |-> Handle(open_files[fd])]
BY DEF StoredFiles, RootFs, StoredHandles, Listing, Handle

LEMMA NextView ==
    ASSUME phase' # "new"
    PROVE  /\ StoredFiles' = Listing(file_systems'[Root])
           /\ StoredHandles' = [fd \in DOMAIN open_files' |-> Handle(open_files'[fd])]
BY DEF StoredFiles, RootFs, StoredHandles, Listing, Handle

\* A file system that tells the same of all names has the same listing, and suits the open
\* files just as well.
LEMMA SameListing ==
    ASSUME NEW fs, NEW r, r.path_to_inode = fs.path_to_inode, \A k : Inode(r, k) = Inode(fs, k)
    PROVE  /\ Listing(r) = Listing(fs)
           /\ \A f : FileOK(f, fs) => FileOK(f, r)
           /\ \A n : Resolves(r, n) = Resolves(fs, n) /\ resolve_path(r, n) = resolve_path(fs, n)
BY DEF Listing, FileOK, Resolves, resolve_path

LEMMA OpenStep ==
    ASSUME IInv, phase = "running", NEW p \in FilePaths, NEW fl \in Flags,
           open(p, fl), Respond(Binary(next_fd))
    PROVE  IInv' /\ Store!Next
<1> DEFINE fs == file_systems[Root]
           n == Relative(p)
           f == [inode |-> resolve_path(fs, n), mount_point |-> Root, flags |-> fl,
                 offset |-> 0, path |-> p]
           r == read_inode(fs, resolve_path(fs, n))
<1>1. PICK m \in MountsOf(p) :
        /\ MayOpen(p, fl, m)
        /\ SetFs(m, read_inode(file_systems[m], resolve_path(file_systems[m], relative_path(p, m))))
        /\ open_files' = Put(open_files, next_fd,
                [inode |-> resolve_path(file_systems[m], relative_path(p, m)), mount_point |-> m,
                 flags |-> fl, offset |-> 0, path |-> p])
        /\ next_fd' = next_fd + 1 /\ mount_points' = mount_points
    BY DEF open
<1>2. m = Root
    BY <1>1, OnlyRoot DEF MayOpen
<1>3. /\ Resolves(fs, n) /\ file_systems' = [x \in {Root} |-> r]
      /\ open_files' = Put(open_files, next_fd, f)
    BY <1>1, <1>2, ZenonT(30) DEF MayOpen, SetFs, Relative, IInv
<1>4. FsOK(r) /\ r.path_to_inode = fs.path_to_inode /\ \A k : Inode(r, k) = Inode(fs, k)
    BY ReadFacts DEF IInv
<1>5. phase' = "running" /\ reply' = Binary(next_fd)
    BY DEF Respond
<1>6. FileOK(f, fs)
    <2>1. f \in OpenFile
        BY <1>3, ResolveFacts DEF OpenFile, IInv
    <2>2. Inode(fs, f.inode) \in Inodes
        BY InodeType DEF IInv
    <2>. QED BY <2>1, <2>2, <1>3 DEF FileOK, Inodes
<1>7. IInv'
    <2>1. \A fd \in DOMAIN open_files' : FileOK(open_files'[fd], r)
        <3>1. \A g : FileOK(g, fs) => FileOK(g, r)
            BY <1>4, SameListing
        <3>2. \A fd \in DOMAIN open_files : FileOK(open_files[fd], fs)
            BY DEF IInv
        <3> HIDE DEF f, fs, r
        <3>. QED BY <1>3, <1>6, <3>1, <3>2 DEF Put
    <2>2. open_files' \in [DOMAIN open_files' -> OpenFile]
        BY <1>3, <2>1 DEF FileOK, Put
    <2>3. DOMAIN open_files' \subseteq 1 .. next_fd' - 1 /\ next_fd' \in Nat \ {0}
        BY <1>1, <1>3 DEF IInv, Put
    <2>4. file_systems'[Root] = r /\ mount_points' = [x \in {Root} |-> FALSE]
        BY <1>1, <1>3 DEF IInv
    <2>. QED BY <1>3, <1>4, <1>5, <2>1, <2>2, <2>3, <2>4 DEF IInv
<1>8. Store!Open(n, fl)
    <2>1. StoredFiles' = StoredFiles /\ n \in DOMAIN StoredFiles
        <3>1. Listing(r) = Listing(fs)
            BY <1>4, SameListing
        <3>2. n \in DOMAIN Listing(fs)
            BY <1>3 DEF Listing, Resolves
        <3>3. StoredFiles = Listing(fs) /\ file_systems'[Root] = r
            BY <1>3, RunningView
        <3>4. StoredFiles' = Listing(r)
            BY <1>5, <3>3, NextView
        <3>. QED BY <3>1, <3>2, <3>3, <3>4
    <2>2. Handle(f) = [name |-> n, flags |-> fl, offset |-> 0]
        BY DEF Handle
    <2>3. StoredHandles' = Store!With(StoredHandles, next_fd, [name |-> n, flags |-> fl, offset |-> 0])
        BY <1>3, <1>5, <2>2, RunningView, NextView DEF Put, Store!With
    <2>. QED BY <1>1, <1>5, <2>1, <2>3 DEF Store!Open, Store!Binary, Binary
<1>. QED BY <1>7, <1>8 DEF Store!Next

LEMMA CloseStep ==
    ASSUME IInv, phase = "running", NEW fd, close(fd), Respond(Empty)
    PROVE  IInv' /\ Store!Next
<1>1. /\ fd \in DOMAIN open_files
      /\ open_files' = [x \in DOMAIN open_files \ {fd} |-> open_files[x]]
      /\ mount_points' = mount_points /\ file_systems' = file_systems /\ next_fd' = next_fd
      /\ phase' = "running" /\ reply' = Empty
    BY DEF close, Without, Restrict, Respond
<1>2. IInv'
    <2>1. open_files' \in [DOMAIN open_files' -> OpenFile] /\ DOMAIN open_files' \subseteq DOMAIN open_files
        BY <1>1 DEF IInv
    <2>2. \A x \in DOMAIN open_files' : FileOK(open_files'[x], file_systems[Root])
        BY <1>1 DEF IInv
    <2>. QED BY <1>1, <2>1, <2>2 DEF IInv
<1>3. Store!Close(fd) /\ fd \in DOMAIN StoredHandles
    <2>1. StoredFiles' = StoredFiles
        BY <1>1, RunningView, NextView
    <2>2. StoredHandles' = [x \in DOMAIN StoredHandles \ {fd} |-> StoredHandles[x]]
        BY <1>1, RunningView, NextView
    <2>. QED BY <1>1, <2>1, <2>2, RunningView DEF Store!Close, Empty, Store!Empty
<1>. QED BY <1>2, <1>3 DEF Store!Next

\* A transfer moves one handle by as many bytes as it reports.
LEMMA Moved ==
    ASSUME IInv, phase # "new", phase' # "new", NEW fd \in DOMAIN open_files, NEW k \in Nat,
           Advanced(fd, k)
    PROVE  /\ DOMAIN open_files' = DOMAIN open_files
           /\ open_files' \in [DOMAIN open_files -> OpenFile]
           /\ \A x \in DOMAIN open_files : x # fd => open_files'[x] = open_files[x]
           /\ open_files'[fd] = [open_files[fd] EXCEPT !.offset = open_files[fd].offset + k]
           /\ StoredHandles' = [StoredHandles EXCEPT ![fd].offset = @ + k]
<1> DEFINE f == open_files[fd]
           g == [f EXCEPT !.offset = f.offset + k]
<1>1. open_files \in [DOMAIN open_files -> OpenFile] /\ f \in OpenFile
    BY DEF IInv
<1>2. open_files' = [open_files EXCEPT ![fd] = g]
    BY DEF Advanced
<1>3. g \in OpenFile /\ Handle(g) = [Handle(f) EXCEPT !.offset = f.offset + k] /\ Handle(f).offset = f.offset
    BY <1>1 DEF OpenFile, Handle
<1>4. StoredHandles' = [StoredHandles EXCEPT ![fd] = Handle(g)]
    BY <1>1, <1>2, RunningView, NextView
<1>5. StoredHandles[fd] = Handle(f) /\ fd \in DOMAIN StoredHandles
    BY RunningView
<1>. QED BY <1>1, <1>2, <1>3, <1>4, <1>5, ZenonT(30)

LEMMA ReadStep ==
    ASSUME IInv, phase = "running", NEW fd, NEW len \in Lengths, read(fd, len),
           LET f == open_files[fd] IN
            Respond(Binary(BytesRead(file_systems[f.mount_point], f.inode, f.offset, len)))
    PROVE  IInv' /\ Store!Next
<1> DEFINE fs == file_systems[Root]
           f == open_files[fd]
           n == Relative(f.path)
           r == read_inode(fs, f.inode)
           k == BytesRead(fs, f.inode, f.offset, len)
<1>1. fd \in DOMAIN open_files /\ f.flags # {"WRITE_ONLY"} /\ FileOK(f, fs) /\ FsOK(fs) /\ len \in Nat
    BY VfsAssumption DEF IInv, read, MayRead
<1>2. f \in OpenFile /\ f.mount_point = Root /\ f.offset \in Nat
    BY <1>1 DEF FileOK, OpenFile
<1>3. /\ file_systems' = [x \in {Root} |-> r] /\ Advanced(fd, k)
      /\ mount_points' = mount_points /\ next_fd' = next_fd
      /\ phase' = "running" /\ reply' = Binary(k)
    BY <1>2, ZenonT(30) DEF read, SetFs, Respond, IInv
<1>4. FsOK(r) /\ r.path_to_inode = fs.path_to_inode /\ \A j : Inode(r, j) = Inode(fs, j)
    BY <1>1, ReadFacts
<1>5. Inode(fs, f.inode).size \in Nat
    BY <1>1, InodeType DEF Inodes
<1>6. /\ k \in Nat /\ f.offset + k <= Inode(fs, f.inode).size
      /\ k = Store!Smaller(len, Inode(fs, f.inode).size - f.offset)
    <2>1. f.offset <= Inode(fs, f.inode).size
        BY <1>1 DEF FileOK
    <2> DEFINE size == Inode(fs, f.inode).size
               o == f.offset
    <2>2. k = IF o >= size THEN 0 ELSE IF len < size - o THEN len ELSE size - o
        BY DEF BytesRead
    <2>3. size \in Nat /\ o \in Nat /\ len \in Nat /\ o <= size
        BY <1>1, <1>2, <1>5, <2>1
    <2> HIDE DEF k, size, o
    <2>4. k \in Nat /\ o + k <= size /\ k = Store!Smaller(len, size - o)
        BY <2>2, <2>3 DEF Store!Smaller
    <2>. QED BY <2>4 DEF size, o
<1>7. IInv'
    <2>1. open_files'[fd] = [f EXCEPT !.offset = f.offset + k]
        BY <1>1, <1>3, <1>6, Moved
    <2>2. FileOK(open_files'[fd], fs)
        BY <1>1, <1>2, <1>6, <2>1 DEF FileOK, OpenFile
    <2>3. \A x \in DOMAIN open_files' : FileOK(open_files'[x], r)
        <3>1. \A g : FileOK(g, fs) => FileOK(g, r)
            BY <1>4, SameListing
        <3>2. /\ DOMAIN open_files' = DOMAIN open_files
              /\ \A x \in DOMAIN open_files : x # fd => open_files'[x] = open_files[x]
            BY <1>1, <1>3, <1>6, Moved, Zenon
        <3>. QED BY <2>2, <3>1, <3>2 DEF IInv
    <2>4. open_files' \in [DOMAIN open_files' -> OpenFile] /\ DOMAIN open_files' = DOMAIN open_files
        BY <1>1, <1>3, <1>6, Moved, ZenonT(30)
    <2>5. file_systems'[Root] = r
        BY <1>3
    <2>. QED BY <1>3, <1>4, <2>3, <2>4, <2>5 DEF IInv
<1>8. Store!Read(fd, len) /\ fd \in DOMAIN StoredHandles
    <2>1. StoredFiles' = StoredFiles
        BY <1>3, <1>4, RunningView, NextView, SameListing
    <2>2. StoredHandles' = [StoredHandles EXCEPT ![fd].offset = @ + k]
        BY <1>1, <1>3, <1>6, Moved, ZenonT(30)
    <2>3. StoredHandles[fd] = Handle(f) /\ fd \in DOMAIN StoredHandles
        BY <1>1, RunningView
    <2>4. n \in DOMAIN StoredFiles /\ StoredFiles[n] = Inode(fs, f.inode)
        BY <1>1, RunningView DEF FileOK, Listing, Resolves
    <2>5. /\ StoredHandles[fd].flags # {"WRITE_ONLY"}
          /\ k = Store!Smaller(len, StoredFiles[StoredHandles[fd].name].size - StoredHandles[fd].offset)
        <3>1. /\ StoredHandles[fd].flags = f.flags /\ StoredHandles[fd].name = n
              /\ StoredHandles[fd].offset = f.offset
            BY <2>3 DEF Handle
        <3>. QED BY <1>1, <1>6, <2>4, <3>1
    <2> HIDE DEF k
    <2>6. Store!Transfer(fd, k)
        BY <1>3, <2>2 DEF Store!Transfer, Store!Binary, Binary
    <2>. QED BY <2>1, <2>3, <2>5, <2>6 DEF Store!Read
<1>. QED BY <1>7, <1>8 DEF Store!Next

\* A write changes the size of one name, and only upwards.
LEMMA WrittenListing ==
    ASSUME NEW fs, FsOK(fs), NEW n, Resolves(fs, n), NEW offset \in Nat, NEW len \in Nat
    PROVE  LET w == ext4_write(fs, resolve_path(fs, n), offset, len)
           IN  /\ Listing(w) = [Listing(fs) EXCEPT ![n].size = Store!Larger(@, offset + len)]
               /\ \A f : FileOK(f, fs) => FileOK(f, w)
               /\ offset + len <= Inode(w, resolve_path(fs, n)).size
<1> DEFINE i == resolve_path(fs, n)
           w == ext4_write(fs, i, offset, len)
           old == Inode(fs, i)
           grown == [type |-> old.type, size |-> Store!Larger(old.size, offset + len)]
<1>1. old \in Inodes /\ old.size \in Nat
    BY InodeType DEF Inodes
<1>2. /\ w.path_to_inode = fs.path_to_inode /\ Inode(w, i) = grown
      /\ \A k : k # i => Inode(w, k) = Inode(fs, k)
    <2> HIDE DEF i
    <2>. QED BY WriteFacts
<1>3. /\ grown = [old EXCEPT !.size = Store!Larger(old.size, offset + len)]
      /\ old.size <= grown.size /\ offset + len <= grown.size
    <2> HIDE DEF old
    <2>1. grown = [old EXCEPT !.size = Store!Larger(old.size, offset + len)]
        BY <1>1 DEF Inodes
    <2>2. old.size <= grown.size /\ offset + len <= grown.size
        BY <1>1 DEF Store!Larger
    <2>. QED BY <2>1, <2>2
<1>4. \A q : /\ Resolves(w, q) = Resolves(fs, q) /\ resolve_path(w, q) = resolve_path(fs, q)
             /\ Resolves(fs, q) /\ q # n => resolve_path(fs, q) # i
    <2>1. \A q : Resolves(fs, q) /\ q # n => resolve_path(fs, q) # i
        BY ResolveFacts
    <2>2. \A q : Resolves(w, q) = Resolves(fs, q) /\ resolve_path(w, q) = resolve_path(fs, q)
        BY <1>2 DEF Resolves, resolve_path
    <2>. QED BY <2>1, <2>2
<1>5. /\ DOMAIN Listing(w) = DOMAIN Listing(fs)
      /\ \A q \in DOMAIN Listing(fs) : Resolves(fs, q) /\ Listing(fs)[q] = Inode(fs, resolve_path(fs, q))
                                       /\ Listing(w)[q] = Inode(w, resolve_path(fs, q))
    BY <1>2, <1>4 DEF Listing, Resolves
<1>6. n \in DOMAIN Listing(fs)
    BY DEF Listing, Resolves
<1>7. Listing(w) = [Listing(fs) EXCEPT ![n] = grown]
    <2> HIDE DEF w, i, old, grown
    <2>1. \A q \in DOMAIN Listing(fs) : Listing(w)[q] = IF q = n THEN grown ELSE Listing(fs)[q]
        BY <1>2, <1>4, <1>5 DEF i
    <2>. QED BY <1>5, <1>6, <2>1, Zenon DEF Listing
<1>8. ASSUME NEW f, FileOK(f, fs) PROVE FileOK(f, w)
    <2>1. f \in OpenFile /\ f.offset \in Nat
        BY <1>8 DEF FileOK, OpenFile
    <2>2. f.offset <= Inode(w, f.inode).size
        <3>1. CASE f.inode = i
            BY <3>1, <2>1, <1>1, <1>2, <1>3, <1>8 DEF FileOK, Store!Larger
        <3>2. CASE f.inode # i
            BY <3>2, <1>2, <1>8 DEF FileOK
        <3>. QED BY <3>1, <3>2
    <2>. QED BY <1>4, <1>8, <2>1, <2>2 DEF FileOK
<1>9. Listing(fs)[n] = old
    BY <1>5, <1>6
<1>. QED BY <1>2, <1>3, <1>6, <1>7, <1>8, <1>9, Zenon

LEMMA WriteStep ==
    ASSUME IInv, phase = "running", NEW fd, NEW len \in Lengths, write(fd, len),
           LET f == open_files[fd] IN
            Respond(IF Inode(file_systems[f.mount_point], f.inode).type = "Regular"
                    THEN Binary(len) ELSE Empty)
    PROVE  IInv' /\ Store!Next
<1> DEFINE fs == file_systems[Root]
           f == open_files[fd]
           n == Relative(f.path)
           r == read_inode(fs, f.inode)
           w == ext4_write(fs, f.inode, f.offset, len)
<1>1. fd \in DOMAIN open_files /\ f.flags # {} /\ FileOK(f, fs) /\ FsOK(fs) /\ len \in Nat
    BY VfsAssumption DEF IInv, write, MayWrite
<1>2. /\ f \in OpenFile /\ f.mount_point = Root /\ f.offset \in Nat
      /\ Resolves(fs, n) /\ f.inode = resolve_path(fs, n)
    BY <1>1 DEF FileOK, OpenFile
<1>3. /\ mount_points' = mount_points /\ next_fd' = next_fd /\ phase' = "running"
    BY DEF write, Respond
<1>4. CASE Inode(fs, f.inode).type # "Regular"
    <2>1. file_systems' = [x \in {Root} |-> r] /\ open_files' = open_files /\ reply' = Empty
        BY <1>2, <1>4 DEF write, SetFs, Respond, IInv
    <2>2. FsOK(r) /\ Listing(r) = Listing(fs) /\ \A g : FileOK(g, fs) => FileOK(g, r)
        BY <1>1, ReadFacts, SameListing
    <2>3. file_systems'[Root] = r
        BY <2>1
    <2>4. IInv'
        BY <1>3, <2>1, <2>2, <2>3 DEF IInv
    <2>5. Store!Answer(Empty)
        BY <1>3, <2>1, <2>2, <2>3, RunningView, NextView DEF Store!Answer
    <2>. QED BY <2>4, <2>5 DEF Store!Next, Empty, Store!Empty
<1>5. CASE Inode(fs, f.inode).type = "Regular"
    <2>1. file_systems' = [x \in {Root} |-> w] /\ Advanced(fd, len) /\ reply' = Binary(len)
        BY <1>2, <1>5 DEF write, SetFs, Respond, IInv
    <2>2. /\ FsOK(w) /\ \A g : FileOK(g, fs) => FileOK(g, w)
          /\ Listing(w) = [Listing(fs) EXCEPT ![n].size = Store!Larger(@, f.offset + len)]
          /\ f.offset + len <= Inode(w, f.inode).size
        <3>1. FsOK(w)
            BY <1>1, <1>2, WriteFacts
        <3>. QED BY <1>1, <1>2, <3>1, WrittenListing
    <2>3. file_systems'[Root] = w
        BY <2>1
    <2>4. /\ DOMAIN open_files' = DOMAIN open_files
          /\ open_files' \in [DOMAIN open_files -> OpenFile]
          /\ \A x \in DOMAIN open_files : x # fd => open_files'[x] = open_files[x]
          /\ open_files'[fd] = [f EXCEPT !.offset = f.offset + len]
          /\ StoredHandles' = [StoredHandles EXCEPT ![fd].offset = @ + len]
        BY <1>1, <1>3, <2>1, Moved
    <2>5. FileOK(open_files'[fd], w)
        <3>1. FileOK(f, w)
            BY <1>1, <2>2
        <3> DEFINE g == open_files'[fd]
        <3>2. /\ g \in OpenFile /\ g.inode = f.inode /\ g.path = f.path
              /\ g.offset = f.offset + len
            BY <1>1, <1>2, <2>4 DEF OpenFile
        <3>3. g.offset <= Inode(w, g.inode).size
            BY <2>2, <3>2
        <3> HIDE DEF w
        <3>. QED BY <3>1, <3>2, <3>3 DEF FileOK
    <2>6. \A x \in DOMAIN open_files' : FileOK(open_files'[x], w)
        <3>1. \A x \in DOMAIN open_files : FileOK(open_files[x], w)
            BY <2>2 DEF IInv
        <3>. QED BY <2>4, <2>5, <3>1
    <2>7. IInv'
        BY <1>3, <2>1, <2>2, <2>3, <2>4, <2>6 DEF IInv
    <2>8. StoredHandles[fd] = Handle(f) /\ fd \in DOMAIN StoredHandles
        BY <1>1, RunningView
    <2>9. StoredFiles[n] = Inode(fs, f.inode) /\ StoredFiles = Listing(fs)
        BY <1>2, RunningView DEF Listing, Resolves
    <2>10. StoredFiles' = Listing(w)
        BY <1>3, <2>3, NextView
    <2>11. Store!Transfer(fd, len)
        BY <1>3, <2>1, <2>4 DEF Store!Transfer, Store!Binary, Binary
    <2>12. /\ StoredHandles[fd].flags = f.flags /\ StoredHandles[fd].name = n
           /\ StoredHandles[fd].offset = f.offset
        BY <2>8 DEF Handle
    <2>13. Store!Write(fd, len)
        <3>1. StoredHandles[fd].flags # {} /\ StoredFiles[StoredHandles[fd].name].type = "Regular"
            BY <1>1, <1>5, <2>9, <2>12
        <3> HIDE DEF f, n, w, fs
        <3>2. StoredFiles' = [StoredFiles EXCEPT ![n].size = Store!Larger(@, f.offset + len)]
            BY <2>2, <2>9, <2>10, ZenonT(30)
        <3>. QED BY <2>11, <2>12, <3>1, <3>2 DEF Store!Write
    <2>. QED BY <2>7, <2>8, <2>13 DEF Store!Next
<1>. QED BY <1>4, <1>5

\* A new file is listed beside the others; the root, which has an inode already, is not new.
LEMMA CreateStep ==
    ASSUME IInv, phase = "running", NEW p \in FilePaths, NEW type \in {"Regular", "Directory"},
           create(p, type), Respond(Empty)
    PROVE  IInv' /\ Store!Next
<1> DEFINE fs == file_systems[Root]
           n == Relative(p)
           c == ext4_create(fs, n, type)
<1>1. PICK m \in MountsOf(p) :
        /\ MayCreate(p, m) /\ SetFs(m, ext4_create(file_systems[m], relative_path(p, m), type))
        /\ mount_points' = mount_points /\ open_files' = open_files /\ next_fd' = next_fd
    BY DEF create
<1>2. m = Root
    BY <1>1, OnlyRoot DEF MayCreate
<1>3. /\ n \notin DOMAIN fs.path_to_inode /\ file_systems' = [x \in {Root} |-> c]
      /\ phase' = "running" /\ reply' = Empty /\ FsOK(fs)
    <2>1. n \notin DOMAIN fs.path_to_inode
        BY <1>1, <1>2 DEF MayCreate, Relative
    <2>2. FsOK(fs) /\ DOMAIN file_systems = {Root}
        BY DEF IInv
    <2>3. file_systems' = [x \in {Root} |-> c]
        BY <1>1, <1>2, <2>2, ZenonT(30) DEF SetFs, Relative
    <2>. QED BY <2>1, <2>2, <2>3 DEF Respond
<1>4. /\ FsOK(c) /\ DOMAIN c.path_to_inode = DOMAIN fs.path_to_inode \cup {n}
      /\ \A q : Resolves(fs, q) => /\ Resolves(c, q) /\ resolve_path(c, q) = resolve_path(fs, q)
                                   /\ Inode(c, resolve_path(c, q)) = Inode(fs, resolve_path(fs, q))
      /\ n # Root => Inode(c, resolve_path(c, n)) = [type |-> type, size |-> 0]
    <2> HIDE DEF fs, n
    <2>. QED BY <1>3, CreateFacts
<1>5. file_systems'[Root] = c
    BY <1>3
<1> HIDE DEF c
<1>6. IInv'
    <2>1. \A f : FileOK(f, fs) => FileOK(f, c)
        BY <1>4 DEF FileOK
    <2>. QED BY <1>1, <1>3, <1>4, <1>5, <2>1 DEF IInv
<1>7. StoredHandles' = StoredHandles /\ StoredFiles = Listing(fs) /\ StoredFiles' = Listing(c)
    BY <1>1, <1>3, <1>5, RunningView, NextView
<1>8. \A q \in DOMAIN Listing(fs) : Listing(c)[q] = Listing(fs)[q] /\ q \in DOMAIN Listing(c)
    BY <1>4 DEF Listing, Resolves
<1>9. CASE n = Root
    <2>1. Listing(c) = Listing(fs)
        BY <1>4, <1>8, <1>9, ZenonT(30) DEF Listing
    <2>2. Store!Answer(Empty)
        BY <1>1, <1>3, <1>7, <2>1 DEF Store!Answer
    <2>. QED BY <1>6, <2>2 DEF Store!Next, Empty, Store!Empty
<1>10. CASE n # Root
    <2>1. /\ DOMAIN Listing(c) = DOMAIN Listing(fs) \cup {n} /\ n \notin DOMAIN Listing(fs)
          /\ Listing(c)[n] = [type |-> type, size |-> 0]
        BY <1>3, <1>4, <1>10 DEF Listing
    <2>2. Listing(c) = Store!With(Listing(fs), n, Store!File(type, 0))
        <3>1. Listing(c) = [x \in DOMAIN Listing(c) |-> Listing(c)[x]]
            BY DEF Listing
        <3>. QED BY <1>8, <2>1, <3>1 DEF Store!With, Store!File
    <2>3. Store!Create(n, type)
        BY <1>1, <1>3, <1>7, <2>1, <2>2 DEF Store!Create, Empty, Store!Empty
    <2>. QED BY <1>6, <2>3 DEF Store!Next
<1>. QED BY <1>9, <1>10
-----------------------------------------------------------------------------
\* Every step of the service keeps the invariant and is a step of the store, or none.
LEMMA NextStep == IInv /\ [ServiceNext]_fsVars => IInv' /\ [Store!Next]_(Store!vars)
<1> SUFFICES ASSUME IInv, [ServiceNext]_fsVars PROVE IInv' /\ [Store!Next]_(Store!vars)
    OBVIOUS
<1>1. CASE start
    BY <1>1, StartStep
<1>2. CASE stop
    BY <1>2, StopStep
<1>3. CASE phase = "running" /\ handle_request
    <2>1. CASE Refused
        BY <1>3, <2>1, AnswerStep DEF Refused
    <2>2. CASE List
        BY <1>3, <2>2, AnswerStep DEF List
    <2>3. CASE \E p \in FilePaths, fl \in Flags : Open(p, fl)
        BY <1>3, <2>1, <2>3, OpenStep DEF Open
    <2>4. CASE \E p \in FilePaths, t \in {"Regular", "Directory"} : Create(p, t)
        BY <1>3, <2>1, <2>4, CreateStep DEF Create
    <2>5. CASE \E fd \in 1 .. MaxFds : Close(fd)
        BY <1>3, <2>1, <2>5, CloseStep DEF Close
    <2>6. CASE \E fd \in 1 .. MaxFds, k \in Lengths : Read(fd, k)
        BY <1>3, <2>1, <2>6, ReadStep DEF Read
    <2>7. CASE \E fd \in 1 .. MaxFds, k \in Lengths : Write(fd, k)
        BY <1>3, <2>1, <2>7, WriteStep DEF Write
    <2>. QED
        BY <1>3, <2>1, <2>2, <2>3, <2>4, <2>5, <2>6, <2>7 DEF handle_request, Delete
<1>4. CASE UNCHANGED fsVars
    <2>1. IInv'
        BY <1>4 DEF fsVars, vars, IInv
    <2>2. UNCHANGED Store!vars
        BY <1>4 DEF fsVars, vars, Store!vars, StoredFiles, RootFs, StoredHandles
    <2>. QED BY <2>1, <2>2
<1>. QED
    BY <1>1, <1>2, <1>3, <1>4 DEF ServiceNext

\* The inductive invariant holds in every state the running service reaches.
THEOREM ServiceInvariant == ServiceSpec => []IInv
BY InitStep, NextStep, PTL DEF ServiceSpec

\* For all paths, open flags and request sizes, the service behaves like the store of
\* FileStore: handle_request never lets one file or descriptor disturb another.
THEOREM ServiceImplementsFileStore == ServiceSpec => ImplementsFileStore
BY InitStep, NextStep, PTL DEF ServiceSpec, ImplementsFileStore, Store!Spec
-----------------------------------------------------------------------------
\* Vfs on its own, with any mount points: an open file is a record, and its mount point stays.
VfsInv ==
    /\ DescriptorsUsable
    /\ \A fd \in DOMAIN open_files : LET f == open_files[fd] IN
        f = [inode |-> f.inode, mount_point |-> f.mount_point, flags |-> f.flags,
             offset |-> f.offset, path |-> f.path]

LEMMA SetFsDomain ==
    ASSUME NEW m, NEW fs, SetFs(m, fs)
    PROVE  DOMAIN file_systems' = DOMAIN file_systems
BY DEF SetFs

\* Calls that move no descriptor and mount nothing leave the mount points of both alone.
LEMMA SameMounts ==
    ASSUME VfsInv, mount_points' = mount_points, open_files' = open_files,
           DOMAIN file_systems' = DOMAIN file_systems
    PROVE  VfsInv'
BY DEF VfsInv, DescriptorsUsable

LEMMA AdvancedMounts ==
    ASSUME VfsInv, mount_points' = mount_points, DOMAIN file_systems' = DOMAIN file_systems,
           NEW fd \in DOMAIN open_files, NEW n, Advanced(fd, n)
    PROVE  VfsInv'
<1> DEFINE f == open_files[fd]
           g == [inode |-> f.inode, mount_point |-> f.mount_point, flags |-> f.flags,
                 offset |-> f.offset + n, path |-> f.path]
<1>1. open_files' = [open_files EXCEPT ![fd] = [f EXCEPT !.offset = f.offset + n]]
    BY DEF Advanced
<1>2. [f EXCEPT !.offset = f.offset + n] = g
    BY DEF VfsInv
<1>3. /\ DOMAIN open_files' = DOMAIN open_files /\ open_files'[fd] = g
      /\ \A x \in DOMAIN open_files : x # fd => open_files'[x] = open_files[x]
    BY <1>1, <1>2
<1>4. g.mount_point = f.mount_point
    OBVIOUS
<1>. QED BY <1>3, <1>4 DEF VfsInv, DescriptorsUsable

LEMMA VfsNextInv == VfsInv /\ [Next]_vars => VfsInv'
<1> SUFFICES ASSUME VfsInv, [Next]_vars PROVE VfsInv'
    OBVIOUS
<1>1. ASSUME NEW m, NEW ro, mount(m, ro) PROVE VfsInv'
    BY <1>1 DEF mount, Put, VfsInv, DescriptorsUsable
<1>2. ASSUME NEW m, unmount(m) PROVE VfsInv'
    BY <1>2 DEF unmount, NotBusy, Without, Restrict, VfsInv, DescriptorsUsable
<1>3. ASSUME NEW p, NEW fl, open(p, fl) PROVE VfsInv'
    <2>1. PICK m \in MountsOf(p) :
            /\ MayOpen(p, fl, m)
            /\ SetFs(m, read_inode(file_systems[m], resolve_path(file_systems[m], relative_path(p, m))))
            /\ open_files' = Put(open_files, next_fd,
                    [inode |-> resolve_path(file_systems[m], relative_path(p, m)),
                     mount_point |-> m, flags |-> fl, offset |-> 0, path |-> p])
            /\ mount_points' = mount_points
        BY <1>3 DEF open
    <2>2. DOMAIN file_systems' = DOMAIN file_systems /\ m \in DOMAIN mount_points
        BY <2>1, SetFsDomain DEF MountsOf
    <2>. QED BY <2>1, <2>2 DEF Put, VfsInv, DescriptorsUsable
<1>4. ASSUME NEW fd, close(fd) PROVE VfsInv'
    BY <1>4 DEF close, Without, Restrict, VfsInv, DescriptorsUsable
<1>5. ASSUME NEW fd, NEW n, read(fd, n) PROVE VfsInv'
    BY <1>5, AdvancedMounts, SetFsDomain DEF read, MayRead
<1>6. ASSUME NEW fd, NEW n, write(fd, n) PROVE VfsInv'
    BY <1>6, AdvancedMounts, SameMounts, SetFsDomain DEF write, MayWrite
<1>7. ASSUME NEW p, NEW t, create(p, t) PROVE VfsInv'
    BY <1>7, SameMounts, SetFsDomain DEF create
<1>8. ASSUME NEW p, NEW d, RemovePath(p, d) PROVE VfsInv'
    BY <1>8, SameMounts, SetFsDomain DEF RemovePath
<1>9. ASSUME NEW p, Lookup(p) PROVE VfsInv'
    BY <1>9, SameMounts, SetFsDomain DEF Lookup
<1>10. CASE UNCHANGED vars
    BY <1>10, SameMounts DEF vars
<1>. QED
    BY <1>1, <1>2, <1>3, <1>4, <1>5, <1>6, <1>7, <1>8, <1>9, <1>10, ZenonT(30)
    DEF Next, mkdir, unlink, rmdir, stat, readdir

\* However mount points are nested, mounted and unmounted, no descriptor ever loses the file
\* system its read, write and close go to.
THEOREM DescriptorsStayUsable == Spec => []DescriptorsUsable
<1>1. Init => VfsInv
    BY DEF Init, VfsInv, DescriptorsUsable
<1>2. VfsInv => DescriptorsUsable
    BY DEF VfsInv
<1>. QED BY <1>1, <1>2, VfsNextInv, PTL DEF Spec
=============================================================================
