----------------------------- MODULE FileStore ------------------------------
(***************************************************************************)
(* What the file system service promises its clients: a store of named     *)
(* files, of which the root is there from the start, and handles with a    *)
(* position each.  A file is known by its type and size.  There are no     *)
(* inodes, caches or mount points here.                                    *)
(***************************************************************************)
EXTENDS Integers

CONSTANTS
    Names, Root,       \* names of files, the root's among them
    Flags, Lengths     \* open flags, sizes of reads and writes

VARIABLES
    serving,    \* the service was started and not stopped since
    files,      \* name -> [type, size], for the names that exist
    handles,    \* handle -> [name, flags, offset]
    next,       \* the next handle
    reply       \* the answer to the last request

vars == <<serving, files, handles, next, reply>>

Empty == [kind |-> "Empty", value |-> 0]
Binary(n) == [kind |-> "Binary", value |-> n]
Text == [kind |-> "Text", value |-> 0]

File(type, size) == [type |-> type, size |-> size]
With(f, k, v) == [x \in DOMAIN f \cup {k} |-> IF x = k THEN v ELSE f[x]]
Larger(a, b) == IF a < b THEN b ELSE a
Smaller(a, b) == IF a < b THEN a ELSE b

Init ==
    /\ serving = FALSE /\ next = 1 /\ reply = Empty
    /\ files = [n \in {Root} |-> File("Regular", 0)]
    /\ handles = [h \in {} |-> 0]

Switch(on) == serving # on /\ serving' = on /\ UNCHANGED <<files, handles, next, reply>>

\* a request that is refused, or answered without looking, changes nothing
Answer(data) == reply' = data /\ UNCHANGED <<serving, files, handles, next>>

Create(n, type) ==
    /\ n \notin DOMAIN files
    /\ files' = With(files, n, File(type, 0)) /\ reply' = Empty
    /\ UNCHANGED <<serving, handles, next>>

Open(n, flags) ==
    /\ n \in DOMAIN files
    /\ handles' = With(handles, next, [name |-> n, flags |-> flags, offset |-> 0])
    /\ next' = next + 1 /\ reply' = Binary(next)
    /\ UNCHANGED <<serving, files>>

Close(h) ==
    /\ handles' = [x \in DOMAIN handles \ {h} |-> handles[x]] /\ reply' = Empty
    /\ UNCHANGED <<serving, files, next>>

Transfer(h, n) ==
    /\ handles' = [handles EXCEPT ![h].offset = @ + n] /\ reply' = Binary(n)
    /\ UNCHANGED <<serving, next>>

\* up to the end of the file, and never back
Read(h, len) ==
    /\ handles[h].flags # {"WRITE_ONLY"}
    /\ Transfer(h, Smaller(len, files[handles[h].name].size - handles[h].offset))
    /\ UNCHANGED files

\* the file grows as far as the write reaches
Write(h, len) ==
    /\ handles[h].flags # {} /\ files[handles[h].name].type = "Regular"
    /\ files' = [files EXCEPT ![handles[h].name].size = Larger(@, handles[h].offset + len)]
    /\ Transfer(h, len)

Next ==
    \/ \E on \in BOOLEAN : Switch(on)
    \/ /\ serving
       /\ \/ \E data \in {Empty, Text} : Answer(data)
          \/ \E n \in Names : \/ \E type \in {"Regular", "Directory"} : Create(n, type)
                              \/ \E flags \in Flags : Open(n, flags)
          \/ \E h \in DOMAIN handles : \/ Close(h)
                                       \/ \E len \in Lengths : Read(h, len) \/ Write(h, len)

Spec == Init /\ [][Next]_vars
=============================================================================
