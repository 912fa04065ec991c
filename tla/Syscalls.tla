------------------------------ MODULE Syscalls ------------------------------
(***************************************************************************)
(* The system call interface, kernel/src/syscall: numbers.rs,              *)
(* validation.rs, dispatcher.rs and the entry point of mod.rs, over the    *)
(* process table and the message queues.                                   *)
(*                                                                         *)
(* Arguments are numbers of an unsigned word; what is behind a pointer is  *)
(* never read.  A call is one step here: most handlers touch no shared     *)
(* state, and the interleavings of the two that exchange messages are what *)
(* the module IPC is about.  The capability manager is reduced to the set  *)
(* of pairs for which check_capability grants SendMessage; it changes at   *)
(* any time.                                                               *)
(*                                                                         *)
(* `call' is not in the code: the outcome of a call that is on its way     *)
(* back to the caller.                                                     *)
(***************************************************************************)
EXTENDS ProcessTable, TLC

CONSTANTS
    Word64, Word32,     \* 2^64 and 2^32
    MaxMessages, MaxSize,
    Calls,              \* the calls made: <<number, tuple of five arguments>>
    SendRights,         \* the pairs of processes that rights are granted to
    DefaultAddress,     \* where mmap puts what has no address
    MaxIds              \* bound on messages created

SyscallAssumption ==
    /\ Word64 \in Nat /\ Word32 \in Nat /\ DefaultAddress \in Nat
    /\ \A c \in Calls : \A i \in 1..5 : c[2][i] \in 0..(Word64 - 1)

VARIABLES
    debug,              \* cfg(debug_assertions) of the build
    queues, total_messages, accepted,   \* MessageQueues
    may_send, next_message_id, call

Queues == INSTANCE MessageQueues
queueVars == <<queues, total_messages, accepted>>
sysVars == <<debug, queueVars, may_send, next_message_id, call>>
kernelVars == <<tableVars, queueVars, may_send, next_message_id>>

-----------------------------------------------------------------------------
\* numbers.rs
Number ==
    [exit |-> 1, fork |-> 2, exec |-> 3, wait |-> 4, getpid |-> 5, getppid |-> 6, kill |-> 7,
     mmap |-> 10, munmap |-> 11, mprotect |-> 12, brk |-> 13, sbrk |-> 14,
     open |-> 20, close |-> 21, read |-> 22, write |-> 23, lseek |-> 24, stat |-> 25,
     fstat |-> 26, mkdir |-> 27, rmdir |-> 28, unlink |-> 29,
     send_message |-> 30, receive_message |-> 31, reply_message |-> 32,
     create_channel |-> 33, destroy_channel |-> 34,
     driver_register |-> 40, driver_unregister |-> 41, driver_request |-> 42,
     driver_response |-> 43,
     uname |-> 50, sysinfo |-> 51, time |-> 52, clock_gettime |-> 53,
     grant_capability |-> 60, revoke_capability |-> 61, check_capability |-> 62,
     list_capabilities |-> 63, debug_print |-> 100, debug_dump |-> 101]

DebugOnly == {"debug_print", "debug_dump"}
Defined == DOMAIN Number \ (IF debug THEN {} ELSE DebugOnly)

is_valid_syscall_number(n) == n > 0 /\ n <= (IF debug THEN 101 ELSE 63)

NameOf ==
    [n \in {Number[s] : s \in DOMAIN Number} |-> CHOOSE s \in DOMAIN Number : Number[s] = n]

syscall_name(n) == IF n \in DOMAIN NameOf /\ NameOf[n] \in Defined THEN NameOf[n] ELSE "unknown"

-----------------------------------------------------------------------------
\* validation.rs: the arms of validate_syscall_args, by what they demand of the arguments
Unchecked ==
    {"exit", "fork", "wait", "getpid", "getppid", "brk", "sbrk", "receive_message",
     "uname", "sysinfo", "time", "check_capability", "list_capabilities"} \cup DebugOnly
FirstNonZero ==
    {"exec", "mkdir", "rmdir", "unlink", "create_channel", "destroy_channel",
     "driver_register", "driver_unregister", "grant_capability"}
FirstTwoNonZero == {"munmap", "revoke_capability"}
FirstIsDescriptor == {"close", "read", "write", "lseek"}
CountedBuffer == {"read", "write", "send_message", "reply_message", "driver_request",
                  "driver_response"}
NamedBuffer == {"send_message", "reply_message", "driver_request", "driver_response"}

\* the calls with an arm of their own: conditions that give InvalidArgument
OwnCheck(s, a) ==
    \/ s = "kill" /\ (a[1] = 0 \/ a[2] > 64)
    \/ s = "mmap" /\ (a[2] = 0 \/ a[3] > 7)
    \/ s = "mprotect" /\ (a[1] = 0 \/ a[2] = 0 \/ a[3] > 7)
    \/ s = "open" /\ (a[1] = 0 \/ a[2] > 65535)
    \/ s = "lseek" /\ a[3] > 2
    \/ s \in {"stat", "fstat"} /\ a[2] = 0
    \/ s = "clock_gettime" /\ a[1] > 10
WithOwnCheck == {"kill", "mmap", "mprotect", "open", "stat", "fstat", "clock_gettime"}

BadArgument(s, a) ==
    \/ s \in FirstNonZero \cup FirstTwoNonZero \cup NamedBuffer /\ a[1] = 0
    \/ s \in FirstTwoNonZero /\ a[2] = 0
    \/ s \in CountedBuffer /\ a[3] > 0 /\ a[2] = 0
    \/ OwnCheck(s, a)

BadDescriptor(s, a) ==
    \/ s \in FirstIsDescriptor /\ a[1] > 1024
    \/ s = "mmap" /\ a[4] % 2 = 0 /\ a[5] # Word64 - 1 /\ a[5] > 1024

Validated == Unchecked \cup FirstNonZero \cup FirstTwoNonZero \cup FirstIsDescriptor
             \cup CountedBuffer \cup WithOwnCheck

\* the error, or "none"; the descriptor is looked at first except by mmap
validate_syscall_args(n, a) ==
    LET s == syscall_name(n) IN
    IF ~ is_valid_syscall_number(n) \/ s \notin Validated THEN "InvalidSyscall"
    ELSE IF s \in FirstIsDescriptor /\ BadDescriptor(s, a) THEN "BadFileDescriptor"
    ELSE IF BadArgument(s, a) THEN "InvalidArgument"
    ELSE IF BadDescriptor(s, a) THEN "BadFileDescriptor"
    ELSE "none"

-----------------------------------------------------------------------------
\* Mutant: the errno values of the C library, without the sign
errno_positive(e) ==
    CASE e = "InvalidSyscall" -> 1
      [] e = "InvalidArgument" -> 22
      [] e = "PermissionDenied" -> 13
      [] e = "NotFound" -> 2
      [] e = "NotSupported" -> 95
      [] e = "OutOfMemory" -> 12
      [] e = "WouldBlock" -> 11
      [] e = "BadFileDescriptor" -> 9
      [] e = "ResourceExhausted" -> 105

\* error.rs: only the errors that calls return
to_errno(e) ==
    CASE e = "InvalidSyscall" -> -1
      [] e = "InvalidArgument" -> -22
      [] e = "PermissionDenied" -> -13
      [] e = "NotFound" -> -2
      [] e = "NotSupported" -> -95
      [] e = "OutOfMemory" -> -12
      [] e = "WouldBlock" -> -11
      [] e = "BadFileDescriptor" -> -9
      [] e = "ResourceExhausted" -> -105

Ok(v) == [ok |-> TRUE, ret |-> v, error |-> "none"]
Err(e) == [ok |-> FALSE, ret |-> to_errno(e) % Word64, error |-> e]   \* as u64

NoCall == [ok |-> TRUE, ret |-> 0, error |-> "none", known |-> TRUE, high |-> FALSE]

\* what call keeps of a call: its outcome, whether the number is one of numbers.rs and
\* whether an argument is among the last 111 words, which are the errno values
Returned(n, a, outcome) ==
    call' = outcome @@ [known |-> syscall_name(n) # "unknown",
                        high |-> \E i \in 1..3 : a[i] >= Word64 - 111]

-----------------------------------------------------------------------------
\* dispatcher.rs: the handlers that only return
ProcessStubs == {"exec", "wait", "kill"}
MemoryStubs == {"munmap", "mprotect", "brk", "sbrk"}
FileStubs == {"close", "lseek", "stat", "fstat", "mkdir", "rmdir", "unlink"}
MessageStubs == {"reply_message", "create_channel", "destroy_channel"}
DriverStubs == {"driver_register", "driver_unregister", "driver_request", "driver_response"}
InfoStubs == {"uname", "sysinfo", "clock_gettime"}
CapabilityStubs ==
    {"grant_capability", "revoke_capability", "check_capability", "list_capabilities"}
NotSupported == ProcessStubs \cup MemoryStubs \cup FileStubs \cup MessageStubs
                \cup DriverStubs \cup InfoStubs \cup CapabilityStubs

sys_mmap(a) ==
    IF a[2] = 0 THEN Err("InvalidArgument")
    ELSE Ok(IF a[1] = 0 THEN DefaultAddress ELSE a[1])

sys_open(a) == IF a[2] \in 0..2 THEN Ok(3) ELSE Err("InvalidArgument")

\* at most 1024 bytes are made up; standard input is at its end
sys_read(a) == Ok(IF a[1] = 0 THEN 0 ELSE IF a[3] < 1024 THEN a[3] ELSE 1024)

sys_write(a) == IF a[1] \in {1, 2} THEN Ok(a[3]) ELSE Err("NotSupported")

Stateful == {"fork", "send_message", "receive_message"}

Answer(pid, s, a) ==
    CASE s \in {"exit", "getppid", "time"} \cup DebugOnly -> Ok(0)
      [] s = "getpid" -> Ok(pid)
      [] s = "mmap" -> sys_mmap(a)
      [] s = "open" -> sys_open(a)
      [] s = "read" -> sys_read(a)
      [] s = "write" -> sys_write(a)
      [] s \in NotSupported -> Err("NotSupported")
      [] OTHER -> Err("InvalidSyscall")

\* the child's pid, or OutOfMemory whatever went wrong
sys_fork(pid, n, a) ==
    /\ \/ create_process(pid, 2) /\ Returned(n, a, Ok(next_pid))
       \/ /\ Len(processes) >= MaxProcesses
          /\ Returned(n, a, Err("OutOfMemory"))
          /\ UNCHANGED tableVars
    /\ UNCHANGED <<debug, queueVars, may_send, next_message_id>>

Message(s, r) ==
    [sender |-> s, receiver |-> r, priority |-> 128, size |-> 1, message_id |-> next_message_id]

\* Mutant: the receiver is not looked up
SendErrorAnyReceiver(m) ==
    IF ~ Exists(processes, m.sender) THEN "NotFound"
    ELSE IF <<m.sender, m.receiver>> \notin may_send THEN "PermissionDenied"
    ELSE IF ~ Queues!can_accept_message(Queues!QueueOf(m.receiver), m) THEN "ResourceExhausted"
    ELSE "none"

\* message.rs, send_message: the first test that fails
SendError(m) ==
    IF ~ Exists(processes, m.sender) \/ ~ Exists(processes, m.receiver) THEN "NotFound"
    ELSE IF <<m.sender, m.receiver>> \notin may_send THEN "PermissionDenied"
    ELSE IF ~ Queues!can_accept_message(Queues!QueueOf(m.receiver), m) THEN "ResourceExhausted"
    ELSE "none"

\* Mutant: the message is queued before the right to send it is tested
send_message_early(m) ==
    CASE SendError(m) \in {"none", "PermissionDenied"} -> Queues!enqueue_message(m.receiver, m)
      [] SendError(m) = "ResourceExhausted" -> Queues!enqueue_message_full(m.receiver, m)
      [] OTHER -> UNCHANGED queueVars

send_message(m) ==
    CASE SendError(m) = "none" -> Queues!enqueue_message(m.receiver, m)
      [] SendError(m) = "ResourceExhausted" -> Queues!enqueue_message_full(m.receiver, m)
      [] OTHER -> UNCHANGED queueVars

\* the receiver's id is cut to 32 bits; a message that cannot be sent uses up its id
sys_send_message(pid, n, a) ==
    LET m == Message(pid, a[1] % Word32) IN
    /\ \/ /\ a[3] > 4096
          /\ Returned(n, a, Err("InvalidArgument"))
          /\ UNCHANGED <<queueVars, next_message_id>>
       \/ /\ a[3] <= 4096
          /\ next_message_id <= MaxIds /\ next_message_id' = next_message_id + 1
          /\ send_message(m)
          /\ Returned(n, a, IF SendError(m) = "none" THEN Ok(0) ELSE Err(SendError(m)))
    /\ UNCHANGED <<debug, tableVars, may_send>>

\* the id of the message taken out; a process nobody wrote to yet has no queue
sys_receive_message(pid, n, a) ==
    LET found == Exists(processes, pid) /\ Queues!HasQueue(pid)
        none == Queues!QueueOf(pid).messages = << >>
    IN
    /\ \/ /\ ~ found \/ none
          /\ Returned(n, a, Err(IF found THEN "WouldBlock" ELSE "NotFound"))
          /\ UNCHANGED queueVars
       \/ /\ found /\ ~ none
          /\ Queues!dequeue_message(pid)
          /\ Returned(n, a, Ok(Head(queues[pid].messages).message_id))
    /\ UNCHANGED <<debug, tableVars, may_send, next_message_id>>

dispatch_syscall(pid, n, a) ==
    LET s == syscall_name(n)
        invalid == validate_syscall_args(n, a)
    IN  \/ /\ invalid # "none" \/ s \notin Stateful
           /\ Returned(n, a, IF invalid # "none" THEN Err(invalid) ELSE Answer(pid, s, a))
           /\ UNCHANGED <<debug, kernelVars>>
        \/ /\ invalid = "none"
           /\ \/ s = "fork" /\ sys_fork(pid, n, a)
              \/ s = "send_message" /\ sys_send_message(pid, n, a)
              \/ s = "receive_message" /\ sys_receive_message(pid, n, a)

\* every call is taken to be that of process 1
syscall_entry(n, a) == call = NoCall /\ Unlocked /\ dispatch_syscall(1, n, a)

\* back in user mode, which looks at the register and goes on
ReturnToUser == call # NoCall /\ call' = NoCall /\ UNCHANGED <<debug, kernelVars>>

-----------------------------------------------------------------------------
SyscallInit ==
    /\ Init /\ Queues!QueueInit
    /\ debug \in BOOLEAN
    /\ may_send = {} /\ next_message_id = 1 /\ call = NoCall

\* the rest of the kernel: processes come and go, rights are granted and revoked, and other
\* processes send messages
OtherwiseInKernel ==
    /\ \/ /\ create_process(None, 2) \/ \E pid \in PidArgs : remove_process(pid)
          /\ UNCHANGED <<queueVars, may_send, next_message_id>>
       \/ /\ \E r \in SendRights : may_send' \in {may_send \cup {r}, may_send \ {r}}
          /\ UNCHANGED <<tableVars, queueVars, next_message_id>>
       \/ /\ next_message_id <= MaxIds /\ next_message_id' = next_message_id + 1
          /\ \E r \in SendRights : send_message(Message(r[1], r[2]))
          /\ UNCHANGED <<tableVars, may_send>>
    /\ call = NoCall
    /\ UNCHANGED <<debug, call>>

SyscallNext ==
    \/ \E c \in Calls : syscall_entry(c[1], c[2])
    \/ ReturnToUser
    \/ OtherwiseInKernel

SyscallSpec == SyscallInit /\ [][SyscallNext]_<<tableVars, sysVars>>
-----------------------------------------------------------------------------
\* What the caller gets in a register tells success from failure, and an unknown number
\* from every other failure: the range test of numbers.rs, the arms of validation.rs and those
\* of dispatcher.rs agree in both kinds of build, and no value returned is an errno.
\* Values that are an argument of the call (mmap's address, write's count) are excepted.
ReturnTellsOutcome ==
    /\ (call.error = "InvalidSyscall") = ~ call.known
    /\ ~ call.high => (call.ret >= Word64 - 111) = ~ call.ok

Mail == {<<p, queues[p].messages>> : p \in {q \in DOMAIN queues : queues[q].messages # << >>}}

\* A call that fails, in validation or halfway through its handler, has changed nothing that
\* another process can see: not the process table, not the rights, not the messages queued.
FailedCallsChangeNothing ==
    [][~ call'.ok => UNCHANGED <<tableVars, may_send>> /\ Mail' = Mail]_<<tableVars, sysVars>>

\* A process starts without messages: nothing is queued for a pid that is still to be given
\* out, and a pid, whose queue outlives its process, is never given out again.
FreshProcessHasNoMail ==
    [][\A pid \in PidArgs :
          Exists(processes', pid) /\ ~ Exists(processes, pid) =>
              Queues!QueueOf(pid).messages = << >>]_<<tableVars, sysVars>>
=============================================================================
