---------------------------- MODULE Capabilities ----------------------------
(***************************************************************************)
(* kernel/src/ipc/capability.rs and the grants of ipc/security.rs.  Each   *)
(* create_capability locks CAPABILITY_MANAGER on its own, so the grants of *)
(* a policy and the two halves of a channel are separate steps.            *)
(*                                                                         *)
(* Capabilities never expire: nothing sets an expiry.  Capability::new     *)
(* makes none that is delegatable, and the manager hands out no reference  *)
(* to what it holds.                                                       *)
(*                                                                         *)
(* Not in the code: `held' records which process was ever able to do what. *)
(***************************************************************************)
EXTENDS Integers, Sequences, FiniteSets

CONSTANTS
    Pids,
    Types,              \* the CapabilityTypes told apart
    MaxCapabilities     \* bound on capabilities created

VARIABLES
    process_capabilities,   \* process id -> its CapabilitySet
    next_capability_id,
    granting,               \* grant_*_capabilities in progress: [pid, left]
    channel,                \* second halves of channels still to be created
    held

capVars == <<process_capabilities, next_capability_id, granting, channel, held>>

AnyResource == <<"any", 0>>
ProcessResource(p) == <<"process", p>>
SystemServices == <<"system:services", 0>>
UserSyscalls == <<"system:user_syscalls", 0>>

OfTypes(policy) == SelectSeq(policy, LAMBDA g : g[1] \in Types)

system_capabilities == OfTypes(
    << <<"SendMessage", AnyResource>>, <<"ReceiveMessage", AnyResource>>,
       <<"SystemCall", AnyResource>>, <<"MemoryManagement", AnyResource>>,
       <<"ProcessManagement", AnyResource>>, <<"FileSystem", AnyResource>> >>)

user_capabilities == OfTypes(
    << <<"SendMessage", SystemServices>>, <<"ReceiveMessage", AnyResource>>,
       <<"SystemCall", UserSyscalls>> >>)

\* Capability::matches
matches(cap, type, resource) ==
    cap.type = type /\ (cap.resource = AnyResource \/ cap.resource = resource)

\* Mutant: a capability for any resource at all will do
check_type_only(p, type, resource) == \E cap \in process_capabilities[p] : cap.type = type

check_capability(p, type, resource) ==
    \E cap \in process_capabilities[p] : matches(cap, type, resource)

-----------------------------------------------------------------------------
CapInit ==
    /\ process_capabilities = [p \in Pids |-> {}]
    /\ next_capability_id = 1
    /\ granting = [pid |-> 0, left |-> << >>]
    /\ channel = {}
    /\ held = {}

\* grant_capability
Granted(p, type, resource) ==
    LET cap == [id |-> next_capability_id, type |-> type, resource |-> resource, owner |-> p,
                delegatable |-> FALSE] IN
    /\ next_capability_id <= MaxCapabilities
    /\ process_capabilities' = [process_capabilities EXCEPT ![p] = @ \cup {cap}]
    /\ next_capability_id' = next_capability_id + 1
    /\ held' = held \cup {<<p, type, resource>>}

create_capability(p, type, resource) ==
    Granted(p, type, resource) /\ UNCHANGED <<granting, channel>>

revoke_capability(p, id) ==
    /\ \E cap \in process_capabilities[p] : cap.id = id
    /\ process_capabilities' = [process_capabilities EXCEPT ![p] = {cap \in @ : cap.id # id}]
    /\ UNCHANGED <<next_capability_id, granting, channel, held>>

\* NotDelegatable, or a capability of the same type and resource for the other process
delegate_capability(from, to, id) == \E cap \in process_capabilities[from] :
    /\ cap.id = id
    /\ IF cap.delegatable THEN create_capability(to, cap.type, cap.resource) ELSE UNCHANGED capVars

\* none has expired
cleanup_expired_capabilities == UNCHANGED capVars

\* holds SECURITY_POLICY from the first grant to the last
StartGrant(p, policy) ==
    /\ granting.left = << >>
    /\ granting' = [pid |-> p, left |-> policy]
    /\ UNCHANGED <<process_capabilities, next_capability_id, channel, held>>

grant_system_process_capabilities(p) == StartGrant(p, system_capabilities)
grant_user_process_capabilities(p) == StartGrant(p, user_capabilities)

GrantNext ==
    /\ granting.left # << >>
    /\ Granted(granting.pid, Head(granting.left)[1], Head(granting.left)[2])
    /\ granting' = [granting EXCEPT !.left = Tail(@)]
    /\ UNCHANGED channel

create_secure_ipc_channel(a, b) ==
    /\ Granted(a, "SendMessage", ProcessResource(b))
    /\ channel' = channel \cup {<<b, a>>}
    /\ UNCHANGED granting

ChannelOtherHalf(b, a) ==
    /\ <<b, a>> \in channel
    /\ Granted(b, "SendMessage", ProcessResource(a))
    /\ channel' = channel \ {<<b, a>>}
    /\ UNCHANGED granting

\* only logs
revoke_process_capabilities(p) == UNCHANGED capVars

CapNext ==
    \/ \E p \in Pids, t \in Types, q \in Pids : create_capability(p, t, ProcessResource(q))
    \/ \E p \in Pids, id \in 1..MaxCapabilities : revoke_capability(p, id)
    \/ \E p \in Pids : grant_system_process_capabilities(p) \/ grant_user_process_capabilities(p)
    \/ GrantNext
    \/ \E a, b \in Pids : create_secure_ipc_channel(a, b) \/ ChannelOtherHalf(b, a)
    \/ \E p \in Pids : revoke_process_capabilities(p)
    \/ \E p, q \in Pids, id \in 1..MaxCapabilities : delegate_capability(p, q, id)
    \/ cleanup_expired_capabilities

CapSpec == CapInit /\ [][CapNext]_capVars
-----------------------------------------------------------------------------
\* A process can do only what some grant, channel or policy gave it: check_capability never
\* says yes to what was not granted for that resource or for any.
RightsHaveCause ==
    \A p, q \in Pids, t \in Types :
        check_capability(p, t, ProcessResource(q)) =>
            <<p, t, ProcessResource(q)>> \in held \/ <<p, t, AnyResource>> \in held
=============================================================================
