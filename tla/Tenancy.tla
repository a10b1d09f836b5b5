------------------------------ MODULE Tenancy ------------------------------
(***************************************************************************)
(* Which agents a session's discovery is shown (core/tenancy.py, the       *)
(* runtime's _visible_agents): the rows that say who belongs to a tenant,  *)
(* the requester's tenants, resolved once when its intent arrives, and the *)
(* two passes over the registered agents before each discovery, one to see *)
(* whether tenancy is in use and one to filter.  Every look at an agent's   *)
(* rows is a query of its own and may fail; administrators write rows at    *)
(* any time, from threads and other processes.  The queries of one pass see *)
(* the same rows here.                                                      *)
(***************************************************************************)
EXTENDS Integers

CONSTANTS
    TenantIds,
    TenantAgents        \* the registered agents

ASSUME TenantIdsAssumption == TenantIds \subseteq Nat

VARIABLES
    tenants,            \* each tenant's row: never created, there, deleted
    enrolledUser,       \* the requester is an enrolled user
    member,             \* the tenants of its rows
    assigned,           \* the tenants of each agent's rows
    sessionTenants,    \* session.tenant_ids
    look,               \* where the discovery's look at the agents is
    inUse,              \* the first pass of this look found an agent assigned
    shown,              \* the agents whose descriptions the model is shown
    membership,         \* history: the requester's tenants at its intent
    before              \* history: `assigned` when the look began

rows == <<tenants, enrolledUser, member, assigned>>
tenancyVars == <<rows, sessionTenants, look, inUse, shown, membership, before>>

TenancyTypeOK ==
    /\ tenants \in [TenantIds -> {"never", "there", "deleted"}]
    /\ {member, sessionTenants, membership} \subseteq SUBSET TenantIds
    /\ {assigned, before} \subseteq [TenantAgents -> SUBSET TenantIds]
    /\ look \in {"no session", "none", "between", "done"}
    /\ {enrolledUser, inUse} \subseteq BOOLEAN
    /\ shown \subseteq TenantAgents

NoAgentAssigned == [a \in TenantAgents |-> {}]

TenancyInit ==
    /\ tenants = [i \in TenantIds |-> "never"]
    /\ enrolledUser = FALSE /\ member = {} /\ sessionTenants = {}
    /\ assigned = NoAgentAssigned
    /\ look = "no session" /\ inUse = FALSE /\ shown = {}
    /\ membership = {} /\ before = assigned

-----------------------------------------------------------------------------
(* Administration *)

CreateTenant(i) ==
    /\ tenants[i] = "never"
    /\ tenants' = [tenants EXCEPT ![i] = "there"]
    /\ UNCHANGED <<enrolledUser, member, assigned>>

\* The rows that name it go with it: an agent of this tenant only is global
\* from then on.
DeleteTenant(i) ==
    /\ tenants[i] = "there"
    /\ tenants' = [tenants EXCEPT ![i] = "deleted"]
    /\ member' = member \ {i}
    /\ assigned' = [a \in TenantAgents |-> assigned[a] \ {i}]
    /\ UNCHANGED enrolledUser

\* The tenant was looked up in a transaction before this one.
AssignAgent(a, i) ==
    /\ tenants[i] # "never"
    /\ i \notin assigned[a]
    /\ assigned' = [assigned EXCEPT ![a] = @ \cup {i}]
    /\ UNCHANGED <<tenants, enrolledUser, member>>

UnassignAgent(a, i) ==
    /\ i \in assigned[a]
    /\ assigned' = [assigned EXCEPT ![a] = @ \ {i}]
    /\ UNCHANGED <<tenants, enrolledUser, member>>

CreateUser ==
    /\ ~enrolledUser
    /\ enrolledUser' = TRUE
    /\ UNCHANGED <<tenants, member, assigned>>

DeleteUser ==
    /\ enrolledUser
    /\ enrolledUser' = FALSE /\ member' = {}
    /\ UNCHANGED <<tenants, assigned>>

\* Whether there is such a tenant is not looked at.
AssignUser(i) ==
    /\ enrolledUser /\ i \notin member
    /\ member' = member \cup {i}
    /\ UNCHANGED <<tenants, enrolledUser, assigned>>

UnassignUser(i) ==
    /\ i \in member
    /\ member' = member \ {i}
    /\ UNCHANGED <<tenants, enrolledUser, assigned>>

AdministerTenants ==
    \E i \in TenantIds :
        \/ CreateTenant(i) \/ DeleteTenant(i)
        \/ \E a \in TenantAgents : AssignAgent(a, i) \/ UnassignAgent(a, i)

AdministerUsers ==
    \/ CreateUser \/ DeleteUser
    \/ \E i \in TenantIds : AssignUser(i) \/ UnassignUser(i)

Administer ==
    /\ AdministerTenants \/ AdministerUsers
    /\ UNCHANGED <<sessionTenants, look, inUse, shown, membership, before>>

-----------------------------------------------------------------------------
(* The coordinator *)

\* agent_tenants.  An agent whose rows cannot be read is taken for assigned,
\* to a tenant nobody has.
Unreachable == -1

\* Slip: it is taken for global.
GlobalIfUnread(a, unread) == IF a \in unread THEN {} ELSE assigned[a]

AgentTenants(a, unread) == IF a \in unread THEN {Unreachable} ELSE assigned[a]

\* Slip: a requester whose rows cannot be read gets that tenant too.
ScopeOrUnreachable(read) == IF read THEN member ELSE {Unreachable}

\* scope_for, which answers no tenant where a query fails.
ScopeFor(read) == IF read THEN member ELSE {}

\* An intent.
ResolveTenants(read) ==
    /\ look \in {"no session", "done"}
    /\ look' = "none"
    /\ sessionTenants' = ScopeFor(read)
    /\ membership' = member
    /\ shown' = {}
    /\ UNCHANGED <<rows, inUse, before>>

\* any_agent_is_assigned ...
BeginLook(unread) ==
    /\ look \in {"none", "done"}
    /\ look' = "between"
    /\ inUse' = (\E a \in TenantAgents : AgentTenants(a, unread) # {})
    /\ before' = assigned
    /\ shown' = {}
    /\ UNCHANGED <<rows, sessionTenants, membership>>

Visible(a, unread) ==
    \/ AgentTenants(a, unread) = {}
    \/ AgentTenants(a, unread) \cap sessionTenants # {}

\* ... and visible_agents; without tenancy everybody is shown.
FinishLook(unread) ==
    /\ look = "between"
    /\ look' = "done"
    /\ shown' = {a \in TenantAgents : inUse => Visible(a, unread)}
    /\ inUse' = FALSE /\ before' = NoAgentAssigned
    /\ UNCHANGED <<rows, sessionTenants, membership>>

TenancyNext ==
    \/ Administer
    \/ \E read \in BOOLEAN : ResolveTenants(read)
    \/ \E unread \in SUBSET TenantAgents : BeginLook(unread) \/ FinishLook(unread)

TenancySpec == TenancyInit /\ [][TenancyNext]_tenancyVars

-----------------------------------------------------------------------------
(* Properties *)

\* The model is shown an agent only if its requester shared one of its tenants
\* when the intent arrived, or the agent was in no tenant at some time during
\* the look, whatever query failed and whatever was written between the intent
\* and the discovery or between the two passes.
ShownAreShared ==
    [][look = "between" /\ look' = "done" =>
          \A a \in shown' :
              \/ assigned[a] \cap membership # {}
              \/ {} \in {assigned[a], before[a]}]_tenancyVars
=============================================================================
