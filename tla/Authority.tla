----------------------------- MODULE Authority -----------------------------
(***************************************************************************)
(* What an agent may do on a requester's behalf: the capability issued     *)
(* with an execution, the guard and the grant of each dispatch, the checks *)
(* in the agent's process and the reconciliation of what it used.  One     *)
(* session, one capability of one agent.  Where bindings come from is in   *)
(* ScopeCatalogue: here they may change between any two steps.              *)
(*                                                                         *)
(* Whether a scope covers another ("payments:*" and "payments:write") is a *)
(* relation.                                                                *)
(***************************************************************************)
EXTENDS ScopeCatalogue

VARIABLES
    enforced,       \* AGBUS_SCOPE_ENFORCED
    bound,          \* what is bound to the agent's capability
    required,       \* the scopes the agent declares for it
    claims,         \* the scopes the intent claims
    ceiling,        \* the scopes of the requester's credential
    issued,         \* the session's capability
    dispatch,       \* where the step is
    captured,       \* the scopes of the capability the guard read
    grant,          \* the scopes sent with the EXECUTE
    steady,         \* history: bindings and declaration as the guard saw them
    used,           \* what the execution checked
    performed,      \* what it went on to do
    report          \* what was reported as exceeded

settings == <<enforced, claims, ceiling>>
execution == <<grant, used, performed>>
authorityVars == <<settings, bound, required, issued, dispatch, captured, steady,
                   execution, report>>

\* A capability is there or not, fresh or expired, and names scopes or none.
NoCapability == [there |-> FALSE, fresh |-> FALSE, scopes |-> {}]
Capabilities == [there : BOOLEAN, fresh : BOOLEAN, scopes : SUBSET Scopes]

AuthorityTypeOK ==
    /\ {enforced, steady} \subseteq BOOLEAN
    /\ {bound, required, claims, ceiling, captured, grant, used, performed,
        report} \subseteq SUBSET Scopes
    /\ issued \in Capabilities
    /\ dispatch \in {"idle", "composing", "running", "reported"}

-----------------------------------------------------------------------------

(* Authority, narrowed *)

\* Slip: a claim is kept if it covers something the ceiling has.
NarrowUpwards(requested, limit) ==
    IF limit = {} THEN requested
    ELSE {s \in requested : \E g \in limit : Covers(s, g) \/ Covers(g, s)}

\* An empty ceiling is no limit, an empty grant is nothing.
Narrow(requested, limit) ==
    IF limit = {} THEN requested ELSE {s \in requested : CoveredByAny(limit, s)}

Intersect(requested, granted) == {s \in requested : CoveredByAny(granted, s)}

-----------------------------------------------------------------------------

AuthorityInit ==
    /\ enforced \in BOOLEAN
    /\ claims \in SUBSET Scopes /\ ceiling \in SUBSET Scopes
    /\ bound = {} /\ required = {}
    /\ issued = NoCapability /\ captured = {}
    /\ dispatch = "idle" /\ steady = FALSE
    /\ grant = {} /\ used = {} /\ performed = {} /\ report = {}

-----------------------------------------------------------------------------
(* Other requests meanwhile *)

\* A binding is added or removed.
Rebind(s) ==
    /\ bound' = IF s \in bound THEN bound \ {s} ELSE bound \cup {s}
    /\ steady' = (steady /\ s \notin bound)
    /\ UNCHANGED <<settings, required, issued, dispatch, captured, execution, report>>

\* The agent registers anew.
Declare(declared) ==
    /\ required' = declared
    /\ steady' = (steady /\ declared = required)
    /\ UNCHANGED <<settings, bound, issued, dispatch, captured, execution, report>>

-----------------------------------------------------------------------------
(* The coordinator *)

\* Execution is authorised: what the intent claims, within the credential.
IssueCapability ==
    /\ dispatch \in {"idle", "reported"}
    /\ issued' = [there |-> TRUE, fresh |-> TRUE, scopes |-> Narrow(claims, ceiling)]
    /\ UNCHANGED <<settings, bound, required, dispatch, captured, steady, execution, report>>

CapabilityExpires ==
    /\ issued.fresh
    /\ issued' = [issued EXCEPT !.fresh = FALSE]
    /\ UNCHANGED <<settings, bound, required, dispatch, captured, steady, execution, report>>

\* The session is dissolved, and its capability with it.
SessionGone ==
    /\ issued.there
    /\ issued' = NoCapability
    /\ UNCHANGED <<settings, bound, required, dispatch, captured, steady, execution, report>>

\* Capability.check: an empty list of scopes constrains nothing, and a name is
\* compared as it is.
CheckPasses ==
    issued.there => issued.fresh /\ (issued.scopes = {} \/ required \subseteq issued.scopes)

Ungranted == {s \in required : ~CoveredByAny(bound, s)}

\* The guard before a dispatch.  A refusal raises, and nothing is changed.
Guard ==
    /\ dispatch \in {"idle", "reported"}
    /\ CheckPasses
    /\ enforced => Ungranted = {}
    /\ dispatch' = "composing" /\ captured' = issued.scopes /\ steady' = TRUE
    /\ grant' = {} /\ used' = {} /\ performed' = {} /\ report' = {}
    /\ UNCHANGED <<settings, bound, required, issued>>

\* A slip: a capability without scopes is taken for one that allows none.
GrantOfNothing(scopes, held) ==
    IF ~enforced THEN scopes ELSE Intersect(scopes, held)

\* _grant_for, given the bindings read for it.
GrantFor(scopes, held) ==
    IF ~enforced THEN scopes
    ELSE IF scopes = {} THEN held ELSE Intersect(scopes, held)

\* The step's inputs are composed (an await) and the EXECUTE is sent.  `read`
\* is false when the bindings could not be read.
SendGrant(read) ==
    /\ dispatch = "composing"
    /\ dispatch' = "running"
    /\ grant' = IF read \/ ~enforced THEN GrantFor(captured, bound) ELSE {}
    /\ steady' = (steady /\ read)
    /\ UNCHANGED <<settings, bound, required, issued, captured, used, performed, report>>

\* Slip: where nothing was granted nothing is found to exceed it.
ExceededUnlessEmpty(granted) ==
    IF granted = {} THEN {} ELSE {s \in used : ~CoveredByAny(granted, s)}

Exceeded(granted) == {s \in used : ~CoveredByAny(granted, s)}

\* The COMPLETE arrives and is reconciled with the capability as it is by now.
Reconcile ==
    /\ dispatch = "running"
    /\ dispatch' = "reported"
    /\ report' = Exceeded(issued.scopes)
    /\ grant' = {} /\ used' = {}
    /\ UNCHANGED <<settings, bound, required, issued, captured, steady, performed>>

-----------------------------------------------------------------------------
(* The agent: agents/scope_guard.py *)

\* require_scope: the use is recorded, and raises unless the grant covers it.
RequireScope(s) ==
    /\ used' = used \cup {s}
    /\ performed' = IF CoveredByAny(grant, s) THEN performed \cup {s} ELSE performed

\* scope_is_held: asked and recorded, nothing is done.
AskScope(s) ==
    /\ dispatch = "running"
    /\ used' = used \cup {s}
    /\ UNCHANGED <<settings, bound, required, issued, dispatch, captured, steady, grant, performed, report>>

\* require_scope itself, or ScopedResource.get, which calls it each time, the
\* client kept from former executions or not.
UseResource(s) ==
    /\ dispatch = "running"
    /\ RequireScope(s)
    /\ UNCHANGED <<settings, bound, required, issued, dispatch, captured, steady, grant, report>>

-----------------------------------------------------------------------------

AuthorityNext ==
    \/ \E s \in Scopes : Rebind(s) \/ AskScope(s) \/ UseResource(s)
    \/ \E declared \in SUBSET Scopes : Declare(declared)
    \/ \E read \in BOOLEAN : SendGrant(read)
    \/ IssueCapability \/ CapabilityExpires \/ SessionGone
    \/ Guard \/ Reconcile

AuthoritySpec == AuthorityInit /\ [][AuthorityNext]_authorityVars

-----------------------------------------------------------------------------
(* Properties *)

\* Under enforcement an agent is granted nothing its capability is not bound to
\* when the EXECUTE is sent: what was unbound after the guard is gone from the
\* grant (_grant_for).
GrantIsBound ==
    [][enforced /\ dispatch = "composing" /\ dispatch' = "running" =>
          \A s \in grant' : CoveredByAny(bound, s)]_authorityVars

\* Under enforcement a step that passed the guard can do what its agent
\* declared: the check, the bindings and the grant agree, unless a binding or
\* the declaration changed meanwhile or the bindings could not be read.
GrantSuffices ==
    enforced /\ dispatch = "running" /\ steady =>
        \A s \in required : CoveredByAny(grant, s)

\* What a capability that names scopes lets an execution do is within the
\* requester's credential: the links from the credential to the use narrow what
\* they are given, over scopes bound, declared and reissued meanwhile.  Where
\* the capability names none the chain does not hold, see WithinCredential.
AuthorityBounded ==
    ceiling # {} /\ captured # {} =>
        \A s \in performed : CoveredByAny(ceiling, s)

\* An execution that went beyond its requester's credential all the same is
\* reported, also if its session is gone by then (_reconcile_scope_usage).
ExcessIsReported ==
    dispatch = "reported" /\ ceiling # {} =>
        \A s \in performed : CoveredByAny(ceiling, s) \/ s \in report

\* What the code says of itself and does not do; see the README.

\* Under enforcement an execution for a session that has its capability does
\* nothing beyond the requester's credential ("an agent cannot exceed what the
\* person it acts for was entitled to").
WithinCredential ==
    enforced /\ dispatch = "running" /\ issued.there /\ captured = issued.scopes
      /\ claims # {} /\ ceiling # {} =>
        \A s \in performed : CoveredByAny(ceiling, s)
=============================================================================
