------------------------ MODULE Administration_proofs ------------------------
(***************************************************************************)
(* Proofs about what administrators write while sessions go on: the rules  *)
(* of Governance, for every set of priorities and of rules, and the tenants *)
(* of Tenancy, for every set of tenants and agents.  Beside the types: an   *)
(* intention is let through only if no layer stood in its way, and an agent *)
(* is shown only to those it shares a tenant with.                          *)
(***************************************************************************)
EXTENDS Governance, Tenancy, TLAPS

(* The strictest of three decisions is one of them, and it permits only if *)
(* each of them does.                                                      *)
LEMMA CombineStrictest ==
  ASSUME NEW a \in Decisions, NEW b \in Decisions, NEW c \in Decisions
  PROVE  /\ Combine(<<a, b, c>>) \in Decisions
         /\ Combine(<<a, b, c>>) \in Permitted => {a, b, c} \subseteq Permitted
<1> DEFINE layers == <<a, b, c>>
           Least(i) == \A j \in DOMAIN layers : Strictness[layers[i]] <= Strictness[layers[j]]
<1>1. DOMAIN layers = {1, 2, 3}
  OBVIOUS
<1>2. /\ layers[1] = a /\ layers[2] = b /\ layers[3] = c
      /\ \A d \in Decisions : Strictness[d] \in 1..4
  BY DEF Decisions, Strictness
<1>3. \E i \in DOMAIN layers : Least(i)
  <2>1. CASE Strictness[a] <= Strictness[b] /\ Strictness[a] <= Strictness[c]
    BY <1>1, <1>2, <2>1
  <2>2. CASE Strictness[b] <= Strictness[a] /\ Strictness[b] <= Strictness[c]
    BY <1>1, <1>2, <2>2
  <2>3. CASE Strictness[c] <= Strictness[a] /\ Strictness[c] <= Strictness[b]
    BY <1>1, <1>2, <2>3
  <2> QED BY <1>2, <2>1, <2>2, <2>3
<1>4. PICK i \in DOMAIN layers : Least(i) /\ Combine(layers) = layers[i]
  BY <1>3 DEF Combine
<1>5. layers[i] \in Decisions
  BY <1>1, <1>2, <1>4
<1>6. ASSUME layers[i] \in Permitted, NEW d \in {a, b, c} PROVE d \in Permitted
  <2>1. Strictness[layers[i]] <= Strictness[d]
    BY <1>1, <1>2, <1>4, <1>6
  <2>2. d \in Decisions /\ Strictness[layers[i]] \in {3, 4}
    BY <1>6 DEF Permitted, Strictness
  <2> QED BY <2>1, <2>2 DEF Decisions, Permitted, Strictness
<1> QED BY <1>4, <1>5, <1>6

(* The layers answer with decisions.                                       *)
LEMMA LayersDecide ==
  /\ \A req \in Requests : Invariants(req) \in Decisions
  /\ \A rs, req : Grounded(rs, req) \in Decisions
  /\ \A v \in Verdicts : Semantic(v) \in Decisions
BY DEF Invariants, Grounded, Semantic, Decisions, Verdicts

LEMMA DecideType ==
  ASSUME GovernanceTypeOK, NEW v \in Verdicts, Decide(v),
         UNCHANGED <<rules, asked, grounded, readable, unwritten>>
  PROVE  GovernanceTypeOK'
<1>1. /\ Invariants(asked) \in Decisions /\ grounded \in Decisions
      /\ Semantic(v) \in Decisions
  BY LayersDecide DEF GovernanceTypeOK
<1>2. decision' \in Decisions
  BY <1>1, CombineStrictest DEF Decide
<1> QED BY <1>2 DEF Decide, GovernanceTypeOK

(* The type invariant: what an evaluation holds is of its type, whatever   *)
(* rules are written while it goes on.                                     *)
THEOREM GovernanceTypeCorrect == GovernanceSpec => []GovernanceTypeOK
<1>1. GovernanceInit => GovernanceTypeOK
  BY DEF GovernanceInit, GovernanceTypeOK, Requests, Decisions, Verdicts
<1>2. GovernanceTypeOK /\ [GovernanceNext]_governanceVars => GovernanceTypeOK'
  <2> SUFFICES ASSUME GovernanceTypeOK, [GovernanceNext]_governanceVars
               PROVE  GovernanceTypeOK'
    OBVIOUS
  <2>1. ASSUME NEW i \in Ranks, NEW r \in RuleShapes \cup {NoRule}, WriteRule(i, r)
        PROVE  GovernanceTypeOK'
    BY <2>1 DEF WriteRule, GovernanceTypeOK
  <2>2. ASSUME NEW req \in Requests, NEW read \in BOOLEAN, Evaluate(req, read)
        PROVE  GovernanceTypeOK'
    <3>1. grounded' \in Decisions /\ decision' \in Decisions /\ verdict' \in Verdicts
      BY <2>2, LayersDecide DEF Evaluate, Decisions, Verdicts
    <3> QED BY <2>2, <3>1 DEF Evaluate, GovernanceTypeOK
  <2>3. CASE LoadRules
    <3>1. CASE point' = "asking" /\ UNCHANGED <<verdict, decision>>
      BY <2>3, <3>1 DEF LoadRules, GovernanceTypeOK
    <3>2. CASE Decide("no rules") \/ Decide("failed")
      BY <2>3, <3>2, DecideType DEF LoadRules, Verdicts
    <3> QED BY <2>3, <3>1, <3>2 DEF LoadRules
  <2>4. CASE LoadFails
    BY <2>4, DecideType DEF LoadFails, Verdicts
  <2>5. ASSUME NEW v \in Decisions \cup {"failed"}, ModelAnswers(v)
        PROVE  GovernanceTypeOK'
    BY <2>5, DecideType DEF ModelAnswers, Verdicts
  <2>6. CASE UNCHANGED governanceVars
    BY <2>6 DEF governanceVars, GovernanceTypeOK
  <2> QED BY <2>1, <2>2, <2>3, <2>4, <2>5, <2>6 DEF GovernanceNext, AdministerRules
<1> QED BY <1>1, <1>2, PTL DEF GovernanceSpec

-----------------------------------------------------------------------------

(* What the grounded outcome says of the rules not written since, and what *)
(* the semantic layer found if it found no rule.                            *)
GroundedInv ==
    point # "idle" /\ grounded \in Permitted =>
        /\ ~asked.refused
        /\ readable => \A i \in unwritten : ~Speaks(rules[i], asked)

SemanticInv ==
    point = "decided" =>
        /\ verdict = "no rules" =>
              \A i \in unwritten : rules[i] # NoRule => ~rules[i].point
        /\ decision = Combine(<<Invariants(asked), grounded, Semantic(verdict)>>)

EvaluationInv == GroundedInv /\ SemanticInv

(* Rules that let a request pass do not speak against it.                  *)
LEMMA GroundedClear ==
  ASSUME NEW rs, NEW req, Grounded(rs, req) \in Permitted
  PROVE  ~req.refused /\ \A i \in DOMAIN rs : ~Speaks(rs[i], req)
BY DEF Grounded, Permitted

LEMMA DecideInv ==
  ASSUME GroundedInv, point \in {"grounded", "asking"}, NEW v, Decide(v),
         v = "no rules" => Applicable = {}, unwritten \subseteq Ranks,
         UNCHANGED <<rules, asked, grounded, readable, unwritten>>
  PROVE  EvaluationInv'
<1>1. GroundedInv'
  BY DEF Decide, GroundedInv, Speaks, Denies, Flags
<1>2. v = "no rules" => \A i \in unwritten : rules[i] # NoRule => ~rules[i].point
  BY DEF Applicable
<1> QED BY <1>1, <1>2 DEF Decide, SemanticInv, EvaluationInv

LEMMA EvaluationInvariant == GovernanceSpec => []EvaluationInv
<1>1. GovernanceInit => EvaluationInv
  BY DEF GovernanceInit, EvaluationInv, GroundedInv, SemanticInv
<1>2. GovernanceTypeOK /\ EvaluationInv /\ [GovernanceNext]_governanceVars => EvaluationInv'
  <2> SUFFICES ASSUME GovernanceTypeOK, EvaluationInv, [GovernanceNext]_governanceVars
               PROVE  EvaluationInv'
    OBVIOUS
  <2>1. ASSUME NEW i \in Ranks, NEW r \in RuleShapes \cup {NoRule}, WriteRule(i, r)
        PROVE  EvaluationInv'
    <3>1. \A j \in unwritten' : j \in unwritten /\ rules'[j] = rules[j]
      BY <2>1 DEF WriteRule, GovernanceTypeOK
    <3>2. UNCHANGED <<point, asked, grounded, verdict, decision, readable>>
      BY <2>1 DEF WriteRule
    <3>3. GroundedInv'
      BY <3>1, <3>2 DEF EvaluationInv, GroundedInv
    <3>4. SemanticInv'
      BY <3>1, <3>2 DEF EvaluationInv, SemanticInv
    <3> QED BY <3>3, <3>4 DEF EvaluationInv
  <2>2. ASSUME NEW req \in Requests, NEW read \in BOOLEAN, Evaluate(req, read)
        PROVE  EvaluationInv'
    <3>1. CASE read
      <4>1. DOMAIN rules = Ranks
        BY DEF GovernanceTypeOK
      <4>2. grounded' = Grounded(rules, req)
        BY <2>2, <3>1 DEF Evaluate
      <4>3. grounded' \in Permitted => ~req.refused /\ \A i \in Ranks : ~Speaks(rules[i], req)
        BY <4>1, <4>2, GroundedClear
      <4> QED
        BY <2>2, <4>3 DEF Evaluate, EvaluationInv, GroundedInv, SemanticInv
    <3>2. CASE ~read
      <4>1. grounded' = Grounded(<<>>, req)
        BY <2>2, <3>2 DEF Evaluate
      <4>2. grounded' \in Permitted => ~req.refused
        BY <4>1, GroundedClear
      <4> QED
        BY <2>2, <3>2, <4>2 DEF Evaluate, EvaluationInv, GroundedInv, SemanticInv
    <3> QED BY <3>1, <3>2
  <2>3. CASE LoadRules
    <3>1. CASE point' = "asking" /\ UNCHANGED <<verdict, decision>>
      BY <2>3, <3>1 DEF LoadRules, EvaluationInv, GroundedInv, SemanticInv
    <3>2. CASE Applicable = {} /\ Decide("no rules")
      BY <2>3, <3>2, DecideInv DEF LoadRules, EvaluationInv, GovernanceTypeOK
    <3>3. CASE Decide("failed")
      BY <2>3, <3>3, DecideInv DEF LoadRules, EvaluationInv, GovernanceTypeOK
    <3> QED BY <2>3, <3>1, <3>2, <3>3 DEF LoadRules
  <2>4. CASE LoadFails
    BY <2>4, DecideInv DEF LoadFails, EvaluationInv, GovernanceTypeOK
  <2>5. ASSUME NEW v \in Decisions \cup {"failed"}, ModelAnswers(v)
        PROVE  EvaluationInv'
    <3>1. v # "no rules"
      BY DEF Decisions
    <3> QED BY <2>5, <3>1, DecideInv DEF ModelAnswers, EvaluationInv, GovernanceTypeOK
  <2>6. CASE UNCHANGED governanceVars
    BY <2>6 DEF governanceVars, EvaluationInv, GroundedInv, SemanticInv
  <2> QED BY <2>1, <2>2, <2>3, <2>4, <2>5, <2>6 DEF GovernanceNext, AdministerRules
<1> QED BY <1>1, <1>2, GovernanceTypeCorrect, PTL DEF GovernanceSpec

(* The strictest of three outcomes permits only if all do; then there is no *)
(* breach, the grounded layer found nothing in what it read, and the model *)
(* consented or there was nothing to ask it about.                          *)
THEOREM AllowedIsClearAlways == GovernanceSpec => []AllowedIsClear
<1>1. GovernanceTypeOK /\ EvaluationInv => AllowedIsClear
  <2> SUFFICES ASSUME GovernanceTypeOK, EvaluationInv,
                      point = "decided", decision \in Permitted
               PROVE  /\ ~asked.breach /\ ~asked.refused
                      /\ verdict \notin {"failed", "pending"}
                      /\ \A i \in unwritten :
                            rules[i] # NoRule /\ rules[i].point =>
                                /\ verdict \in Permitted
                                /\ Speaks(rules[i], asked) => ~readable
    BY DEF AllowedIsClear
  <2>1. /\ Invariants(asked) \in Decisions /\ grounded \in Decisions
        /\ Semantic(verdict) \in Decisions
    BY LayersDecide DEF GovernanceTypeOK
  <2>2. {Invariants(asked), grounded, Semantic(verdict)} \subseteq Permitted
    <3>1. decision = Combine(<<Invariants(asked), grounded, Semantic(verdict)>>)
      BY DEF EvaluationInv, SemanticInv
    <3> QED BY <2>1, <3>1, CombineStrictest
  <2>3. ~asked.breach
    BY <2>2 DEF Invariants, Permitted
  <2>4. ~asked.refused /\ (readable => \A i \in unwritten : ~Speaks(rules[i], asked))
    BY <2>2 DEF EvaluationInv, GroundedInv
  <2>5. verdict = "no rules" \/ verdict \in Permitted
    BY <2>2 DEF Semantic, Permitted, Decisions
  <2>6. verdict \notin {"failed", "pending"}
    BY <2>5 DEF Permitted
  <2>7. ASSUME NEW i \in unwritten, rules[i] # NoRule, rules[i].point
        PROVE  verdict \in Permitted /\ (Speaks(rules[i], asked) => ~readable)
    BY <2>4, <2>5, <2>7 DEF EvaluationInv, SemanticInv
  <2> QED BY <2>3, <2>4, <2>6, <2>7
<1> QED BY <1>1, GovernanceTypeCorrect, EvaluationInvariant, PTL

-----------------------------------------------------------------------------
(* Tenancy *)

(* What the rows say is of its type, and stays so.                         *)
TenantRowsOK ==
    /\ tenants \in [TenantIds -> {"never", "there", "deleted"}]
    /\ enrolledUser \in BOOLEAN
    /\ member \in SUBSET TenantIds
    /\ assigned \in [TenantAgents -> SUBSET TenantIds]

LEMMA AdministerRows ==
  ASSUME TenantRowsOK, AdministerTenants \/ AdministerUsers
  PROVE  TenantRowsOK'
<1>1. ASSUME NEW i \in TenantIds, CreateTenant(i) PROVE TenantRowsOK'
  BY <1>1 DEF CreateTenant, TenantRowsOK
<1>2. ASSUME NEW i \in TenantIds, DeleteTenant(i) PROVE TenantRowsOK'
  <2>1. assigned' \in [TenantAgents -> SUBSET TenantIds]
    BY <1>2 DEF DeleteTenant, TenantRowsOK
  <2> QED BY <1>2, <2>1 DEF DeleteTenant, TenantRowsOK
<1>3. ASSUME NEW i \in TenantIds, NEW a \in TenantAgents,
             AssignAgent(a, i) \/ UnassignAgent(a, i)
      PROVE  TenantRowsOK'
  BY <1>3 DEF AssignAgent, UnassignAgent, TenantRowsOK
<1>4. ASSUME CreateUser \/ DeleteUser PROVE TenantRowsOK'
  BY <1>4 DEF CreateUser, DeleteUser, TenantRowsOK
<1>5. ASSUME NEW i \in TenantIds, AssignUser(i) \/ UnassignUser(i) PROVE TenantRowsOK'
  BY <1>5 DEF AssignUser, UnassignUser, TenantRowsOK
<1> QED
  BY <1>1, <1>2, <1>3, <1>4, <1>5 DEF AdministerTenants, AdministerUsers

(* The type invariant: the rows, the session's tenants and the look are    *)
(* what they are declared to be, whatever administrators write meanwhile.   *)
THEOREM TenancyTypeCorrect == TenancySpec => []TenancyTypeOK
<1>1. TenancyInit => TenancyTypeOK
  BY DEF TenancyInit, TenancyTypeOK, NoAgentAssigned
<1>2. TenancyTypeOK /\ [TenancyNext]_tenancyVars => TenancyTypeOK'
  <2> SUFFICES ASSUME TenancyTypeOK, [TenancyNext]_tenancyVars
               PROVE  TenancyTypeOK'
    OBVIOUS
  <2>1. CASE Administer
    BY <2>1, AdministerRows DEF Administer, TenantRowsOK, TenancyTypeOK
  <2>2. ASSUME NEW read \in BOOLEAN, ResolveTenants(read) PROVE TenancyTypeOK'
    BY <2>2 DEF ResolveTenants, ScopeFor, rows, TenancyTypeOK
  <2>3. ASSUME NEW unread \in SUBSET TenantAgents, BeginLook(unread)
        PROVE  TenancyTypeOK'
    BY <2>3 DEF BeginLook, rows, TenancyTypeOK
  <2>4. ASSUME NEW unread \in SUBSET TenantAgents, FinishLook(unread)
        PROVE  TenancyTypeOK'
    BY <2>4 DEF FinishLook, rows, TenancyTypeOK, NoAgentAssigned
  <2>5. CASE UNCHANGED tenancyVars
    BY <2>5 DEF tenancyVars, rows, TenancyTypeOK
  <2> QED BY <2>1, <2>2, <2>3, <2>4, <2>5 DEF TenancyNext
<1> QED BY <1>1, <1>2, PTL DEF TenancySpec

-----------------------------------------------------------------------------

(* Between the two passes: the session has no tenant but the requester's,   *)
(* and if the first pass found nobody assigned then nobody was.             *)
LookInv ==
    /\ sessionTenants \subseteq membership
    /\ look = "between" /\ ~inUse => \A a \in TenantAgents : before[a] = {}

LEMMA LookInvariant == TenancySpec => []LookInv
<1>1. TenancyInit => LookInv
  BY DEF TenancyInit, LookInv
<1>2. TenancyTypeOK /\ LookInv /\ [TenancyNext]_tenancyVars => LookInv'
  <2> SUFFICES ASSUME TenancyTypeOK, LookInv, [TenancyNext]_tenancyVars
               PROVE  LookInv'
    OBVIOUS
  <2>1. CASE Administer
    BY <2>1 DEF Administer, LookInv
  <2>2. ASSUME NEW read \in BOOLEAN, ResolveTenants(read) PROVE LookInv'
    BY <2>2 DEF ResolveTenants, ScopeFor, LookInv
  <2>3. ASSUME NEW unread \in SUBSET TenantAgents, BeginLook(unread)
        PROVE  LookInv'
    BY <2>3 DEF BeginLook, AgentTenants, LookInv
  <2>4. ASSUME NEW unread \in SUBSET TenantAgents, FinishLook(unread)
        PROVE  LookInv'
    BY <2>4 DEF FinishLook, LookInv
  <2>5. CASE UNCHANGED tenancyVars
    BY <2>5 DEF tenancyVars, LookInv
  <2> QED BY <2>1, <2>2, <2>3, <2>4, <2>5 DEF TenancyNext
<1> QED BY <1>1, <1>2, TenancyTypeCorrect, PTL DEF TenancySpec

(* Only the second pass ends a look, and it shows an agent assigned to a   *)
(* tenant of the session, or one that has none: now, or when the look began *)
(* and nobody had any.  An agent whose rows could not be read is neither.   *)
THEOREM OnlySharedAreShown == TenancySpec => ShownAreShared
<1> DEFINE Shares ==
      look = "between" /\ look' = "done" =>
          \A a \in shown' :
              \/ assigned[a] \cap membership # {}
              \/ {} \in {assigned[a], before[a]}
<1>1. TenancyTypeOK /\ LookInv /\ [TenancyNext]_tenancyVars => Shares
  <2> SUFFICES ASSUME TenancyTypeOK, LookInv, [TenancyNext]_tenancyVars,
                      look = "between", look' = "done",
                      NEW a \in shown'
               PROVE  \/ assigned[a] \cap membership # {}
                      \/ {} \in {assigned[a], before[a]}
    OBVIOUS
  <2>1. PICK unread \in SUBSET TenantAgents : FinishLook(unread)
    BY DEF TenancyNext, tenancyVars, Administer, ResolveTenants, BeginLook
  <2>2. a \in TenantAgents /\ (inUse => Visible(a, unread))
    BY <2>1 DEF FinishLook
  <2>3. CASE ~inUse
    BY <2>2, <2>3 DEF LookInv
  <2>4. CASE inUse
    <3>1. Unreachable \notin sessionTenants
      BY TenantIdsAssumption DEF TenancyTypeOK, Unreachable
    <3>2. a \notin unread
      BY <2>2, <2>4, <3>1 DEF Visible, AgentTenants
    <3>3. assigned[a] = {} \/ assigned[a] \cap sessionTenants # {}
      BY <2>2, <2>4, <3>2 DEF Visible, AgentTenants
    <3> QED BY <3>3 DEF LookInv
  <2> QED BY <2>3, <2>4
<1> QED BY <1>1, TenancyTypeCorrect, LookInvariant, PTL DEF TenancySpec, ShownAreShared
=============================================================================
