-------------------------- MODULE Authority_proofs --------------------------
(***************************************************************************)
(* Proofs about ScopeCatalogue and Authority, for every set of scopes and  *)
(* every relation of covering that is reflexive and transitive: bindings   *)
(* are to recognised names, a grant is what is bound and enough for what   *)
(* was declared, and what an execution does is within its requester's       *)
(* credential or reported.                                                  *)
(***************************************************************************)
EXTENDS Authority, TLAPS

LEMMA CoversReflexive ==
  ASSUME NEW s \in Scopes, NEW held, s \in held PROVE CoveredByAny(held, s)
BY CoveringAssumption DEF CoveredByAny, Covers

LEMMA CoversTransitive ==
  ASSUME NEW held \in SUBSET Scopes, NEW limit \in SUBSET Scopes, NEW s \in Scopes,
         \A g \in held : CoveredByAny(limit, g), CoveredByAny(held, s)
  PROVE  CoveredByAny(limit, s)
<1>1. PICK g \in held : Covers(g, s)
  BY DEF CoveredByAny
<1>2. PICK l \in limit : Covers(l, g)
  BY <1>1 DEF CoveredByAny
<1>3. Covers(l, s)
  BY <1>1, <1>2, CoveringAssumption DEF Covers
<1> QED BY <1>3 DEF CoveredByAny

LEMMA CoversMonotone ==
  ASSUME NEW held, NEW more, held \subseteq more, NEW s, CoveredByAny(held, s)
  PROVE  CoveredByAny(more, s)
BY DEF CoveredByAny

-----------------------------------------------------------------------------
(* The catalogue *)

(* What the catalogue holds is scopes, and a half-done binding names one.  *)
THEOREM CatalogueTypeCorrect == CatalogueSpec => []CatalogueTypeOK
<1>1. CatalogueInit => CatalogueTypeOK
  BY DEF CatalogueInit, CatalogueTypeOK
<1>2. CatalogueTypeOK /\ [CatalogueStep]_catalogueVars => CatalogueTypeOK'
  <2> SUFFICES ASSUME CatalogueTypeOK, [CatalogueStep]_catalogueVars
               PROVE  CatalogueTypeOK'
    OBVIOUS
  <2>1. ASSUME NEW s \in Scopes,
               AddScope(s) \/ RemoveScope(s) \/ BeginBind(s) \/ ClearRequest(s)
        PROVE  CatalogueTypeOK'
    <3>1. Uncovered(s) \subseteq bindings
      BY DEF Uncovered
    <3> QED
      BY <2>1, <3>1 DEF AddScope, RemoveScope, BeginBind, ClearRequest, CatalogueTypeOK
  <2>2. CASE FinishBind
    <3>1. binding.scope \in Scopes
      BY <2>2 DEF FinishBind, CatalogueTypeOK
    <3> QED BY <2>2, <3>1 DEF FinishBind, CatalogueTypeOK
  <2>3. ASSUME NEW declared \in SUBSET Scopes,
               ResolveScopes(declared) \/ UnbindAll(declared)
        PROVE  CatalogueTypeOK'
    BY <2>3 DEF ResolveScopes, UnbindAll, Unrecognised, CatalogueTypeOK
  <2>4. CASE UNCHANGED catalogueVars
    BY <2>4 DEF catalogueVars, CatalogueTypeOK
  <2> QED BY <2>1, <2>2, <2>3, <2>4 DEF CatalogueStep
<1> QED BY <1>1, <1>2, PTL DEF CatalogueSpec

(* No step takes the name above a binding away without noting it: names    *)
(* are only added, and a removal notes what it leaves uncovered.            *)
THEOREM BindingsAlwaysCatalogued == CatalogueSpec => []BindingsCatalogued
<1>1. CatalogueInit => BindingsCatalogued
  BY DEF CatalogueInit, BindingsCatalogued
<1>2. BindingsCatalogued /\ [CatalogueStep]_catalogueVars => BindingsCatalogued'
  <2> SUFFICES ASSUME BindingsCatalogued, [CatalogueStep]_catalogueVars,
                      NEW t \in bindings'
               PROVE  CoveredByAny(catalogue', t) \/ t \in excused'
    BY DEF BindingsCatalogued
  <2>1. ASSUME t \in bindings, catalogue \subseteq catalogue', excused \subseteq excused'
        PROVE  CoveredByAny(catalogue', t) \/ t \in excused'
    BY <2>1, CoversMonotone DEF BindingsCatalogued
  <2>2. ASSUME NEW s \in Scopes,
               AddScope(s) \/ BeginBind(s) \/ ClearRequest(s)
        PROVE  CoveredByAny(catalogue', t) \/ t \in excused'
    BY <2>1, <2>2 DEF AddScope, BeginBind, ClearRequest
  <2>3. ASSUME NEW s \in Scopes, RemoveScope(s)
        PROVE  CoveredByAny(catalogue', t) \/ t \in excused'
    BY <2>3 DEF RemoveScope, Uncovered
  <2>4. ASSUME FinishBind PROVE CoveredByAny(catalogue', t) \/ t \in excused'
    <3>1. CASE t = binding.scope
      BY <2>4, <3>1 DEF FinishBind
    <3>2. CASE t \in bindings
      BY <2>1, <2>4, <3>2 DEF FinishBind
    <3> QED BY <2>4, <3>1, <3>2 DEF FinishBind
  <2>5. ASSUME NEW declared \in SUBSET Scopes,
               ResolveScopes(declared) \/ UnbindAll(declared)
        PROVE  CoveredByAny(catalogue', t) \/ t \in excused'
    BY <2>1, <2>5 DEF ResolveScopes, UnbindAll
  <2>6. CASE UNCHANGED catalogueVars
    BY <2>1, <2>6 DEF catalogueVars
  <2> QED BY <2>2, <2>3, <2>4, <2>5, <2>6 DEF CatalogueStep
<1> QED BY <1>1, <1>2, PTL DEF CatalogueSpec

-----------------------------------------------------------------------------
(* Authority *)

LEMMA NarrowIsWithin ==
  ASSUME NEW requested \in SUBSET Scopes, NEW limit \in SUBSET Scopes
  PROVE  /\ Narrow(requested, limit) \in SUBSET Scopes
         /\ limit # {} => \A s \in Narrow(requested, limit) : CoveredByAny(limit, s)
BY DEF Narrow

LEMMA GrantType ==
  ASSUME NEW scopes \in SUBSET Scopes, NEW held \in SUBSET Scopes
  PROVE  GrantFor(scopes, held) \in SUBSET Scopes
BY DEF GrantFor, Intersect

(* The type invariant: what is bound, claimed, issued, granted and used is *)
(* a set of scopes at every step of a dispatch.                             *)
THEOREM AuthorityTypeCorrect == AuthoritySpec => []AuthorityTypeOK
<1>1. AuthorityInit => AuthorityTypeOK
  <2> SUFFICES ASSUME AuthorityInit PROVE AuthorityTypeOK
    OBVIOUS
  <2>1. issued \in Capabilities
    BY DEF AuthorityInit, NoCapability, Capabilities
  <2>2. {enforced, steady} \subseteq BOOLEAN
    BY DEF AuthorityInit
  <2>3. {bound, required, claims, ceiling, captured, grant, used, performed, report}
           \subseteq SUBSET Scopes
    BY DEF AuthorityInit
  <2> QED BY <2>1, <2>2, <2>3 DEF AuthorityInit, AuthorityTypeOK
<1>2. AuthorityTypeOK /\ [AuthorityNext]_authorityVars => AuthorityTypeOK'
  <2> SUFFICES ASSUME AuthorityTypeOK, [AuthorityNext]_authorityVars
               PROVE  AuthorityTypeOK'
    OBVIOUS
  <2> USE DEF AuthorityTypeOK, settings, execution
  <2>1. ASSUME NEW s \in Scopes, Rebind(s) PROVE AuthorityTypeOK'
    BY <2>1 DEF Rebind
  <2>2. ASSUME NEW s \in Scopes, AskScope(s) PROVE AuthorityTypeOK'
    BY <2>2 DEF AskScope
  <2>3. ASSUME NEW s \in Scopes, UseResource(s) PROVE AuthorityTypeOK'
    BY <2>3 DEF UseResource, RequireScope
  <2>4. ASSUME NEW declared \in SUBSET Scopes, Declare(declared) PROVE AuthorityTypeOK'
    BY <2>4 DEF Declare
  <2>5. ASSUME NEW read \in BOOLEAN, SendGrant(read) PROVE AuthorityTypeOK'
    BY <2>5, GrantType DEF SendGrant
  <2>6. CASE IssueCapability
    BY <2>6, NarrowIsWithin DEF IssueCapability, Capabilities
  <2>7. CASE CapabilityExpires
    BY <2>7 DEF CapabilityExpires, Capabilities
  <2>8. CASE SessionGone
    BY <2>8 DEF SessionGone, NoCapability, Capabilities
  <2>9. CASE Guard
    BY <2>9 DEF Guard, Capabilities
  <2>10. CASE Reconcile
    BY <2>10 DEF Reconcile, Exceeded
  <2>11. CASE UNCHANGED authorityVars
    BY <2>11 DEF authorityVars
  <2> QED
    BY <2>1, <2>2, <2>3, <2>4, <2>5, <2>6, <2>7, <2>8, <2>9, <2>10, <2>11 DEF AuthorityNext
<1> QED BY <1>1, <1>2, PTL DEF AuthoritySpec

(* The grant is made of the bindings as they are when the EXECUTE is sent. *)
THEOREM GrantAlwaysBound == AuthoritySpec => GrantIsBound
<1> DEFINE Bound ==
      enforced /\ dispatch = "composing" /\ dispatch' = "running" =>
          \A s \in grant' : CoveredByAny(bound, s)
<1>1. AuthorityTypeOK /\ [AuthorityNext]_authorityVars => Bound
  <2> SUFFICES ASSUME AuthorityTypeOK, [AuthorityNext]_authorityVars,
                      enforced, dispatch = "composing", dispatch' = "running",
                      NEW s \in grant'
               PROVE  CoveredByAny(bound, s)
    OBVIOUS
  <2>1. PICK read \in BOOLEAN : SendGrant(read)
    BY DEF AuthorityNext, authorityVars, Rebind, AskScope, UseResource, Declare,
           IssueCapability, CapabilityExpires, SessionGone, Guard, Reconcile
  <2>2. s \in GrantFor(captured, bound)
    BY <2>1 DEF SendGrant
  <2>3. bound \subseteq Scopes
    BY DEF AuthorityTypeOK
  <2> QED BY <2>2, <2>3, CoversReflexive DEF GrantFor, Intersect
<1> QED BY <1>1, AuthorityTypeCorrect, PTL DEF AuthoritySpec, GrantIsBound

-----------------------------------------------------------------------------
(* The chain from the credential to what is done *)

(* What the guard saw: a capability that allows what is declared and, under *)
(* enforcement, bindings that cover it, as long as the history says steady. *)
GuardedInv ==
    /\ ~issued.there => issued.scopes = {}
    /\ dispatch \in {"composing", "running"} /\ steady =>
          /\ captured = {} \/ required \subseteq captured
          /\ enforced => \A s \in required : CoveredByAny(bound, s)

SufficesInv == GuardedInv /\ GrantSuffices

LEMMA GuardedUnchanged ==
  ASSUME SufficesInv,
         UNCHANGED <<enforced, bound, required, issued, dispatch, captured, steady, grant>>
  PROVE  SufficesInv'
BY DEF SufficesInv, GuardedInv, GrantSuffices

(* A binding added or a declaration repeated keeps what the guard saw true; *)
(* the grant of a steady dispatch then covers each declared scope, because  *)
(* covering is reflexive.                                                   *)
THEOREM GrantAlwaysSuffices == AuthoritySpec => []GrantSuffices
<1>1. AuthorityInit => SufficesInv
  BY DEF AuthorityInit, SufficesInv, GuardedInv, GrantSuffices, NoCapability
<1>2. AuthorityTypeOK /\ SufficesInv /\ [AuthorityNext]_authorityVars => SufficesInv'
  <2> SUFFICES ASSUME AuthorityTypeOK, SufficesInv, [AuthorityNext]_authorityVars
               PROVE  SufficesInv'
    OBVIOUS
  <2> USE DEF settings, execution
  <2>1. ASSUME NEW s \in Scopes, Rebind(s) PROVE SufficesInv'
    <3>1. steady' => steady /\ bound \subseteq bound'
      BY <2>1 DEF Rebind
    <3>2. UNCHANGED <<enforced, required, issued, dispatch, captured, grant>>
      BY <2>1 DEF Rebind
    <3>3. GuardedInv'
      BY <3>1, <3>2, CoversMonotone DEF SufficesInv, GuardedInv
    <3>4. GrantSuffices'
      BY <3>1, <3>2 DEF SufficesInv, GrantSuffices
    <3> QED BY <3>3, <3>4 DEF SufficesInv
  <2>2. ASSUME NEW s \in Scopes, AskScope(s) \/ UseResource(s) PROVE SufficesInv'
    BY <2>2, GuardedUnchanged DEF AskScope, UseResource
  <2>3. ASSUME NEW declared \in SUBSET Scopes, Declare(declared) PROVE SufficesInv'
    <3>1. steady' => steady /\ required' = required
      BY <2>3 DEF Declare
    <3>2. UNCHANGED <<enforced, bound, issued, dispatch, captured, grant>>
      BY <2>3 DEF Declare
    <3> QED BY <3>1, <3>2 DEF SufficesInv, GuardedInv, GrantSuffices
  <2>4. ASSUME NEW read \in BOOLEAN, SendGrant(read) PROVE SufficesInv'
    <3>1. GuardedInv'
      BY <2>4 DEF SendGrant, SufficesInv, GuardedInv
    <3>2. ASSUME enforced, steady', NEW s \in required PROVE CoveredByAny(grant', s)
      <4>1. grant' = IF captured = {} THEN bound ELSE Intersect(captured, bound)
        BY <2>4, <3>2 DEF SendGrant, GrantFor
      <4>2. CoveredByAny(bound, s) /\ (captured = {} \/ s \in captured)
        BY <2>4, <3>2 DEF SendGrant, SufficesInv, GuardedInv
      <4>3. s \in Scopes
        BY <3>2 DEF AuthorityTypeOK
      <4>4. CASE captured = {}
        BY <4>1, <4>2, <4>4
      <4>5. CASE captured # {}
        BY <4>1, <4>2, <4>3, <4>5, CoversReflexive DEF Intersect
      <4> QED BY <4>4, <4>5
    <3>3. GrantSuffices'
      BY <2>4, <3>2 DEF SendGrant, GrantSuffices
    <3> QED BY <3>1, <3>3 DEF SufficesInv
  <2>5. CASE IssueCapability \/ CapabilityExpires \/ SessionGone
    <3>1. (~issued.there => issued.scopes = {})'
      <4>1. CASE IssueCapability
        BY <4>1 DEF IssueCapability
      <4>2. CASE CapabilityExpires
        BY <4>2 DEF CapabilityExpires, SufficesInv, GuardedInv, AuthorityTypeOK, Capabilities
      <4>3. CASE SessionGone
        BY <4>3 DEF SessionGone, NoCapability
      <4> QED BY <2>5, <4>1, <4>2, <4>3
    <3>2. UNCHANGED <<enforced, bound, required, dispatch, captured, steady, grant>>
      BY <2>5 DEF IssueCapability, CapabilityExpires, SessionGone
    <3> QED BY <3>1, <3>2 DEF SufficesInv, GuardedInv, GrantSuffices
  <2>6. CASE Guard
    <3>1. captured' = {} \/ required' \subseteq captured'
      BY <2>6 DEF Guard, CheckPasses, SufficesInv, GuardedInv
    <3>2. enforced' => \A s \in required' : CoveredByAny(bound', s)
      BY <2>6 DEF Guard, Ungranted
    <3>3. dispatch' = "composing" /\ issued' = issued
      BY <2>6 DEF Guard
    <3> QED BY <3>1, <3>2, <3>3 DEF SufficesInv, GuardedInv, GrantSuffices
  <2>7. CASE Reconcile
    BY <2>7 DEF Reconcile, SufficesInv, GuardedInv, GrantSuffices
  <2>8. CASE UNCHANGED authorityVars
    BY <2>8, GuardedUnchanged DEF authorityVars
  <2> QED BY <2>1, <2>2, <2>3, <2>4, <2>5, <2>6, <2>7, <2>8 DEF AuthorityNext
<1>3. SufficesInv => GrantSuffices
  BY DEF SufficesInv
<1> QED BY <1>1, <1>2, <1>3, AuthorityTypeCorrect, PTL DEF AuthoritySpec

(* Within: everything from the capability to what was done is covered by   *)
(* the credential, where that names scopes and the capability does.         *)
Within(scopes) == \A s \in scopes : CoveredByAny(ceiling, s)

WithinInv ==
    /\ ceiling # {} => Within(issued.scopes) /\ Within(captured)
    /\ captured # {} => grant \subseteq captured
    /\ AuthorityBounded

LEMMA WithinUnchanged ==
  ASSUME WithinInv, UNCHANGED <<ceiling, captured, grant, performed>>,
         issued'.scopes = issued.scopes
  PROVE  WithinInv'
BY DEF WithinInv, Within, AuthorityBounded

(* Each link narrows the one before: the capability to the credential, the *)
(* grant to the capability, the use to the grant.                           *)
THEOREM AuthorityAlwaysBounded == AuthoritySpec => [](WithinInv /\ AuthorityBounded)
<1>1. AuthorityInit => WithinInv
  BY DEF AuthorityInit, WithinInv, Within, AuthorityBounded, NoCapability
<1>2. AuthorityTypeOK /\ WithinInv /\ [AuthorityNext]_authorityVars => WithinInv'
  <2> SUFFICES ASSUME AuthorityTypeOK, WithinInv, [AuthorityNext]_authorityVars
               PROVE  WithinInv'
    OBVIOUS
  <2> USE DEF settings, execution
  <2>1. ASSUME NEW s \in Scopes, Rebind(s) \/ AskScope(s) PROVE WithinInv'
    BY <2>1, WithinUnchanged DEF Rebind, AskScope
  <2>2. ASSUME NEW s \in Scopes, UseResource(s) PROVE WithinInv'
    <3>1. UNCHANGED <<ceiling, captured, grant, issued>>
      BY <2>2 DEF UseResource
    <3>2. ASSUME ceiling # {}, captured # {}, CoveredByAny(grant, s)
          PROVE  CoveredByAny(ceiling, s)
      <4>1. \A g \in grant : CoveredByAny(ceiling, g)
        BY <3>2 DEF WithinInv, Within
      <4>2. grant \in SUBSET Scopes /\ ceiling \in SUBSET Scopes
        BY DEF AuthorityTypeOK
      <4> QED BY <3>2, <4>1, <4>2, CoversTransitive
    <3>3. AuthorityBounded'
      BY <2>2, <3>1, <3>2 DEF UseResource, RequireScope, WithinInv, AuthorityBounded
    <3> QED BY <3>1, <3>3 DEF WithinInv, Within
  <2>3. ASSUME NEW declared \in SUBSET Scopes, Declare(declared) PROVE WithinInv'
    BY <2>3, WithinUnchanged DEF Declare
  <2>4. ASSUME NEW read \in BOOLEAN, SendGrant(read) PROVE WithinInv'
    <3>1. UNCHANGED <<ceiling, captured, performed, issued>>
      BY <2>4 DEF SendGrant
    <3>2. captured # {} => grant' \subseteq captured
      BY <2>4 DEF SendGrant, GrantFor, Intersect
    <3> QED BY <3>1, <3>2 DEF WithinInv, Within, AuthorityBounded
  <2>5. CASE IssueCapability
    <3>1. ceiling # {} => Within(issued'.scopes)
      BY <2>5, NarrowIsWithin DEF IssueCapability, Within, AuthorityTypeOK
    <3>2. UNCHANGED <<ceiling, captured, grant, performed>>
      BY <2>5 DEF IssueCapability
    <3> QED BY <3>1, <3>2 DEF WithinInv, Within, AuthorityBounded
  <2>6. CASE CapabilityExpires
    <3>1. issued'.scopes = issued.scopes
      BY <2>6 DEF CapabilityExpires, AuthorityTypeOK, Capabilities
    <3> QED BY <2>6, <3>1, WithinUnchanged DEF CapabilityExpires
  <2>7. CASE SessionGone
    BY <2>7 DEF SessionGone, NoCapability, WithinInv, Within, AuthorityBounded
  <2>8. CASE Guard
    BY <2>8 DEF Guard, WithinInv, Within, AuthorityBounded
  <2>9. CASE Reconcile
    BY <2>9 DEF Reconcile, WithinInv, Within, AuthorityBounded
  <2>10. CASE UNCHANGED authorityVars
    BY <2>10, WithinUnchanged DEF authorityVars
  <2> QED
    BY <2>1, <2>2, <2>3, <2>4, <2>5, <2>6, <2>7, <2>8, <2>9, <2>10 DEF AuthorityNext
<1>3. WithinInv => AuthorityBounded
  BY DEF WithinInv
<1> QED BY <1>1, <1>2, <1>3, AuthorityTypeCorrect, PTL DEF AuthoritySpec

(* What was done was recorded as used while the execution ran.             *)
ReportInv ==
    /\ dispatch = "running" => performed \subseteq used
    /\ dispatch = "composing" => performed = {}
    /\ ExcessIsReported

(* Of what was used only that is not reported which the capability covers, *)
(* as it is when the COMPLETE is reconciled; the credential covers that.    *)
THEOREM ExcessAlwaysReported == AuthoritySpec => []ExcessIsReported
<1>1. AuthorityInit => ReportInv
  BY DEF AuthorityInit, ReportInv, ExcessIsReported
<1>2. AuthorityTypeOK /\ WithinInv /\ ReportInv /\ [AuthorityNext]_authorityVars
        => ReportInv'
  <2> SUFFICES ASSUME AuthorityTypeOK, WithinInv, ReportInv,
                      [AuthorityNext]_authorityVars
               PROVE  ReportInv'
    OBVIOUS
  <2> USE DEF settings, execution
  <2>1. ASSUME UNCHANGED <<dispatch, used, performed, ceiling, report>>
        PROVE  ReportInv'
    BY <2>1 DEF ReportInv, ExcessIsReported
  <2>2. ASSUME NEW s \in Scopes, Rebind(s) PROVE ReportInv'
    BY <2>1, <2>2 DEF Rebind
  <2>3. ASSUME NEW s \in Scopes, AskScope(s) PROVE ReportInv'
    BY <2>3 DEF AskScope, ReportInv, ExcessIsReported
  <2>4. ASSUME NEW s \in Scopes, UseResource(s) PROVE ReportInv'
    BY <2>4 DEF UseResource, RequireScope, ReportInv, ExcessIsReported
  <2>5. ASSUME NEW declared \in SUBSET Scopes, Declare(declared) PROVE ReportInv'
    BY <2>1, <2>5 DEF Declare
  <2>6. ASSUME NEW read \in BOOLEAN, SendGrant(read) PROVE ReportInv'
    BY <2>6 DEF SendGrant, ReportInv, ExcessIsReported
  <2>7. CASE IssueCapability \/ CapabilityExpires \/ SessionGone
    BY <2>1, <2>7 DEF IssueCapability, CapabilityExpires, SessionGone
  <2>8. CASE Guard
    BY <2>8 DEF Guard, ReportInv, ExcessIsReported
  <2>9. CASE Reconcile
    <3>1. ASSUME ceiling # {}, NEW s \in performed, s \notin report'
          PROVE  CoveredByAny(ceiling, s)
      <4>1. s \in Scopes /\ issued.scopes \in SUBSET Scopes /\ ceiling \in SUBSET Scopes
        BY DEF AuthorityTypeOK, Capabilities
      <4>2. CoveredByAny(issued.scopes, s)
        BY <2>9, <3>1 DEF Reconcile, Exceeded, ReportInv
      <4>3. \A g \in issued.scopes : CoveredByAny(ceiling, g)
        BY <3>1 DEF WithinInv, Within
      <4> QED BY <4>1, <4>2, <4>3, CoversTransitive
    <3>2. UNCHANGED <<ceiling, performed>> /\ dispatch' = "reported"
      BY <2>9 DEF Reconcile
    <3> QED BY <3>1, <3>2 DEF ReportInv, ExcessIsReported
  <2>10. CASE UNCHANGED authorityVars
    BY <2>1, <2>10 DEF authorityVars
  <2> QED
    BY <2>2, <2>3, <2>4, <2>5, <2>6, <2>7, <2>8, <2>9, <2>10 DEF AuthorityNext
<1>3. ReportInv => ExcessIsReported
  BY DEF ReportInv
<1> QED
  BY <1>1, <1>2, <1>3, AuthorityTypeCorrect, AuthorityAlwaysBounded, PTL
     DEF AuthoritySpec
=============================================================================
