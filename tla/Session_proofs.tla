--------------------------- MODULE Session_proofs ---------------------------
(***************************************************************************)
(* Proofs about Session, for every set of agents and every bound: its type *)
(* invariant, that it implements SessionContract, and that nothing is      *)
(* resumed or proposed after the end.                                      *)
(***************************************************************************)
EXTENDS Session, FiniteSetTheorems, SequenceTheorems, TLAPS

(* The plan with no step is a plan, and so is a new composition_plan.      *)
LEMMA StepsType == NoSteps \in Steps
BY DEF NoSteps, Steps

LEMMA NewPlanType == \A n \in Nat : NewPlan(n) \in Plan
BY StepsType DEF NewPlan, Plan

(* What compose_offers counts is a number: an agent has finitely many      *)
(* accepted offers.                                                        *)
LEMMA AcceptedFinite ==
  ASSUME offers \in Seq(Offer)
  PROVE  \A b \in Agents :
           Cardinality({i \in Accepted : offers[i].agent = b}) \in Nat
<1>1. DOMAIN offers = 1..Len(offers) /\ Len(offers) \in Nat
  OBVIOUS
<1>2. IsFiniteSet(1..Len(offers))
  BY <1>1, FS_Interval
<1> TAKE b \in Agents
<1>3. {i \in Accepted : offers[i].agent = b} \subseteq 1..Len(offers)
  BY <1>1 DEF Accepted
<1>4. IsFiniteSet({i \in Accepted : offers[i].agent = b})
  BY <1>2, <1>3, FS_Subset
<1> QED BY <1>4, FS_CardinalityType

(* A verdict written at a position of the offers, or past their end, leaves *)
(* a list of offers.                                                       *)
LEMMA VerdictType ==
  ASSUME offers \in Seq(Offer), NEW i \in Nat, NEW s \in {"accepted", "rejected"}
  PROVE  [offers EXCEPT ![i].status = s] \in Seq(Offer)
<1>1. CASE i \in 1..Len(offers)
  <2>1. offers[i] \in Offer
    BY <1>1
  <2>2. [offers[i] EXCEPT !.status = s] \in Offer
    BY <2>1 DEF Offer
  <2> QED BY <1>1, <2>2, ExceptSeq
<1>2. CASE i \notin 1..Len(offers)
  <2>1. [offers EXCEPT ![i].status = s] = offers
    BY <1>2
  <2> QED BY <2>1
<1> QED BY <1>1, <1>2

----------------------------------------------------------------------------
(* TypeOK in parts: where the handlers are, and one part for each group of  *)
(* variables.                                                               *)
PcType ==
  /\ pc \in [Tasks -> AgentPCs \cup RequesterPCs]
  /\ pc[Requester] \in RequesterPCs
  /\ \A a \in Agents : pc[a] \in AgentPCs

LifeType ==
  /\ stage \in {"none", "open", "dissolved"}
  /\ phase \in Phases

MarketType ==
  /\ discovered \subseteq Agents
  /\ solicited \subseteq Agents
  /\ offers \in Seq(Offer)
  /\ acceptedOffers \subseteq Agents
  /\ plan \in Plan

RunType ==
  /\ results \in Verdicts \cup {"none"}
  /\ memory \in BOOLEAN
  /\ valRounds \in Nat
  /\ serving \subseteq Agents
  /\ answer \in Verdicts \cup {"none"}
  /\ late \in BOOLEAN

LinkType ==
  /\ mapped \in BOOLEAN
  /\ up \in [Tasks -> BOOLEAN]
  /\ due \in [Agents -> Nat]
  /\ todo \subseteq Agents
  /\ plansOut \in Seq(Steps)

LocalType ==
  /\ idx \in [Agents -> Nat]
  /\ hold \in [Agents -> [agent : Agents, listed : BOOLEAN]]
  /\ draft \in [Agents -> Steps]

HistoryType ==
  /\ approved \in Steps
  /\ allowed \subseteq Agents
  /\ cycles \in Nat
  /\ completes \in Nat
  /\ dissolves \in Nat
  /\ archives \in Seq(Verdicts \cup {"cancelled"})

LEMMA TypeParts ==
  /\ TypeOK <=> /\ PcType /\ LifeType /\ MarketType /\ RunType
                /\ LinkType /\ LocalType /\ HistoryType
  /\ TypeOK' <=> /\ PcType' /\ LifeType' /\ MarketType' /\ RunType'
                 /\ LinkType' /\ LocalType' /\ HistoryType'
BY DEF TypeOK, PcType, LifeType, MarketType, RunType, LinkType, LocalType, HistoryType

LEMMA Untouched ==
  /\ LifeType /\ UNCHANGED lifecycle => LifeType'
  /\ MarketType /\ UNCHANGED market => MarketType'
  /\ RunType /\ UNCHANGED run => RunType'
  /\ LinkType /\ UNCHANGED links => LinkType'
  /\ LocalType /\ UNCHANGED locals => LocalType'
  /\ HistoryType /\ UNCHANGED history => HistoryType'
<1>1. LifeType /\ UNCHANGED lifecycle => LifeType'
  BY DEF LifeType, lifecycle
<1>2. MarketType /\ UNCHANGED market => MarketType'
  BY DEF MarketType, market
<1>3. RunType /\ UNCHANGED run => RunType'
  BY DEF RunType, run
<1>4. LinkType /\ UNCHANGED links => LinkType'
  BY DEF LinkType, links
<1>5. LocalType /\ UNCHANGED locals => LocalType'
  BY DEF LocalType, locals
<1>6. HistoryType /\ UNCHANGED history => HistoryType'
  BY DEF HistoryType, history
<1> QED BY <1>1, <1>2, <1>3, <1>4, <1>5, <1>6

(* A reset leaves the negotiation, and what the handlers hold, well typed. *)
LEMMA ClearedMarket ==
  ASSUME MarketType, LocalType, NEW p \in Plan, ClearMarket(p)
  PROVE  MarketType' /\ LocalType'
<1>1. MarketType'
  BY DEF MarketType, ClearMarket
<1>2. LocalType'
  BY DEF LocalType, ClearMarket
<1> QED BY <1>1, <1>2

(* Every step keeps every variable in its type.                            *)
LEMMA TypeStep == TypeOK /\ [Next]_vars => TypeOK'
<1> SUFFICES ASSUME TypeOK, [Next]_vars PROVE TypeOK'
  OBVIOUS
<1> USE RequesterAssumption, BoundsAssumption, TypeParts
<1>1. CASE HandleIntent
  <2>1. PcType'
    BY <1>1 DEF HandleIntent, PcType, Goto, Tasks, RequesterPCs
  <2>2. LifeType'
    BY <1>1 DEF HandleIntent, LifeType, Phases
  <2>3. LinkType'
    BY <1>1 DEF HandleIntent, LinkType, Tasks
  <2>4. MarketType' /\ RunType' /\ LocalType' /\ HistoryType'
    BY <1>1, Untouched DEF HandleIntent
  <2> QED BY <2>1, <2>2, <2>3, <2>4
<1>2. CASE AdmitIntent
  <2>1. PcType'
    BY <1>2 DEF AdmitIntent, PcType, Goto, Tasks, AfterReply, RequesterPCs,
       Dissolving
  <2>2. LifeType'
    BY <1>2 DEF AdmitIntent, LifeType, Phases
  <2>3. MarketType' /\ RunType' /\ LinkType' /\ LocalType' /\ HistoryType'
    BY <1>2, Untouched DEF AdmitIntent
  <2> QED BY <2>1, <2>2, <2>3
<1>3. CASE Decompose
  <2>1. PcType'
    BY <1>3 DEF Decompose, PcType, Goto, Tasks, RequesterPCs, Dissolving
  <2>2. LifeType'
    BY <1>3 DEF Decompose, LifeType, Phases
  <2>3. HistoryType'
    BY <1>3 DEF Decompose, HistoryType
  <2>4. MarketType' /\ RunType' /\ LinkType' /\ LocalType'
    BY <1>3, Untouched DEF Decompose
  <2> QED BY <2>1, <2>2, <2>3, <2>4
<1>4. CASE Discover
  <2>1. PcType'
    BY <1>4 DEF Discover, PcType, Goto, Tasks, AfterReply, AfterSend,
       RequesterPCs, Dissolving
  <2>2. LifeType'
    BY <1>4 DEF Discover, LifeType, Phases
  <2>3. MarketType'
    BY <1>4 DEF Discover, MarketType
  <2>4. LinkType'
    BY <1>4 DEF Discover, LinkType, Tasks
  <2>5. RunType' /\ LocalType' /\ HistoryType'
    BY <1>4, Untouched DEF Discover
  <2> QED BY <2>1, <2>2, <2>3, <2>4, <2>5
<1>5. ASSUME NEW a \in Agents, RequestOffer(a) PROVE TypeOK'
  <2>1. PcType'
    BY <1>5 DEF RequestOffer, PcType, Goto, Tasks, RequesterPCs
  <2>2. MarketType'
    BY <1>5 DEF RequestOffer, MarketType
  <2>3. LinkType'
    BY <1>5 DEF RequestOffer, LinkType, Tasks
  <2>4. LifeType' /\ RunType' /\ LocalType' /\ HistoryType'
    BY <1>5, Untouched DEF RequestOffer
  <2> QED BY <2>1, <2>2, <2>3, <2>4
<1>6. CASE Accept
  <2>1. PcType'
    BY <1>6 DEF Accept, PcType, Goto, Tasks, Answer, AfterReply,
       RequesterPCs, Dissolving
  <2>2. LinkType'
    BY <1>6, StepsType DEF Accept, LinkType, Tasks, Answer
  <2>3. HistoryType'
    BY <1>6, StepsType DEF Accept, Answer, HistoryType, LinkType
  <2>4. LifeType' /\ MarketType' /\ RunType' /\ LocalType'
    BY <1>6, Untouched DEF Accept
  <2> QED BY <2>1, <2>2, <2>3, <2>4
<1>7. CASE Reject
  <2>1. PcType'
    BY <1>7 DEF Reject, PcType, Goto, Tasks, Answer, RequesterPCs,
       Dissolving
  <2>2. LinkType'
    BY <1>7 DEF Reject, LinkType, Tasks, Answer
  <2>3. LifeType' /\ MarketType' /\ RunType' /\ LocalType' /\ HistoryType'
    BY <1>7, Untouched DEF Reject
  <2> QED BY <2>1, <2>2, <2>3
<1>8. CASE Renegotiate
  <2>1. PcType'
    BY <1>8 DEF Renegotiate, PcType, Goto, Tasks, Answer, AfterReply,
       RequesterPCs, Dissolving
  <2>2. LifeType'
    BY <1>8 DEF Renegotiate, LifeType, Phases, Answer
  <2>3. MarketType' /\ LocalType'
    <3>1. NewPlan(plan.renegotiation + 1) \in Plan
      <4>1. plan.renegotiation \in Nat
        BY DEF MarketType, Plan
      <4> QED BY <4>1, NewPlanType
    <3>2. CASE ClearMarket(NewPlan(plan.renegotiation + 1))
      BY <3>1, <3>2, ClearedMarket
    <3>3. CASE ~ClearMarket(NewPlan(plan.renegotiation + 1))
      BY <1>8, <3>3, Untouched DEF Renegotiate
    <3> QED BY <3>2, <3>3
  <2>4. LinkType'
    BY <1>8 DEF Renegotiate, LinkType, Tasks, Answer
  <2>5. HistoryType'
    BY <1>8 DEF Renegotiate, HistoryType, Answer
  <2>6. RunType'
    BY <1>8, Untouched DEF Renegotiate
  <2> QED BY <2>1, <2>2, <2>3, <2>4, <2>5, <2>6
<1>9. CASE Finalize
  <2>1. PcType'
    BY <1>9 DEF Finalize, PcType, Goto, Tasks, RequesterPCs, Dissolving
  <2>2. RunType'
    BY <1>9, StepsType DEF Finalize, RunType, Verdicts, AgentVerdicts
  <2>3. HistoryType'
    BY <1>9, StepsType DEF Finalize, HistoryType
  <2>4. LifeType' /\ MarketType' /\ LinkType' /\ LocalType'
    BY <1>9, Untouched DEF Finalize
  <2> QED BY <2>1, <2>2, <2>3, <2>4
<1>10. CASE BuildGraph
  <2>1. PcType'
    BY <1>10 DEF BuildGraph, PcType, Goto, Tasks, RequesterPCs, Dissolving
  <2>2. HistoryType'
    BY <1>10, StepsType DEF BuildGraph, HistoryType
  <2>3. LifeType' /\ MarketType' /\ RunType' /\ LinkType' /\ LocalType'
    BY <1>10, Untouched DEF BuildGraph
  <2> QED BY <2>1, <2>2, <2>3
<1>11. CASE Authorize
  <2>1. PcType'
    BY <1>11 DEF Authorize, PcType, Goto, Tasks, RequesterPCs
  <2>2. LifeType'
    BY <1>11 DEF Authorize, LifeType, Phases
  <2>3. RunType'
    BY <1>11 DEF Authorize, RunType, Verdicts, AgentVerdicts, Holders
  <2>4. MarketType' /\ LinkType' /\ LocalType' /\ HistoryType'
    BY <1>11, Untouched DEF Authorize
  <2> QED BY <2>1, <2>2, <2>3, <2>4
<1>12. CASE RunGraph
  <2>1. PcType'
    BY <1>12 DEF RunGraph, PcType, Goto, Tasks, RequesterPCs
  <2>2. RunType'
    BY <1>12 DEF RunGraph, RunType, Verdicts, AgentVerdicts
  <2>3. LifeType' /\ MarketType' /\ LinkType' /\ LocalType' /\ HistoryType'
    BY <1>12, Untouched DEF RunGraph
  <2> QED BY <2>1, <2>2, <2>3
<1>13. CASE Validate
  <2>1. PcType'
    BY <1>13 DEF Validate, ValidationRenegotiate, PcType, Goto, Tasks, AfterSend, RequesterPCs,
       Dissolving
  <2>2. LifeType'
    BY <1>13 DEF Validate, ValidationRenegotiate, LifeType, Phases
  <2>3. MarketType' /\ LocalType'
    <3>1. NewPlan(0) \in Plan
      BY NewPlanType DEF MarketType, Plan
    <3>2. CASE ClearMarket(NewPlan(0))
      BY <3>1, <3>2, ClearedMarket
    <3>3. CASE ~ClearMarket(NewPlan(0))
      BY <1>13, <3>3, Untouched DEF Validate, ValidationRenegotiate
    <3> QED BY <3>2, <3>3
  <2>4. RunType'
    <3>1. /\ valRounds' = valRounds + 1 /\ UNCHANGED <<memory, serving>>
          /\ \/ UNCHANGED <<results, answer, late>>
             \/ results' = "none" /\ answer' = "none" /\ late' = FALSE
      BY <1>13 DEF Validate, ValidationRenegotiate
    <3>2. valRounds' \in Nat
      BY <3>1 DEF RunType
    <3>3. memory' \in BOOLEAN /\ late' \in BOOLEAN
      BY <3>1, Zenon DEF RunType
    <3>4. results' \in Verdicts \cup {"none"} /\ answer' \in Verdicts \cup {"none"}
      BY <3>1 DEF RunType
    <3> QED BY <3>1, <3>2, <3>3, <3>4 DEF RunType
  <2>5. HistoryType'
    BY <1>13 DEF Validate, ValidationRenegotiate, HistoryType
  <2>6. LinkType'
    BY <1>13, Untouched DEF Validate, ValidationRenegotiate
  <2> QED BY <2>1, <2>2, <2>3, <2>4, <2>5, <2>6
<1>14. CASE Complete
  <2>1. PcType'
    BY <1>14 DEF Complete, PcType, Goto, Tasks, AfterSend, RequesterPCs,
       Dissolving
  <2>2. HistoryType'
    BY <1>14 DEF Complete, HistoryType
  <2>3. LifeType' /\ MarketType' /\ RunType' /\ LinkType' /\ LocalType'
    BY <1>14, Untouched DEF Complete
  <2> QED BY <2>1, <2>2, <2>3
<1>15. ASSUME NEW t \in Tasks, Dissolve(t) PROVE TypeOK'
  <2>1. PcType'
    BY <1>15 DEF Dissolve, PcType, Goto, Tasks, AgentPCs, RequesterPCs,
       Dissolving
  <2>2. RunType'
    BY <1>15 DEF Dissolve, RunType, Verdicts, AgentVerdicts
  <2>3. LifeType' /\ MarketType' /\ LinkType' /\ LocalType' /\ HistoryType'
    BY <1>15, Untouched DEF Dissolve
  <2> QED BY <2>1, <2>2, <2>3
<1>16. ASSUME NEW t \in Tasks, DissolveRequester(t) PROVE TypeOK'
  <2>1. PcType'
    BY <1>16 DEF DissolveRequester, PcType, Goto, Tasks, AfterSend,
       AgentPCs, RequesterPCs, Dissolving
  <2>2. LinkType'
    BY <1>16 DEF DissolveRequester, LinkType, Tasks
  <2>3. HistoryType'
    BY <1>16 DEF DissolveRequester, HistoryType
  <2>4. LifeType' /\ MarketType' /\ RunType' /\ LocalType'
    BY <1>16, Untouched DEF DissolveRequester
  <2> QED BY <2>1, <2>2, <2>3, <2>4
<1>17. ASSUME NEW t \in Tasks, DissolveAgents(t) PROVE TypeOK'
  <2>1. PcType'
    BY <1>17 DEF DissolveAgents, PcType, Goto, Tasks, AgentPCs,
       RequesterPCs, Dissolving
  <2>2. LifeType'
    BY <1>17 DEF DissolveAgents, LifeType, Phases
  <2>3. HistoryType'
    <3>1. Outcome \in Verdicts \cup {"cancelled"}
      BY DEF RunType, Outcome, Verdicts, AgentVerdicts
    <3> QED BY <1>17, <3>1 DEF DissolveAgents, HistoryType
  <2>4. MarketType' /\ RunType' /\ LinkType' /\ LocalType'
    BY <1>17, Untouched DEF DissolveAgents
  <2> QED BY <2>1, <2>2, <2>3, <2>4
<1>18. ASSUME NEW a \in Agents, HandleOffer(a) PROVE TypeOK'
  <2>1. PcType'
    BY <1>18 DEF HandleOffer, PcType, Goto, Tasks, AgentPCs
  <2>2. MarketType'
    <3>1. \A s \in {"pending", "rejected"} : [agent |-> a, status |-> s] \in Offer
      BY DEF Offer
    <3>2. offers' \in Seq(Offer)
      BY <1>18, <3>1 DEF HandleOffer, MarketType
    <3> QED BY <1>18, <3>2 DEF HandleOffer, MarketType
  <2>3. LinkType'
    BY <1>18 DEF HandleOffer, LinkType, Tasks
  <2>4. LifeType' /\ RunType' /\ LocalType' /\ HistoryType'
    BY <1>18, Untouched DEF HandleOffer
  <2> QED BY <2>1, <2>2, <2>3, <2>4
<1>19. ASSUME NEW a \in Agents, Decline(a) PROVE TypeOK'
  <2>1. PcType'
    BY <1>19 DEF Decline, PcType, Tasks
  <2>2. LinkType'
    BY <1>19 DEF Decline, LinkType, Tasks
  <2>3. LifeType' /\ MarketType' /\ RunType' /\ LocalType' /\ HistoryType'
    BY <1>19, Untouched DEF Decline
  <2> QED BY <2>1, <2>2, <2>3
<1>20. ASSUME NEW a \in Agents, AgentReject(a) PROVE TypeOK'
  <2>1. PcType'
    BY <1>20 DEF AgentReject, PcType, Goto, Tasks, AgentPCs, Dissolving
  <2>2. LifeType' /\ MarketType' /\ RunType' /\ LinkType' /\ LocalType' /\ HistoryType'
    BY <1>20, Untouched DEF AgentReject
  <2> QED BY <2>1, <2>2
<1>21. ASSUME NEW a \in Agents, CheckResponses(a) PROVE TypeOK'
  <2>1. PcType'
    BY <1>21 DEF CheckResponses, PcType, Goto, Tasks, AgentPCs, Dissolving
  <2>2. LocalType'
    BY <1>21 DEF CheckResponses, LocalType
  <2>3. LifeType' /\ MarketType' /\ RunType' /\ LinkType' /\ HistoryType'
    BY <1>21, Untouched DEF CheckResponses
  <2> QED BY <2>1, <2>2, <2>3
<1>22. ASSUME NEW a \in Agents, NextPending(a) PROVE TypeOK'
  <2>1. PcType'
    BY <1>22 DEF NextPending, PcType, Goto, Tasks, AgentPCs
  <2>2. LocalType'
    <3>1. PICK i \in Pending(a) :
             /\ idx' = [idx EXCEPT ![a] = i]
             /\ hold' = [hold EXCEPT ![a] = [agent |-> offers[i].agent, listed |-> TRUE]]
      BY <1>22 DEF NextPending
    <3>2. i \in Nat /\ offers[i] \in Offer
      BY DEF Pending, MarketType
    <3>3. offers[i].agent \in Agents
      BY <3>2 DEF Offer
    <3> QED BY <3>3, <1>22, <3>1, <3>2 DEF NextPending, LocalType
  <2>3. LifeType' /\ MarketType' /\ RunType' /\ LinkType' /\ HistoryType'
    BY <1>22, Untouched DEF NextPending
  <2> QED BY <2>1, <2>2, <2>3
<1>23. ASSUME NEW a \in Agents, Acceptance(a) PROVE TypeOK'
  <2>1. PcType'
    BY <1>23 DEF Acceptance, PcType, Goto, Tasks, AgentPCs, Dissolving
  <2>2. MarketType'
    <3>1. hold[a].agent \in Agents /\ idx[a] \in Nat
      BY DEF LocalType
    <3>2. offers' \in Seq(Offer)
      BY <1>23, <3>1, VerdictType DEF Acceptance, MarketType
    <3> QED BY <1>23, <3>1, <3>2 DEF Acceptance, MarketType
  <2>3. LocalType'
    BY <1>23 DEF Acceptance, LocalType, NoRecord
  <2>4. HistoryType'
    BY <1>23 DEF Acceptance, HistoryType, LocalType
  <2>5. LifeType' /\ RunType' /\ LinkType'
    BY <1>23, Untouched DEF Acceptance
  <2> QED BY <2>1, <2>2, <2>3, <2>4, <2>5
<1>24. ASSUME NEW a \in Agents, Decide(a) PROVE TypeOK'
  <2>1. PcType'
    BY <1>24 DEF Decide, PcType, Goto, Tasks, AgentPCs, Dissolving
  <2>2. MarketType'
    <3>1. plan' \in Plan
      BY <1>24 DEF Decide, MarketType, Smaller, Plan
    <3> QED BY <1>24, <3>1 DEF Decide, MarketType
  <2>3. LocalType'
    BY <1>24 DEF Decide, LocalType
  <2>4. LifeType' /\ RunType' /\ LinkType' /\ HistoryType'
    BY <1>24, Untouched DEF Decide
  <2> QED BY <2>1, <2>2, <2>3, <2>4
<1>25. ASSUME NEW a \in Agents, Compose(a) PROVE TypeOK'
  <2>1. PcType'
    BY <1>25 DEF Compose, PcType, Goto, Tasks, AgentPCs
  <2>2. LocalType'
    BY <1>25, AcceptedFinite DEF Compose, MarketType, LocalType, Steps
  <2>3. LifeType' /\ MarketType' /\ RunType' /\ LinkType' /\ HistoryType'
    BY <1>25, Untouched DEF Compose
  <2> QED BY <2>1, <2>2, <2>3
<1>26. ASSUME NEW a \in Agents, Publish(a) PROVE TypeOK'
  <2>1. PcType'
    BY <1>26 DEF Publish, PcType, Goto, Tasks, AfterSend, AgentPCs,
       Dissolving
  <2>2. MarketType'
    <3>1. plan' \in Plan
      BY <1>26 DEF Publish, MarketType, LocalType, Plan
    <3> QED BY <1>26, <3>1 DEF Publish, MarketType
  <2>3. LifeType' /\ RunType' /\ LinkType' /\ LocalType' /\ HistoryType'
    BY <1>26, Untouched DEF Publish
  <2> QED BY <2>1, <2>2, <2>3
<1>27. ASSUME NEW a \in Agents, Propose(a) PROVE TypeOK'
  <2>1. PcType'
    BY <1>27 DEF Propose, PcType, Goto, Tasks, AfterSend, AgentPCs
  <2>2. LifeType'
    BY <1>27, StepsType DEF Propose, LifeType, Phases
  <2>3. LinkType'
    BY <1>27 DEF Propose, LinkType, LocalType
  <2>4. LocalType'
    BY <1>27, StepsType DEF Propose, LocalType
  <2>5. MarketType' /\ RunType' /\ HistoryType'
    BY <1>27, Untouched DEF Propose
  <2> QED BY <2>1, <2>2, <2>3, <2>4, <2>5
<1>28. ASSUME NEW t \in Tasks, Close(t) PROVE TypeOK'
  <2>1. PcType'
    BY <1>28 DEF Close, PcType, Tasks
  <2>2. LinkType'
    BY <1>28 DEF Close, LinkType, Tasks
  <2>3. LifeType' /\ MarketType' /\ RunType' /\ LocalType' /\ HistoryType'
    BY <1>28, Untouched DEF Close
  <2> QED BY <2>1, <2>2, <2>3
<1>29. CASE UNCHANGED vars
  <2>1. PcType'
    BY <1>29 DEF vars, PcType
  <2> QED BY <1>29, <2>1, Untouched DEF vars
<1>30. ASSUME NEW a \in Agents, AgentComplete(a) PROVE TypeOK'
  <2>1. PcType'
    BY <1>30 DEF AgentComplete, PcType
  <2>2. RunType'
    BY <1>30 DEF AgentComplete, RunType, Verdicts, AgentVerdicts
  <2>3. LifeType' /\ MarketType' /\ LinkType' /\ LocalType' /\ HistoryType'
    BY <1>30, Untouched DEF AgentComplete
  <2> QED BY <2>1, <2>2, <2>3, TypeParts
<1> QED BY <1>1, <1>2, <1>3, <1>4, <1>5, <1>6, <1>7, <1>8, <1>9, <1>10,
   <1>11, <1>12, <1>13, <1>14, <1>15, <1>16, <1>17, <1>18, <1>19, <1>20,
   <1>21, <1>22, <1>23, <1>24, <1>25, <1>26, <1>27, <1>28, <1>29, <1>30 DEF Next,
   Handlers, RequesterTask, AgentTask, Done, Dissolution, Tasks

(* Every variable has its type in every reachable state.                   *)
THEOREM TypeCorrect == Spec => []TypeOK
<1>1. Init => TypeOK
  <2> SUFFICES ASSUME Init PROVE TypeOK
    OBVIOUS
  <2>1. PcType
    BY DEF Init, PcType, Tasks, AgentPCs, RequesterPCs
  <2>2. LifeType /\ RunType
    BY DEF Init, LifeType, RunType, Phases
  <2>3. LinkType
    <3>1. up \in [Tasks -> BOOLEAN] /\ mapped \in BOOLEAN
      BY Zenon DEF Init
    <3> QED BY <3>1 DEF Init, LinkType
  <2>4. MarketType
    BY NewPlanType DEF Init, MarketType
  <2>5. LocalType
    BY StepsType DEF Init, LocalType, NoRecord
  <2>6. HistoryType
    BY StepsType DEF Init, HistoryType
  <2> QED BY <2>1, <2>2, <2>3, <2>4, <2>5, <2>6, TypeParts
<1>2. TypeOK /\ [Next]_vars => TypeOK'
  BY TypeStep
<1> QED BY <1>1, <1>2, PTL DEF Spec

----------------------------------------------------------------------------
(* The inductive invariant behind the end of a session.                    *)

(* Nobody acts for the session before its intent is admitted.              *)
Unsolicited == /\ solicited = {}
               /\ \A a \in Agents : pc[a] = "idle" /\ due[a] = 0

EndInv ==
  /\ stage = "none" => /\ ~mapped /\ completes = 0 /\ pc[Requester] = "idle"
                       /\ Unsolicited
  /\ pc[Requester] \in {"admission", "decomposing"} => stage = "open" /\ Unsolicited
  /\ mapped => stage = "open" /\ dissolves = 0
  /\ stage = "none" => dissolves = 0
  /\ \A t \in Tasks : pc[t] = "d_agents" => ~mapped
  /\ completes \in {0, 1}
  /\ completes = 1 /\ mapped => pc[Requester] \in {"dissolve", "d_requester"}
  /\ stage # "dissolved" => archives = <<>>
  /\ stage = "dissolved" => phase = "dissolved"

LEMMA EndStep == TypeOK /\ EndInv /\ [Next]_vars => EndInv'
<1> SUFFICES ASSUME TypeOK, EndInv, [Next]_vars PROVE EndInv'
  OBVIOUS
<1>0. /\ PcType /\ stage \in {"none", "open", "dissolved"} /\ mapped \in BOOLEAN
      /\ completes \in Nat /\ due \in [Agents -> Nat]
  BY TypeParts DEF LifeType, LinkType, HistoryType
<1> USE <1>0, RequesterAssumption DEF Goto, Tasks, PcType, lifecycle, market, run, links, locals, history
<1>1. CASE HandleIntent
  BY <1>1 DEF HandleIntent, EndInv, Unsolicited
<1>2. CASE AdmitIntent
  BY <1>2 DEF AdmitIntent, EndInv, Unsolicited, AfterReply
<1>3. CASE Decompose
  BY <1>3 DEF Decompose, EndInv, Unsolicited
<1>4. CASE Discover
  BY <1>4 DEF Discover, EndInv, Unsolicited, AfterReply, AfterSend
<1>5. ASSUME NEW a \in Agents, RequestOffer(a) PROVE EndInv'
  BY <1>5 DEF RequestOffer, EndInv, Unsolicited
<1>6. CASE Accept
  BY <1>6 DEF Accept, EndInv, Unsolicited, Answer, AfterReply
<1>7. CASE Reject
  BY <1>7 DEF Reject, EndInv, Unsolicited, Answer
<1>8. CASE Renegotiate
  BY <1>8 DEF Renegotiate, EndInv, Unsolicited, Answer, ClearMarket,
     AfterReply
<1>9. CASE Finalize
  BY <1>9 DEF Finalize, EndInv, Unsolicited
<1>10. CASE BuildGraph
  BY <1>10 DEF BuildGraph, EndInv, Unsolicited
<1>11. CASE Authorize
  BY <1>11 DEF Authorize, EndInv, Unsolicited
<1>12. CASE RunGraph
  BY <1>12 DEF RunGraph, EndInv, Unsolicited
<1>13. CASE Validate
  BY <1>13 DEF Validate, ValidationRenegotiate, EndInv, Unsolicited, ClearMarket, AfterSend
<1>14. CASE Complete
  BY <1>14 DEF Complete, EndInv, Unsolicited, AfterSend
<1>15. ASSUME NEW t \in Tasks, Dissolve(t) PROVE EndInv'
  BY <1>15 DEF Dissolve, EndInv, Unsolicited
<1>16. ASSUME NEW t \in Tasks, DissolveRequester(t) PROVE EndInv'
  BY <1>16 DEF DissolveRequester, EndInv, Unsolicited, AfterSend
<1>17. ASSUME NEW t \in Tasks, DissolveAgents(t) PROVE EndInv'
  BY <1>17 DEF DissolveAgents, EndInv, Unsolicited
<1>18. ASSUME NEW a \in Agents, HandleOffer(a) PROVE EndInv'
  BY <1>18 DEF HandleOffer, EndInv, Unsolicited
<1>19. ASSUME NEW a \in Agents, Decline(a) PROVE EndInv'
  BY <1>19 DEF Decline, EndInv, Unsolicited
<1>20. ASSUME NEW a \in Agents, AgentReject(a) PROVE EndInv'
  BY <1>20 DEF AgentReject, EndInv, Unsolicited
<1>21. ASSUME NEW a \in Agents, CheckResponses(a) PROVE EndInv'
  BY <1>21 DEF CheckResponses, EndInv, Unsolicited
<1>22. ASSUME NEW a \in Agents, NextPending(a) PROVE EndInv'
  BY <1>22 DEF NextPending, EndInv, Unsolicited
<1>23. ASSUME NEW a \in Agents, Acceptance(a) PROVE EndInv'
  BY <1>23 DEF Acceptance, EndInv, Unsolicited
<1>24. ASSUME NEW a \in Agents, Decide(a) PROVE EndInv'
  BY <1>24 DEF Decide, EndInv, Unsolicited
<1>25. ASSUME NEW a \in Agents, Compose(a) PROVE EndInv'
  BY <1>25 DEF Compose, EndInv, Unsolicited
<1>26. ASSUME NEW a \in Agents, Publish(a) PROVE EndInv'
  BY <1>26 DEF Publish, EndInv, Unsolicited, AfterSend
<1>27. ASSUME NEW a \in Agents, Propose(a) PROVE EndInv'
  BY <1>27 DEF Propose, EndInv, Unsolicited, AfterSend
<1>28. ASSUME NEW t \in Tasks, Close(t) PROVE EndInv'
  BY <1>28 DEF Close, EndInv, Unsolicited
<1>29. CASE UNCHANGED vars
  BY <1>29 DEF vars, EndInv, Unsolicited
<1>30. ASSUME NEW a \in Agents, AgentComplete(a) PROVE EndInv'
  BY <1>30 DEF AgentComplete, EndInv, Unsolicited
<1> QED BY <1>1, <1>2, <1>3, <1>4, <1>5, <1>6, <1>7, <1>8, <1>9, <1>10,
       <1>11, <1>12, <1>13, <1>14, <1>15, <1>16, <1>17, <1>18, <1>19, <1>20,
       <1>21, <1>22, <1>23, <1>24, <1>25, <1>26, <1>27, <1>28, <1>29, <1>30 DEF
       Next, Handlers, RequesterTask, AgentTask, Done, Dissolution

THEOREM EndCorrect == Spec => []EndInv
<1>1. Init => EndInv
  BY RequesterAssumption DEF Init, EndInv, Unsolicited, Tasks
<1>2. TypeOK /\ EndInv /\ [Next]_vars => EndInv'
  BY EndStep
<1> QED BY <1>1, <1>2, TypeCorrect, PTL DEF Spec

----------------------------------------------------------------------------
(* The steps the contract knows nothing of.                                *)
Silent == UNCHANGED <<stage, mapped, completes, dissolves, archives>>

LEMMA SilentSteps ==
  ASSUME [Next]_vars, ~HandleIntent, ~Complete,
         \A t \in Tasks : ~DissolveRequester(t) /\ ~DissolveAgents(t)
  PROVE  Silent
<1> USE DEF lifecycle, links, history
<1>1. CASE \E a \in Agents : RequestOffer(a)
  BY <1>1 DEF RequestOffer, Silent
<1>2. CASE AdmitIntent \/ Decompose \/ Discover
  BY <1>2 DEF AdmitIntent, Decompose, Discover, Silent
<1>3. CASE Accept \/ Reject \/ Renegotiate
  BY <1>3 DEF Accept, Reject, Renegotiate, Silent
<1>4. CASE Finalize \/ BuildGraph \/ Authorize \/ RunGraph \/ Validate
  BY <1>4 DEF Finalize, BuildGraph, Authorize, RunGraph, Validate, ValidationRenegotiate, Silent
<1>5. CASE \E a \in Agents : HandleOffer(a) \/ Decline(a) \/ AgentReject(a) \/ AgentComplete(a)
  BY <1>5 DEF HandleOffer, Decline, AgentReject, AgentComplete, Silent
<1>6. CASE \E a \in Agents : CheckResponses(a) \/ NextPending(a) \/ Acceptance(a) \/ Decide(a)
  BY <1>6 DEF CheckResponses, NextPending, Acceptance, Decide, Silent
<1>7. CASE \E a \in Agents : Compose(a) \/ Publish(a) \/ Propose(a)
  BY <1>7 DEF Compose, Publish, Propose, Silent
<1>8. CASE \E t \in Tasks : Dissolve(t) \/ Close(t)
  BY <1>8 DEF Dissolve, Close, Silent
<1>9. CASE UNCHANGED vars
  BY <1>9 DEF vars, Silent
<1> QED BY <1>1, <1>2, <1>3, <1>4, <1>5, <1>6, <1>7, <1>8, <1>9
        DEF Next, Handlers, RequesterTask, AgentTask, Dissolution, Done, Tasks

(* Every step of a session is a step of the contract, or none.             *)
LEMMA ContractStep ==
  TypeOK /\ EndInv /\ [Next]_vars => [Contract!Next]_(Contract!vars)
<1> SUFFICES ASSUME TypeOK, EndInv, [Next]_vars
             PROVE  Contract!Next \/ UNCHANGED Contract!vars
  OBVIOUS
<1>0. mapped \in BOOLEAN /\ stage \in {"none", "open", "dissolved"} /\ dissolves \in Nat
  BY TypeParts DEF LifeType, LinkType, HistoryType
<1> USE <1>0 DEF EndInv, lifecycle, links, history
<1>1. CASE HandleIntent
  BY <1>1 DEF HandleIntent, Contract!Next, Contract!Open
<1>2. CASE Complete
  BY <1>2 DEF Complete, Contract!Next, Contract!Answer, Contract!vars
<1>3. ASSUME NEW t \in Tasks, DissolveRequester(t)
      PROVE  Contract!Next \/ UNCHANGED Contract!vars
  <2>1. CASE mapped
    <3>1. stage = "open" /\ dissolves = 0
      BY <2>1
    <3>2. /\ mapped' = FALSE /\ dissolves' \in {0, 1}
          /\ UNCHANGED <<stage, completes, archives>>
      BY <1>3, <3>1 DEF DissolveRequester
    <3> QED BY <2>1, <3>1, <3>2 DEF Contract!Next, Contract!Farewell
  <2>2. CASE ~mapped
    BY <1>3, <2>2 DEF DissolveRequester, Contract!vars
  <2> QED BY <2>1, <2>2
<1>4. ASSUME NEW t \in Tasks, DissolveAgents(t)
      PROVE  Contract!Next \/ UNCHANGED Contract!vars
  <2>1. CASE archives' = archives /\ stage' = stage
    BY <1>4, <2>1 DEF DissolveAgents, Contract!vars
  <2>2. CASE stage' # stage
    <3>1. archives = <<>> /\ ~mapped /\ stage = "open"
      BY <1>4, <2>2 DEF DissolveAgents
    <3>2. Len(archives') \in {0, 1} /\ Len(archives) = 0
      BY <1>4, <2>2, <3>1 DEF DissolveAgents
    <3> QED BY <1>4, <2>2, <3>1, <3>2 DEF DissolveAgents, Contract!Next, Contract!End
  <2> QED BY <1>4, <2>1, <2>2 DEF DissolveAgents
<1>5. CASE Silent
  BY <1>5 DEF Silent, Contract!vars
<1> QED BY <1>1, <1>2, <1>3, <1>4, <1>5, SilentSteps

(* A session keeps the contract of SessionContract: one answer at most,    *)
(* one farewell at most and nothing after it, one end and one record.      *)
THEOREM ContractKept == Spec => KeepsContract
<1>1. Init => Contract!Init
  BY DEF Init, Contract!Init
<1>2. TypeOK /\ EndInv /\ [Next]_vars => [Contract!Next]_(Contract!vars)
  BY ContractStep
<1> QED BY <1>1, <1>2, TypeCorrect, EndCorrect, PTL
        DEF Spec, KeepsContract, Contract!Spec

(* A graph is started only in an open session.                             *)
LEMMA Unstarted ==
  ASSUME TypeOK, [Next]_vars, stage = "dissolved", pc'[Requester] = "running"
  PROVE  pc[Requester] = "running"
<1>0. PcType
  BY TypeParts
<1> USE <1>0, RequesterAssumption DEF Goto, PcType, Tasks
<1>1. CASE HandleIntent \/ AdmitIntent \/ Decompose
  BY <1>1 DEF HandleIntent, AdmitIntent, Decompose, AfterReply
<1>2. CASE Discover
  BY <1>2 DEF Discover, AfterReply, AfterSend
<1>3. CASE \E a \in Agents : RequestOffer(a)
  BY <1>3 DEF RequestOffer
<1>4. CASE Accept \/ Reject \/ Renegotiate
  BY <1>4 DEF Accept, Reject, Renegotiate, AfterReply
<1>5. CASE Finalize \/ BuildGraph \/ Authorize \/ RunGraph
  BY <1>5 DEF Finalize, BuildGraph, Authorize, RunGraph
<1>6. CASE Validate \/ Complete
  BY <1>6 DEF Validate, ValidationRenegotiate, Complete, AfterSend
<1>7. CASE \E t \in Tasks : Dissolution(t) \/ Close(t)
  BY <1>7 DEF Dissolution, Dissolve, DissolveRequester, DissolveAgents, Close,
     AfterSend
<1>8. CASE \E a \in Agents : AgentTask(a)
  <2>1. PICK a \in Agents : AgentTask(a)
    BY <1>8
  <2>2. CASE HandleOffer(a) \/ Decline(a) \/ AgentReject(a) \/ AgentComplete(a)
    BY <2>2 DEF HandleOffer, Decline, AgentReject, AgentComplete
  <2>3. CASE CheckResponses(a) \/ NextPending(a) \/ Acceptance(a) \/ Decide(a)
    BY <2>3 DEF CheckResponses, NextPending, Acceptance, Decide
  <2>4. CASE Compose(a) \/ Publish(a) \/ Propose(a)
    BY <2>4 DEF Compose, Publish, Propose
  <2> QED BY <1>7, <2>1, <2>2, <2>3, <2>4 DEF AgentTask
<1>9. CASE UNCHANGED vars
  BY <1>9 DEF vars
<1> QED BY <1>1, <1>2, <1>3, <1>4, <1>5, <1>6, <1>7, <1>8, <1>9
        DEF Next, Handlers, RequesterTask, Done

(* No handler brings a dissolved session back.                             *)
THEOREM DissolvedForGood == Spec => NoResurrection
<1>1. TypeOK /\ EndInv /\ [Next]_vars =>
        [stage = "dissolved" =>
           /\ stage' = "dissolved" /\ phase' = "dissolved"
           /\ pc'[Requester] = "running" => pc[Requester] = "running"]_vars
  <2> SUFFICES ASSUME TypeOK, EndInv, [Next]_vars, stage = "dissolved"
               PROVE  /\ stage' = "dissolved" /\ phase' = "dissolved"
                      /\ pc'[Requester] = "running" => pc[Requester] = "running"
    OBVIOUS
  <2>1. EndInv'
    BY EndStep
  <2>2. stage' = "dissolved"
    BY ContractStep DEF Contract!Next, Contract!Open, Contract!Answer,
       Contract!Farewell, Contract!End, Contract!vars
  <2>3. phase' = "dissolved"
    BY <2>1, <2>2 DEF EndInv
  <2>4. pc'[Requester] = "running" => pc[Requester] = "running"
    BY Unstarted
  <2> QED BY <2>2, <2>3, <2>4
<1> QED BY <1>1, TypeCorrect, EndCorrect, PTL DEF Spec, NoResurrection

(* Only a proposal of a plan adds to the plans the requester has to answer. *)
LEMMA ProposalsOnly ==
  ASSUME [Next]_vars, ~mapped, ~Answer
  PROVE  plansOut' = plansOut
<1> USE DEF links
<1>1. CASE \E a \in Agents : RequestOffer(a)
  BY <1>1 DEF RequestOffer
<1>2. CASE HandleIntent \/ AdmitIntent \/ Decompose \/ Discover
  BY <1>2 DEF HandleIntent, AdmitIntent, Decompose, Discover
<1>3. CASE Accept \/ Reject \/ Renegotiate
  BY <1>3 DEF Accept, Reject, Renegotiate
<1>4. CASE Finalize \/ BuildGraph \/ Authorize \/ RunGraph \/ Validate \/ Complete
  BY <1>4 DEF Finalize, BuildGraph, Authorize, RunGraph, Validate, ValidationRenegotiate, Complete
<1>5. CASE \E a \in Agents : HandleOffer(a) \/ Decline(a) \/ AgentReject(a) \/ AgentComplete(a)
  BY <1>5 DEF HandleOffer, Decline, AgentReject, AgentComplete
<1>6. CASE \E a \in Agents : CheckResponses(a) \/ NextPending(a) \/ Acceptance(a) \/ Decide(a)
  BY <1>6 DEF CheckResponses, NextPending, Acceptance, Decide
<1>7. CASE \E a \in Agents : Compose(a) \/ Publish(a) \/ Propose(a)
  BY <1>7 DEF Compose, Publish, Propose
<1>8. CASE \E t \in Tasks : Dissolution(t) \/ Close(t)
  BY <1>8 DEF Dissolution, Dissolve, DissolveRequester, DissolveAgents, Close
<1>9. CASE UNCHANGED vars
  BY <1>9 DEF vars
<1> QED BY <1>1, <1>2, <1>3, <1>4, <1>5, <1>6, <1>7, <1>8, <1>9
        DEF Next, Handlers, RequesterTask, AgentTask, Done, Tasks

(* Nobody proposes a plan once the session no longer maps to its requester. *)
THEOREM FarewellIsLast == Spec => NoPlanAfterFarewell
<1>1. TypeOK /\ [Next]_vars =>
        [stage # "none" /\ ~mapped => Len(plansOut') <= Len(plansOut)]_vars
  <2> SUFFICES ASSUME TypeOK, [Next]_vars, ~mapped
               PROVE  Len(plansOut') <= Len(plansOut)
    OBVIOUS
  <2>1. plansOut \in Seq(Steps) /\ Len(plansOut) \in Nat
    BY TypeParts DEF LinkType
  <2>2. CASE Answer
    BY <2>1, <2>2 DEF Answer
  <2>3. CASE ~Answer
    <3>1. plansOut' = plansOut
      BY <2>3, ProposalsOnly
    <3> QED BY <2>1, <3>1
  <2> QED BY <2>2, <2>3
<1> QED BY <1>1, TypeCorrect, PTL DEF Spec, NoPlanAfterFarewell

----------------------------------------------------------------------------
(* The inductive invariant behind the vetting of plans: while the record a *)
(* handler evaluates is still in session.offers, it is the one at the      *)
(* handler's position, so that the verdict goes to the agent it is about.  *)
HeldInPlace ==
  \A a \in Agents : hold[a].listed =>
    /\ idx[a] \in DOMAIN offers
    /\ offers[idx[a]].agent = hold[a].agent

DraftsVetted == \A a \in Agents : Holders(draft[a]) \subseteq allowed
OffersVetted == \A i \in DOMAIN offers :
                  offers[i].status = "accepted" => offers[i].agent \in allowed
SentVetted   == \A i \in DOMAIN plansOut : Holders(plansOut[i]) \subseteq allowed
PlanVetted   == Holders(plan.steps) \subseteq allowed /\ acceptedOffers \subseteq allowed

VettedInv == HeldInPlace /\ DraftsVetted /\ OffersVetted /\ SentVetted /\ PlanVetted

LEMMA VettedParts == TypeOK /\ VettedInv => VettedPlans
BY DEF VettedInv, VettedPlans, DraftsVetted, OffersVetted, SentVetted,
   PlanVetted, Accepted

LEMMA EmptyHolders == Holders(NoSteps) = {}
BY DEF Holders, NoSteps

(* An agent holds a step of a composed plan only if an offer of it was     *)
(* accepted.                                                               *)
LEMMA ComposedHolders ==
  ASSUME OffersVetted,
         NEW b \in Agents, Cardinality({i \in Accepted : offers[i].agent = b}) > 0
  PROVE  b \in allowed
<1>1. {i \in Accepted : offers[i].agent = b} # {}
  BY FS_EmptySet
<1> QED BY <1>1 DEF Accepted, OffersVetted

(* The steps that leave what is vetted alone, or only take some of it away. *)
LEMMA VettedUntouched ==
  ASSUME VettedInv, UNCHANGED <<market, locals, plansOut, allowed>>
  PROVE  VettedInv'
BY DEF VettedInv, HeldInPlace, DraftsVetted, OffersVetted, SentVetted,
   PlanVetted, market, locals, Accepted, Holders

LEMMA VettedCleared ==
  ASSUME VettedInv, TypeOK, NEW n \in Nat, ClearMarket(NewPlan(n)), UNCHANGED <<plansOut, allowed>>
  PROVE  VettedInv'
<1>1. HeldInPlace'
  BY DEF ClearMarket, HeldInPlace
<1>2. DraftsVetted' /\ SentVetted'
  BY DEF ClearMarket, VettedInv, DraftsVetted, SentVetted, Holders
<1>3. OffersVetted' /\ PlanVetted'
  BY EmptyHolders DEF ClearMarket, OffersVetted, PlanVetted, NewPlan
<1> QED BY <1>1, <1>2, <1>3 DEF VettedInv

(* A plan taken off the queue leaves a queue of vetted plans.              *)
LEMMA VettedAnswer ==
  ASSUME TypeOK, SentVetted, Answer, UNCHANGED allowed
  PROVE  SentVetted'
<1>1. plansOut \in Seq(Steps) /\ plansOut # <<>> /\ plansOut' = Tail(plansOut)
  BY TypeParts DEF LinkType, Answer
<1>2. \A i \in DOMAIN plansOut' : i + 1 \in DOMAIN plansOut /\ plansOut'[i] = plansOut[i + 1]
  BY <1>1
<1> QED BY <1>2 DEF SentVetted, Holders

(* A handler holds a listed record only while it awaits a verdict on it.   *)
HeldWhileAccepting == \A a \in Agents : hold[a].listed => pc[a] = "accepting"

LEMMA HeldStep == TypeOK /\ HeldWhileAccepting /\ [Next]_vars => HeldWhileAccepting'
<1> SUFFICES ASSUME TypeOK, HeldWhileAccepting, [Next]_vars PROVE HeldWhileAccepting'
  OBVIOUS
<1>0. PcType /\ LocalType
  BY TypeParts
<1> USE <1>0, RequesterAssumption
    DEF HeldWhileAccepting, PcType, LocalType, Goto, Tasks, locals
<1>1. CASE HandleIntent \/ AdmitIntent \/ Decompose \/ Discover
  BY <1>1 DEF HandleIntent, AdmitIntent, Decompose, Discover
<1>2. CASE \E a \in Agents : RequestOffer(a)
  BY <1>2 DEF RequestOffer
<1>3. CASE Accept \/ Reject
  BY <1>3 DEF Accept, Reject
<1>4. CASE Renegotiate \/ Validate
  BY <1>4 DEF Renegotiate, Validate, ValidationRenegotiate, ClearMarket
<1>5. CASE Finalize \/ BuildGraph \/ Authorize \/ RunGraph \/ Complete
  BY <1>5 DEF Finalize, BuildGraph, Authorize, RunGraph, Complete
<1>6. CASE \E t \in Tasks : Dissolution(t) \/ Close(t)
  BY <1>6 DEF Dissolution, Dissolve, DissolveRequester, DissolveAgents, Close
<1>7. ASSUME NEW a \in Agents, AgentTask(a) PROVE HeldWhileAccepting'
  <2>1. CASE HandleOffer(a) \/ Decline(a) \/ AgentReject(a) \/ AgentComplete(a) \/ CheckResponses(a)
    BY <2>1 DEF HandleOffer, Decline, AgentReject, AgentComplete, CheckResponses
  <2>2. CASE NextPending(a)
    BY <2>2 DEF NextPending
  <2>3. CASE Acceptance(a)
    BY <2>3 DEF Acceptance, NoRecord
  <2>4. CASE Decide(a) \/ Compose(a) \/ Publish(a) \/ Propose(a)
    BY <2>4 DEF Decide, Compose, Publish, Propose
  <2> QED BY <1>6, <1>7, <2>1, <2>2, <2>3, <2>4 DEF AgentTask
<1>8. CASE UNCHANGED vars
  BY <1>8 DEF vars
<1> QED BY <1>1, <1>2, <1>3, <1>4, <1>5, <1>6, <1>7, <1>8
        DEF Next, Handlers, RequesterTask, Done

LEMMA VettedStep == TypeOK /\ HeldWhileAccepting /\ VettedInv /\ [Next]_vars => VettedInv'
<1> SUFFICES ASSUME TypeOK, HeldWhileAccepting, VettedInv, [Next]_vars
             PROVE  VettedInv'
  OBVIOUS
<1>0. /\ MarketType /\ LinkType /\ LocalType
  BY TypeParts
<1>1. CASE HandleIntent \/ AdmitIntent \/ Decompose
  BY <1>1, VettedUntouched
     DEF HandleIntent, AdmitIntent, Decompose, market, locals, links, history
<1>2. CASE Discover
  BY <1>2 DEF Discover, VettedInv, HeldInPlace, DraftsVetted, OffersVetted,
     SentVetted, PlanVetted, locals, history, Holders
<1>3. ASSUME NEW a \in Agents, RequestOffer(a) PROVE VettedInv'
  BY <1>3 DEF RequestOffer, VettedInv, HeldInPlace, DraftsVetted, OffersVetted,
     SentVetted, PlanVetted, locals, history, Holders
<1>4. CASE Accept \/ Reject
  <2>1. SentVetted'
    BY <1>4, VettedAnswer DEF Accept, Reject, history, VettedInv
  <2> QED BY <1>4, <2>1 DEF Accept, Reject, VettedInv, HeldInPlace, DraftsVetted,
          OffersVetted, PlanVetted, market, locals, history, Holders
<1>5. CASE Renegotiate
  <2>1. SentVetted'
    BY <1>5, VettedAnswer DEF Renegotiate, VettedInv
  <2>2. CASE ClearMarket(NewPlan(plan.renegotiation + 1))
    <3>1. HeldInPlace'
      BY <2>2 DEF ClearMarket, HeldInPlace
    <3>2. DraftsVetted'
      BY <1>5, <2>2 DEF Renegotiate, ClearMarket, VettedInv, DraftsVetted, Holders
    <3>3. OffersVetted' /\ PlanVetted'
      BY <2>2, EmptyHolders DEF ClearMarket, OffersVetted, PlanVetted, NewPlan
    <3> QED BY <2>1, <3>1, <3>2, <3>3 DEF VettedInv
  <2>3. CASE ~ClearMarket(NewPlan(plan.renegotiation + 1))
    BY <1>5, <2>1, <2>3 DEF Renegotiate, VettedInv, HeldInPlace, DraftsVetted,
       OffersVetted, PlanVetted, market, locals, Holders
  <2> QED BY <2>2, <2>3
<1>6. CASE Finalize \/ BuildGraph \/ Authorize \/ RunGraph \/ Complete
  BY <1>6, VettedUntouched
     DEF Finalize, BuildGraph, Authorize, RunGraph, Complete, market, locals,
         links, history
<1>7. CASE Validate
  <2>1. CASE ClearMarket(NewPlan(0))
    BY <1>7, <2>1, VettedCleared DEF Validate, ValidationRenegotiate, links
  <2>2. CASE ~ClearMarket(NewPlan(0))
    BY <1>7, <2>2, VettedUntouched DEF Validate, ValidationRenegotiate, links
  <2> QED BY <2>1, <2>2
<1>8. ASSUME NEW t \in Tasks, Dissolution(t) \/ Close(t) PROVE VettedInv'
  BY <1>8, VettedUntouched DEF Dissolution, Dissolve, DissolveRequester,
     DissolveAgents, Close, market, locals, links, history
<1>9. ASSUME NEW a \in Agents, HandleOffer(a) PROVE VettedInv'
  <2>1. CASE UNCHANGED offers
    BY <1>9, <2>1, VettedUntouched DEF HandleOffer, market, locals, history
  <2>2. CASE offers' # offers
    <3>1. PICK s \in {"pending", "rejected"} :
            offers' = Append(offers, [agent |-> a, status |-> s])
      BY <1>9, <2>2 DEF HandleOffer
    <3>2. offers \in Seq(Offer)
      BY <1>0 DEF MarketType
    <3>3. /\ \A i \in DOMAIN offers : i \in DOMAIN offers' /\ offers'[i] = offers[i]
          /\ \A i \in DOMAIN offers' : i \notin DOMAIN offers => offers'[i].status = s
      BY <3>1, <3>2
    <3>4. UNCHANGED <<acceptedOffers, plan, plansOut, locals, allowed>>
      BY <1>9 DEF HandleOffer, history
    <3>5. HeldInPlace'
      BY <3>3, <3>4 DEF VettedInv, HeldInPlace, locals
    <3>6. OffersVetted'
      BY <3>1, <3>3, <3>4 DEF VettedInv, OffersVetted
    <3> QED BY <3>4, <3>5, <3>6 DEF VettedInv, DraftsVetted, SentVetted,
            PlanVetted, locals, Holders
  <2> QED BY <2>1, <2>2
<1>10. ASSUME NEW a \in Agents,
               Decline(a) \/ AgentReject(a) \/ AgentComplete(a) \/ CheckResponses(a)
       PROVE  VettedInv'
  <2>1. CASE Decline(a) \/ AgentReject(a) \/ AgentComplete(a)
    BY <2>1, VettedUntouched DEF Decline, AgentReject, AgentComplete, market, locals, links, history
  <2>2. CASE CheckResponses(a)
    <3>1. HeldInPlace'
      BY <2>2, <1>0 DEF CheckResponses, HeldWhileAccepting, VettedInv, HeldInPlace,
         market, LocalType
    <3> QED BY <2>2, <3>1 DEF CheckResponses, VettedInv, DraftsVetted, OffersVetted,
            SentVetted, PlanVetted, market, links, history, Holders
  <2> QED BY <1>10, <2>1, <2>2
<1>11. ASSUME NEW a \in Agents, NextPending(a) PROVE VettedInv'
  <2>1. PICK i \in Pending(a) :
          /\ idx' = [idx EXCEPT ![a] = i]
          /\ hold' = [hold EXCEPT ![a] = [agent |-> offers[i].agent, listed |-> TRUE]]
    BY <1>11 DEF NextPending
  <2>2. i \in DOMAIN offers
    BY DEF Pending
  <2>3. UNCHANGED <<market, draft, plansOut, allowed>>
    BY <1>11 DEF NextPending, links, history
  <2>4. HeldInPlace'
    BY <1>0, <2>1, <2>2, <2>3 DEF VettedInv, HeldInPlace, market, LocalType
  <2> QED BY <2>3, <2>4 DEF VettedInv, DraftsVetted, OffersVetted, SentVetted,
          PlanVetted, market, Holders
<1>12. ASSUME NEW a \in Agents, Acceptance(a) PROVE VettedInv'
  <2>1. PICK s \in {"accepted", "rejected"} :
          /\ offers' = IF hold[a].listed THEN [offers EXCEPT ![idx[a]].status = s]
                       ELSE offers
          /\ s = "accepted" => /\ acceptedOffers' = acceptedOffers \cup {hold[a].agent}
                               /\ allowed' = allowed \cup {hold[a].agent}
          /\ s # "accepted" => UNCHANGED <<acceptedOffers, allowed>>
    BY <1>12 DEF Acceptance
  <2>2. /\ idx' = [idx EXCEPT ![a] = @ + 1]
        /\ hold' = [hold EXCEPT ![a] = NoRecord(a)]
        /\ UNCHANGED <<plan, draft, plansOut>>
    BY <1>12 DEF Acceptance, links
  <2>3. offers \in Seq(Offer) /\ hold[a].listed => idx[a] \in DOMAIN offers /\ offers[idx[a]].agent = hold[a].agent
    BY DEF VettedInv, HeldInPlace
  <2>4. /\ DOMAIN offers' = DOMAIN offers
        /\ \A i \in DOMAIN offers : offers'[i].agent = offers[i].agent
        /\ \A i \in DOMAIN offers : \/ offers'[i] = offers[i]
                                    \/ /\ offers[i].agent = hold[a].agent
                                       /\ offers'[i].status = s
    <3>1. offers \in Seq(Offer)
      BY <1>0 DEF MarketType
    <3>2. CASE ~hold[a].listed
      BY <2>1, <3>2
    <3>3. CASE hold[a].listed
      <4>1. offers' = [offers EXCEPT ![idx[a]] = [offers[idx[a]] EXCEPT !.status = s]]
        BY <2>1, <3>3
      <4>2. offers[idx[a]] \in Offer /\ idx[a] \in DOMAIN offers
        BY <2>3, <3>1, <3>3
      <4> QED BY <2>3, <3>1, <3>3, <4>1, <4>2 DEF Offer
    <3> QED BY <3>2, <3>3
  <2>5. HeldInPlace'
    BY <1>0, <2>2, <2>4 DEF VettedInv, HeldInPlace, LocalType, NoRecord
  <2>6. allowed \subseteq allowed'
    BY <2>1
  <2>7. OffersVetted'
    <3>1. s = "accepted" => hold[a].agent \in allowed'
      BY <2>1
    <3> QED BY <2>4, <2>6, <3>1 DEF VettedInv, OffersVetted
  <2>8. PlanVetted'
    BY <2>1, <2>2, <2>6 DEF VettedInv, PlanVetted
  <2>9. DraftsVetted' /\ SentVetted'
    BY <2>2, <2>6 DEF VettedInv, DraftsVetted, SentVetted
  <2> QED BY <2>5, <2>7, <2>8, <2>9 DEF VettedInv
<1>13. ASSUME NEW a \in Agents, Decide(a) PROVE VettedInv'
  <2>1. plan'.steps = plan.steps
    BY <1>13, <1>0 DEF Decide, MarketType, Plan
  <2>2. HeldInPlace'
    BY <1>13, <1>0 DEF Decide, HeldWhileAccepting, VettedInv, HeldInPlace, LocalType
  <2> QED BY <1>13, <2>1, <2>2 DEF Decide, VettedInv, DraftsVetted, OffersVetted,
          SentVetted, PlanVetted, links, history
<1>14. ASSUME NEW a \in Agents, Compose(a) PROVE VettedInv'
  <2>1. Holders(draft'[a]) \subseteq allowed
    BY <1>14, <1>0, ComposedHolders DEF Compose, Holders, VettedInv, LocalType
  <2>2. \A b \in Agents \ {a} : draft'[b] = draft[b]
    BY <1>14, <1>0 DEF Compose, LocalType
  <2>3. DraftsVetted'
    BY <1>14, <2>1, <2>2 DEF Compose, VettedInv, DraftsVetted, history
  <2> QED BY <1>14, <2>3 DEF Compose, VettedInv, HeldInPlace, OffersVetted,
          SentVetted, PlanVetted, market, links, history
<1>15. ASSUME NEW a \in Agents, Publish(a) PROVE VettedInv'
  <2>1. plan'.steps = draft[a]
    BY <1>15, <1>0 DEF Publish, MarketType, Plan
  <2> QED BY <1>15, <2>1 DEF Publish, VettedInv, HeldInPlace, DraftsVetted,
          OffersVetted, SentVetted, PlanVetted, locals, links, history
<1>16. ASSUME NEW a \in Agents, Propose(a) PROVE VettedInv'
  <2>1. plansOut' = plansOut \/ plansOut' = Append(plansOut, draft[a])
    BY <1>16 DEF Propose
  <2>2. UNCHANGED <<market, idx, hold, allowed>>
    BY <1>16 DEF Propose, history
  <2>3. SentVetted'
    BY <1>0, <2>1, <2>2 DEF VettedInv, SentVetted, DraftsVetted, LinkType
  <2>4. DraftsVetted'
    BY <1>16, <1>0, <2>2, EmptyHolders DEF Propose, VettedInv, DraftsVetted, LocalType
  <2> QED BY <2>2, <2>3, <2>4 DEF VettedInv, HeldInPlace, OffersVetted,
          PlanVetted, market
<1>17. CASE UNCHANGED vars
  BY <1>17, VettedUntouched DEF vars, links, history
<1> QED BY <1>1, <1>2, <1>3, <1>4, <1>5, <1>6, <1>7, <1>8, <1>9, <1>10,
       <1>11, <1>12, <1>13, <1>14, <1>15, <1>16, <1>17
    DEF Next, Handlers, RequesterTask, AgentTask, Done, Tasks

(* Every step of every plan is of an agent whose offer was accepted.       *)
THEOREM PlansAreVetted == Spec => []VettedPlans
<1>1. Init => HeldWhileAccepting /\ VettedInv
  <2> SUFFICES ASSUME Init PROVE HeldWhileAccepting /\ VettedInv
    OBVIOUS
  <2>1. HeldWhileAccepting /\ HeldInPlace
    BY DEF Init, HeldWhileAccepting, HeldInPlace, NoRecord
  <2>2. DraftsVetted /\ PlanVetted
    BY EmptyHolders DEF Init, DraftsVetted, PlanVetted, NewPlan
  <2>3. OffersVetted /\ SentVetted
    BY DEF Init, OffersVetted, SentVetted
  <2> QED BY <2>1, <2>2, <2>3 DEF VettedInv
<1>2. TypeOK /\ HeldWhileAccepting /\ [Next]_vars => HeldWhileAccepting'
  BY HeldStep
<1>3. TypeOK /\ HeldWhileAccepting /\ VettedInv /\ [Next]_vars => VettedInv'
  BY VettedStep
<1>4. TypeOK /\ VettedInv => VettedPlans
  BY VettedParts
<1> QED BY <1>1, <1>2, <1>3, <1>4, TypeCorrect, PTL DEF Spec

----------------------------------------------------------------------------
(* While connections hold: what the end of a session leaves behind.        *)

(* What a run can have ended with when its handler goes on.                *)
Reported == {"success", "partial_failure", "denied", "error"}

(* From the end of a run on, only an agent that is late can change the last *)
(* result, so what COMPLETE said is archived unless one was; and after      *)
(* COMPLETE the requester's handler does nothing but dissolve.              *)
RunEnded == answer \in Reported /\ (results = answer \/ late)

AnswerStands ==
  /\ pc[Requester] \in {"finished", "completing"} => RunEnded
  /\ completes = 1 =>
       /\ RunEnded
       /\ pc[Requester] \in Dissolving \/ (stage = "dissolved" /\ pc[Requester] = "idle")
       /\ archives # <<>> => archives[1] = answer \/ late

FarewellInv ==
  /\ ~Faulty => Connected
  /\ DissolutionUnderway
  /\ Connected => AnswerStands

(* An agent's handler that neither answers a step nor dissolves leaves all *)
(* of this alone.                                                           *)
LEMMA AgentsElsewhere ==
  ASSUME TypeOK, FarewellInv, NEW a \in Agents,
         \/ HandleOffer(a) \/ Decline(a) \/ AgentReject(a) \/ CheckResponses(a)
         \/ NextPending(a) \/ Acceptance(a) \/ Decide(a) \/ Compose(a) \/ Publish(a)
         \/ Propose(a)
  PROVE  FarewellInv'
<1>1. /\ UNCHANGED <<stage, mapped, up, results, answer, late, completes, archives>>
      /\ \A t \in Tasks \ {a} : pc'[t] = pc[t]
      /\ pc[a] # "d_agents"
  <2> USE TypeParts DEF PcType, Goto, lifecycle, market, run, links, locals, history
  <2>1. CASE HandleOffer(a) \/ Decline(a) \/ AgentReject(a)
    BY <2>1 DEF HandleOffer, Decline, AgentReject
  <2>2. CASE CheckResponses(a) \/ NextPending(a) \/ Acceptance(a)
    BY <2>2 DEF CheckResponses, NextPending, Acceptance
  <2>3. CASE Decide(a) \/ Compose(a)
    BY <2>3 DEF Decide, Compose
  <2>4. CASE Publish(a) \/ Propose(a)
    BY <2>4 DEF Publish, Propose
  <2> QED BY <2>1, <2>2, <2>3, <2>4
<1>2. pc'[Requester] = pc[Requester]
  BY <1>1, RequesterAssumption DEF Tasks
<1> QED BY <1>1, <1>2 DEF FarewellInv, Connected, DissolutionUnderway, AnswerStands, RunEnded

(* A connection that closes does not open again, and closing is a fault.   *)
LEMMA ConnectionsStep == TypeOK /\ [Next]_vars => up' = up \/ (Faulty /\ ~Connected')
<1> SUFFICES ASSUME TypeOK, [Next]_vars PROVE up' = up \/ (Faulty /\ ~Connected')
  OBVIOUS
<1> USE DEF links
<1>1. CASE UNCHANGED vars
  BY <1>1 DEF vars
<1>2. ASSUME NEW t \in Tasks, Close(t)
      PROVE  Faulty /\ ~Connected'
  BY <1>2, TypeParts DEF Close, Connected, LinkType
<1>3. CASE RequesterTask
  <2>1. CASE \/ HandleIntent \/ AdmitIntent \/ Decompose \/ Discover
             \/ (\E a \in Agents : RequestOffer(a))
    BY <2>1 DEF HandleIntent, AdmitIntent, Decompose, Discover, RequestOffer
  <2>2. CASE Accept \/ Reject \/ Renegotiate \/ Finalize \/ BuildGraph
    BY <2>2 DEF Accept, Reject, Renegotiate, Answer, Finalize, BuildGraph
  <2>3. CASE Authorize \/ RunGraph \/ Validate \/ Complete
    BY <2>3 DEF Authorize, RunGraph, Validate, Complete
  <2>4. CASE Dissolution(Requester)
    BY <2>4 DEF Dissolution, Dissolve, DissolveRequester, DissolveAgents
  <2> QED BY <1>3, <2>1, <2>2, <2>3, <2>4 DEF RequesterTask
<1>4. ASSUME NEW a \in Agents, AgentTask(a)
      PROVE  UNCHANGED up
  <2>1. CASE HandleOffer(a) \/ Decline(a) \/ AgentReject(a) \/ CheckResponses(a)
    BY <2>1 DEF HandleOffer, Decline, AgentReject, CheckResponses
  <2>2. CASE NextPending(a) \/ Acceptance(a) \/ Decide(a) \/ Compose(a)
    BY <2>2 DEF NextPending, Acceptance, Decide, Compose
  <2>3. CASE Publish(a) \/ Propose(a) \/ AgentComplete(a)
    BY <2>3 DEF Publish, Propose, AgentComplete
  <2>4. CASE Dissolution(a)
    BY <2>4 DEF Dissolution, Dissolve, DissolveRequester, DissolveAgents
  <2> QED BY <1>4, <2>1, <2>2, <2>3, <2>4 DEF AgentTask
<1>5. CASE Done
  BY <1>5 DEF Done, vars
<1> QED BY <1>1, <1>2, <1>3, <1>4, <1>5 DEF Next, Handlers

LEMMA FarewellStep == TypeOK /\ EndInv /\ FarewellInv /\ [Next]_vars => FarewellInv'
<1> SUFFICES ASSUME TypeOK, EndInv, FarewellInv, [Next]_vars
             PROVE  FarewellInv'
  OBVIOUS
<1>a. up' = up \/ (Faulty /\ ~Connected')
  BY ConnectionsStep
<1> SUFFICES ASSUME up' = up, Connected, DissolutionUnderway, AnswerStands
             PROVE  Connected' /\ DissolutionUnderway' /\ AnswerStands'
  BY <1>a DEF FarewellInv, Connected, DissolutionUnderway
<1>0. /\ PcType /\ stage \in {"none", "open", "dissolved"} /\ mapped \in BOOLEAN
      /\ completes \in {0, 1} /\ up \in [Tasks -> BOOLEAN]
      /\ Requester \in Tasks /\ Agents \subseteq Tasks
  BY TypeParts DEF LifeType, LinkType, EndInv, Tasks
<1>1. \A l : AfterReply(l) = {l} /\ AfterSend(l) = {l}
  BY <1>0 DEF Connected, AfterReply, AfterSend
<1>2. CASE UNCHANGED vars
  BY <1>2 DEF vars, lifecycle, run, links, history, Connected, DissolutionUnderway,
              AnswerStands, RunEnded
<1>3. ASSUME NEW a \in Agents, AgentTask(a), ~AgentComplete(a), ~Dissolution(a)
      PROVE  Connected' /\ DissolutionUnderway' /\ AnswerStands'
  BY <1>3, AgentsElsewhere DEF AgentTask, FarewellInv, Connected
<1>4. ASSUME NEW a \in Agents, AgentComplete(a)
      PROVE  Connected' /\ DissolutionUnderway' /\ AnswerStands'
  <2>1. UNCHANGED <<stage, mapped, up, pc, completes, archives>>
    BY <1>4 DEF AgentComplete, lifecycle, links, history
  <2>2. /\ answer' = answer
        /\ UNCHANGED <<results, late>> \/ late' = (answer # "none")
    BY <1>4 DEF AgentComplete
  <2>3. RunEnded => RunEnded' /\ (late => late')
    BY <2>2 DEF RunEnded, Reported
  <2> QED BY <2>1, <2>2, <2>3 DEF Connected, DissolutionUnderway, AnswerStands
<1>5. CASE \/ HandleIntent \/ AdmitIntent \/ Decompose \/ Discover
           \/ (\E a \in Agents : RequestOffer(a))
           \/ Accept \/ Reject \/ Renegotiate \/ Finalize \/ BuildGraph
  <2>1. /\ UNCHANGED <<up, results, answer, late, completes, archives>>
        /\ \A t \in Tasks \ {Requester} : pc'[t] = pc[t]
        /\ pc[Requester] \notin {"d_agents"} \cup Dissolving
        /\ pc'[Requester] \notin {"finished", "completing", "d_agents"}
        /\ pc[Requester] = "idle" /\ stage = "dissolved" => pc'[Requester] = "idle"
    <3> USE <1>0, <1>1
        DEF PcType, Goto, Dissolving, lifecycle, market, run, links, locals, history
    <3>1. CASE HandleIntent \/ AdmitIntent \/ Decompose
      BY <3>1 DEF HandleIntent, AdmitIntent, Decompose
    <3>2. CASE Discover
      BY <3>2 DEF Discover
    <3>3. CASE \E a \in Agents : RequestOffer(a)
      BY <3>3 DEF RequestOffer
    <3>4. CASE Accept \/ Reject
      BY <3>4 DEF Accept, Reject, Answer
    <3>5. CASE Renegotiate
      BY <3>5 DEF Renegotiate, Answer
    <3>6. CASE Finalize \/ BuildGraph
      BY <3>6 DEF Finalize, BuildGraph
    <3> QED BY <1>5, <3>1, <3>2, <3>3, <3>4, <3>5, <3>6
  <2>2. \/ stage' = stage /\ mapped' = mapped
        \/ stage = "none" /\ stage' = "open" /\ mapped'
    <3>1. CASE HandleIntent
      BY <3>1 DEF HandleIntent
    <3>2. CASE ~HandleIntent
      BY <1>5, <3>2 DEF AdmitIntent, Decompose, Discover, RequestOffer, Accept, Reject,
                        Renegotiate, Finalize, BuildGraph, lifecycle, links
    <3> QED BY <3>1, <3>2
  <2>3. Connected'
    BY <2>1 DEF Connected
  <2>4. DissolutionUnderway'
    BY <2>1, <2>2 DEF DissolutionUnderway
  <2>5. AnswerStands'
    BY <2>1, <2>2 DEF AnswerStands, RunEnded
  <2> QED BY <2>3, <2>4, <2>5
<1>6. CASE Authorize \/ RunGraph \/ Validate
  <2>1. /\ UNCHANGED <<stage, up, mapped, completes, archives>>
        /\ \A t \in Tasks \ {Requester} : pc'[t] = pc[t]
        /\ pc[Requester] \notin Dissolving \cup {"idle", "d_agents"}
        /\ pc'[Requester] \in {"finished", "completing"} => RunEnded'
    <3> USE <1>0, <1>1
        DEF PcType, Goto, Dissolving, lifecycle, market, run, links, locals, history,
            Reported, RunEnded
    <3>1. CASE Authorize
      BY <3>1 DEF Authorize, AnswerStands
    <3>2. CASE RunGraph
      BY <3>2 DEF RunGraph
    <3>3. CASE Validate
      BY <3>3 DEF Validate, ValidationRenegotiate, AnswerStands
    <3> QED BY <1>6, <3>1, <3>2, <3>3
  <2>2. completes = 0
    BY <1>0, <2>1 DEF AnswerStands
  <2> QED BY <2>1, <2>2 DEF Connected, DissolutionUnderway, AnswerStands
<1>7. CASE Complete
  <2>1. /\ UNCHANGED <<stage, up, mapped, results, answer, late, archives>>
        /\ pc' = [pc EXCEPT ![Requester] = "dissolve"]
        /\ pc[Requester] \in {"finished", "completing"}
        /\ completes' = IF mapped /\ up[Requester] THEN completes + 1 ELSE completes
    BY <1>1, <1>7 DEF Complete, Goto, lifecycle, run, links
  <2>2. /\ completes = 0 /\ RunEnded /\ RunEnded'
        /\ pc'[Requester] = "dissolve" /\ \A t \in Tasks \ {Requester} : pc'[t] = pc[t]
    BY <1>0, <2>1 DEF AnswerStands, RunEnded, Dissolving, PcType
  <2>3. mapped => archives = <<>>
    BY DEF EndInv
  <2> QED BY <2>1, <2>2, <2>3 DEF Connected, DissolutionUnderway, AnswerStands, Dissolving
<1>8. ASSUME NEW t \in Tasks, Dissolve(t)
      PROVE  Connected' /\ DissolutionUnderway' /\ AnswerStands'
  <2>1. /\ UNCHANGED <<stage, up, mapped, results, answer, late, completes, archives>>
        /\ pc[t] = "dissolve" /\ \A u \in Tasks \ {t} : pc'[u] = pc[u]
        /\ pc'[t] = IF stage = "open" THEN "d_requester" ELSE "idle"
    BY <1>0, <1>8 DEF Dissolve, Goto, PcType, lifecycle, links, history
  <2>2. completes = 1 => stage # "none"
    BY DEF EndInv
  <2> QED
    BY <1>0, <2>1, <2>2
       DEF Connected, DissolutionUnderway, AnswerStands, RunEnded, Dissolving
<1>9. ASSUME NEW t \in Tasks, DissolveRequester(t)
      PROVE  Connected' /\ DissolutionUnderway' /\ AnswerStands'
  <2>1. /\ UNCHANGED <<stage, up, results, answer, late, completes, archives>>
        /\ pc[t] = "d_requester" /\ \A u \in Tasks \ {t} : pc'[u] = pc[u]
        /\ pc'[t] = "d_agents"
    BY <1>0, <1>1, <1>9 DEF DissolveRequester, Goto, PcType, lifecycle, run
  <2> QED
    BY <1>0, <2>1 DEF Connected, DissolutionUnderway, AnswerStands, RunEnded, Dissolving
<1>10. ASSUME NEW t \in Tasks, DissolveAgents(t)
       PROVE  Connected' /\ DissolutionUnderway' /\ AnswerStands'
  <2>1. /\ UNCHANGED <<up, mapped, results, answer, late, completes>>
        /\ pc[t] = "d_agents" /\ \A u \in Tasks \ {t} : pc'[u] = pc[u]
        /\ pc'[t] = "idle"
    BY <1>0, <1>10 DEF DissolveAgents, Goto, PcType, run, links
  <2>2. \/ /\ stage = "open" /\ stage' = "dissolved"
           /\ archives' = Append(archives, Outcome) \/ archives' = archives
        \/ stage # "open" /\ stage' = stage /\ archives' = archives
    BY <1>0, <1>10, TypeParts DEF DissolveAgents, Connected, MarketType
  <2>3. stage = "open" => archives' \in {<<>>, <<Outcome>>}
    BY <2>2 DEF EndInv
  <2>4. RunEnded => RunEnded' /\ (Outcome = answer \/ late)
    BY <2>1 DEF RunEnded, Reported, Outcome, Verdicts, AgentVerdicts
  <2>5. completes = 1 => stage # "none"
    BY DEF EndInv
  <2> QED
    BY <1>0, <2>1, <2>2, <2>3, <2>4, <2>5
       DEF Connected, DissolutionUnderway, AnswerStands, Dissolving
<1>11. \A t \in Tasks : ~Close(t)
  BY <1>0 DEF Close
<1> QED
  BY <1>0, <1>2, <1>3, <1>4, <1>5, <1>6, <1>7, <1>8, <1>9, <1>10, <1>11
     DEF Next, Handlers, RequesterTask, AgentTask, Done, Dissolution

LEMMA FarewellInvariant == Spec => []FarewellInv
<1>1. Init => FarewellInv
  BY DEF Init, FarewellInv, Connected, DissolutionUnderway, AnswerStands, Tasks
<1> QED BY <1>1, FarewellStep, TypeCorrect, EndCorrect, PTL DEF Spec

(* An open session whose requester was taken from it has a handler about   *)
(* to remove it (_dissolve_session).                                        *)
THEOREM DissolutionIsUnderway == Spec => []DissolutionUnderway
<1>1. FarewellInv => DissolutionUnderway
  BY DEF FarewellInv, DissolutionUnderway
<1> QED BY <1>1, FarewellInvariant, PTL

(* The archive says what the requester was told, whichever handler writes  *)
(* it, unless an agent's COMPLETE came after the run had ended              *)
(* (_handle_complete, _archive_session).                                    *)
THEOREM ArchiveAlwaysAgrees == Spec => []ArchiveAgrees
<1>1. FarewellInv => ArchiveAgrees
  BY DEF FarewellInv, AnswerStands, ArchiveAgrees
<1> QED BY <1>1, FarewellInvariant, PTL

----------------------------------------------------------------------------
(* How often discovery is run.                                             *)

Period == MaxRenegotiations + 1

(* Rejected answers that restarted the session: the last round allowed     *)
(* does not, and rounds beyond it restart nothing either.                   *)
Resets == Smaller(valRounds, Larger(1, MaxValidations) - 1)

(* Each period has its renegotiations, and the one under way has had as    *)
(* many as its plan says.                                                   *)
RoundsInv ==
  /\ stage = "none" \/ pc[Requester] \in {"admission", "decomposing"} => cycles = 0
  /\ plan.renegotiation <= MaxRenegotiations
  /\ cycles <= Resets * Period + plan.renegotiation + 1

LEMMA PeriodsGrow ==
  ASSUME NEW m \in Nat, NEW n \in Nat, NEW p \in Nat
  PROVE  m * p \in Nat /\ (m + 1) * p = m * p + p /\ (m <= n => m * p <= n * p)
OBVIOUS

LEMMA ResetsType == RunType => Resets \in Nat /\ Period \in Nat /\ valRounds \in Nat
BY BoundsAssumption DEF Resets, Period, Smaller, Larger, RunType

(* What neither counts a cycle nor replaces the plan keeps the bound.      *)
LEMMA RoundsKept ==
  ASSUME RoundsInv, UNCHANGED <<stage, cycles, valRounds>>,
         plan'.renegotiation = plan.renegotiation,
         pc'[Requester] \in {"admission", "decomposing"} =>
            pc[Requester] \in {"admission", "decomposing"}
  PROVE  RoundsInv'
BY DEF RoundsInv, Resets, Period

LEMMA RoundsStep == TypeOK /\ EndInv /\ RoundsInv /\ [Next]_vars => RoundsInv'
<1> SUFFICES ASSUME TypeOK, EndInv, RoundsInv, [Next]_vars PROVE RoundsInv'
  OBVIOUS
<1>0. /\ PcType /\ cycles \in Nat /\ valRounds \in Nat /\ valRounds' \in Nat
      /\ Resets \in Nat /\ Resets' \in Nat /\ Period \in Nat
      /\ plan.renegotiation \in Nat /\ Requester \in Tasks /\ Agents \subseteq Tasks
  <2>1. RunType /\ RunType' /\ MarketType /\ PcType /\ HistoryType
    BY TypeParts, TypeStep
  <2>2. Resets' \in Nat
    BY <2>1, BoundsAssumption DEF Resets, Smaller, Larger, RunType
  <2> QED BY <2>1, <2>2, ResetsType DEF RunType, MarketType, HistoryType, Plan, Tasks
<1>1. CASE HandleIntent
  <2>1. UNCHANGED <<cycles, valRounds, plan>> /\ cycles = 0
    BY <1>1 DEF HandleIntent, market, run, history, RoundsInv
  <2> QED BY <2>1 DEF RoundsInv, Resets, Period
<1>2. CASE Decompose
  <2>1. /\ UNCHANGED <<stage, plan, valRounds>> /\ stage = "open"
        /\ pc'[Requester] \in {"discovering", "idle"}
        /\ cycles = 0 /\ cycles' \in {0, 1}
    BY <1>0, <1>2 DEF Decompose, Goto, PcType, market, run, RoundsInv, EndInv
  <2>2. Resets' = Resets /\ Resets * Period \in Nat
    BY <1>0, <2>1, PeriodsGrow DEF Resets
  <2> QED BY <1>0, <2>1, <2>2 DEF RoundsInv
<1>3. CASE Renegotiate
  <2>1. CASE stage = "open" /\ plan.renegotiation < MaxRenegotiations
    <3>1. /\ stage' = stage /\ valRounds' = valRounds /\ cycles' = cycles + 1
          /\ plan'.renegotiation = plan.renegotiation + 1
          /\ pc'[Requester] = "discovering"
      <4>1. ~(plan.renegotiation >= MaxRenegotiations)
        BY <1>0, <2>1, BoundsAssumption
      <4>2. /\ stage' = stage /\ valRounds' = valRounds /\ cycles' = cycles + 1
            /\ plan' = NewPlan(plan.renegotiation + 1)
            /\ pc' = [pc EXCEPT ![Requester] = "discovering"]
        BY <1>3, <2>1, <4>1 DEF Renegotiate, ClearMarket, Goto, run
      <4>3. pc'[Requester] = "discovering"
        BY <1>0, <4>2 DEF PcType
      <4> QED BY <4>2, <4>3 DEF NewPlan
    <3>2. Resets' = Resets /\ Resets * Period \in Nat
      BY <1>0, <3>1, PeriodsGrow DEF Resets
    <3> QED BY <1>0, <2>1, <3>1, <3>2, BoundsAssumption DEF RoundsInv
  <2>2. CASE ~(stage = "open" /\ plan.renegotiation < MaxRenegotiations)
    <3>1. /\ UNCHANGED <<stage, cycles, valRounds, plan>>
          /\ pc'[Requester] \notin {"admission", "decomposing"}
      BY <1>0, <1>3, <2>2, BoundsAssumption
         DEF Renegotiate, Answer, AfterReply, Goto, PcType, market, run
    <3> QED BY <3>1, RoundsKept
  <2> QED BY <2>1, <2>2
<1>4. CASE Validate
  <2>1. /\ stage' = stage /\ valRounds' = valRounds + 1
        /\ pc'[Requester] \notin {"admission", "decomposing"}
        /\ pc[Requester] = "finished"
    BY <1>0, <1>4 DEF Validate, ValidationRenegotiate, AfterSend, Goto, PcType
  <2>2. /\ stage # "none"
        /\ Resets * Period \in Nat /\ Resets' * Period \in Nat
    BY <1>0, <2>1, PeriodsGrow DEF EndInv
  <2>3. CASE ValidationRenegotiate /\ valRounds' < MaxValidations
    <3>1. plan'.renegotiation = 0 /\ cycles' \in {cycles, cycles + 1}
      BY <2>3 DEF ValidationRenegotiate, ClearMarket, NewPlan
    <3>2. Resets' = Resets + 1
      BY <1>0, <2>1, <2>3, BoundsAssumption DEF Resets, Smaller, Larger
    <3>3. Resets' * Period = Resets * Period + Period
      BY <1>0, <3>2, PeriodsGrow
    <3> QED BY <1>0, <2>1, <2>2, <3>1, <3>3, BoundsAssumption DEF RoundsInv, Period
  <2>4. CASE UNCHANGED <<market, cycles>>
    <3>1. Resets <= Resets'
      BY <1>0, <2>1, BoundsAssumption DEF Resets, Smaller, Larger
    <3>2. Resets * Period <= Resets' * Period
      BY <1>0, <3>1, PeriodsGrow
    <3> QED BY <1>0, <2>1, <2>2, <2>4, <3>2 DEF RoundsInv, market
  <2> QED BY <1>4, <2>3, <2>4 DEF Validate, market
<1>5. CASE \/ AdmitIntent \/ Discover \/ (\E a \in Agents : RequestOffer(a)) \/ Accept
           \/ Reject \/ Finalize \/ BuildGraph \/ Authorize \/ RunGraph \/ Complete
  <2>1. /\ UNCHANGED <<stage, cycles, valRounds, plan>>
        /\ pc'[Requester] \in {"admission", "decomposing"} =>
              pc[Requester] \in {"admission", "decomposing"}
    <3> USE <1>0
        DEF Goto, PcType, lifecycle, market, run, history, AfterReply, AfterSend, Answer
    <3>1. CASE AdmitIntent
      BY <3>1 DEF AdmitIntent
    <3>2. CASE Discover
      BY <3>2 DEF Discover
    <3>3. CASE \E a \in Agents : RequestOffer(a)
      BY <3>3 DEF RequestOffer
    <3>4. CASE Accept \/ Reject
      BY <3>4 DEF Accept, Reject
    <3>5. CASE Finalize \/ BuildGraph
      BY <3>5 DEF Finalize, BuildGraph
    <3>6. CASE Authorize \/ RunGraph
      BY <3>6 DEF Authorize, RunGraph
    <3>7. CASE Complete
      BY <3>7 DEF Complete
    <3> QED BY <1>5, <3>1, <3>2, <3>3, <3>4, <3>5, <3>6, <3>7
  <2> QED BY <2>1, RoundsKept
<1>6. ASSUME NEW t \in Tasks, Dissolution(t) \/ Close(t) PROVE RoundsInv'
  <2>1. /\ UNCHANGED <<cycles, valRounds, plan>>
        /\ stage' = "none" => stage = "none"
        /\ pc'[Requester] \in {"admission", "decomposing"} =>
              pc[Requester] \in {"admission", "decomposing"}
    BY <1>0, <1>6
       DEF Dissolution, Dissolve, DissolveRequester, DissolveAgents, Close, Goto, PcType,
           AfterSend, lifecycle, market, run, history
  <2> QED BY <2>1 DEF RoundsInv, Resets, Period
<1>7. ASSUME NEW a \in Agents, AgentTask(a), ~Dissolution(a) PROVE RoundsInv'
  <2>1. /\ UNCHANGED <<stage, cycles, valRounds>>
        /\ plan'.renegotiation = plan.renegotiation
        /\ pc'[Requester] = pc[Requester]
    <3> USE <1>0, RequesterAssumption
        DEF Goto, PcType, lifecycle, market, run, history
    <3>1. CASE HandleOffer(a) \/ Decline(a) \/ AgentReject(a)
      BY <3>1 DEF HandleOffer, Decline, AgentReject
    <3>2. CASE CheckResponses(a) \/ NextPending(a) \/ Acceptance(a)
      BY <3>2 DEF CheckResponses, NextPending, Acceptance
    <3>3. CASE Decide(a)
      <4> plan \in Plan
        BY TypeParts DEF MarketType
      <4> QED BY <3>3 DEF Decide, Plan
    <3>4. CASE Compose(a) \/ Propose(a) \/ AgentComplete(a)
      BY <3>4 DEF Compose, Propose, AgentComplete
    <3>5. CASE Publish(a)
      <4> plan \in Plan
        BY TypeParts DEF MarketType
      <4> QED BY <3>5 DEF Publish, Plan
    <3> QED BY <1>7, <3>1, <3>2, <3>3, <3>4, <3>5 DEF AgentTask
  <2> QED BY <2>1, RoundsKept
<1>8. CASE UNCHANGED vars
  BY <1>8, RoundsKept DEF vars, lifecycle, market, run, history
<1> QED
  BY <1>0, <1>1, <1>2, <1>3, <1>4, <1>5, <1>6, <1>7, <1>8
     DEF Next, Handlers, RequesterTask, Done

(* However often the requester renegotiates and the validator rejects, a   *)
(* session runs discovery only so many times (_handle_renegotiation,       *)
(* _run_validation_loop).                                                   *)
THEOREM RoundsAreBounded == Spec => []RoundsBounded
<1>1. Init => RoundsInv
  BY BoundsAssumption DEF Init, RoundsInv, NewPlan, Resets, Period, Smaller, Larger
<1>2. TypeOK /\ RoundsInv => RoundsBounded
  <2> SUFFICES ASSUME TypeOK, RoundsInv PROVE RoundsBounded
    OBVIOUS
  <2> DEFINE most == Larger(1, MaxValidations) - 1
  <2>1. /\ Resets \in Nat /\ Period \in Nat /\ most \in Nat /\ Resets <= most
        /\ cycles \in Nat /\ plan.renegotiation \in Nat
    <3>1. RunType /\ MarketType /\ HistoryType
      BY TypeParts
    <3> QED
      BY <3>1, ResetsType, BoundsAssumption
         DEF Resets, Smaller, Larger, RunType, MarketType, HistoryType, Plan
  <2>2. Resets * Period <= most * Period /\ (most + 1) * Period = most * Period + Period
    BY <2>1, PeriodsGrow
  <2>3. cycles <= (most + 1) * Period
    <3>1. Resets * Period \in Nat /\ most * Period \in Nat
      BY <2>1, PeriodsGrow
    <3> HIDE DEF most
    <3> QED BY <2>1, <2>2, <3>1, BoundsAssumption DEF RoundsInv, Period
  <2>4. most + 1 = Larger(1, MaxValidations)
    BY BoundsAssumption DEF Larger
  <2>5. (most + 1) * Period = (MaxRenegotiations + 1) * Larger(1, MaxValidations)
    BY <2>4, BoundsAssumption DEF Period, Larger
  <2> QED BY <2>3, <2>5 DEF RoundsBounded
<1> QED BY <1>1, <1>2, RoundsStep, TypeCorrect, EndCorrect, PTL DEF Spec

----------------------------------------------------------------------------
(* While everybody answers: what an open session still has to come.  A     *)
(* handler of an agent that looks at the offers ends in a plan or in the   *)
(* dissolution, or leaves it to an agent that has not responded yet, whose *)
(* offers are owed; a plan is answered; and a graph is built of steps.     *)
Doomed == \E t \in Tasks : pc[t] \in Dissolving
Converging == {"offered", "evaluating", "accepting", "composing", "ordered",
               "explaining"}

Owed ==
  /\ \A b \in solicited : due[b] > 0 \/ b \in Responded
  /\ pc[Requester] = "soliciting" => todo # {}

Alive ==
  /\ pc[Requester] \in {"idle", "soliciting"} =>
       /\ phase \in {"negotiation", "awaiting_approval"}
       /\ phase = "awaiting_approval" => plansOut # <<>>
  /\ pc[Requester] = "idle" /\ phase = "negotiation" =>
       /\ solicited # {}
       /\ \E a \in Agents : due[a] > 0 \/ pc[a] \in Converging
  /\ pc[Requester] = "graph" => plan.steps # NoSteps

ViableHasSteps == plan.viable = "yes" => plan.steps # NoSteps

StrandInv ==
  /\ ViableHasSteps
  /\ ~Faulty /\ ~Declining /\ stage = "open" => Owed /\ (Doomed \/ Alive)

(* The steps that leave the composition plan's steps as they are.          *)
LEMMA ViableStep == TypeOK /\ ViableHasSteps /\ [Next]_vars => ViableHasSteps'
<1> SUFFICES ASSUME TypeOK, ViableHasSteps, [Next]_vars PROVE ViableHasSteps'
  OBVIOUS
<1>0. plan \in Plan /\ draft \in [Agents -> Steps]
  BY DEF TypeOK
<1>1. CASE UNCHANGED plan
  BY <1>1 DEF ViableHasSteps
<1>2. ASSUME NEW n, plan' = NewPlan(n) PROVE ViableHasSteps'
  BY <1>2 DEF ViableHasSteps, NewPlan
<1>3. ASSUME NEW a \in Agents, Decide(a) PROVE ViableHasSteps'
  BY <1>0, <1>3 DEF Decide, ViableHasSteps, Plan
<1>4. ASSUME NEW a \in Agents, Publish(a) PROVE ViableHasSteps'
  <2>1. /\ plan'.steps = draft[a]
        /\ plan'.viable = IF draft[a] = NoSteps THEN "no" ELSE "yes"
    BY <1>0, <1>4 DEF Publish, Plan
  <2> QED BY <2>1 DEF ViableHasSteps
<1>5. CASE Renegotiate
  BY <1>1, <1>2, <1>5 DEF Renegotiate, ClearMarket, market
<1>6. CASE Validate
  BY <1>1, <1>2, <1>6 DEF Validate, ValidationRenegotiate, ClearMarket, market
<1>7. CASE HandleIntent \/ AdmitIntent \/ Decompose \/ Discover \/ Accept \/ Reject
  BY <1>1, <1>7 DEF HandleIntent, AdmitIntent, Decompose, Discover, Accept, Reject, market
<1>8. CASE Finalize \/ BuildGraph \/ Authorize \/ RunGraph \/ Complete
  BY <1>1, <1>8 DEF Finalize, BuildGraph, Authorize, RunGraph, Complete, market
<1>9. ASSUME NEW t \in Tasks, Dissolution(t) \/ Close(t) PROVE ViableHasSteps'
  BY <1>1, <1>9 DEF Dissolution, Dissolve, DissolveRequester, DissolveAgents, Close, market
<1>10. ASSUME NEW a \in Agents,
              \/ RequestOffer(a) \/ HandleOffer(a) \/ Decline(a) \/ AgentReject(a)
              \/ CheckResponses(a) \/ NextPending(a) \/ Acceptance(a) \/ Compose(a)
              \/ Propose(a) \/ AgentComplete(a)
       PROVE  ViableHasSteps'
  <2>1. UNCHANGED plan
    BY <1>10 DEF RequestOffer, HandleOffer, Decline, AgentReject, CheckResponses,
         NextPending, Acceptance, Compose, Propose, AgentComplete, market
  <2> QED BY <1>1, <2>1
<1>11. CASE UNCHANGED vars
  BY <1>1, <1>11 DEF vars, market
<1> QED BY <1>3, <1>4, <1>5, <1>6, <1>7, <1>8, <1>9, <1>10, <1>11
        DEF Next, Handlers, RequesterTask, AgentTask, Done, Dissolution, Tasks

(* A session that a handler dissolves is dissolved: on open connections no *)
(* send stops the handler.                                                 *)
LEMMA DoomedStep ==
  ASSUME TypeOK, Connected, ~Faulty, Doomed, stage = "open", stage' = "open", [Next]_vars
  PROVE  Doomed'
<1>0. /\ PcType /\ up \in [Tasks -> BOOLEAN] /\ Requester \in Tasks /\ Agents \subseteq Tasks
      /\ \A l : AfterReply(l) = {l} /\ AfterSend(l) = {l}
  BY TypeParts DEF LinkType, Tasks, Connected, AfterReply, AfterSend
<1> PICK t \in Tasks : pc[t] \in Dissolving
  BY DEF Doomed
<1> SUFFICES ASSUME ~Doomed' PROVE FALSE
  OBVIOUS
<1>1. pc'[t] \notin Dissolving
  BY DEF Doomed
<1>2. ASSUME NEW u \in Tasks, NEW l, Goto(u, l), pc[u] \notin Dissolving PROVE FALSE
  BY <1>0, <1>1, <1>2 DEF Goto, PcType
<1>3. pc' # pc
  BY <1>1
<1>4. ASSUME NEW u \in Tasks, Dissolve(u) PROVE FALSE
  BY <1>0, <1>1, <1>4 DEF Dissolve, Goto, PcType, Dissolving
<1>5. ASSUME NEW u \in Tasks, DissolveRequester(u) PROVE FALSE
  BY <1>0, <1>1, <1>5 DEF DissolveRequester, Goto, PcType, Dissolving
<1>6. ASSUME NEW u \in Tasks, DissolveAgents(u) PROVE FALSE
  <2>1. stage' = "dissolved"
    BY <1>0, <1>6, TypeParts DEF DissolveAgents, Connected, MarketType
  <2> QED BY <2>1
<1>7. CASE HandleIntent \/ AdmitIntent \/ Decompose \/ Discover
  BY <1>0, <1>2, <1>7 DEF HandleIntent, AdmitIntent, Decompose, Discover, Dissolving
<1>8. CASE Accept \/ Reject \/ Renegotiate
  BY <1>0, <1>2, <1>3, <1>8 DEF Accept, Reject, Renegotiate, Answer, Dissolving
<1>9. CASE Finalize \/ BuildGraph \/ Authorize \/ RunGraph \/ Validate \/ Complete
  BY <1>0, <1>2, <1>9 DEF Finalize, BuildGraph, Authorize, RunGraph, Validate,
     ValidationRenegotiate, Complete, Dissolving
<1>10. ASSUME NEW a \in Agents, RequestOffer(a) PROVE FALSE
  BY <1>0, <1>2, <1>10 DEF RequestOffer, Dissolving
<1>11. ASSUME NEW a \in Agents, HandleOffer(a) \/ Decline(a) \/ AgentReject(a)
                                \/ AgentComplete(a)
       PROVE  FALSE
  BY <1>0, <1>2, <1>3, <1>11
     DEF HandleOffer, Decline, AgentReject, AgentComplete, Dissolving
<1>12. ASSUME NEW a \in Agents,
              \/ CheckResponses(a) \/ NextPending(a) \/ Acceptance(a) \/ Decide(a)
              \/ Compose(a) \/ Publish(a) \/ Propose(a)
       PROVE  FALSE
  BY <1>0, <1>2, <1>12 DEF CheckResponses, NextPending, Acceptance, Decide, Compose,
     Publish, Propose, Dissolving
<1>13. CASE (\E u \in Tasks : Close(u)) \/ UNCHANGED vars
  BY <1>3, <1>13 DEF Close, vars
<1> QED BY <1>4, <1>5, <1>6, <1>7, <1>8, <1>9, <1>10, <1>11, <1>12, <1>13
        DEF Next, Handlers, RequesterTask, AgentTask, Done, Dissolution, Tasks

(* Everybody asked has responded, or owes an offer.                        *)
LEMMA OwedStep ==
  ASSUME TypeOK, Connected, Owed, ~Faulty, ~Declining, stage = "open", [Next]_vars
  PROVE  Owed'
<1> USE RequesterAssumption, BoundsAssumption DEF lifecycle, market, links
<1>0. /\ PcType /\ up \in [Tasks -> BOOLEAN] /\ Requester \in Tasks /\ Agents \subseteq Tasks
      /\ due \in [Agents -> Nat] /\ solicited \subseteq Agents /\ offers \in Seq(Offer)
      /\ todo \subseteq Agents /\ Requester \notin Agents
      /\ \A l : AfterReply(l) = {l} /\ AfterSend(l) = {l}
  BY TypeParts DEF LinkType, MarketType, Tasks, Connected, AfterReply, AfterSend
<1>1. ASSUME UNCHANGED <<solicited, due, offers, todo>>,
             pc'[Requester] = "soliciting" => pc[Requester] = "soliciting"
      PROVE  Owed'
  BY <1>1 DEF Owed, Responded
<1>2. ASSUME NEW u \in Tasks, NEW l, Goto(u, l), l # "soliciting",
             UNCHANGED <<solicited, due, offers, todo>>
      PROVE  Owed'
  BY <1>0, <1>1, <1>2 DEF Goto, PcType
<1>3. ASSUME solicited' = {}, NEW l, l # "soliciting", Goto(Requester, l) PROVE Owed'
  BY <1>0, <1>3 DEF Owed, Goto, PcType
<1>4. CASE HandleIntent \/ AdmitIntent \/ Decompose
  BY <1>0, <1>2, <1>4 DEF HandleIntent, AdmitIntent, Decompose
<1>5. CASE Discover
  <2>1. UNCHANGED <<solicited, due, offers>>
    BY <1>5 DEF Discover
  <2>2. CASE todo' = discovered' /\ discovered' # {}
    BY <2>1, <2>2 DEF Owed, Responded
  <2>3. CASE todo' = todo /\ Goto(Requester, "dissolve")
    BY <1>0, <1>2, <2>1, <2>3
  <2>4. AfterReply("dissolve") \cup AfterSend("dissolve") = {"dissolve"}
    BY <1>0
  <2>5. \/ todo' = todo /\ \E l \in {"dissolve"} : Goto(Requester, l)
        \/ todo' = discovered' /\ discovered' # {}
    BY <1>5, <2>4 DEF Discover
  <2> QED BY <2>2, <2>3, <2>5
<1>6. ASSUME NEW a \in Agents, RequestOffer(a) PROVE Owed'
  <2>1. /\ solicited' = solicited \cup {a} /\ due' = [due EXCEPT ![a] = @ + Capabilities]
        /\ Goto(Requester, IF todo' = {} THEN "idle" ELSE "soliciting")
        /\ UNCHANGED offers
    BY <1>0, <1>6 DEF RequestOffer, Connected
  <2>2. \A b \in solicited' : due'[b] > 0 \/ b \in Responded
    BY <1>0, <2>1 DEF Owed
  <2> QED BY <1>0, <2>1, <2>2 DEF Owed, Responded, Goto, PcType
<1>7. CASE Accept \/ Reject
  BY <1>0, <1>1, <1>2, <1>7 DEF Accept, Reject, Answer
<1>8. CASE Renegotiate
  BY <1>0, <1>1, <1>2, <1>3, <1>8 DEF Renegotiate, Answer, ClearMarket
<1>9. CASE Finalize \/ BuildGraph \/ Authorize \/ RunGraph \/ Complete
  BY <1>0, <1>2, <1>9 DEF Finalize, BuildGraph, Authorize, RunGraph, Complete
<1>10. CASE Validate
  BY <1>0, <1>2, <1>3, <1>10 DEF Validate, ValidationRenegotiate, ClearMarket
<1>11. ASSUME NEW t \in Tasks, Dissolution(t) PROVE Owed'
  BY <1>0, <1>2, <1>11 DEF Dissolution, Dissolve, DissolveRequester, DissolveAgents
<1>12. ASSUME NEW a \in Agents, HandleOffer(a) PROVE Owed'
  <2>1. PICK s : /\ offers' = Append(offers, [agent |-> a, status |-> s])
                 /\ Goto(a, "offered") /\ due' = [due EXCEPT ![a] = @ - 1]
                 /\ UNCHANGED <<solicited, todo>>
    BY <1>12 DEF HandleOffer
  <2>2. Responded \cup {a} \subseteq Responded'
    <3>1. /\ Len(offers) \in Nat /\ DOMAIN offers' = 1..Len(offers) + 1
          /\ DOMAIN offers = 1..Len(offers)
          /\ \A i \in 1..Len(offers) : offers'[i] = offers[i]
          /\ offers'[Len(offers) + 1].agent = a
      BY <1>0, <2>1
    <3> QED BY <3>1 DEF Responded
  <2>3. \A b \in solicited : due'[b] > 0 \/ b \in Responded'
    BY <1>0, <2>1, <2>2 DEF Owed
  <2> QED BY <1>0, <2>1, <2>3 DEF Owed, Goto, PcType
<1>13. ASSUME NEW a \in Agents, Acceptance(a) PROVE Owed'
  <2>1. /\ UNCHANGED <<solicited, due, todo>> /\ Goto(a, "evaluating")
        /\ \/ offers' = offers
           \/ \E s : offers' = [offers EXCEPT ![idx[a]].status = s]
    BY <1>13 DEF Acceptance
  <2>2. \A i \in DOMAIN offers : /\ i \in DOMAIN offers'
                                 /\ offers'[i].agent = offers[i].agent
    <3> SUFFICES ASSUME NEW s, offers' = [offers EXCEPT ![idx[a]].status = s],
                        NEW i \in DOMAIN offers
                 PROVE  i \in DOMAIN offers' /\ offers'[i].agent = offers[i].agent
      BY <2>1
    <3>1. offers[i] \in Offer
      BY <1>0
    <3>2. [offers[i] EXCEPT !.status = s].agent = offers[i].agent
      BY <3>1 DEF Offer
    <3> QED BY <1>0, <3>2
  <2>3. Responded \subseteq Responded'
    BY <2>2 DEF Responded
  <2> QED BY <1>0, <2>1, <2>3 DEF Owed, Goto, PcType
<1>14. ASSUME NEW a \in Agents,
              \/ CheckResponses(a) \/ NextPending(a) \/ Decide(a) \/ Compose(a)
              \/ Publish(a) \/ Propose(a)
       PROVE  Owed'
  <2>1. UNCHANGED <<solicited, due, offers, todo>>
    BY <1>14 DEF CheckResponses, NextPending, Decide, Compose, Publish, Propose
  <2>2. \E l : l # "soliciting" /\ Goto(a, l)
    BY <1>0, <1>14
       DEF CheckResponses, NextPending, Decide, Compose, Publish, Propose
  <2> QED BY <1>0, <1>2, <2>1, <2>2
<1>15. CASE (\E a \in Agents : AgentComplete(a)) \/ UNCHANGED vars
  BY <1>1, <1>15 DEF AgentComplete, vars
<1> QED BY <1>4, <1>5, <1>6, <1>7, <1>8, <1>9, <1>10, <1>11, <1>12, <1>13, <1>14, <1>15
        DEF Next, Handlers, RequesterTask, AgentTask, Done, Dissolution, Tasks,
            Decline, AgentReject, Close

(* A session that goes on has something to come after every step, or is    *)
(* being dissolved.                                                        *)
LEMMA AliveStep ==
  ASSUME TypeOK, Connected, ~Faulty, ~Declining, stage = "open", stage' = "open",
         mapped, Owed, Alive, ~Doomed, ViableHasSteps, [Next]_vars
  PROVE  Doomed' \/ Alive'
<1> USE RequesterAssumption, BoundsAssumption DEF lifecycle, market, links
<1>0. /\ PcType /\ up \in [Tasks -> BOOLEAN] /\ Requester \in Tasks /\ Agents \subseteq Tasks
      /\ due \in [Agents -> Nat] /\ solicited \subseteq Agents
      /\ plansOut \in Seq(Steps) /\ plan \in Plan /\ draft \in [Agents -> Steps]
      /\ Requester \notin Agents /\ \A t \in Tasks : up[t]
      /\ \A l : AfterReply(l) = {l} /\ AfterSend(l) = {l}
  BY TypeParts DEF LinkType, MarketType, LocalType, Tasks, Connected, AfterReply, AfterSend
<1>1. \A t \in Tasks : pc[t] \notin Dissolving
  BY DEF Doomed
<1>2. ASSUME NEW u \in Tasks, Goto(u, "dissolve") PROVE Doomed'
  BY <1>0, <1>2 DEF Goto, PcType, Doomed, Dissolving
<1>3. ASSUME NEW l, l \notin {"idle", "soliciting", "graph"}, Goto(Requester, l)
      PROVE  Alive'
  BY <1>0, <1>3 DEF Goto, PcType, Alive
<1>4. ASSUME NEW a \in Agents, NEW l \in Converging, Goto(a, l),
             UNCHANGED <<phase, plansOut, solicited, plan>>
      PROVE  Alive'
  BY <1>0, <1>4 DEF Goto, PcType, Alive
<1>5. CASE HandleIntent \/ AdmitIntent \/ Decompose
  BY <1>0, <1>3, <1>5 DEF HandleIntent, AdmitIntent, Decompose
<1>6. CASE Discover
  <2>1. CASE Goto(Requester, "dissolve")
    BY <1>0, <1>2, <2>1
  <2>2. CASE Goto(Requester, "soliciting") /\ phase' = "negotiation"
    BY <1>0, <2>2 DEF Goto, PcType, Alive
  <2> QED BY <1>0, <1>6, <2>1, <2>2 DEF Discover
<1>7. ASSUME NEW a \in Agents, RequestOffer(a) PROVE Alive'
  <2>1. /\ pc[Requester] = "soliciting" /\ solicited' = solicited \cup {a}
        /\ due' = [due EXCEPT ![a] = @ + Capabilities]
        /\ UNCHANGED <<phase, plansOut, plan>>
        /\ Goto(Requester, IF todo' = {} THEN "idle" ELSE "soliciting")
    BY <1>0, <1>7 DEF RequestOffer, Connected
  <2>2. due'[a] > 0
    BY <1>0, <2>1
  <2>3. pc'[Requester] \in {"idle", "soliciting"}
    BY <1>0, <2>1 DEF Goto, PcType
  <2> QED BY <2>1, <2>2, <2>3 DEF Alive
<1>8. CASE Accept
  <2>1. pc[Requester] = "idle" /\ UNCHANGED <<phase, solicited, due, plan>>
    BY <1>8 DEF Accept, Answer
  <2>2. CASE phase = "awaiting_approval"
    BY <1>0, <1>3, <1>8, <2>2 DEF Accept
  <2>3. CASE phase # "awaiting_approval" /\ pc' = pc
    BY <2>1, <2>3 DEF Alive
  <2> QED BY <1>8, <2>2, <2>3 DEF Accept
<1>9. CASE Reject \/ Renegotiate
  BY <1>0, <1>2, <1>3, <1>9 DEF Reject, Renegotiate
<1>10. CASE Finalize
  <2>1. CASE Goto(Requester, "graph") /\ plan.viable = "yes" /\ plan' = plan
    BY <1>0, <2>1 DEF Goto, PcType, Alive, ViableHasSteps
  <2> QED BY <1>0, <1>2, <1>10, <2>1 DEF Finalize
<1>11. CASE BuildGraph
  BY <1>0, <1>3, <1>11 DEF BuildGraph, Alive
<1>12. CASE Authorize \/ RunGraph \/ Validate \/ Complete
  BY <1>0, <1>3, <1>12 DEF Authorize, RunGraph, Validate, ValidationRenegotiate, Complete
<1>13. ASSUME NEW t \in Tasks, Dissolution(t) PROVE FALSE
  BY <1>1, <1>13 DEF Dissolution, Dissolve, DissolveRequester, DissolveAgents, Dissolving
<1>14. ASSUME NEW a \in Agents, HandleOffer(a) PROVE Alive'
  BY <1>4, <1>14 DEF HandleOffer, Converging
<1>15. ASSUME NEW a \in Agents, CheckResponses(a) PROVE Alive'
  <2>1. UNCHANGED <<phase, plansOut, solicited, plan, due>>
    BY <1>15 DEF CheckResponses
  <2>2. CASE Goto(a, "evaluating")
    BY <1>4, <2>1, <2>2 DEF Converging
  <2>3. CASE Goto(a, "idle")
    <3>1. pc'[Requester] = pc[Requester]
      BY <1>0, <2>3 DEF Goto, PcType
    <3>2. ASSUME pc[Requester] = "idle", phase = "negotiation"
          PROVE  \E b \in Agents : due[b] > 0
      <4>1. solicited # {} /\ ~(Expected \subseteq Responded)
        BY <1>0, <1>15, <2>3, <3>2 DEF Alive, CheckResponses, Goto, PcType
      <4> QED BY <1>0, <4>1 DEF Expected, Owed
    <3> QED BY <2>1, <3>1, <3>2 DEF Alive
  <2> QED BY <1>15, <2>2, <2>3 DEF CheckResponses
<1>16. ASSUME NEW a \in Agents, NextPending(a) \/ Acceptance(a) \/ Compose(a)
       PROVE  Alive'
  <2>1. UNCHANGED <<phase, plansOut, solicited, plan>>
    BY <1>16 DEF NextPending, Acceptance, Compose
  <2>2. \E l \in Converging : Goto(a, l)
    BY <1>16 DEF NextPending, Acceptance, Compose, Converging
  <2> QED BY <1>4, <2>1, <2>2
<1>17. ASSUME NEW a \in Agents, Decide(a) PROVE Doomed' \/ Alive'
  <2>1. /\ UNCHANGED <<phase, plansOut, solicited>> /\ plan'.steps = plan.steps
        /\ Goto(a, "composing") \/ Goto(a, "dissolve")
    BY <1>0, <1>17 DEF Decide, Plan
  <2>2. CASE Goto(a, "composing")
    BY <1>0, <2>1, <2>2 DEF Goto, PcType, Alive, Converging
  <2> QED BY <1>0, <1>2, <2>1, <2>2
<1>18. ASSUME NEW a \in Agents, Publish(a) PROVE Doomed' \/ Alive'
  <2>1. CASE Goto(a, "explaining") /\ draft[a] # NoSteps
    <3>1. UNCHANGED <<phase, plansOut, solicited>> /\ plan'.steps # NoSteps
      BY <1>0, <1>18, <2>1 DEF Publish, Plan
    <3> QED BY <1>0, <2>1, <3>1 DEF Goto, PcType, Alive, Converging
  <2> QED BY <1>0, <1>2, <1>18, <2>1 DEF Publish
<1>19. ASSUME NEW a \in Agents, Propose(a) PROVE Alive'
  <2>1. /\ plansOut' = Append(plansOut, draft[a]) /\ phase' = "awaiting_approval"
        /\ Goto(a, "idle") /\ plan' = plan
    BY <1>0, <1>19 DEF Propose
  <2>2. plansOut' # <<>>
    BY <1>0, <2>1, AppendProperties
  <2>3. pc'[Requester] = pc[Requester]
    BY <1>0, <2>1 DEF Goto, PcType
  <2> QED BY <2>1, <2>2, <2>3 DEF Alive
<1>20. CASE (\E a \in Agents : AgentComplete(a)) \/ UNCHANGED vars
  BY <1>20 DEF AgentComplete, vars, Alive
<1> QED BY <1>5, <1>6, <1>7, <1>8, <1>9, <1>10, <1>11, <1>12, <1>13, <1>14, <1>15,
           <1>16, <1>17, <1>18, <1>19, <1>20
        DEF Next, Handlers, RequesterTask, AgentTask, Done, Dissolution, Tasks,
            Decline, AgentReject, Close

LEMMA StrandStep ==
  TypeOK /\ EndInv /\ FarewellInv /\ StrandInv /\ [Next]_vars => StrandInv'
<1> SUFFICES ASSUME TypeOK, EndInv, Connected, DissolutionUnderway, StrandInv, [Next]_vars,
                    ~Faulty, ~Declining, stage' = "open"
             PROVE  Owed' /\ (Doomed' \/ Alive')
  BY ViableStep DEF StrandInv, FarewellInv
<1>0. PcType /\ stage \in {"none", "open", "dissolved"} /\ Requester \in Tasks
  BY TypeParts DEF LifeType, Tasks
<1>1. CASE HandleIntent
  <2>1. pc'[Requester] = "admission" /\ solicited' = {}
    BY <1>0, <1>1 DEF HandleIntent, Goto, PcType, EndInv, Unsolicited, market
  <2> QED BY <2>1 DEF Owed, Alive
<1>2. CASE ~HandleIntent
  <2>1. stage = "open"
    <3>1. stage' = "dissolved" \/ UNCHANGED stage
      <4>1. CASE \E t \in Tasks : DissolveAgents(t)
        BY <4>1 DEF DissolveAgents
      <4>2. CASE Complete \/ \E t \in Tasks : DissolveRequester(t)
        BY <4>2 DEF Complete, DissolveRequester, lifecycle
      <4> QED BY <1>2, <4>1, <4>2, SilentSteps DEF Silent
    <3> QED BY <3>1
  <2>2. Owed /\ (Doomed \/ Alive)
    BY <2>1 DEF StrandInv
  <2>3. Owed'
    BY <2>1, <2>2, OwedStep
  <2>4. CASE Doomed
    BY <2>1, <2>3, <2>4, DoomedStep
  <2>5. CASE ~Doomed
    <3>1. mapped
      BY <2>1, <2>5 DEF DissolutionUnderway, Doomed, Dissolving
    <3> QED BY <2>1, <2>2, <2>3, <2>5, <3>1, AliveStep DEF StrandInv
  <2> QED BY <2>4, <2>5
<1> QED BY <1>1, <1>2

(* While connections hold and agents answer, an open session always has a  *)
(* step to come: the last response makes somebody decide, whatever handlers *)
(* were suspended as it came and however many decide at once.               *)
THEOREM NeverStrandedAlways == Spec => []NeverStranded
<1>1. Init => StrandInv
  BY DEF Init, StrandInv, ViableHasSteps, NewPlan
<1>2. TypeOK /\ StrandInv => NeverStranded
  <2> SUFFICES ASSUME TypeOK, Owed, Doomed \/ Alive,
                      \A t \in Tasks : pc[t] \in {"idle", "soliciting"},
                      ~(pc[Requester] = "soliciting" /\ todo # {}),
                      plansOut = <<>>
               PROVE  \E a \in Agents : due[a] > 0
    BY DEF StrandInv, NeverStranded
  <2>1. Alive /\ Requester \in Tasks /\ Agents \subseteq Tasks
    BY DEF Doomed, Dissolving, Tasks
  <2>2. pc[Requester] = "idle"
    BY <2>1 DEF Owed
  <2> QED BY <2>1, <2>2 DEF Alive, Converging
<1> QED BY <1>1, <1>2, StrandStep, TypeCorrect, EndCorrect, FarewellInvariant, PTL DEF Spec

----------------------------------------------------------------------------
(* How each step takes a session forward.                                  *)
LEMMA AdvanceStep ==
  ASSUME TypeOK, Handlers, ~Declining
  PROVE  Advances
<1> USE RequesterAssumption DEF lifecycle, market, links, locals, run, history
<1>0. /\ PcType /\ Requester \in Tasks /\ Agents \subseteq Tasks /\ Requester \notin Agents
      /\ due \in [Agents -> Nat] /\ idx \in [Agents -> Nat] /\ cycles \in Nat
      /\ todo \subseteq Agents
  BY TypeParts DEF LinkType, LocalType, HistoryType, Tasks
<1>1. ASSUME NEW l, Goto(Requester, l), Search(l) > Search(pc[Requester]) PROVE Advances
  BY <1>0, <1>1 DEF Goto, PcType, Advances
<1>2. ASSUME NEW l, Goto(Requester, l), Search(l) = Search(pc[Requester]),
             Pass(l) > Pass(pc[Requester]), UNCHANGED <<todo, due, plansOut>>
      PROVE  Advances
  BY <1>0, <1>2 DEF Goto, PcType, Advances
<1>3. ASSUME NEW a \in Agents, UNCHANGED <<todo, due>>, pc'[Requester] = pc[Requester],
             AgentAdvances(a)
      PROVE  Advances
  BY <1>3 DEF Advances
<1>4. ASSUME NEW a \in Agents, NEW l, Goto(a, l), Pass(l) > Pass(pc[a]),
             UNCHANGED <<todo, due>>
      PROVE  Advances
  BY <1>0, <1>3, <1>4 DEF Goto, PcType, AgentAdvances
<1>5. CASE HandleIntent
  BY <1>5 DEF HandleIntent, Advances
<1>6. CASE AdmitIntent
  <2>1. \E l \in {"decomposing", "dissolve", "idle"} : Goto(Requester, l)
    BY <1>6 DEF AdmitIntent, AfterReply
  <2> QED BY <1>1, <1>6, <2>1 DEF AdmitIntent, Search
<1>7. CASE Decompose
  BY <1>1, <1>7 DEF Decompose, Search
<1>8. CASE Discover
  <2>1. \E l \in {"soliciting", "dissolve", "idle"} : Goto(Requester, l)
    BY <1>8 DEF Discover, AfterReply, AfterSend
  <2> QED BY <1>1, <1>8, <2>1 DEF Discover, Search
<1>9. ASSUME NEW a \in Agents, RequestOffer(a) PROVE Advances
  <2>1. CASE todo' = {}
    BY <1>1, <1>9, <2>1 DEF RequestOffer, Search
  <2>2. CASE todo' # {}
    BY <1>0, <1>9, <2>2 DEF RequestOffer, Goto, PcType, Advances
  <2> QED BY <2>1, <2>2
<1>10. CASE Accept \/ Reject \/ Renegotiate
  <2>1. CASE cycles' = cycles + 1
    BY <1>0, <2>1 DEF Advances
  <2>2. CASE /\ UNCHANGED <<todo, due>> /\ plansOut # <<>> /\ plansOut' = Tail(plansOut)
             /\ pc[Requester] = "idle"
             /\ \E l \in {"idle", "approved", "dissolve"} : Goto(Requester, l) \/ pc' = pc
    BY <1>0, <2>2 DEF Goto, PcType, Advances, Search
  <2> QED BY <1>10, <2>1, <2>2 DEF Accept, Reject, Renegotiate, Answer, AfterReply
<1>11. CASE Finalize \/ BuildGraph \/ Authorize
  BY <1>2, <1>11 DEF Finalize, BuildGraph, Authorize, Search, Pass
<1>12. CASE RunGraph
  BY <1>2, <1>12 DEF RunGraph, Search, Pass
<1>13. CASE Validate
  <2>1. CASE cycles' = cycles + 1
    BY <1>0, <2>1 DEF Advances
  <2>2. CASE \E l \in {"completing", "dissolve", "idle"} : Goto(Requester, l)
    BY <1>2, <1>13, <2>2 DEF Validate, Search, Pass
  <2> QED BY <1>13, <2>1, <2>2 DEF Validate, ValidationRenegotiate, AfterSend
<1>14. CASE Complete
  <2>1. \E l \in {"dissolve", "idle"} : Goto(Requester, l)
    BY <1>14 DEF Complete, AfterSend
  <2> QED BY <1>2, <1>14, <2>1 DEF Complete, Search, Pass
<1>15. ASSUME NEW t \in Tasks, Dissolution(t) PROVE Advances
  <2>1. \E l \in {"d_requester", "d_agents", "idle"} :
          Goto(t, l) /\ Pass(l) > Pass(pc[t]) /\ Search(l) = Search(pc[t])
    BY <1>15 DEF Dissolution, Dissolve, DissolveRequester, DissolveAgents, AfterSend,
       Pass, Search
  <2>2. UNCHANGED <<todo, due, plansOut>>
    BY <1>15 DEF Dissolution, Dissolve, DissolveRequester, DissolveAgents
  <2> QED BY <1>2, <1>4, <2>1, <2>2 DEF Tasks
<1>16. ASSUME NEW a \in Agents, HandleOffer(a) \/ Decline(a) PROVE Advances
  <2>1. due[a] > 0 /\ due' = [due EXCEPT ![a] = @ - 1] /\ UNCHANGED todo
    BY <1>16 DEF HandleOffer, Decline
  <2>2. pc'[Requester] = pc[Requester]
    BY <1>0, <1>16 DEF HandleOffer, Decline, Goto, PcType
  <2> QED BY <2>1, <2>2 DEF Advances
<1>17. ASSUME NEW a \in Agents, AgentReject(a) PROVE FALSE
  BY <1>17 DEF AgentReject
<1>18. ASSUME NEW a \in Agents, CheckResponses(a) \/ Decide(a) \/ Compose(a)
       PROVE  Advances
  BY <1>4, <1>18 DEF CheckResponses, Decide, Compose, Pass
<1>19. ASSUME NEW a \in Agents, Publish(a) \/ Propose(a) PROVE Advances
  <2>1. \E l \in {"dissolve", "explaining", "idle"} : Goto(a, l) /\ Pass(l) > Pass(pc[a])
    BY <1>19 DEF Publish, Propose, AfterSend, Pass
  <2> QED BY <1>4, <1>19, <2>1 DEF Publish, Propose
<1>20. ASSUME NEW a \in Agents, NextPending(a) PROVE Advances
  <2>1. PICK i \in Pending(a) : idx' = [idx EXCEPT ![a] = i]
    BY <1>20 DEF NextPending
  <2>2. i >= idx[a] /\ idx'[a] = i /\ idx[a] \in Nat /\ i \in Nat
    BY <1>0, <2>1, TypeParts DEF Pending, MarketType
  <2>3. AgentAdvances(a) /\ pc'[Requester] = pc[Requester]
    BY <1>0, <1>20, <2>2 DEF NextPending, Goto, PcType, AgentAdvances, Pass
  <2> QED BY <1>3, <1>20, <2>3 DEF NextPending
<1>21. ASSUME NEW a \in Agents, Acceptance(a) PROVE Advances
  <2>1. AgentAdvances(a) /\ pc'[Requester] = pc[Requester]
    BY <1>0, <1>21 DEF Acceptance, Goto, PcType, AgentAdvances, Pass
  <2> QED BY <1>3, <1>21, <2>1 DEF Acceptance
<1>22. ASSUME NEW a \in Agents, AgentComplete(a) PROVE Advances
  BY <1>22 DEF AgentComplete, Advances
<1> QED BY <1>5, <1>6, <1>7, <1>8, <1>9, <1>10, <1>11, <1>12, <1>13, <1>14, <1>15,
           <1>16, <1>17, <1>18, <1>19, <1>20, <1>21, <1>22
        DEF Handlers, RequesterTask, AgentTask, Dissolution, Tasks

(* Each step of a handler brings the session nearer to its end, whatever   *)
(* the handlers do to each other, unless an agent calls the session off or *)
(* a connection closes.                                                    *)
THEOREM SessionAlwaysAdvances == Spec => SessionAdvances
<1>1. TypeOK /\ [Next]_vars => [~Declining /\ up' = up => Advances]_vars
  <2> SUFFICES ASSUME TypeOK, Next, ~Declining, up' = up PROVE Advances \/ UNCHANGED vars
    OBVIOUS
  <2>1. CASE Handlers
    BY <2>1, AdvanceStep
  <2>2. CASE \E t \in Tasks : Close(t)
    BY <2>2, TypeParts DEF Close, LinkType
  <2> QED BY <2>1, <2>2 DEF Next, Done
<1> QED BY <1>1, TypeCorrect, PTL DEF Spec, SessionAdvances
----------------------------------------------------------------------------
(* The race behind the finding that the plan run need not be the plan      *)
(* approved is one of several offers.  Where one agent makes one offer for *)
(* an intent, one thing at a time is under way: an offer owed, its way to  *)
(* a plan, the plan put to the requester, or the requester's own handler.  *)
Bit(b) == IF b THEN 1 ELSE 0
Load(a) == due[a] + Bit(pc[a] \in Converging)
             + Len(plansOut) + Bit(pc[Requester] # "idle")

(* While that is so, the composition plan is the plan that is put to the   *)
(* requester, and stays it until the answer has been acted on.             *)
LoneInv(a) ==
  /\ Load(a) <= 1
  /\ stage = "none" => Load(a) = 0 /\ pc[a] = "idle"
  /\ pc[a] = "explaining" => plan.steps = draft[a]
  /\ plansOut # <<>> => plan.steps = Head(plansOut)
  /\ pc[Requester] \in {"approved", "graph"} => plan.steps = approved

(* Of four numbers that add up to one at most, one at most is not zero.    *)
LEMMA OneOfFour ==
  ASSUME NEW d \in Nat, NEW n \in Nat, NEW b \in {0, 1}, NEW r \in {0, 1},
         d + b + n + r <= 1
  PROVE  /\ d > 0 => d = 1 /\ b = 0 /\ n = 0 /\ r = 0
         /\ b = 1 => d = 0 /\ n = 0 /\ r = 0
         /\ n > 0 => d = 0 /\ b = 0 /\ n = 1 /\ r = 0
         /\ r = 1 => d = 0 /\ b = 0 /\ n = 0
OBVIOUS

(* What the load says of its four parts.                                   *)
LEMMA LoadParts ==
  ASSUME NEW a \in Agents, due[a] \in Nat, plansOut \in Seq(Steps), Load(a) <= 1
  PROVE  /\ due[a] > 0 =>
              due[a] = 1 /\ pc[a] \notin Converging /\ plansOut = <<>> /\ pc[Requester] = "idle"
         /\ pc[a] \in Converging => due[a] = 0 /\ plansOut = <<>> /\ pc[Requester] = "idle"
         /\ plansOut # <<>> =>
              /\ due[a] = 0 /\ pc[a] \notin Converging /\ pc[Requester] = "idle"
              /\ Len(plansOut) = 1 /\ Tail(plansOut) = <<>>
         /\ pc[Requester] # "idle" => due[a] = 0 /\ pc[a] \notin Converging /\ plansOut = <<>>
<1>1. Len(plansOut) \in Nat /\ (Len(plansOut) = 0 <=> plansOut = <<>>)
  BY EmptySeq, LenProperties
<1>2. ASSUME Len(plansOut) = 1 PROVE Tail(plansOut) = <<>>
  <2>1. Tail(plansOut) \in Seq(Steps) /\ Len(Tail(plansOut)) = 0
    BY <1>1, <1>2, HeadTailProperties
  <2> QED BY <2>1, EmptySeq
<1> DEFINE b == Bit(pc[a] \in Converging)
           n == Len(plansOut)
           r == Bit(pc[Requester] # "idle")
<1>3. /\ b \in {0, 1} /\ (b = 1 <=> pc[a] \in Converging)
      /\ r \in {0, 1} /\ (r = 1 <=> pc[Requester] # "idle")
  BY DEF Bit
<1>4. due[a] + b + n + r <= 1
  BY DEF Load
<1>5. n \in Nat /\ (n = 0 <=> plansOut = <<>>) /\ (n = 1 => Tail(plansOut) = <<>>)
  BY <1>1, <1>2
<1>6. /\ due[a] > 0 => due[a] = 1 /\ b = 0 /\ n = 0 /\ r = 0
      /\ b = 1 => due[a] = 0 /\ n = 0 /\ r = 0
      /\ n > 0 => due[a] = 0 /\ b = 0 /\ n = 1 /\ r = 0
      /\ r = 1 => due[a] = 0 /\ b = 0 /\ n = 0
  <2> HIDE DEF b, n, r
  <2> QED BY <1>3, <1>4, <1>5, OneOfFour
<1> QED
  <2> HIDE DEF b, r
  <2> QED BY <1>3, <1>5, <1>6

(* A step that adds nothing to the load and leaves the plans alone.        *)
LEMMA LoneKept ==
  ASSUME NEW a \in Agents, due[a] \in Nat, due'[a] \in Nat, plansOut \in Seq(Steps),
         LoneInv(a), UNCHANGED <<plansOut, plan, draft>>, due'[a] <= due[a],
         pc'[a] \in Converging => pc[a] \in Converging,
         pc'[a] # "explaining",
         pc'[Requester] # "idle" => pc[Requester] # "idle",
         pc'[Requester] \in {"approved", "graph"} =>
           pc[Requester] \in {"approved", "graph"} /\ approved' = approved,
         stage' = "none" => stage = "none" /\ pc'[a] = pc[a]
  PROVE  LoneInv(a)'
<1>1. Load(a)' <= Load(a) /\ Load(a)' \in Nat /\ Load(a) \in Nat
  BY DEF Load, Bit
<1> QED BY <1>1 DEF LoneInv

LEMMA LoneStep ==
  ASSUME TypeOK, NEW a, Agents = {a}, Capabilities = 1, LoneInv(a), [Next]_vars
  PROVE  LoneInv(a)'
<1> USE RequesterAssumption, BoundsAssumption DEF lifecycle, market, links, locals, history
<1>0. /\ PcType /\ Requester \in Tasks /\ Agents \subseteq Tasks /\ a \in Agents
      /\ Tasks = {a, Requester} /\ a # Requester
      /\ due \in [Agents -> Nat] /\ plansOut \in Seq(Steps) /\ todo \subseteq Agents
      /\ plan \in Plan /\ draft \in [Agents -> Steps] /\ due' \in [Agents -> Nat]
      /\ NoSteps \in Steps
  BY TypeParts, TypeStep, StepsType DEF LinkType, MarketType, LocalType, Tasks
<1>l. /\ due[a] > 0 =>
           due[a] = 1 /\ pc[a] \notin Converging /\ plansOut = <<>> /\ pc[Requester] = "idle"
      /\ pc[a] \in Converging => due[a] = 0 /\ plansOut = <<>> /\ pc[Requester] = "idle"
      /\ plansOut # <<>> =>
           /\ due[a] = 0 /\ pc[a] \notin Converging /\ pc[Requester] = "idle"
           /\ Len(plansOut) = 1 /\ Tail(plansOut) = <<>>
      /\ pc[Requester] # "idle" => due[a] = 0 /\ pc[a] \notin Converging /\ plansOut = <<>>
  BY <1>0, LoadParts DEF LoneInv
<1>k. ASSUME UNCHANGED <<plansOut, plan, draft>>, due'[a] <= due[a],
             pc'[a] \in Converging => pc[a] \in Converging, pc'[a] # "explaining",
             pc'[Requester] # "idle" => pc[Requester] # "idle",
             pc'[Requester] \in {"approved", "graph"} =>
               pc[Requester] \in {"approved", "graph"} /\ approved' = approved,
             stage' = "none" => stage = "none" /\ pc'[a] = pc[a]
      PROVE  LoneInv(a)'
  BY <1>0, <1>k, LoneKept
(* The requester's handler, once it is under way: what it does to the plan *)
(* nobody else is looking at.                                              *)
<1>r. ASSUME NEW l, pc[Requester] # "idle", Goto(Requester, l), stage' # "none",
             UNCHANGED <<plansOut, due>>,
             l \in {"approved", "graph"} => plan'.steps = approved'
      PROVE  LoneInv(a)'
  <2>1. /\ due'[a] = 0 /\ plansOut' = <<>> /\ pc'[a] = pc[a] /\ pc[a] \notin Converging
        /\ pc'[Requester] = l
    BY <1>0, <1>l, <1>r DEF Goto, PcType
  <2>2. Load(a)' <= 1
    BY <1>0, <2>1 DEF Load, Bit
  <2> QED BY <1>r, <2>1, <2>2 DEF LoneInv, Converging
<1>n. stage = "none" => due[a] = 0 /\ pc[a] = "idle" /\ plansOut = <<>> /\ pc[Requester] = "idle"
  BY <1>0 DEF LoneInv, Load, Bit
<1>1. CASE UNCHANGED vars
  BY <1>1 DEF vars, LoneInv, Load, Bit
<1>2. CASE HandleIntent
  <2>1. due'[a] = 0 /\ plansOut' = <<>> /\ pc'[a] = "idle" /\ pc'[Requester] = "admission"
    BY <1>0, <1>2, <1>n DEF HandleIntent, Goto, PcType
  <2> QED BY <1>2, <2>1 DEF HandleIntent, LoneInv, Load, Bit
<1>3. CASE AdmitIntent \/ Decompose \/ Discover
  BY <1>3, <1>r, <1>n DEF AdmitIntent, Decompose, Discover, AfterReply, AfterSend
<1>4. CASE \E b \in Agents : RequestOffer(b)
  <2>1. /\ pc[Requester] = "soliciting" /\ a \in todo /\ Goto(Requester, "idle")
        /\ due'[a] \in {due[a], due[a] + 1} /\ UNCHANGED <<plansOut, plan, draft, stage>>
    BY <1>0, <1>4 DEF RequestOffer
  <2>2. /\ pc'[a] = pc[a] /\ pc[a] \notin Converging /\ due'[a] \in {0, 1}
        /\ plansOut' = <<>> /\ pc'[Requester] = "idle" /\ stage' # "none"
    BY <1>0, <1>l, <1>n, <2>1 DEF Goto, PcType
  <2> QED BY <2>2 DEF LoneInv, Load, Bit, Converging
<1>5. CASE Answer /\ (Accept \/ Reject \/ Renegotiate)
  <2>1. /\ plansOut' = <<>> /\ due'[a] = 0 /\ pc'[a] = pc[a] /\ pc[a] \notin Converging
        /\ stage' = stage /\ stage # "none" /\ plansOut # <<>>
    BY <1>0, <1>l, <1>n, <1>5 DEF Answer, Accept, Reject, Renegotiate, Goto, PcType
  <2>2. Load(a)' <= 1
    BY <2>1 DEF Load, Bit
  <2>3. pc'[Requester] \in {"approved", "graph"} => plan'.steps = approved'
    BY <1>0, <1>5, <2>1 DEF Accept, Reject, Renegotiate, Answer, AfterReply, Goto, PcType, LoneInv
  <2> QED BY <2>1, <2>2, <2>3 DEF LoneInv, Converging
<1>6. CASE Finalize \/ BuildGraph
  BY <1>6, <1>r, <1>n DEF Finalize, BuildGraph, LoneInv
<1>7. CASE Authorize \/ RunGraph \/ Validate \/ Complete
  BY <1>7, <1>r, <1>n DEF Authorize, RunGraph, Validate, ValidationRenegotiate, Complete,
                         AfterSend
<1>8. CASE Dissolution(Requester)
  BY <1>8, <1>r, <1>n DEF Dissolution, Dissolve, DissolveRequester, DissolveAgents, AfterSend
<1>9. CASE Dissolution(a)
  <2>1. /\ \E l \in {"idle", "d_requester", "d_agents"} : Goto(a, l)
        /\ UNCHANGED <<plansOut, plan, draft, due, approved>>
        /\ pc[a] # "idle" /\ stage' # "none"
    BY <1>9, <1>n DEF Dissolution, Dissolve, DissolveRequester, DissolveAgents, AfterSend
  <2>2. pc'[Requester] = pc[Requester] /\ pc'[a] \in {"idle", "d_requester", "d_agents"}
    BY <1>0, <2>1 DEF Goto, PcType
  <2> QED BY <1>0, <1>k, <2>1, <2>2 DEF Converging
<1>10. CASE HandleOffer(a)
  <2>1. due[a] = 1 /\ due'[a] = 0 /\ plansOut' = <<>> /\ UNCHANGED stage /\ stage # "none"
    BY <1>0, <1>l, <1>n, <1>10 DEF HandleOffer
  <2>2. pc'[a] \in {"idle", "offered"} /\ pc'[Requester] = "idle"
    BY <1>0, <1>l, <1>10 DEF HandleOffer, Goto, PcType
  <2> QED BY <2>1, <2>2 DEF LoneInv, Load, Bit
<1>11. CASE Decline(a) \/ AgentReject(a)
  <2>1. /\ UNCHANGED <<plansOut, plan, draft, stage, approved>> /\ due'[a] <= due[a]
        /\ pc'[Requester] = pc[Requester] /\ pc'[a] \in {"idle", "dissolve"}
        /\ stage # "none"
    BY <1>0, <1>n, <1>11 DEF Decline, AgentReject, Goto, PcType
  <2> QED BY <1>k, <2>1 DEF Converging
<1>12. CASE CheckResponses(a) \/ NextPending(a) \/ Acceptance(a) \/ Compose(a) \/ Decide(a)
            \/ Publish(a)
  <2>1. pc[a] \in Converging /\ UNCHANGED <<due, plansOut, stage>> /\ stage # "none"
    BY <1>12, <1>n DEF CheckResponses, NextPending, Acceptance, Compose, Decide, Publish,
                       Converging
  <2>2. \E l \in AgentPCs : Goto(a, l) /\ (l = "explaining" => Publish(a))
    BY <1>12 DEF CheckResponses, NextPending, Acceptance, Compose, Decide, Publish,
                 AfterSend, AgentPCs, Dissolving
  <2>3. /\ due'[a] = 0 /\ plansOut' = <<>> /\ pc'[Requester] = "idle"
        /\ pc'[a] = "explaining" => Publish(a)
    BY <1>0, <1>l, <2>1, <2>2 DEF Goto, PcType
  <2>4. pc'[a] = "explaining" => plan'.steps = draft'[a]
    BY <1>0, <2>3 DEF Publish, Plan
  <2> QED BY <2>1, <2>3, <2>4 DEF LoneInv, Load, Bit
<1>13. CASE Propose(a)
  <2>1. /\ pc[a] = "explaining" /\ Goto(a, "idle") /\ UNCHANGED <<due, plan, stage>>
        /\ plansOut' \in {plansOut, Append(plansOut, draft[a])} /\ stage # "none"
    BY <1>13, <1>n DEF Propose
  <2>2. /\ due'[a] = 0 /\ plansOut = <<>> /\ pc'[Requester] = "idle" /\ pc'[a] = "idle"
        /\ plan'.steps = draft[a]
    BY <1>0, <1>l, <2>1 DEF Goto, PcType, LoneInv, Converging
  <2>3. Len(plansOut') <= 1 /\ (plansOut' # <<>> => Head(plansOut') = draft[a])
    <3>1. CASE plansOut' = plansOut
      BY <2>2, <3>1, EmptySeq
    <3>2. CASE plansOut' = Append(plansOut, draft[a])
      <4>1. plansOut' = <<draft[a]>>
        BY <2>2, <3>2
      <4> QED BY <4>1
    <3> QED BY <2>1, <3>1, <3>2
  <2> QED BY <2>1, <2>2, <2>3 DEF LoneInv, Load, Bit, Converging
<1>14. CASE AgentComplete(a)
  BY <1>14 DEF AgentComplete, LoneInv, Load, Bit
<1>15. CASE \E t \in Tasks : Close(t)
  BY <1>15 DEF Close, LoneInv, Load, Bit
<1>16. Accept \/ Reject \/ Renegotiate => Answer
  BY DEF Accept, Reject, Renegotiate
<1> QED BY <1>0, <1>1, <1>2, <1>3, <1>4, <1>5, <1>6, <1>7, <1>8, <1>9, <1>10, <1>11,
           <1>12, <1>13, <1>14, <1>15, <1>16
        DEF Next, Handlers, RequesterTask, AgentTask, Done

(* Where one agent makes one offer for an intent, the plan that is run is  *)
(* the plan the requester approved, over renegotiations, rejected answers, *)
(* lost connections and failing models: what the finding needs is a second *)
(* handler in _try_converge.                                               *)
THEOREM LoneOfferRunsApproved ==
  (\E a : Agents = {a}) /\ Capabilities = 1 => (Spec => ApprovedIsExecuted)
<1> SUFFICES ASSUME NEW a, Agents = {a}, Capabilities = 1 PROVE Spec => ApprovedIsExecuted
  OBVIOUS
<1>1. Init => LoneInv(a)
  <2> SUFFICES ASSUME Init PROVE LoneInv(a)
    OBVIOUS
  <2> QED BY RequesterAssumption DEF Init, LoneInv, Load, Bit, Converging, Tasks
<1>2. TypeOK /\ LoneInv(a) /\ [Next]_vars => LoneInv(a)'
  BY LoneStep
<1>3. LoneInv(a) => [pc[Requester] = "graph" /\ pc'[Requester] = "authorizing"
                       => plan.steps = approved]_vars
  BY DEF LoneInv
<1> QED BY <1>1, <1>2, <1>3, TypeCorrect, PTL DEF Spec, ApprovedIsExecuted
=============================================================================
