------------------------ MODULE SessionMemory_proofs ------------------------
(***************************************************************************)
(* Proofs about SessionMemory, for every set of agents and of capabilities, *)
(* every length of a plan and whatever the patterns made of identifiers     *)
(* match: its type invariant, who writes where, what a step gets to read,   *)
(* and that cleared memory stays empty.                                     *)
(***************************************************************************)
EXTENDS SessionMemory, Integers, WellFoundedInduction, TLAPS

(* A non-empty set of numbers has a least one, and a greatest one if it is *)
(* bounded.                                                                *)
LEMMA LeastExists ==
  ASSUME NEW S \in SUBSET Nat, S # {}
  PROVE  \E i \in S : \A j \in S : i <= j
<1> DEFINE R == OpToRel(<, Nat)
<1>1. IsWellFoundedOn(R, Nat)
  BY NatLessThanWellFounded
<1>2. \A i, j \in Nat : j < i => <<j, i>> \in R
  BY DEF OpToRel
<1> HIDE DEF R
<1>3. PICK i \in S : \A j \in S : ~(<<j, i>> \in R)
  BY <1>1, WFMin
<1>4. \A j \in S : ~(j < i)
  BY <1>2, <1>3
<1>5. \A j \in S : i <= j
  BY <1>4
<1> QED BY <1>5

LEMMA GreatestExists ==
  ASSUME NEW n \in Nat, NEW S \in SUBSET (1..n), S # {}
  PROVE  \E i \in S : \A j \in S : j <= i
<1> DEFINE T == {n - i : i \in S}
<1>1. \A i \in S : n - i \in Nat
  OBVIOUS
<1>2. T \in SUBSET Nat /\ T # {}
  BY <1>1
<1>3. PICK m \in T : \A k \in T : m <= k
  BY <1>2, LeastExists
<1>4. PICK i \in S : m = n - i
  BY <1>3
<1>5. \A j \in S : n - i <= n - j
  BY <1>3, <1>4
<1>6. \A j \in S : j <= i
  BY <1>5
<1> QED BY <1>6

(* A plan is a sequence of steps, and an agent that is in it has a last    *)
(* step.                                                                    *)
LEMMA PlanFacts ==
  ASSUME NEW p \in MemoryPlans
  PROVE  /\ \E n \in Nat : DOMAIN p = 1..n
         /\ \A i \in DOMAIN p : p[i].agent \in MemoryAgents /\ p[i].capability \in Abilities
<1>1. PICK n \in 1..PlanLength : p \in [1..n -> PlanSteps]
  BY DEF MemoryPlans
<1>2. n \in Nat
  BY <1>1, PlanLengthAssumption
<1> QED BY <1>1, <1>2 DEF PlanSteps

LEMMA LastStep ==
  ASSUME NEW p \in MemoryPlans, NEW a, StepsOf(p, a) # {}
  PROVE  /\ Last(StepsOf(p, a)) \in StepsOf(p, a)
         /\ \A j \in StepsOf(p, a) : j <= Last(StepsOf(p, a))
<1>1. PICK n \in Nat : DOMAIN p = 1..n
  BY PlanFacts
<1>2. StepsOf(p, a) \in SUBSET (1..n)
  BY <1>1 DEF StepsOf
<1>3. \E i \in StepsOf(p, a) : \A j \in StepsOf(p, a) : j <= i
  BY <1>2, GreatestExists
<1> QED BY <1>3 DEF Last

LEMMA BeforeAgents ==
  ASSUME NEW p \in MemoryPlans, NEW i \in DOMAIN p
  PROVE  Before(p, i) \in SUBSET MemoryAgents
<1>1. PICK n \in Nat : DOMAIN p = 1..n
  BY PlanFacts
<1>2. \A j \in 1..(i - 1) : j \in DOMAIN p
  BY <1>1
<1> QED BY <1>2, PlanFacts DEF Before

(* A step's policy is what the patterns match.                             *)
LEMMA StepPolicyType ==
  ASSUME NEW p \in MemoryPlans, NEW i \in DOMAIN p
  PROVE  StepPolicy(p, i) \in [reads : SUBSET Keys, writes : SUBSET Keys]
<1>1. p[i].agent \in MemoryAgents /\ p[i].capability \in Abilities
  BY PlanFacts
<1>2. UNION {AgentPattern[b] : b \in Before(p, i) \ {p[i].agent}} \subseteq Keys
  BY BeforeAgents, PatternAssumption
<1>3. /\ SharedPattern \subseteq Keys
      /\ AbilityPattern[p[i].capability] \cup AgentPattern[p[i].agent] \in SUBSET Keys
  BY <1>1, PatternAssumption
<1> QED BY <1>2, <1>3 DEF StepPolicy

(* The policy of each agent after a plan was built.                        *)
LEMMA PoliciesForEach ==
  ASSUME NEW p \in MemoryPlans, NEW a \in MemoryAgents
  PROVE  /\ StepsOf(p, a) = {} => PoliciesFor(p)[a] = policies[a]
         /\ StepsOf(p, a) # {} =>
               /\ PoliciesFor(p)[a] = StepPolicy(p, Last(StepsOf(p, a)))
               /\ Last(StepsOf(p, a)) \in DOMAIN p
               /\ p[Last(StepsOf(p, a))].agent = a
<1>1. StepsOf(p, a) # {} => Last(StepsOf(p, a)) \in StepsOf(p, a)
  BY LastStep
<1> QED BY <1>1 DEF PoliciesFor, StepsOf

-----------------------------------------------------------------------------

(* A run that waits is at a step of its plan.                              *)
WaitingInv == executor = "waiting" => at \in DOMAIN plan

TypeInv == MemoryTypeOK /\ WaitingInv

LEMMA WaitingAgent ==
  ASSUME TypeInv, executor = "waiting"
  PROVE  plan \in MemoryPlans /\ plan[at].agent \in MemoryAgents
<1>1. at \in DOMAIN plan
  BY DEF TypeInv, WaitingInv
<1>2. plan \in MemoryPlans
  BY <1>1 DEF TypeInv, MemoryTypeOK
<1> QED BY <1>1, <1>2, PlanFacts

(* The type invariant, with the place of the run in its plan.              *)
THEOREM MemoryTypeCorrect == MemorySpec => [](MemoryTypeOK /\ WaitingInv)
<1>1. MemoryInit => TypeInv
  <2> SUFFICES ASSUME MemoryInit PROVE TypeInv
    OBVIOUS
  <2>1. policies \in [MemoryAgents -> [reads : SUBSET Keys, writes : SUBSET Keys]]
    BY DEF MemoryInit, NoPolicy
  <2>2. store \in [Keys -> MemoryAgents \cup {"absent", "coordinator"}]
    BY DEF MemoryInit, Empty
  <2> QED BY <2>1, <2>2 DEF MemoryInit, TypeInv, MemoryTypeOK, WaitingInv
<1>2. TypeInv /\ [MemoryNext]_memoryVars => TypeInv'
  <2> SUFFICES ASSUME TypeInv, [MemoryNext]_memoryVars PROVE TypeInv'
    OBVIOUS
  <2> USE DEF TypeInv, MemoryTypeOK, WaitingInv
  <2>1. ASSUME NEW p \in MemoryPlans, Build(p) PROVE TypeInv'
    <3>1. PoliciesFor(p) \in [MemoryAgents -> [reads : SUBSET Keys, writes : SUBSET Keys]]
      <4>1. ASSUME NEW a \in MemoryAgents
            PROVE  PoliciesFor(p)[a] \in [reads : SUBSET Keys, writes : SUBSET Keys]
        BY PoliciesForEach, StepPolicyType
      <4> QED BY <4>1 DEF PoliciesFor
    <3>2. store' \in [Keys -> MemoryAgents \cup {"absent", "coordinator"}]
      BY <2>1 DEF Build
    <3>3. given' \subseteq MemoryAgents \X Abilities
      BY <2>1, PlanFacts DEF Build
    <3> QED BY <2>1, <3>1, <3>2, <3>3 DEF Build
  <2>2. ASSUME NEW i \in 1..PlanLength, DispatchStep(i) PROVE TypeInv'
    BY <2>2 DEF DispatchStep, SnapshotFor, Stored
  <2>3. ASSUME NEW staged \in Batches, ApplyWrites(staged) PROVE TypeInv'
    BY <2>3, WaitingAgent DEF ApplyWrites, dispatched
  <2>4. CASE StepFails
    BY <2>4 DEF StepFails, dispatched
  <2>5. CASE Clear
    BY <2>5 DEF Clear, dispatched, Empty, NoPolicy
  <2>6. CASE Remove
    BY <2>6 DEF Remove, dispatched
  <2>7. CASE UNCHANGED memoryVars
    BY <2>7 DEF memoryVars, dispatched
  <2> QED BY <2>1, <2>2, <2>3, <2>4, <2>5, <2>6, <2>7 DEF MemoryNext
<1>3. TypeInv => MemoryTypeOK /\ WaitingInv
  BY DEF TypeInv
<1> QED BY <1>1, <1>2, <1>3, PTL DEF MemorySpec

-----------------------------------------------------------------------------

(* Policies: what an agent may write is its pattern's or was given to it by *)
(* some plan; its last step's policy as long as the *)
(* memory is open, that or none afterwards; none once it is cleared, unless *)
(* a plan was built after that.                                             *)
PolicyOf(a) == StepPolicy(plan, Last(StepsOf(plan, a)))

PolicyInv ==
    \A a \in MemoryAgents :
        /\ policies[a].writes \subseteq AgentPattern[a] \cup Given(a)
        /\ StepsOf(plan, a) # {} =>
              /\ policies[a] \in {NoPolicy, PolicyOf(a)}
              /\ memoryStage = "open" => policies[a] = PolicyOf(a)
        /\ memoryStage # "open" /\ ~rebuilt => policies[a] = NoPolicy

LEMMA PolicyUnchanged ==
  ASSUME PolicyInv, UNCHANGED <<plan, policies, rebuilt, given>>,
         memoryStage' = "open" => memoryStage = "open",
         memoryStage' # "open" => memoryStage # "open"
  PROVE  PolicyInv'
BY DEF PolicyInv, PolicyOf, Given

(* What a plan gives its steps, and that nothing given is taken back.      *)
LEMMA BuildGives ==
  ASSUME NEW p \in MemoryPlans, Build(p)
  PROVE  /\ \A a : Given(a) \subseteq Given(a)'
         /\ \A i \in DOMAIN p : AbilityPattern[p[i].capability] \subseteq Given(p[i].agent)'
<1>1. given' = given \cup {<<p[i].agent, p[i].capability>> : i \in DOMAIN p}
  BY DEF Build
<1>2. \A i \in DOMAIN p : p[i].capability \in Abilities
  BY PlanFacts
<1>3. ASSUME NEW i \in DOMAIN p, NEW k \in AbilityPattern[p[i].capability]
      PROVE  k \in Given(p[i].agent)'
  <2>1. <<p[i].agent, p[i].capability>> \in given'
    BY <1>1
  <2> QED BY <1>2, <1>3, <2>1 DEF Given
<1>4. \A a : Given(a) \subseteq Given(a)'
  BY <1>1 DEF Given
<1> QED BY <1>3, <1>4

LEMMA PolicyInvariant == MemorySpec => []PolicyInv
<1>1. MemoryInit => PolicyInv
  <2> SUFFICES ASSUME MemoryInit PROVE PolicyInv
    OBVIOUS
  <2>1. \A a \in MemoryAgents :
           policies[a] = NoPolicy /\ memoryStage = "open" /\ StepsOf(plan, a) = {}
    <3>1. DOMAIN <<>> = {}
      OBVIOUS
    <3>2. \A a : StepsOf(<<>>, a) = {}
      BY <3>1 DEF StepsOf
    <3> QED BY <3>2 DEF MemoryInit
  <2>2. NoPolicy.writes = {}
    BY DEF NoPolicy
  <2> QED BY <2>1, <2>2 DEF PolicyInv
<1>2. TypeInv /\ PolicyInv /\ [MemoryNext]_memoryVars => PolicyInv'
  <2> SUFFICES ASSUME TypeInv, PolicyInv, [MemoryNext]_memoryVars PROVE PolicyInv'
    OBVIOUS
  <2>1. ASSUME NEW p \in MemoryPlans, Build(p) PROVE PolicyInv'
    <3>1. plan' = p /\ policies' = PoliciesFor(p) /\ (memoryStage' # "open" => rebuilt')
      BY <2>1 DEF Build
    <3>2. ASSUME NEW a \in MemoryAgents
          PROVE  /\ PoliciesFor(p)[a].writes \subseteq AgentPattern[a] \cup Given(a)'
                 /\ StepsOf(p, a) # {} =>
                       PoliciesFor(p)[a] = StepPolicy(p, Last(StepsOf(p, a)))
      <4>1. CASE StepsOf(p, a) = {}
        BY <2>1, <4>1, PoliciesForEach, BuildGives DEF PolicyInv
      <4>2. CASE StepsOf(p, a) # {}
        <5> DEFINE i == Last(StepsOf(p, a))
        <5>1. PoliciesFor(p)[a] = StepPolicy(p, i) /\ i \in DOMAIN p /\ p[i].agent = a
          BY <4>2, PoliciesForEach
        <5>2. AbilityPattern[p[i].capability] \subseteq Given(a)'
          BY <2>1, <5>1, BuildGives
        <5> QED BY <5>1, <5>2 DEF StepPolicy
      <4> QED BY <4>1, <4>2
    <3> QED BY <3>1, <3>2 DEF PolicyInv, PolicyOf
  <2>2. ASSUME NEW i \in 1..PlanLength, DispatchStep(i) PROVE PolicyInv'
    BY <2>2, PolicyUnchanged DEF DispatchStep
  <2>3. ASSUME NEW staged \in Batches, ApplyWrites(staged) PROVE PolicyInv'
    BY <2>3, PolicyUnchanged DEF ApplyWrites
  <2>4. CASE StepFails
    BY <2>4, PolicyUnchanged DEF StepFails
  <2>5. CASE Clear
    <3>1. \A a \in MemoryAgents : policies'[a] = NoPolicy
      BY <2>5 DEF Clear
    <3>2. memoryStage' # "open" /\ plan' = plan
      BY <2>5 DEF Clear
    <3> QED BY <3>1, <3>2 DEF PolicyInv, NoPolicy
  <2>6. CASE Remove
    BY <2>6, PolicyUnchanged DEF Remove
  <2>7. CASE UNCHANGED memoryVars
    BY <2>7, PolicyUnchanged DEF memoryVars
  <2> QED BY <2>1, <2>2, <2>3, <2>4, <2>5, <2>6, <2>7 DEF MemoryNext
<1> QED BY <1>1, <1>2, MemoryTypeCorrect, PTL DEF MemorySpec, TypeInv

-----------------------------------------------------------------------------

(* Only ApplyWrites lets agents write, and only where a policy admits it,  *)
(* except one that has the coordinator's name.                              *)
THEOREM NamespacesAlwaysOwn == MemorySpec => []NamespacesAreOwn
<1>1. MemoryInit => NamespacesAreOwn
  BY NoOneAssumption DEF MemoryInit, NamespacesAreOwn, Empty
<1>2. TypeInv /\ PolicyInv /\ NamespacesAreOwn /\ [MemoryNext]_memoryVars
        => NamespacesAreOwn'
  <2> SUFFICES ASSUME TypeInv, PolicyInv, NamespacesAreOwn, [MemoryNext]_memoryVars
               PROVE  NamespacesAreOwn'
    OBVIOUS
  <2>1. ASSUME NEW p \in MemoryPlans, Build(p) PROVE NamespacesAreOwn'
    <3>1. \A k \in Keys : store'[k] \in {store[k], "coordinator"}
      BY <2>1 DEF Build, TypeInv, MemoryTypeOK
    <3>2. \A a : Given(a) \subseteq Given(a)'
      BY <2>1, BuildGives
    <3> QED BY <3>1, <3>2 DEF NamespacesAreOwn
  <2>2. ASSUME NEW staged \in Batches, ApplyWrites(staged) PROVE NamespacesAreOwn'
    <3> DEFINE b == plan[at].agent
    <3>1. b \in MemoryAgents
      BY <2>2, WaitingAgent DEF ApplyWrites
    <3>2. policies[b].writes \subseteq AgentPattern[b] \cup Given(b)
      BY <3>1 DEF PolicyInv
    <3>3. ASSUME NEW k \in Keys, b # "coordinator"
          PROVE  store'[k] = store[k] \/ (store'[k] = b /\ k \in policies[b].writes)
      BY <2>2, <3>3 DEF ApplyWrites, Writable
    <3>4. ASSUME NEW k \in Keys, b = "coordinator"
          PROVE  store'[k] = store[k] \/ store'[k] = "coordinator"
      BY <2>2, <3>4 DEF ApplyWrites
    <3>5. \A a : Given(a)' = Given(a)
      BY <2>2 DEF ApplyWrites, Given
    <3> HIDE DEF b
    <3> QED BY <3>2, <3>3, <3>4, <3>5 DEF NamespacesAreOwn
  <2>3. CASE Clear
    BY <2>3, NoOneAssumption DEF Clear, Empty, NamespacesAreOwn
  <2>4. ASSUME UNCHANGED <<store, given>> PROVE NamespacesAreOwn'
    BY <2>4 DEF NamespacesAreOwn, Given
  <2>5. ASSUME \/ \E i \in 1..PlanLength : DispatchStep(i)
               \/ StepFails \/ Remove \/ UNCHANGED memoryVars
        PROVE  UNCHANGED <<store, given>>
    BY <2>5 DEF DispatchStep, StepFails, Remove, memoryVars
  <2> QED BY <2>1, <2>2, <2>3, <2>4, <2>5 DEF MemoryNext
<1> QED
  BY <1>1, <1>2, MemoryTypeCorrect, PolicyInvariant, PTL DEF MemorySpec, TypeInv

(* Clearing takes the policies with the entries, and nothing gives an agent *)
(* a policy again but a plan that is built; what is written all the same is *)
(* by an agent that has the coordinator's name.                             *)
THEOREM ClearedAlwaysEmpty == MemorySpec => []ClearedStaysEmpty
<1>1. MemoryInit => ClearedStaysEmpty
  BY DEF MemoryInit, ClearedStaysEmpty
<1>2. TypeInv /\ PolicyInv /\ ClearedStaysEmpty /\ [MemoryNext]_memoryVars
        => ClearedStaysEmpty'
  <2> SUFFICES ASSUME TypeInv, PolicyInv, ClearedStaysEmpty, [MemoryNext]_memoryVars,
                      memoryStage' # "open", ~rebuilt',
                      NEW k \in Stored'
               PROVE  store'[k] = "coordinator"
    BY DEF ClearedStaysEmpty
  <2>1. ASSUME NEW p \in MemoryPlans, Build(p) PROVE FALSE
    BY <2>1 DEF Build
  <2> DEFINE Goal == store'[k] = "coordinator"
  <2>2. ASSUME NEW staged \in Batches, ApplyWrites(staged) PROVE Goal
    <3>1. plan[at].agent \in MemoryAgents /\ memoryStage # "open" /\ ~rebuilt
      BY <2>2, WaitingAgent DEF ApplyWrites
    <3>2. plan[at].agent # "coordinator" => Writable(plan[at].agent) = {}
      BY <3>1 DEF PolicyInv, NoPolicy, Writable
    <3>3. store'[k] \in {store[k], "coordinator"}
      BY <2>2, <3>2 DEF ApplyWrites, Stored
    <3> QED BY <3>1, <3>3 DEF ClearedStaysEmpty, Stored
  <2>3. ASSUME Clear PROVE Goal
    BY <2>3 DEF Clear, Empty, Stored
  <2>4. ASSUME \/ \E i \in 1..PlanLength : DispatchStep(i)
               \/ StepFails \/ Remove \/ UNCHANGED memoryVars
        PROVE  Goal
    BY <2>4 DEF DispatchStep, StepFails, Remove, memoryVars, ClearedStaysEmpty, Stored
  <2> QED BY <2>1, <2>2, <2>3, <2>4 DEF MemoryNext
<1> QED
  BY <1>1, <1>2, MemoryTypeCorrect, PolicyInvariant, PTL DEF MemorySpec, TypeInv

-----------------------------------------------------------------------------

(* What was sent was within the policy of the agent's last step.           *)
SnapshotInv ==
    executor = "waiting" => snapshot \subseteq PolicyOf(plan[at].agent).reads

LEMMA StepsOfSelf ==
  ASSUME NEW p \in MemoryPlans, NEW i \in DOMAIN p
  PROVE  /\ p[i].agent \in MemoryAgents
         /\ i \in StepsOf(p, p[i].agent)
BY PlanFacts DEF StepsOf

LEMMA SnapshotInvariant == MemorySpec => []SnapshotInv
<1>1. MemoryInit => SnapshotInv
  BY DEF MemoryInit, SnapshotInv
<1>2. TypeInv /\ PolicyInv /\ SnapshotInv /\ [MemoryNext]_memoryVars => SnapshotInv'
  <2> SUFFICES ASSUME TypeInv, PolicyInv, SnapshotInv, [MemoryNext]_memoryVars
               PROVE  SnapshotInv'
    OBVIOUS
  <2>1. ASSUME NEW i \in 1..PlanLength, DispatchStep(i) PROVE SnapshotInv'
    <3> DEFINE a == plan[i].agent
    <3>1. i \in DOMAIN plan /\ plan \in MemoryPlans
      BY <2>1 DEF DispatchStep, TypeInv, MemoryTypeOK
    <3>2. a \in MemoryAgents /\ StepsOf(plan, a) # {}
      BY <3>1, StepsOfSelf
    <3>3. policies[a].reads \subseteq PolicyOf(a).reads
      BY <3>2 DEF PolicyInv, NoPolicy
    <3>4. snapshot' \subseteq PolicyOf(a).reads
      BY <2>1, <3>3 DEF DispatchStep, SnapshotFor
    <3>5. plan' = plan /\ at' = i
      BY <2>1 DEF DispatchStep
    <3> QED BY <3>4, <3>5 DEF SnapshotInv, PolicyOf
  <2>2. ASSUME executor' # "waiting" PROVE SnapshotInv'
    BY <2>2 DEF SnapshotInv
  <2>3. ASSUME UNCHANGED <<plan, executor, at, snapshot>> PROVE SnapshotInv'
    BY <2>3 DEF SnapshotInv, PolicyOf
  <2>4. ASSUME NEW p \in MemoryPlans, Build(p) PROVE executor' # "waiting"
    BY <2>4 DEF Build
  <2>5. ASSUME NEW staged \in Batches, ApplyWrites(staged) PROVE executor' # "waiting"
    BY <2>5 DEF ApplyWrites
  <2>6. CASE StepFails
    BY <2>2, <2>6 DEF StepFails
  <2>7. CASE Clear \/ Remove \/ UNCHANGED memoryVars
    BY <2>3, <2>7 DEF Clear, Remove, memoryVars, dispatched
  <2> QED BY <2>1, <2>2, <2>4, <2>5, <2>6, <2>7 DEF MemoryNext
<1> QED
  BY <1>1, <1>2, MemoryTypeCorrect, PolicyInvariant, PTL DEF MemorySpec, TypeInv

(* A policy's patterns are those of the steps before the agent's last.     *)
THEOREM SnapshotAlwaysFollowsPlan == MemorySpec => []SnapshotFollowsPlan
<1>1. TypeInv /\ SnapshotInv => SnapshotFollowsPlan
  <2> SUFFICES ASSUME TypeInv, SnapshotInv, executor = "waiting",
                      NEW b \in MemoryAgents, <<"own", b>> \in snapshot \ SharedPattern
               PROVE  \E x \in Before(plan, Last(StepsOf(plan, plan[at].agent))) :
                         <<"own", b>> \in AgentPattern[x]
    BY DEF SnapshotFollowsPlan
  <2>1. <<"own", b>> \in PolicyOf(plan[at].agent).reads
    BY DEF SnapshotInv
  <2> QED BY <2>1 DEF PolicyOf, StepPolicy
<1> QED BY <1>1, MemoryTypeCorrect, SnapshotInvariant, PTL DEF TypeInv

(* The agent's last step is not before the one dispatched, so its policy   *)
(* names every agent that precedes the latter.                              *)
THEOREM PriorResultsAlwaysReach == MemorySpec => PriorResultsReach
<1> DEFINE Reach ==
      \A i \in 1..PlanLength :
          executor = "between" /\ executor' = "waiting" /\ at' = i /\ memoryStage = "open" =>
              \A b \in Before(plan, i) \ {plan[i].agent} :
                  <<"own", b>> \in Stored => <<"own", b>> \in snapshot'
<1>1. TypeInv /\ PolicyInv /\ [MemoryNext]_memoryVars => Reach
  <2> SUFFICES ASSUME TypeInv, PolicyInv, [MemoryNext]_memoryVars,
                      NEW i \in 1..PlanLength,
                      executor = "between", executor' = "waiting", at' = i,
                      memoryStage = "open",
                      NEW b \in Before(plan, i) \ {plan[i].agent},
                      <<"own", b>> \in Stored
               PROVE  <<"own", b>> \in snapshot'
    OBVIOUS
  <2>1. DispatchStep(i)
    <3>1. PICK j \in 1..PlanLength : DispatchStep(j)
      BY DEF MemoryNext, memoryVars, Build, ApplyWrites, StepFails, Clear, Remove
    <3> QED BY <3>1 DEF DispatchStep
  <2>2. i \in DOMAIN plan /\ plan \in MemoryPlans
    BY <2>1 DEF DispatchStep, TypeInv, MemoryTypeOK
  <2> DEFINE a == plan[i].agent
             last == Last(StepsOf(plan, a))
  <2>3. /\ a \in MemoryAgents /\ StepsOf(plan, a) # {}
        /\ last \in StepsOf(plan, a) /\ i <= last
    BY <2>2, StepsOfSelf, LastStep
  <2>4. policies[a] = StepPolicy(plan, last) /\ plan[last].agent = a
    BY <2>3 DEF PolicyInv, PolicyOf, StepsOf
  <2>5. b \in Before(plan, last)
    <3>1. PICK n \in Nat : DOMAIN plan = 1..n
      BY <2>2, PlanFacts
    <3>2. last \in 1..n
      BY <2>3, <3>1 DEF StepsOf
    <3>3. 1..(i - 1) \subseteq 1..(last - 1)
      BY <2>3, <3>2
    <3> QED BY <3>3 DEF Before
  <2>6. b \in MemoryAgents /\ <<"own", b>> \in AgentPattern[b]
    BY <2>2, BeforeAgents, PatternAssumption
  <2>7. <<"own", b>> \in policies[a].reads
    BY <2>4, <2>5, <2>6 DEF StepPolicy
  <2> QED BY <2>1, <2>7 DEF DispatchStep, SnapshotFor
<1> QED
  BY <1>1, MemoryTypeCorrect, PolicyInvariant, PTL
     DEF MemorySpec, PriorResultsReach, TypeInv
=============================================================================
