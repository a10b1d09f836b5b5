--------------------------- MODULE SessionMemory ---------------------------
(***************************************************************************)
(* The memory one session's agents share (core/session/memory.py): keys in *)
(* a common namespace and one namespace for each agent, policies inferred  *)
(* from the composition plan at each build, the snapshot sent with an      *)
(* EXECUTE, the writes that come back with a COMPLETE, and the destruction *)
(* at dissolution, which a run may still be going on under.                *)
(*                                                                         *)
(* Identifiers are strings nothing checks, and patterns are made of them:  *)
(* "<agent>.*" also matches the keys of an agent whose identifier goes on   *)
(* with a dot ("crm" and "crm.reader"), a star in an identifier matches     *)
(* anything, and an agent named "shared" has the common keys for its own.   *)
(* What a pattern matches is therefore a parameter.                         *)
(***************************************************************************)
EXTENDS Naturals

CONSTANTS
    MemoryAgents,
    Abilities,      \* capability identifiers
    PlanLength,     \* bound: steps of a plan
    SharedPattern,  \* the keys "shared.*" matches
    AbilityPattern, \* the keys "shared.<capability>" matches
    AgentPattern    \* the keys "<agent>.*" matches

Seed == <<"shared", "seed">>    \* intent_text and intent_context
SharedKeys == {Seed} \cup {<<"shared", c>> : c \in Abilities}
Keys == SharedKeys \cup {<<"own", a>> : a \in MemoryAgents}

ASSUME PlanLengthAssumption == PlanLength \in Nat \ {0}
ASSUME NoOneAssumption == "absent" \notin MemoryAgents
\* A pattern matches at least the keys it was made for.
ASSUME PatternAssumption ==
    /\ SharedKeys \subseteq SharedPattern /\ SharedPattern \subseteq Keys
    /\ AbilityPattern \in [Abilities -> SUBSET Keys]
    /\ AgentPattern \in [MemoryAgents -> SUBSET Keys]
    /\ \A c \in Abilities : <<"shared", c>> \in AbilityPattern[c]
    /\ \A a \in MemoryAgents : <<"own", a>> \in AgentPattern[a]

VARIABLES
    plan,           \* the composition plan the memory was last set up for
    policies,       \* what each agent may read and write
    store,          \* who wrote each key last
    executor,       \* the run: nothing, between steps, or waiting for an answer
    at,             \* the step it is at
    snapshot,       \* what the step's agent was sent
    held,           \* the executor found the session when it dispatched
    memoryStage,    \* open, memory cleared, session removed
    rebuilt,        \* history: a plan was built after the memory was cleared
    given           \* history: agents and capabilities of steps plans were built of

memoryVars == <<plan, policies, store, executor, at, snapshot, held,
                memoryStage, rebuilt, given>>
dispatched == <<at, snapshot, held>>

PlanSteps == [agent : MemoryAgents, capability : Abilities]
MemoryPlans == UNION {[1..n -> PlanSteps] : n \in 1..PlanLength}
NoPolicy == [reads |-> {}, writes |-> {}]

MemoryTypeOK ==
    /\ plan \in MemoryPlans \cup {<<>>}
    /\ policies \in [MemoryAgents -> [reads : SUBSET Keys, writes : SUBSET Keys]]
    /\ store \in [Keys -> MemoryAgents \cup {"absent", "coordinator"}]
    /\ executor \in {"none", "between", "waiting"}
    /\ at \in {0} \cup DOMAIN plan
    /\ snapshot \subseteq Keys
    /\ memoryStage \in {"open", "cleared", "removed"}
    /\ {held, rebuilt} \subseteq BOOLEAN
    /\ given \subseteq MemoryAgents \X Abilities

Stored == {k \in Keys : store[k] # "absent"}
Empty == [k \in Keys |-> "absent"]

MemoryInit ==
    /\ plan = <<>>
    /\ policies = [a \in MemoryAgents |-> NoPolicy]
    /\ store = Empty
    /\ executor = "none" /\ at = 0 /\ snapshot = {} /\ held = FALSE
    /\ memoryStage = "open" /\ rebuilt = FALSE /\ given = {}

-----------------------------------------------------------------------------
(* Policies *)

Before(p, i) == {p[j].agent : j \in 1..(i - 1)}

\* infer_memory_policies: what step i of plan p gives its agent.
StepPolicy(p, i) ==
    [reads  |-> SharedPattern \cup UNION {AgentPattern[b] : b \in Before(p, i) \ {p[i].agent}},
     writes |-> AbilityPattern[p[i].capability] \cup AgentPattern[p[i].agent]]

StepsOf(p, a) == {i \in DOMAIN p : p[i].agent = a}
Last(is) == CHOOSE i \in is : \A j \in is : j <= i
First(is) == CHOOSE i \in is : \A j \in is : i <= j

\* Slips: an agent that has a policy keeps it; that of its first step is kept.
FirstPolicyStays(p) ==
    [a \in MemoryAgents |->
        IF StepsOf(p, a) = {} \/ policies[a] # NoPolicy
        THEN policies[a] ELSE StepPolicy(p, Last(StepsOf(p, a)))]
PolicyOfFirstStep(p) ==
    [a \in MemoryAgents |->
        IF StepsOf(p, a) = {} THEN policies[a] ELSE StepPolicy(p, First(StepsOf(p, a)))]

\* set_policy for every step in turn: an agent's last step decides, and an
\* agent that is in no step keeps what an earlier plan gave it.
PoliciesFor(p) ==
    [a \in MemoryAgents |->
        IF StepsOf(p, a) = {} THEN policies[a] ELSE StepPolicy(p, Last(StepsOf(p, a)))]

-----------------------------------------------------------------------------
(* The run *)

\* A plan is built: policies, then the seed, whatever became of the session.
Build(p) ==
    /\ executor \in {"none", "between"}
    /\ plan' = p
    /\ policies' = PoliciesFor(p)
    /\ given' = given \cup {<<p[i].agent, p[i].capability>> : i \in DOMAIN p}
    /\ store' = [store EXCEPT ![Seed] = "coordinator"]
    /\ executor' = "between" /\ at' = 0
    /\ snapshot' = {} /\ held' = FALSE
    /\ rebuilt' = (rebuilt \/ memoryStage # "open")
    /\ UNCHANGED memoryStage

\* snapshot_for_agent: what recall() finds during the step.
SnapshotFor(a) == policies[a].reads \cap Stored

\* The graph comes to a step: the next one, or the first of a re-run.
DispatchStep(i) ==
    /\ executor = "between"
    /\ i \in {1, at + 1} \cap DOMAIN plan
    /\ executor' = "waiting" /\ at' = i
    /\ held' = (memoryStage # "removed")
    /\ snapshot' = IF memoryStage = "removed" THEN {}
                   ELSE SnapshotFor(plan[i].agent)
    /\ UNCHANGED <<plan, policies, store, memoryStage, rebuilt, given>>

\* Slip: what an agent may read it may write.
WritableIfReadable(a) == policies[a].writes \cup policies[a].reads

\* _check_write: an agent that has the coordinator's name writes everything.
Writable(a) == IF a = "coordinator" THEN Keys ELSE policies[a].writes

\* remember(): a step may stage any key, the last value of each is sent.
Batches == SUBSET Keys

\* A COMPLETE arrives with the writes the agent staged: those its policy
\* allows, as it is by now, are applied if the session was found.
ApplyWrites(staged) ==
    /\ executor = "waiting"
    /\ executor' = "between"
    /\ store' = [k \in Keys |->
          IF held /\ k \in staged \cap Writable(plan[at].agent)
          THEN plan[at].agent ELSE store[k]]
    /\ UNCHANGED <<plan, policies, dispatched, memoryStage, rebuilt, given>>

\* The wait is over, or the send failed: no write is applied.
StepFails ==
    /\ executor = "waiting"
    /\ executor' = "between"
    /\ UNCHANGED <<plan, policies, store, dispatched, memoryStage, rebuilt, given>>

-----------------------------------------------------------------------------
(* Dissolution *)

\* Slip: the entries are destroyed, the policies stay.
ClearEntries ==
    /\ memoryStage' = IF memoryStage = "open" THEN "cleared" ELSE memoryStage
    /\ store' = Empty
    /\ UNCHANGED <<plan, policies, executor, dispatched, rebuilt, given>>

\* _dissolve_session clears the memory before it tells anybody: each handler
\* that found the session does, also when another has removed it meanwhile ...
Clear ==
    /\ memoryStage' = IF memoryStage = "open" THEN "cleared" ELSE memoryStage
    /\ store' = Empty
    /\ policies' = [a \in MemoryAgents |-> NoPolicy]
    /\ UNCHANGED <<plan, executor, dispatched, rebuilt, given>>

\* ... and takes it from the manager after that.
Remove ==
    /\ memoryStage = "cleared"
    /\ memoryStage' = "removed"
    /\ UNCHANGED <<plan, policies, store, executor, dispatched, rebuilt, given>>

-----------------------------------------------------------------------------

MemoryNext ==
    \/ \E p \in MemoryPlans : Build(p)
    \/ \E i \in 1..PlanLength : DispatchStep(i)
    \/ \E staged \in Batches : ApplyWrites(staged)
    \/ StepFails \/ Clear \/ Remove

MemorySpec == MemoryInit /\ [][MemoryNext]_memoryVars

-----------------------------------------------------------------------------
(* Properties *)

\* What plans gave an agent to write beside its own namespace.
Given(a) == UNION {AbilityPattern[c] : c \in {x \in Abilities : <<a, x>> \in given}}

\* What an agent wrote is in its own namespace or is a result of a capability
\* that some plan gave it, over all plans of a session and whatever agents try
\* to write: the seed in particular stays the coordinator's unless a pattern
\* made of an identifier matches it.
NamespacesAreOwn ==
    \A k \in Keys :
        store[k] \in MemoryAgents \ {"coordinator"} =>
            k \in AgentPattern[store[k]] \cup Given(store[k])

\* What an agent gets to see of others comes from agents that precede it in
\* the plan being run, never in an earlier plan of the session only.
SnapshotFollowsPlan ==
    executor = "waiting" =>
        \A b \in MemoryAgents :
            <<"own", b>> \in snapshot \ SharedPattern =>
                \E x \in Before(plan, Last(StepsOf(plan, plan[at].agent))) :
                    <<"own", b>> \in AgentPattern[x]

\* What the steps before left in their namespaces reaches the step that is
\* dispatched, as long as the session's memory is there.
PriorResultsReach ==
    [][\A i \in 1..PlanLength :
          executor = "between" /\ executor' = "waiting" /\ at' = i /\ memoryStage = "open" =>
              \A b \in Before(plan, i) \ {plan[i].agent} :
                  <<"own", b>> \in Stored => <<"own", b>> \in snapshot']_memoryVars

\* Once the memory is cleared it stays empty although a run goes on and its
\* answers arrive, unless a plan is built for the session even then or an agent
\* goes by the coordinator's name.
ClearedStaysEmpty ==
    memoryStage # "open" /\ ~rebuilt => \A k \in Stored : store[k] = "coordinator"

\* What the code says of itself and does not do; see the README.

\* An agent's namespace is written by nobody but that agent and the coordinator
\* ("private to that agent (+ coordinator)").
NamespacesArePrivate ==
    \A a \in MemoryAgents : store[<<"own", a>>] \in {"absent", a, "coordinator"}
=============================================================================
