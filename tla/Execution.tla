----------------------------- MODULE Execution -----------------------------
(***************************************************************************)
(* The supervised run of one session's graph: the gate, the nodes in       *)
(* turn, the executors that send a step to a remote agent and await its    *)
(* COMPLETE, the validation of each result with its re-runs of the graph,  *)
(* and the status reported (ExecutionSupervisor, DynamicGraphBuilder,      *)
(* _make_ws_executor and _handle_complete).                                *)
(*                                                                         *)
(* The run is a part of the requester's handler; agents' COMPLETEs come in *)
(* on the agents' connections, and other handlers of the session may       *)
(* negotiate or dissolve it meanwhile.  An action is the code from one     *)
(* await to the next.  A future is known by the number of the EXECUTE it   *)
(* was made for; _pending_completions finds it by session and agent only.  *)
(***************************************************************************)
EXTENDS Integers, Sequences, FiniteSets

CONSTANTS
  Agents,      \* agents a plan may name
  Executors,   \* those an executor was registered for
  MaxSteps,    \* steps of a plan, at most
  MaxRetries,  \* ExecutionSupervisor._max_retries (3 in the code)
  Slow,        \* an agent may take longer than the 120 s of an executor
  Failing,     \* an answer may be a failure: reported, or marked by its schema
  Faulty       \* a send may raise, the graph, scoring and synthesis

ASSUME ExecutorsAssumption == Executors \subseteq Agents
ASSUME LimitsAssumption ==
  /\ MaxSteps \in Nat \ {0}
  /\ MaxRetries \in Nat \ {0}
  /\ {Slow, Failing, Faulty} \subseteq BOOLEAN

VARIABLES
  stage,       \* is the session in SessionManager._sessions?
  graph,       \* steps of the compiled graph, each by its agent
  principals,  \* principals of SessionState.capability
  pc,          \* where the run is suspended
  node,        \* node of the graph being run
  stepResults, \* step_results of the graph's state
  errors,      \* agents named in errors of the graph's state
  listed,      \* agent_ids of _execute_with_ibac_validation
  pos,         \* position in listed of the result being validated
  attempt,     \* attempt of its validation
  status,      \* status of the COMPLETE the supervisor builds
  pending,     \* _pending_completions of the session, by agent
  answer,      \* what the awaited future was resolved with
  sent,        \* EXECUTEs sent, or tried
  work,        \* EXECUTEs an agent has not answered
  verdict,     \* history: the verdict on the result an agent has in the state
  failed,      \* history: EXECUTEs answered with a status that is no success
  late,        \* history: has an executor timed out?
  raised       \* history: has a send raised?

position == <<pc, node>>
state    == <<stepResults, errors, verdict>>
loop     == <<listed, pos, attempt>>
futures  == <<pending, answer, sent>>
history  == <<failed, late, raised>>
vars     == <<stage, graph, principals, position, state, loop, status,
              futures, work, history>>

(* A step's result: none yet, the "ok" the wrapper puts where an executor  *)
(* returned none, or the answer to the EXECUTE of that number.             *)
None == 0
Placeholder == -1

Plans == UNION {[1..n -> Agents] : n \in 1..MaxSteps}
InGraph == {graph[i] : i \in DOMAIN graph}
NoResult == [a \in Agents |-> None]
Unjudged == [a \in Agents |-> "none"]

TypeOK ==
  /\ stage \in {"open", "dissolved"}
  /\ graph \in Plans
  /\ principals \subseteq Agents
  /\ pc \in {"authorizing", "node", "composing", "waiting", "validating",
             "scoring", "finished", "raised"}
  /\ node \in 1..Len(graph) + 1
  /\ stepResults \in [Agents -> Nat \cup {Placeholder}]
  /\ errors \subseteq Agents
  /\ listed \in Plans
  /\ pos \in 0..Len(listed) + 1
  /\ attempt \in 0..MaxRetries
  /\ status \in {"none", "denied", "error", "success", "partial_failure"}
  /\ pending \in [Agents -> Nat]
  /\ answer \in Nat
  /\ sent \in Nat
  /\ work \in [Agents -> SUBSET Nat]
  /\ verdict \in [Agents -> {"none", "allowed", "refused"}]
  /\ failed \subseteq Nat
  /\ {late, raised} \subseteq BOOLEAN

Init ==
  /\ stage = "open"
  /\ graph \in Plans
  /\ principals = {}
  /\ pc = "authorizing" /\ node = 1
  /\ stepResults = NoResult /\ errors = {} /\ verdict = Unjudged
  /\ listed = graph /\ pos = 0 /\ attempt = 0
  /\ status = "none"
  /\ pending = [a \in Agents |-> 0] /\ answer = 0 /\ sent = 0
  /\ work = [a \in Agents |-> {}]
  /\ failed = {} /\ late = FALSE /\ raised = FALSE

----------------------------------------------------------------------------
(* The gate (ExecutionSupervisor.execute) *)

(* What it reads of the session other handlers may have changed since the  *)
(* graph was built: the plan, whose agents will be validated, and which of *)
(* the graph's agents are accepted, who become the capability's            *)
(* principals.  The transition of a session that is gone raises.           *)
Authorize ==
  /\ pc = "authorizing"
  /\ \/ /\ status' = "denied" /\ pc' = "finished"
        /\ UNCHANGED <<principals, listed>>
     \/ /\ stage = "open"
        /\ principals' \in SUBSET InGraph
        /\ listed' \in Plans
        /\ pc' = "node"
        /\ UNCHANGED status
     \/ /\ stage = "dissolved"
        /\ pc' = "raised"
        /\ UNCHANGED <<principals, listed, status>>
  /\ UNCHANGED <<stage, graph, node, state, pos, attempt, futures, work, history>>

----------------------------------------------------------------------------
(* A node of the graph, and the executor of its agent *)

Current == graph[node]

(* A slip: what the executor raises is not noted.                          *)
NodeFailsUnnoted == /\ pc' = "node" /\ node' = node + 1
                    /\ UNCHANGED <<stepResults, verdict, errors>>

(* The wrapper of a node notes what its executor raises, and the chain     *)
(* goes on with the next node.                                             *)
NodeFails == /\ errors' = errors \cup {Current}
             /\ pc' = "node" /\ node' = node + 1
             /\ UNCHANGED <<stepResults, verdict>>

NodeReturns(r) == /\ stepResults' = [stepResults EXCEPT ![Current] = r]
                  /\ verdict' = [verdict EXCEPT ![Current] = "none"]
                  /\ pc' = "node" /\ node' = node + 1
                  /\ UNCHANGED errors

(* The executor that stands for a missing one returns its error in a state *)
(* of which the wrapper keeps the result only.                             *)
RunMissing ==
  /\ pc = "node" /\ node <= Len(graph) /\ Current \notin Executors
  /\ NodeReturns(Placeholder)
  /\ UNCHANGED <<stage, graph, principals, loop, status, futures, work, history>>

(* The checks before a dispatch.  The capability is the session's, and     *)
(* there is none once the session is gone; it may also have expired, or    *)
(* the agent lack a scope, a binding or its connection.                    *)
Permits(a) == stage = "dissolved" \/ principals = {} \/ a \in principals

Dispatch ==
  /\ pc = "node" /\ node <= Len(graph) /\ Current \in Executors
  /\ \/ /\ Permits(Current)
        /\ pc' = "composing"
        /\ UNCHANGED <<node, state>>
     \/ NodeFails
  /\ UNCHANGED <<stage, graph, principals, loop, status, futures, work, history>>

(* A slip: a future left by an earlier step of the agent is used again.    *)
SendOnOldFuture ==
  /\ pc = "composing"
  /\ sent' = sent + 1
  /\ pending' = [pending EXCEPT ![Current] = sent']
  /\ work' = [work EXCEPT ![Current] = @ \cup {sent'}]
  /\ pc' = "waiting"
  /\ UNCHANGED <<stage, graph, principals, node, state, loop, status, answer, history>>

(* The parameters are composed; the future is registered, then the step    *)
(* sent.                                                                   *)
Send ==
  /\ pc = "composing"
  /\ sent' = sent + 1
  /\ pending' = [pending EXCEPT ![Current] = sent']
  /\ answer' = 0
  /\ \/ /\ work' = [work EXCEPT ![Current] = @ \cup {sent'}]
        /\ pc' = "waiting"
        /\ UNCHANGED <<node, state, raised>>
     \/ /\ Faulty                                   \* the send raises
        /\ raised' = TRUE
        /\ NodeFails
        /\ UNCHANGED work
  /\ UNCHANGED <<stage, graph, principals, loop, status, failed, late>>

(* _handle_complete, when an agent has answered one of its EXECUTEs: the   *)
(* future registered for the agent is resolved.                            *)
AgentComplete(a) ==
  /\ \E id \in work[a] :
       /\ work' = [work EXCEPT ![a] = @ \ {id}]
       /\ answer' = IF pc = "waiting" /\ pending[a] = sent THEN id ELSE answer
       /\ failed' \in {failed} \cup (IF Failing THEN {failed \cup {id}} ELSE {})
  /\ pending' = [pending EXCEPT ![a] = 0]
  /\ UNCHANGED <<stage, graph, principals, position, state, loop, status, sent,
                 late, raised>>

(* The future is resolved: the agent's payload is the step's result,       *)
(* whatever status it reports.                                             *)
Receive ==
  /\ pc = "waiting" /\ answer # 0
  /\ NodeReturns(answer)
  /\ UNCHANGED <<stage, graph, principals, loop, status, futures, work, history>>

(* A slip: the future is left registered.                                  *)
TimeoutLeavesFuture ==
  /\ pc = "waiting" /\ answer = 0
  /\ Slow \/ sent \notin work[Current]
  /\ late' = TRUE
  /\ NodeFails
  /\ UNCHANGED <<stage, graph, principals, loop, status, futures, work,
                 failed, raised>>

(* An agent that still works, or that dropped its work, has not answered   *)
(* in 120 s.                                                               *)
Timeout ==
  /\ pc = "waiting" /\ answer = 0
  /\ Slow \/ sent \notin work[Current]
  /\ pending' = [pending EXCEPT ![Current] = 0]
  /\ late' = TRUE
  /\ NodeFails
  /\ UNCHANGED <<stage, graph, principals, loop, status, answer, sent, work,
                 failed, raised>>

(* The graph raises: LangGraph ends one that takes too many steps.  What   *)
(* it has done is dropped, and an error is reported.                       *)
GraphFails ==
  /\ Faulty /\ pc = "node"
  /\ status' = "error" /\ pc' = "finished"
  /\ UNCHANGED <<stage, graph, principals, node, state, loop, futures, work,
                 history>>

----------------------------------------------------------------------------
(* Validation of the results (_execute_with_ibac_validation) *)

(* The loop over agent_ids goes on at position i: an agent without a       *)
(* result is passed over.                                                  *)
WithResult(i) == {j \in DOMAIN listed : j >= i /\ stepResults'[listed[j]] # None}
GoOnAt(i) ==
  \/ /\ WithResult(i) = {}
     /\ pos' = Len(listed) + 1 /\ attempt' = 0
     /\ pc' = "scoring"
  \/ /\ pos' \in WithResult(i) /\ attempt' = 1
     /\ \A j \in WithResult(i) : pos' <= j
     /\ pc' = "validating"

(* A slip: the results of a graph run again are all validated again.       *)
GraphDoneAfresh ==
  /\ pc = "node" /\ node = Len(graph) + 1
  /\ UNCHANGED state
  /\ GoOnAt(1)
  /\ UNCHANGED <<stage, graph, principals, node, listed, status, futures, work,
                 history>>

(* The graph has run, for the first time or again for the agent at pos.    *)
GraphDone ==
  /\ pc = "node" /\ node = Len(graph) + 1
  /\ UNCHANGED state
  /\ IF pos > 0 /\ stepResults[listed[pos]] # None
     THEN attempt' = attempt + 1 /\ pc' = "validating" /\ UNCHANGED pos
     ELSE GoOnAt(pos + 1)
  /\ UNCHANGED <<stage, graph, principals, node, listed, status, futures, work,
                 history>>

Allow ==
  /\ pc = "validating"
  /\ verdict' = [verdict EXCEPT ![listed[pos]] = "allowed"]
  /\ UNCHANGED <<stepResults, errors>>
  /\ GoOnAt(pos + 1)
  /\ UNCHANGED <<stage, graph, principals, node, listed, status, futures, work,
                 history>>

(* Slips: one attempt too many; the attempts are counted anew.             *)
RerunOnceMore ==
  /\ pc = "validating" /\ attempt <= MaxRetries
  /\ stepResults' = NoResult /\ errors' = {} /\ verdict' = Unjudged
  /\ pc' = "node" /\ node' = 1
  /\ UNCHANGED <<stage, graph, principals, loop, status, futures, work, history>>

RerunAnew ==
  /\ pc = "validating" /\ attempt < MaxRetries
  /\ stepResults' = NoResult /\ errors' = {} /\ verdict' = Unjudged
  /\ pc' = "node" /\ node' = 1 /\ attempt' = 0
  /\ UNCHANGED <<stage, graph, principals, listed, pos, status, futures, work,
                 history>>

(* Refused with attempts left: the whole graph is run again, from its      *)
(* initial state.                                                          *)
Rerun ==
  /\ pc = "validating" /\ attempt < MaxRetries
  /\ stepResults' = NoResult /\ errors' = {} /\ verdict' = Unjudged
  /\ pc' = "node" /\ node' = 1
  /\ UNCHANGED <<stage, graph, principals, loop, status, futures, work,
                 history>>

(* Refused for the last time: noted as an error, and taken out.            *)
GiveUp ==
  /\ pc = "validating" /\ attempt = MaxRetries
  /\ verdict' = [verdict EXCEPT ![listed[pos]] = "refused"]
  /\ errors' = errors \cup {listed[pos]}
  /\ stepResults' = [stepResults EXCEPT ![listed[pos]] = None]
  /\ GoOnAt(pos + 1)
  /\ UNCHANGED <<stage, graph, principals, node, listed, status, futures, work,
                 history>>

(* The results are scored and put together, and the COMPLETE built.        *)
Conclude ==
  /\ pc = "scoring"
  /\ \/ /\ status' = IF errors = {} THEN "success" ELSE "partial_failure"
        /\ pc' = "finished"
     \/ /\ Faulty                   \* a model's answer is no JSON object
        /\ pc' = "raised"
        /\ UNCHANGED status
  /\ UNCHANGED <<stage, graph, principals, node, state, loop, futures, work,
                 history>>

----------------------------------------------------------------------------
(* The other handlers of the session, and its agents *)

Dissolve ==
  /\ stage = "open"
  /\ stage' = "dissolved"
  /\ UNCHANGED <<graph, principals, position, state, loop, status,
                 futures, work, history>>

(* An agent told of the dissolution cancels its work.                      *)
Cancel(a) ==
  /\ stage = "dissolved" /\ work[a] # {}
  /\ work' = [work EXCEPT ![a] = {}]
  /\ UNCHANGED <<stage, graph, principals, position, state, loop, status, futures,
                 history>>

----------------------------------------------------------------------------
Run == \/ Authorize \/ RunMissing \/ Dispatch \/ Send \/ Receive \/ Timeout
       \/ GraphFails \/ GraphDone \/ Allow \/ Rerun \/ GiveUp \/ Conclude

Others == \/ Dissolve
          \/ \E a \in Agents : AgentComplete(a) \/ Cancel(a)

Done == pc \in {"finished", "raised"} /\ UNCHANGED vars

Next == Run \/ Others \/ Done

Spec == Init /\ [][Next]_vars

(* The event loop resumes the run when what it awaits is there: a model's  *)
(* verdict, an answer, or the executor's timer.                            *)
FairSpec == Spec /\ WF_vars(Run)

----------------------------------------------------------------------------
(* Properties *)

(* A future is registered only for the step that is being waited for: a    *)
(* timeout and an answer take it out, and only a send that raises leaves   *)
(* it (_make_ws_executor, _handle_complete).                               *)
NoStaleFuture ==
  \A a \in Agents :
    \/ raised \/ pending[a] = 0
    \/ pc = "waiting" /\ a = Current /\ pending[a] = sent

(* As long as no executor of the session has timed out, what a step takes  *)
(* for its answer answers it, although futures are found by agent only;    *)
(* after a timeout one late answer can shift all that follow.              *)
AnswersAreOwn ==
  ~late /\ pc = "waiting" /\ answer # 0 => answer = sent

(* However results are refused and the graph run again, a result that was  *)
(* refused is not reported (_execute_with_ibac_validation).                *)
RefusedNotReported ==
  pc = "finished" =>
    \A a \in Agents : verdict[a] = "refused" => stepResults[a] = None

(* A success has an answer of every step's agent that has an executor:     *)
(* no failure is lost over re-runs and refusals.                           *)
SuccessIsComplete ==
  status = "success" => \A a \in InGraph \cap Executors : stepResults[a] > 0

(* The graph is run again at most MaxRetries - 1 times for each step of    *)
(* the plan, so that many EXECUTEs are sent.                               *)
DispatchesBounded == sent <= Len(graph) * (1 + (MaxRetries - 1) * Len(listed))

(* What the run promises the session, over refusals, re-runs, late answers *)
(* and a dissolution at any point: nothing is sent before the gate or once *)
(* it is over, it reports once, and of a success everybody has answered.   *)
Promise == INSTANCE RunContract WITH
  Workers    <- Executors,
  live       <- stage = "open",
  stepsOf    <- InGraph \cap Executors,
  run        <- CASE pc = "authorizing" -> "gate"
                  [] pc = "finished" -> "reported"
                  [] pc = "raised" -> "lost"
                  [] OTHER -> "running",
  report     <- status,
  dispatched <- sent,
  answered   <- {a \in InGraph \cap Executors : stepResults[a] > 0}
KeepsPromise == Promise!Spec

(* The order of what a run does for one attempt on one result: the result  *)
(* is validated, the graph run (again), the run is over; and of what it    *)
(* does for one node.                                                      *)
Pass(l) == CASE l \in {"authorizing", "validating", "scoring"} -> 1
             [] l \in {"node", "composing", "waiting"} -> 2
             [] OTHER -> 3
Progress(l) == CASE l = "composing" -> 1 [] l = "waiting" -> 2 [] OTHER -> 0

Advances ==
  \/ pos' > pos
  \/ pos' = pos /\ attempt' > attempt
  \/ /\ UNCHANGED <<pos, attempt>>
     /\ \/ Pass(pc') > Pass(pc)
        \/ Pass(pc') = Pass(pc) /\ node' > node
        \/ Pass(pc') = Pass(pc) /\ node' = node /\ Progress(pc') > Progress(pc)

(* However often results are refused, steps fail and the graph is run      *)
(* again, each step of the run takes it forward, and no other handler      *)
(* moves it: position, attempt and node, each within its bound, say how    *)
(* far it has come.                                                        *)
RunAdvances ==
  [][IF Run THEN Advances ELSE UNCHANGED <<position, loop>>]_vars

(* The run ends, whatever the agents do: each wait has its timer, each     *)
(* result its number of attempts.                                          *)
RunEnds == <>(pc \in {"finished", "raised"})

(* What the code says of itself and does not do; see the README.           *)

(* Each result reported of an agent in the plan was allowed ("Validate     *)
(* each step result against IBAC").                                        *)
ReportedWasAllowed ==
  status \in {"success", "partial_failure"} =>
    \A i \in DOMAIN listed :
      stepResults[listed[i]] # None => verdict[listed[i]] = "allowed"

(* An answer that reports a failure fails its step ("Otherwise the next    *)
(* step consumes something nobody can rely on").                           *)
FailedStepFails ==
  pc = "node" => \A a \in Agents : stepResults[a] \notin failed
=============================================================================
