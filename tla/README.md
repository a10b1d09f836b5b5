# Agentic Bus: a TLA+ verification project

Agentic Bus lets a *requester* state an intent, finds *provider agents* for it,
negotiates a plan with them, has the requester approve it, runs it under
supervision, answers and destroys everything the session held. The coordinator
(`src/agentic_bus/coordinator/runtime.py`) is one asyncio event loop; all that is
hard in it comes from handlers that read a session, await a language model, a
network send or an agent, and then write the session again while other handlers
did the same.

This directory holds TLA+ modules translated from that code, TLC configurations
that check them on small instances, and proofs that TLAPS checks for every value
of the constants.

| file | what it is |
|---|---|
| `Session.tla` | one session through all of its handlers, requester and agents |
| `SessionContract.tla` | what a session promises the requester and the archive |
| `Execution.tla` | the supervised run of one session's graph: nodes, remote executors, futures, per-step validation |
| `RunContract.tla` | what such a run promises the session it is a part of |
| `SessionMemory.tla` | the memory a session's agents share: policies, snapshots, writes, destruction |
| `Registration.tla` | enrolment records, registry, addresses of agents, connections, challenges |
| `AgentTasks.tla` | a provider agent's own process: connect, serve, reconnect, stop, tasks per session |
| `ManagedAgents.tla` | agents and MCP bridges the coordinator runs itself, and the requests that start and stop them |
| `McpBridge.tla` | what a bridge knows, registers and calls of its server's tools |
| `ScopeCatalogue.tla` | the vocabulary of scopes and who is bound to which |
| `Authority.tla` | from the requester's credential to what an agent does and what is reported (extends `ScopeCatalogue`) |
| `Governance.tla` | an evaluation by the IBAC engine: layers, rules, failures |
| `Tenancy.tla` | which agents a session's discovery is shown |
| `*_proofs.tla` | theorems, with their inductive invariants: `Session`, `Execution`, `SessionMemory`, `Registration`, `Authority` (with `ScopeCatalogue`), `Agents` (`AgentTasks`, `McpBridge`, `ManagedAgents`), `Administration` (`Governance`, `Tenancy`), `Components` (the nine put together) |
| `MCSession.tla`, `MCExecution.tla`, `MCMemory.tla`, `MCAuthority.tla`, `MCGovernance.tla`, `MCComponents.tla` | the instances TLC checks |
| `*.cfg` | one per question, see "The runs" |
| `PROJECT.json` | components, runs, mutants, map to source lines, findings, hazards, theorems |

Paths below are relative to `src/agentic_bus/`.

## Inventory

### Components, their state and operations

**Coordinator runtime** (`coordinator/runtime.py`, `core/session/manager.py`).
State: `SessionManager._sessions` (per session: phase, discovered and solicited
agents, offers, accepted offers, the composition plan, execution results, memory,
validation rounds), `_session_requester_peers`, `_agent_peers`,
`_pending_completions`, registered peers. Operations: one handler per message
kind (`intent`, `offer`, `accept`, `reject`, `complete`, `discover`/register,
disconnect), and what they call: `_try_converge`, `_propose_plan_to_requester`,
`_finalize_negotiation`, `_build_and_execute`, `_run_validation_loop`,
`_handle_renegotiation`, `_dissolve_session`, `_archive_session`. Correct when: a
session is answered at most once, ends exactly once, is not revived by a handler
that was suspended while it ended, runs the approved plan, contains only vetted
agents, is bounded in its cycles, and finally is dissolved.

**Negotiation engine** (`coordinator/negotiation/engine.py`). Discovery, entropy
and convergence, composition of accepted offers, ordering of the steps. Stateless
apart from the entropy history. Correct when convergence is decided on what the
statuses say, and composition takes accepted offers only.

**Execution supervisor and graph** (`coordinator/execution/supervisor.py`,
`coordinator/graph/builder.py`). Authorises, runs the graph, validates each step's
output with IBAC and re-runs the graph on a refusal. Correct when no step's output
is reported as fine that was refused, retries are bounded, and a failed step is not
recorded as a good one.

**Remote execution** (`_make_ws_executor`, `_handle_complete` in `runtime.py`). A
step on a remote agent is a message and a future keyed by session and agent, with a
time limit; the agent's COMPLETE resolves it. Correct when an answer resolves the
step it answers.

**Capability registry and registration** (`core/registry/capability_registry.py`,
`_admit`, `_handle_agent_registration`, `handle_disconnect`, `register_agent` in
`runtime.py`). State: registrations, who is online, `_agent_peers`, the server's
connections; the enrolment records in the database. Correct when an agent is
addressed on its live connection, loses its address only with it, and one that was
revoked does not come back.

**Authentication** (`core/auth/*.py`, `core/persistence/repository.py`). Subjects of
connections, records bound to the first subject that registers, challenge and
response. Correct when a bound agent's messages go to its subject only.

**Capabilities, scopes and bindings** (`core/ibac/capability.py`, `core/scopes.py`,
`agents/scope_guard.py`, `core/persistence/scope_repository.py`). Catalogue and
bindings are rows; a session has a capability; an agent has the grant of the
execution at hand. Correct when each link narrows the one before and what went
beyond is reported.

**IBAC engine** (`core/ibac/engine.py`). Three layers, combined by the strictest. No
state of its own; it reads rules that are written meanwhile. Correct when nothing is
let through that a layer stood against.

**Tenancy** (`core/tenancy.py`, `_visible_agents`). Rows of tenants, agents and
users. Correct when discovery is shown no agent the requester shares no tenant with.

**Session memory** (`core/session/memory.py`, `agents/memory.py`). Entries, per-agent
policies, audit trail; destroyed at dissolution. Correct when namespaces stay their
owners', a step sees what precedes it in its plan, and what was destroyed stays so.

**Agent runtime** (`agents/base/agent.py`). Connect, register, answer intents with
offers, execute in per-session tasks that a DISSOLVE cancels, reconnect with
back-off, stop. Correct when no work goes on for a session that was dissolved or an
agent that stopped.

**Managed agents and bridges** (`agents/managed_server.py`, `agents/mcp_bridge.py`,
`start_managed_agent`, `start_mcp_bridge` in `runtime.py`, the routes of
`coordinator/admin/api.py`). Tasks that run agents in process, and rows that say which
should run. Correct when an agent has one server at most, in agreement with its row,
and none is left at the end.

**Transports** (`core/transport/ws.py`, `local.py`). WebSocket: messages of one
connection in sequence, different connections concurrently. In process: the
receiver runs inside the send.

**Validation engine** (`coordinator/validation/engine.py`), **intent processor**,
**step inputs and artifacts**, **persistence**, **admin API and audit**, **language
model factory**, **wire protocol**, **server, CLI, telemetry, conformance, testing
helpers**, **dashboard**, **examples**: see `PROJECT.json`, each with its status.

### How they interact

```
requester --intent/accept/reject--> runtime --intent/accept/complete/dissolve--> agents
agents    --offer/reject/complete-> runtime --plan/complete/dissolve----------> requester
runtime  -> IBAC (admission, eligibility, acceptance, execution, step output)
         -> adjudicator, negotiation engine, intent processor, validator (language models)
         -> graph + supervisor -> executors -> agents (message + future)
         -> memory, registry, archive
```

All state is shared through `SessionState` objects and dictionaries of the runtime,
with no locks: atomicity is whatever lies between two awaits. What is in the database
is shared further, with the threads that serve the admin API and with the processes
of the command line: there atomicity is a transaction, and a handler that reads in
one and writes in another can be overtaken between the two.

### What is hard

1. `_try_converge` runs once per offer, so two agents' handlers can be inside it at
   once, each iterating over the same list and composing its own plan.
2. Handlers suspended across a dissolution or a renegotiation resume with records,
   plans and session objects of the past.
3. `_dissolve_session` is entered from a dozen places, also concurrently, and
   itself awaits sends that can raise on a closed connection.
4. Counters that bound renegotiation and validation are stored in objects that are
   replaced.
5. Convergence and approval have no timeout.
6. Futures, tasks and peers are keyed by identifiers that outlive one use.
7. A connection's end is handled after its agent may have registered on a new one.
8. Cancelling a task is asking it to stop: whoever cancels has to wait, and work
   arrives while it does.
9. Rows are read, decided on and written in different transactions.
10. A failed query, an absent model or an empty list has to mean "no" in one place
    and "no limit" in another.

`PROJECT.json` lists these under `hazards`, one by one, at the line where they bite,
with the property that would notice.

## The plan

| order | module(s) | abstract specification, theorems |
|---|---|---|
| 1 (done) | `Session`, `SessionContract` | contract refined; type, contract, no revival, vetted plans, dissolution under way, archive, bounded rounds, no stranding, progress of each step proved |
| 2 (done) | `Execution`, `RunContract` | contract refined; type, futures, answers, refusals, complete successes, the bound on dispatches, progress of each step proved |
| 3 (done) | `Registration` | live and bound routes, reconnection, revocation proved |
| 4 (done) | `SessionMemory` | namespaces, snapshots, destruction proved |
| 5 (done) | `ScopeCatalogue`, `Authority`, `Governance`, `Tenancy` | all of their safety properties proved |
| 6 (done) | `AgentTasks`, `McpBridge` | all but the liveness property proved |
| 7 (done) | `ManagedAgents` | all of its properties proved |
| 8 (done) | `MCComponents` | that the composition of modules 3 to 7 implements each of them |
| 9 (open) | `Session` composed with `Execution` | that the graph's steps implement `RunGraph` |

Modules 3 to 7 share no variable with each other or with the session in the code
either: what passes between them (a registration, a verdict, a grant, a set of
visible agents) is a free choice where `Session` and `Execution` take it.

## Session: how the model corresponds to the code

A connection's messages are handled in order by one task, so the model has one
handler per connection: `Requester` and each agent. `pc[t]` is the await a handler
is suspended at; an action is the code from one await to the next. Awaits with no
read or write of shared state between them are one suspension (start of
`_handle_offer` and the eligibility verdict; `_finalize_negotiation` and the start
of `_build_and_execute`; the validator and the reset after it). `_emit_event`
swallows its errors and is no step.

| position `pc` | what the handler waits for | actions that leave it |
|---|---|---|
| `idle` | the next message | `HandleIntent`, `Accept`, `Reject`, `Renegotiate`, `HandleOffer`, `Decline`, `AgentReject` |
| `admission` | IBAC on the intent | `AdmitIntent` |
| `decomposing` | intent processor | `Decompose` |
| `discovering` | adjudicator | `Discover` |
| `soliciting` | the send of the intent to an agent | `RequestOffer` |
| `offered` | event after the offer is appended | `CheckResponses` |
| `evaluating` | the next turn of the loop over `session.offers` | `NextPending`, `Decide` |
| `accepting` | IBAC on the acceptance of a record | `Acceptance` |
| `composing`, `ordered`, `explaining` | acceptance sends, ordering, explanation | `Compose`, `Publish`, `Propose` |
| `approved`, `graph` | acknowledgement, build of the graph | `Finalize`, `BuildGraph` |
| `authorizing`, `running` | IBAC on the execution, the graph with its scoring and synthesis | `Authorize`, `RunGraph` |
| `idle` of an agent in `serving` | the next message, which may be a COMPLETE | `AgentComplete` |
| `finished` | the validator, or COMPLETE if there is none | `Validate`, `Complete` |
| `completing` | COMPLETE, of a run that was denied or failed, or whose answer was accepted | `Complete` |
| `dissolve`, `d_requester`, `d_agents` | the three suspensions of `_dissolve_session` | `Dissolve`, `DissolveRequester`, `DissolveAgents` |

State: `stage` is membership in `_sessions`; `phase`, `discovered`, `solicited`,
`offers`, `acceptedOffers`, `plan`, `results`, `memory`, `valRounds` are the fields
of `SessionState`; `mapped` is the entry of `_session_requester_peers`; `idx`,
`hold`, `draft` are locals of a handler that live across an await (the position of
its loop, the record it evaluates, the plan it composed). `approved`, `allowed`,
`cycles`, `completes`, `dissolves`, `archives`, `late` are history variables: nothing in
the model is guarded by them.

What is abstracted, and why it does not change the answers:

* Verdicts of IBAC, of the validator and of every language model are free choices.
* `_dissolve_session` looks the session up, may send an event, and then clears the
  memory: here this is one step. A handler that another overtook in between clears the
  memory of a session that is gone and finds neither requester nor session to remove:
  the agents are told a second time, and nothing else changes.
* A plan is how many steps each agent has in it. The order of the steps only
  permutes and no property reads it.
* `hold` says of a record whether it is still in `session.offers`: a verdict goes
  into the object a loop holds even after a renegotiation cleared the list.
* Convergence is exact for up to nine offers: with the threshold 0.5 the normalised
  entropy of so few statuses is either 0 or above half of any initial one.
* `plan.round` stops counting at `MaxRounds`, beyond which no comparison changes.
* A closed connection: what was sent on it may still be read, a send raises as long
  as its peer is known, the peer is forgotten when the read loop ends, which needs
  the handler of its last message to have returned (`AfterReply`, `AfterSend`).
  There is no reconnection in this module.
* An exception leaves the handler (the transport logs it): `pc` returns to `idle`,
  the session stays as it is.
* A requester has one intent on its connection. Of `execution_results` the status of
  the last element is kept, the only one that is read: agents' answers and the
  supervisor's status both go there; `answer` is the status the COMPLETE of the last
  run carries, which an agent's COMPLETE may push from that last place (`late`).
  `serving` holds the agents that may still answer a step of a run; the run waits for
  them unless a step times out or the agent was told of a dissolution. An intent that names a validator that cannot be
  found runs like one that names none. `RunGraph` takes the run as one step; its
  inside is the module `Execution`.
* `Faulty` lets connections close, calls raise, and steps time out, whose agents may
  answer until the session is removed. It keeps the states of the runs with two agents
  within reach; the theorems hold for both values. What is stated "while connections
  hold" (`Connected`) is stated over timeouts and calls that raise.
* The in-process transport is not modelled.

`SessionContract` is the abstract specification: `Open`, `Answer`, `Farewell`,
`End`. `Session` implements it with `recorded <- Len(archives)`.

## Execution: how the model corresponds to the code

`Execution` looks into the one run that `Session` sees as `Authorize` to `RunGraph`:
a stretch of the requester's handler, whose awaits are the positions `pc`.

| position `pc` | what the run waits for | actions that leave it |
|---|---|---|
| `authorizing` | IBAC on the execution | `Authorize` |
| `node` | the next node of the graph, or its end | `RunMissing`, `Dispatch`, `GraphFails`, `GraphDone` |
| `composing` | the parameters of the step | `Send` |
| `waiting` | the future of the step, 120 s at most | `Receive`, `Timeout` |
| `validating` | IBAC on a result | `Allow`, `Rerun`, `GiveUp` |
| `scoring` | scoring and synthesis | `Conclude` |

State: `graph` is the compiled graph, a chain of steps known by their agents;
`stepResults` and `errors` are the graph's state; `listed`, `pos`, `attempt` are the
locals of `_execute_with_ibac_validation`; `pending` is `_pending_completions` of
the session; `answer` what the awaited future was resolved with; `work` what each
agent has not answered. Every EXECUTE has a number (`sent`), which the code does not
have: that is how the model can tell whether an answer belongs to the step that
takes it. `verdict`, `failed`, `late`, `raised` are history.

The wrapper of a node turns what the executor raises into an entry of `errors`
(`NodeFails`), so the chain always goes on; an executor that returns has its result
kept and its errors dropped (`NodeReturns`), which is why the placeholder for an
agent without executor ends as the result "ok" (`RunMissing`).

What is abstracted: verdicts, expiry of the capability, its scopes and the agents'
bindings are a free refusal in `Dispatch`, and an agent that is no principal is
always refused (`Permits`); which agents the validation lists and which are
principals is free, because other handlers may have published another plan and other
records before the run is authorised; the memory writes of an answer are in
`SessionMemory`, the guard's capability, the grant and the reconciliation of scopes in
`Authority`; the metrics are left out; LangGraph is taken to run a chain of
nodes in order, one at a time, and to raise, if at all, between two nodes, as it does
when a run takes more steps than it allows (`GraphFails`).

`RunContract` is the abstract specification: `Refuse`, `Start`, `Send`, `Answer`, `Drop`,
`Report`, `Lose`, and `Leave` for the dissolution. `Execution` implements it with the
positions between gate and end taken together, `dispatched <- sent`, and as `answered`
those of the graph's executors whose result is an answer and no placeholder.

## The other components: how the models correspond to the code

Names of actions are those of the code where it has one; the tables list what is
not evident. Definitions commented "Slip" are used by the mutants only.

**Registration.** Handlers run on the event loop, so an action is a whole handler,
with one exception: `_admit` reads the agent's record from the database, and by the
time `bind_subject` and the registry use it, another thread or process may have
changed it (`ReadRecord`, `RegisterAgent`; `LoopFree` keeps other handlers out).
`records` is the table of persistent agents, `registry`, `online`, `agentPeers` the
runtime's dictionaries, `conn` and `identity` the server's connections, `challenges`
the pending nonces. A lost connection is handled later (`LoseConnection`,
`HandleDisconnect`), in between the agent may register on another. `route` is
history: how an agent came by its address, or that it was left behind. Rejected and
revoked are one status (`out`), as everywhere they are read; a challenge is answered
with or without the right signature.

**AgentTasks.** One agent's process. `serve` is the await of `run_forever`, `stopper`
that of a `stop()` called from outside, `client` the newest client and `loop` the receive
loop of each, `task` the tasks `_spawn` made, `sessionTasks` the table a cancellation looks
at, `awaited` what each caller of `_cancel_session_tasks` gathers: every receive loop, a
`stop()`, `run_forever` at its end. Registering may fail before the connection is up
(`StartFails`), when REGISTER is sent (`Start`) or when the answer is handled
(`HandleRegistered`); in the last two cases, and when `run_forever` is cancelled, the client
and its loop are left to themselves (`forsaken`), and the next `start()` makes another.
`strays` is history: tasks that came over a client already forsaken. A cancelled task may
take any time to let go. Names of tasks and of clients are used again; `task` tells a fresh
task from one that was cancelled. Time-outs of connecting and registering are steps that
may be taken at any time.

**ManagedAgents.** Managed agents and bridges have the same life, so there is one
model of both. A request (`request`) is its database calls and its runtime calls in
their order, with others in between; `table` is `_managed_tasks` or
`_mcp_bridge_tasks`, `server` the tasks. `phase` is the process: list and start the
active rows, serve, drain the admin API, stop everything, end; it may be killed at
any point. `raced` is history: it marks agents whose requests overlapped or whose row
the command line wrote, for which the code promises no agreement.

**McpBridge.** `names` and `caps` are the bridge's two lists, changed by whichever
discovery is answered; of the first, of which the code uses the head, the model keeps
the set and the head. `promised` is history: capabilities it has registered at some
time, for which a step may still come.

**SessionMemory.** Keys are the shared seed, one shared key per capability and one
per agent's namespace; a value is known by its writer. `PoliciesFor` sets a policy for
each step in turn, as `set_policy` does, so an agent's last step decides. Building,
dispatching, the answer, the clearing and the removal of the session are steps of
different handlers and come in any order the code admits. What the patterns `shared.*`,
`shared.<capability>` and `<agent>.*` match are the constants `SharedPattern`,
`AbilityPattern` and `AgentPattern`: identifiers are strings nothing checks, so all that is
assumed is that a pattern matches the keys it was made for (`PatternAssumption`). That
covers an agent called `shared`, a capability called like the seed, stars and dots in
identifiers. An agent called `coordinator` writes everything, as `_check_write` lets it
(`Writable`), and the properties except it. `given` is history: which capability some plan
gave to which agent.

**ScopeCatalogue, Authority.** Which scope covers which is a reflexive and transitive
relation (`CoveringAssumption`), as `covers` is on the names `is_well_formed` admits.
`ScopeCatalogue` has the rows and all that writes them; `bind` is two transactions.
`Authority` follows one agent's dispatches: the capability issued (`Narrow`), the guard,
the grant (`GrantFor`) after the await of the composition, the checks in the agent's
process, the reconciliation against the capability as it is then. Bindings and the
declaration change between any two steps; a grant whose bindings cannot be read is
empty. `steady` is history: nothing the guard relied on has been taken back.

**Governance.** A request is what the engine can tell of it: a breach of an invariant,
a policy's refusal, text or none. A rule has its evaluation point, action, flag for a
person, and whether its words and its filters hit. `Evaluate` reads the rules, `LoadRules`
reads them again for the model, and rules are written in between (`unwritten` is
history). Either read and the model's answer may fail; `readable` is whether the grounded
layer's read did not: if it failed, that layer has no rules to apply and allows.

**Tenancy.** `ResolveTenants` at the intent, `BeginLook` and `FinishLook` the two
passes of `_visible_agents`. Each agent's query may fail in each pass. An agent whose
rows cannot be read has the tenant `-1`, which nobody has.

**MCComponents** composes the nine for one TLC run. They share no variable, so their
product has no behaviour that each does not have by itself: `part` says which one is
explored and the others stay where they start, which visits every state of each. It has
no fairness: the one liveness property of a part, `StopEnds`, has a run of its own.

## The runs

| run | instance | checks |
|---|---|---|
| `session_interleavings` | 2 agents, 1 offer each, 1 renegotiation, 1 fallback round, no validator, no fault, agents may decline or reject | `TypeOK`, `VettedPlans`, `DissolutionUnderway`, `NoResurrection`, `NoPlanAfterFarewell` |
| `session_faults` | 1 agent, 2 renegotiations, 3 validations, connections close and calls raise anywhere, steps time out | `RoundsBounded`, `ArchiveAgrees`, `KeepsContract` |
| `session_liveness` | 2 cooperative agents, 1 renegotiation, no fault, deadlock checked, no symmetry | `NeverStranded`, `SessionAdvances`, `Terminates` |
| `plan_approval` | as the first, cooperative agents | finds `ApprovedIsExecuted` violated |
| `mandatory_dissolution` | 1 agent, faults, fair | finds `AnsweredIsDissolved` violated |
| `memory_destroyed` | as the first | finds `MemoryDestroyed` violated |
| `execution` | 3 agents, 2 with an executor, plans of 1 or 2 steps, 2 attempts; agents slow, sends and model calls raise; fair; deadlock checked | `TypeOK`, `NoStaleFuture`, `AnswersAreOwn`, `DispatchesBounded`, `KeepsPromise`, `RunAdvances`, `RunEnds` |
| `step_validation` | 2 agents, 2 attempts, no fault | finds `ReportedWasAllowed` violated |
| `failed_step` | as the last, agents may report a failure | finds `FailedStepFails` violated |
| `components` | see the next table | `ComponentsTypeOK` and the properties of the next table |
| `agent_liveness` | 2 tasks, 2 sessions, 2 clients, limit 1; fair | `StopEnds` |
| `unreadable_rules` | the governance part | finds `UnreadableDenies` violated |

The parts of `components` (1,079,097 states together, about two minutes):

| part | instance | checks |
|---|---|---|
| `registration` | 2 agents, 1 of them enrolled, 2 connections, 1 subject and peers without any | `RouteIsLive`, `BoundRoute`, `ReconnectionSurvives`, `RevokedStaysOut` |
| `agent` | 2 tasks, 2 sessions, 2 clients at once, limit 1 | `StoppedIsQuiet`, `DissolvedIsQuiet` |
| `hosted` | 2 agents, 3 tasks, 2 requests at once | `ServedFromTable`, `StatusAgrees`, `ClosedIsQuiet` |
| `bridge` | 2 tools | `RegisteredAsKnown` |
| `memory` | 2 agents, 1 capability, plans of 1 to 3 steps, the pattern of one agent matching the other's keys | `NamespacesAreOwn`, `SnapshotFollowsPlan`, `ClearedStaysEmpty`, `PriorResultsReach` |
| `catalogue` | 2 scopes, one covering the other | `BindingsCatalogued` |
| `authority` | the same | `GrantSuffices`, `AuthorityBounded`, `ExcessIsReported` |
| `governance` | 2 priorities, 5 shapes of rules | `AllowedIsClear` |
| `tenancy` | 2 tenants, 2 agents | `ShownAreShared` |

Why the bounds are enough. Every race in the code is between two handlers, or
between a handler and the one that dissolves or renegotiates under it: two agents
and the requester give three concurrent handlers, two of them inside
`_try_converge`. One renegotiation is what it takes for a handler to resume in
another cycle. The fault run needs no second convergence loop, so it spends its
states on closed connections at every point, and on the two nested counters with
both above 1. Agents are symmetric (`Symmetry`), used where no liveness property is
checked. `CHECK_DEADLOCK FALSE` is set where the system really may stop: with agents
that decline, a session may wait for ever (see hazards), and with faults a handler
may end and leave it open. `session_liveness` checks deadlock; `Done` stutters when
the session is over. The run of a graph needs two steps for an answer to go to the
wrong one, also of the same agent (plans may name an agent twice), two attempts for
a re-run and a final refusal, and a third agent for the node that has no executor.
With two attempts and two steps the graph runs up to three times.

The parts of `components`: two connections let an agent be on its new one while the
old one's end is outstanding, and two agents on one connection give the stray. Two
tasks under a limit of one are one that runs and one that waits for it, or one that is
cancelled and one that arrives meanwhile; their names are used again. Two clients are one
that was left behind and the newest; theirs are used again as well, so every number of
reconnections is covered as long as one old connection is open at a time. Three server
tasks for two agents leave one for a restart while another lets go. A plan of three steps has an agent twice with another in between,
which is what tells the policy of its last step from that of its first. Two scopes, one
covering the other, tell narrowing from widening, and every set of them is a claim, a
ceiling, a binding and a declaration. Two priorities let one rule hide another; the five
shapes are a rule by words, one for a person, one by filters, one that allows, one for
another point. `CHECK_DEADLOCK FALSE` is set because an agent that stopped, with nothing
left to happen to it, has stopped.

Fairness. `FairSpec` adds `WF_vars(Handlers)`: the event loop runs some handler as
long as one can run. Nothing is assumed of a particular handler. `Terminates` further
needs `Declining = FALSE` and `Faulty = FALSE`: every agent answers what it is sent
and the requester every plan, because the code has no timeout for either.
`Execution` assumes `WF_vars(Run)`: the event loop resumes the run when the answer,
the verdict or the executor's timer is there. Nothing is assumed of the agents, which
may never answer. `AgentTasksFairness` (run `agent_liveness`): the
event loop resumes `run_forever` and a `stop()` whose tasks are over, and a task lets go
once it is cancelled, which is what `asyncio` does with a coroutine that does not swallow
its cancellation. Nothing is assumed of the receive loops, and nothing makes a task that
was not cancelled end.

Each property has a mutant, a small slip in one definition (a lookup instead of a
pop, rejected offers composed, the counter lost, the transition unguarded ...) under
which TLC finds it violated. They are the definitions commented "A slip".

## What the code says and does not do

1. **The plan run need not be the plan approved** (`plan_approval`,
   `runtime.py:1169`). Two handlers inside `_try_converge` compose a plan each; an
   accept does not say which plan it answers, and what `composition_plan` holds is run.
2. **Dissolution can stop half-way** (`mandatory_dissolution`, `runtime.py:2519`). A
   send that raises ends the handler before the session is removed and archived.
3. **A dissolved session's memory can be seeded again** (`memory_destroyed`,
   `runtime.py:1320`). `_build_and_execute` does not ask whether the session is there.
4. **A result can be reported without a verdict** (`step_validation`,
   `supervisor.py:376`). A refusal runs the whole graph again; the new results of
   agents already validated replace the old ones, and a result taken out for good
   is back.
5. **A step its agent failed is not a failed step** (`failed_step`,
   `runtime.py:3274`). The executor does not act on the status of an agent's answer.
   For agents built on `BaseAgent` the schema check that would set it finds no schema
   anyway: they echo the id of the issued capability (`agents/base/agent.py:872`), not
   of the offered one.
6. **A failed read of the rules need not deny** (`unreadable_rules`, `engine.py:563`). The
   grounded layer takes rules it cannot read for none and allows; the model's layer reads
   again, and if that read succeeds the decision is the model's alone. `AllowedIsClear` is
   what remains: even then there was no breach, no policy against it, and the model agreed.

Six more have a formula in the module but no run, since others of the same kind have one.
TLC finds each violated where the formula is added to the named configuration as an
`INVARIANT` or `PROPERTY`:

7. **A late agent's answer changes what is archived** (`ArchivedAsAnswered`, with
   `session_faults`; `runtime.py:2562`). `_handle_complete` appends to `execution_results`
   whenever the session is found, also for a step that timed out, and `_archive_session`
   takes the last element: a session answered as a success can be archived as a failure,
   and the reverse. `ArchiveAgrees` is what remains: without such an answer they agree.
8. **A session that ran nothing can be archived as a success** (`SuccessWasReached`, with
   `session_interleavings`; `runtime.py:2559`). The outcome starts from `success` and turns
   into `cancelled` only if no offer was accepted either.
9. **`stop()` does not end every receive loop** (`StoppedIsDeaf`, with `components`;
   `agents/base/agent.py:342`). Where registration raises with the connection up,
   `run_forever` makes a new client and never disconnects the old one, whose loop still
   takes up work when the agent has stopped. `StoppedIsQuiet` is what remains: work that did
   not come that way is cancelled.
10. **A private namespace is private by naming only** (`NamespacesArePrivate`, with
   `components`; `memory.py:378`). An agent `crm` may write what belongs to `crm.reader`,
   and identifiers with a star, or the identifier `shared`, match more. `NamespacesAreOwn`
   is what remains: an agent's values are where its pattern, or that of a capability a plan
   gave it, matches.
11. **Disjoint claims are no constraint** (`WithinCredential`, with `components`;
   `scopes.py:142`). If no claim is within the credential the capability names no scope,
   which every later check reads as unrestricted, where `runtime.py:1934` reads otherwise.
   `AuthorityBounded` is what remains: a capability that names scopes bounds what is done;
   `ExcessIsReported` covers the other case, after the fact.
12. **A bridge does not call the tool of the step's capability** (`RightTool`, with
   `components`; `agents/mcp_bridge.py:277`). `_pick_tool` looks for a `capability_id` that
   the execution plan it is given does not have, so a bridge with several tools calls its
   first one, unless the requester's context names another.

Smaller divergences and limits, met while modelling and stated in the properties as
what they except:

* *Registration.* A disconnection removes one of the agents on a connection; the others
  keep an address nobody reads (`RouteIsLive` excepts them). `verify_challenge` does not
  look at the status, so a challenge held at a revocation still lets the agent in
  (`RevokedStaysOut`). A revocation does not end a live registration.
* *Agent runtime.* A `stop()` while `run_forever` connects is lost when the new connection
  serves (`StopEnds`). A `run_forever` that is itself cancelled stays connected while it
  waits for its tasks, and takes up more (`StoppedIsQuiet` excepts what arrives then). A DISSOLVE lost with a connection cancels nothing.
* *Managed agents.* A server keeps a copy of its row. A stopped agent stays known as a
  validator. `agent start` runs a server no table knows. Overlapping requests may leave a
  row and its server apart (`StatusAgrees`). The route that rediscovers tools takes the
  length of a number and fails after the work is done.
* *Bridges.* A failed discovery registers the bridge anew with no capability.
* *Memory.* An agent in two steps has the policy of the last one also in the first. A task
  that fails has its staged writes sent all the same (`agents/memory.py:13` says it leaves
  none). `clear` keeps the audit trail its comment says it destroys.
* *Authority.* `Capability.check` compares names without wildcards. With enforcement off and no claim the
  grant is empty and `require_scope` refuses. A refused attempt is reported as exceeded too.
  Removing a wildcard leaves the bindings it covered. `unbind_agent` has no caller.
* *Governance.* A rule of higher priority that asks for a person
  hides one of lower priority that denies.
* *Tenancy.* An agent whose only tenant is deleted is global from then on. `enabled` of
  tenants and users is read by no decision of visibility. Users are assigned to tenants that
  need not exist.

## The proofs

All proofs are checked to the last leaf; nothing is assumed beyond the named
assumptions of the modules, which TLC evaluates on the instances.

`Session_proofs.tla` proves, for any set of agents and any bounds, from the two
named assumptions only (`RequesterAssumption`: the requester is not an agent;
`BoundsAssumption`: the bounds are naturals and the switches Booleans):

| theorem | statement | rests on |
|---|---|---|
| `TypeCorrect` | `Spec => []TypeOK` | one step per action |
| `EndCorrect` | `Spec => []EndInv` | `TypeCorrect` |
| `ContractKept` | `Spec => KeepsContract` | `EndCorrect`: each action is an abstract step or a stutter |
| `DissolvedForGood` | `Spec => NoResurrection` | `EndCorrect` |
| `FarewellIsLast` | `Spec => NoPlanAfterFarewell` | `TypeCorrect` |
| `PlansAreVetted` | `Spec => []VettedPlans` | `VettedInv`, `HeldWhileAccepting` |
| `DissolutionIsUnderway` | `Spec => []DissolutionUnderway` | `FarewellInv` |
| `ArchiveAlwaysAgrees` | `Spec => []ArchiveAgrees` | `FarewellInv` |
| `RoundsAreBounded` | `Spec => []RoundsBounded` | `RoundsInv` |
| `NeverStrandedAlways` | `Spec => []NeverStranded` | `StrandInv` |
| `SessionAlwaysAdvances` | `Spec => SessionAdvances` | `TypeCorrect`: each action raises the measure |
| `LoneOfferRunsApproved` | with one agent and `Capabilities = 1`: `Spec => ApprovedIsExecuted` | `LoneInv` |

`EndInv` is needed because the contract says nothing of handlers: that COMPLETE is
sent at most once follows from where the requester's handler can be once one was
sent, that `mapped` is lost only in the second suspension of a dissolution, and that
what is archived is archived by the step that removes the session. `VettedPlans`
alone is not inductive either: a verdict is written to whatever record is at the
loop's position, so one needs that a handler in `accepting` whose record is still
listed has the position of that agent's record (`HeldWhileAccepting`), which other
handlers' appends and a renegotiation's clearing preserve. The steps from one
handler to another are the heart of these proofs: each action is shown not to
disturb what another handler holds. `FarewellInv` is about executions
whose connections all hold (a connection never opens again, so if they hold now they always
did): whoever took the mapping of an open session is in a dissolution that will remove it, and the last result of an answered session is the one
it was answered with, or an agent's that came after it (`AnswerStands`). `RoundsInv` counts:
`cycles <= Resets * Period + plan.renegotiation + 1`, where `Resets` is how many
rejected answers restarted the session and `Period` how many cycles each may have; a
renegotiation adds one to both sides, and a restart trades the counter in the plan for
a period.

`NeverStranded` is the absence of the deadlock that many handlers without a lock invite:
each of two agents' handlers could leave the decision to the other. `StrandInv` has what
forbids it while everybody answers: each agent that was solicited has responded or still
owes an offer (`Owed`), so the last `CheckResponses` of a cycle finds all responses there;
and unless some handler is dissolving the session (`Doomed`), its phase tells what is to
come (`Alive`): in `negotiation` somebody owes an offer or is on the way to a plan, in
`awaiting_approval` a plan is out, and a graph is built of a plan that has steps
(`ViableHasSteps`), so that the handler of the accept does not end by an exception.
`SessionAdvances` orders the states of a session lexicographically: its stage, its cycles,
the search of a cycle, the agents to be asked, the offers owed, the passes of the agents'
handlers, the plans out, the requester's pass, the steps to be answered. Each step of a
handler goes up in that order whatever other handlers did to the records, plans and
counters it reads. With the bound of `RoundsAreBounded`, and for finitely many agents,
nothing of `Terminates` is left to TLC but fairness: an open session has something to
come, and no step is undone.

`Execution_proofs.tla` proves, for any agents and executors, plans of any length and
any number of attempts (`ExecutorsAssumption`, `LimitsAssumption`):

| theorem | statement | rests on |
|---|---|---|
| `TypeCorrect` | `Spec => []TypeOK` | `Shape`: `TypeOK` and `Placed` |
| `FuturesOfTheStep` | `Spec => []NoStaleFuture` | `FuturesInv` |
| `AnswersMatch` | `Spec => []AnswersAreOwn` | `AnswerInv` |
| `RefusedIsGone` | `Spec => []RefusedNotReported` | `RefusedInv` |
| `SuccessHasAnswers` | `Spec => []SuccessIsComplete` | `CompleteInv` |
| `BoundedDispatches` | `Spec => []DispatchesBounded` | `SentInv`, `CompleteInv` |
| `PromiseKept` | `Spec => KeepsPromise` | `CompleteInv`: each action is a step of `RunContract` or a stutter |
| `RunAlwaysAdvances` | `Spec => RunAdvances` | `Shape` |
| `OneAttemptReportsAllowed` | `MaxRetries = 1 => (Spec => []ReportedWasAllowed)` | `SettledInv` |

`TypeOK` is not inductive: that `graph[node]` and `listed[pos]` exist where they are
used, and that attempts stay within their number, follows from where the run is
(`Placed`). `AnswersAreOwn` needs that, until an executor has timed out, no agent but
the one waited for works on anything, and that one on nothing but the EXECUTE last
sent (`AnswerInv`). `SuccessIsComplete` needs the nodes of a run one by one: while no
error is noted, each that has run has its answer. The bound on dispatches is counted
along the run: `sent <= Len(graph) * Reruns + Dispatched`, where `Reruns` is read off
`pos` and `attempt`. TLC found each of these strengthenings invariant on the instance
of the run `execution` before it was proved. `PromiseKept` is the refinement: an action
of the run is a step of `RunContract` or leaves all that it speaks of alone, the ones that
drop an answer being refusals and re-runs. `RunAdvances` is the order in which a run comes
forward: position, attempt, stage of the attempt, node, progress at the node; late answers
and dissolutions do not move it. With it, `RunEnds` needs only that the run goes on.
`RefusedIsGone`, `SuccessHasAnswers` and, below, `WorkAlwaysTracked` and `GrantAlwaysBound`
are what the proofs of checked properties rest on, or follow from them, and are no
properties of a run.

Two theorems say what causes a finding, by what excludes it. `LoneOfferRunsApproved`: where
one agent makes one offer for an intent, the plan run is the plan approved, because one
thing at a time is under way (`Load`): an offer owed, its way to a plan, the plan out, or the
requester's handler. The finding needs a second handler in `_try_converge`, and neither a
renegotiation nor a lost connection makes up for it. `OneAttemptReportsAllowed`: without
re-runs each listed agent the loop has passed has no result or one that was allowed
(`SettledInv`), so the re-run alone is what brings back results without a verdict. Both
theorems constrain the constants, as their statements say: for other values the runs
`plan_approval` and `step_validation` have counterexamples.

The other proofs, each from the assumptions its modules name:

| module | theorem | property | rests on |
|---|---|---|---|
| `Registration_proofs` | `RegistrationTypeCorrect` | type | one step per action |
| | `RouteAlwaysLive`, `RouteAlwaysBound` | `RouteIsLive`, `BoundRoute` | `RoutesOK` |
| | `ReconnectionAlwaysSurvives` | `ReconnectionSurvives` | type |
| | `RevokedAlwaysStaysOut` | `RevokedStaysOut` | `RoutesOK` |
| `Agents_proofs` | `AgentTypeCorrect`, `BridgeTypeCorrect` | types | one step per action |
| | `WorkAlwaysTracked` | `WorkIsTracked` | inductive |
| | `StoppedAlwaysQuiet` | `StoppedIsQuiet` | `LeavingInv` |
| | `DissolvedAlwaysQuiet` | `DissolvedIsQuiet` | `CancelInv` |
| | `RegisteredAlwaysKnown` | `RegisteredAsKnown` | `BridgeInv` |
| | `HostedTypeCorrect` | type | one step per action |
| | `ServedAlwaysFromTable` | `ServedFromTable` | `TableInv` |
| | `ClosedAlwaysQuiet` | `ClosedIsQuiet` | `QuietInv` |
| | `StatusAlwaysAgrees` | `StatusAgrees` | `StatusInv` |
| `SessionMemory_proofs` | `MemoryTypeCorrect` | type, with the place of the run | one step per action |
| | `NamespacesAlwaysOwn`, `ClearedAlwaysEmpty`, `SnapshotAlwaysFollowsPlan`, `PriorResultsAlwaysReach` | `NamespacesAreOwn`, `ClearedStaysEmpty`, `SnapshotFollowsPlan`, `PriorResultsReach` | `PolicyInv`, `SnapshotInv`: what a policy in force is made of |
| `Authority_proofs` | `BindingsAlwaysCatalogued` | `BindingsCatalogued` | inductive |
| | `CatalogueTypeCorrect`, `AuthorityTypeCorrect` | types | one step per action |
| | `GrantAlwaysBound` | `GrantIsBound` | type |
| | `GrantAlwaysSuffices` | `GrantSuffices` | `SufficesInv` |
| | `AuthorityAlwaysBounded` | `AuthorityBounded` | `WithinInv` |
| | `ExcessAlwaysReported` | `ExcessIsReported` | `ReportInv`, `WithinInv` |
| `Administration_proofs` | `GovernanceTypeCorrect`, `TenancyTypeCorrect` | types | one step per action |
| | `AllowedIsClearAlways` | `AllowedIsClear` | `EvaluationInv`, `CombineStrictest` |
| | `OnlySharedAreShown` | `ShownAreShared` | `LookInv` |

`RoutesOK` adds to the two properties what stays true between the read of a record and
its use (`AdmissionOK`): the connection is still there, since its end is a handler too,
and if the record had a subject it is the connection's. `CancelInv` says that a task
that was cancelled and is not over is awaited by whoever cancelled it, which is what
makes the end of the wait mean something; `LeavingInv` that the only receive loop that was
not left behind is the newest client's while it registers or serves, so that a
`run_forever` which leaves by itself has none that could start anything but a stray. `TableInv` says that a task that runs
or is over is in the table for the agent it serves, and that the table has no other; `QuietInv` that a
cancelled task is awaited by a request or by `stop()`; `StatusInv` where a request under
way has brought row and table apart. `PolicyInv` says that the
writes of any policy in force are what the agent's own pattern matches or what some plan of
the session gave it, whatever the patterns match. `WithinInv` is the chain, for a capability
that names scopes: the capability is covered by the credential, the grant is part of what the guard read, what is performed is covered by
the grant; it needs `Covering` to be transitive, `GrantSuffices` needs it reflexive. `CombineStrictest`:
the strictest of the outcomes permits only if each does; `EvaluationInv` says of both layers
what their outcome is worth, which for the grounded one is nothing if its read failed. `LookInv` relates the first
pass to the rows it read and the session's tenants to the requester's at its intent.
TLC found each property invariant on the instance of `components` first.

`Components_proofs` proves that a behaviour of the nine components side by side is, for
each of them, a behaviour of its own specification (`PartsImplemented`): so every theorem
above about a part is one about `ComponentsSpec`, which is what TLC explores, and
`ComponentsTypeCorrect` follows from the nine theorems about types.

Model-checked only: `Terminates`, `RunEnds` and `StopEnds` (liveness under fairness, and
`ENABLED`, are beyond the prover); every other property of a passing run is the statement
of a theorem. Facts by induction over data and about
recursive operators cannot be proved with the provers at hand; no module has any.

## Not modelled

Everything in `PROJECT.json` with status `not_modelled`, with its reason. In short:

* The in-process transport, in which a send runs the receiver: `Session` for it would be
  a second module with other suspension points.
* That `Execution` implements the one step `RunGraph` of `Session`: the two abstract an
  agent's late answers differently.
* Pure functions over documents (step inputs, artifacts, schemas, matching of keywords and
  patterns, entropy as a floating-point number), tokens and signatures, the contents of
  what language models answer: inputs.
* LLM configurations: rows that are read once. The runtime keeps the clients it built, so
  activating another configuration has no effect before a restart, although the route's
  audit entry (`coordinator/admin/api.py:965`) says "Switched active LLM".
* Execution counters of agents, whose read and write are one transaction each but two
  processes may both have read; nothing is decided on them.
* The dashboard, lists and statistics of the admin API, telemetry, the conformance suite
  and the examples keep no state of the bus.

## Running it

```
tlc -workers 2 -config session_interleavings.cfg MCSession
tlc -workers 2 -config execution.cfg MCExecution
tlc -workers 2 -config components.cfg MCComponents
tlc -workers 2 -config agent_liveness.cfg AgentTasks
tlc -workers 2 -config unreadable_rules.cfg MCGovernance
tlapm Session_proofs.tla
tlapm Execution_proofs.tla
tlapm Registration_proofs.tla        # and the other *_proofs.tla
```
