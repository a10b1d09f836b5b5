------------------------------ MODULE Session ------------------------------
(***************************************************************************)
(* One Agentic Bus session as the coordinator runs it: admission,          *)
(* discovery, offers, the convergence check, the plan put to the           *)
(* requester, its approval, renegotiation, the supervised run, validation  *)
(* of the answer and dissolution (coordinator/runtime.py).                 *)
(*                                                                         *)
(* The coordinator is one asyncio event loop.  The transport handles the   *)
(* messages of one connection in sequence and those of different           *)
(* connections concurrently, so there is one handler task per connection:  *)
(* the requester's and one per agent.  A task runs without interruption    *)
(* from one await to the next; pc[t] names the await task t is suspended   *)
(* at, and each action below is the code from one await to the next.       *)
(* Consecutive awaits between which no shared state is read or written     *)
(* are one suspension.  An exception leaves the handler (the transport     *)
(* logs it) and the session as it then is: pc goes back to "idle".         *)
(***************************************************************************)
EXTENDS Integers, Sequences, FiniteSets

CONSTANTS
  Agents,            \* provider agents that may be discovered
  Requester,         \* the requester's connection
  Capabilities,      \* offers one agent makes for one intent
  MaxRenegotiations, \* max_renegotiations (3 in the code)
  MaxRounds,         \* NegotiationEngine.max_rounds (5 in the code)
  MaxValidations,    \* max_validation_rounds (3 in the code)
  Validated,         \* the intent names an assigned_agent_id
  Faulty,            \* connections may close, calls may raise, steps time out
  Declining          \* an agent may leave a solicitation unanswered, or reject

ASSUME RequesterAssumption == Requester \notin Agents
ASSUME BoundsAssumption ==
  /\ Capabilities \in Nat \ {0}
  /\ MaxRenegotiations \in Nat
  /\ MaxRounds \in Nat
  /\ MaxValidations \in Nat
  /\ {Validated, Faulty, Declining} \subseteq BOOLEAN

VARIABLES
  stage,          \* is the session in SessionManager._sessions?
  phase,          \* SessionState.phase
  discovered,     \* SessionState.discovered_agents
  solicited,      \* SessionState.solicited_agents
  offers,         \* SessionState.offers
  acceptedOffers, \* SessionState.accepted_offers, as a set
  plan,           \* SessionState.composition_plan
  results,        \* status of the last of SessionState.execution_results
  memory,         \* does SessionState.memory hold entries?
  valRounds,      \* SessionState.validation_rounds
  serving,        \* agents that may still send the COMPLETE of a step
  answer,         \* status the COMPLETE made of the last run carries
  late,           \* history: an agent's COMPLETE was recorded after that run's
  mapped,         \* is the session in _session_requester_peers?
  up,             \* up[t]: the connection of t is open
  due,            \* due[a]: offers a may still send for the intents it was sent
  todo,           \* candidates _request_offers has not reached yet
  plansOut,       \* plans sent to the requester and not answered yet
  pc,             \* where each handler is suspended
  idx,            \* idx[a]: position of a's loop over session.offers
  hold,           \* hold[a]: the offer record a's loop is evaluating
  draft,          \* draft[a]: the plan a's handler has composed
  approved,       \* history: the plan the accept being handled answered
  allowed,        \* history: agents whose offer IBAC accepted
  cycles,         \* history: discovery cycles started
  completes,      \* history: COMPLETE messages sent to the requester
  dissolves,      \* history: DISSOLVE messages sent to the requester
  archives        \* history: outcomes archived, in order

lifecycle == <<stage, phase>>
market    == <<discovered, solicited, offers, acceptedOffers, plan>>
run       == <<results, memory, valRounds, serving, answer, late>>
links     == <<mapped, up, due, todo, plansOut>>
locals    == <<idx, hold, draft>>
history   == <<approved, allowed, cycles, completes, dissolves, archives>>
vars      == <<lifecycle, market, run, links, pc, locals, history>>

Tasks == Agents \cup {Requester}

Phases == {"created", "intent_received", "discovery", "negotiation",
           "awaiting_approval", "execution", "dissolved"}

Dissolving == {"dissolve", "d_requester", "d_agents"}

AgentPCs == {"idle", "offered", "evaluating", "accepting",
             "composing", "ordered", "explaining"} \cup Dissolving

RequesterPCs == {"idle", "admission", "decomposing", "discovering",
                 "soliciting", "approved", "graph", "authorizing",
                 "running", "finished", "completing"} \cup Dissolving

(* What agents report of a step, and the supervisor of a run.              *)
AgentVerdicts == {"success", "error", "denied", "invalid_input"}
Verdicts == AgentVerdicts \cup {"partial_failure"}

(* A plan's steps, by how many of them each agent holds: their order is    *)
(* the model's advice (order_steps only permutes) and nothing here reads   *)
(* it.                                                                     *)
Steps   == [Agents -> Nat]
NoSteps == [a \in Agents |-> 0]
Holders(steps) == {a \in Agents : steps[a] > 0}
Offer   == [agent : Agents, status : {"pending", "accepted", "rejected"}]
Plan    == [steps : Steps, viable : {"absent", "no", "yes"},
            round : Nat, renegotiation : Nat]
NewPlan(n) == [steps |-> NoSteps, viable |-> "absent", round |-> 0,
               renegotiation |-> n]

(* What a handler that evaluates no record holds.                          *)
NoRecord(a) == [agent |-> a, listed |-> FALSE]

TypeOK ==
  /\ stage \in {"none", "open", "dissolved"}
  /\ phase \in Phases
  /\ discovered \subseteq Agents
  /\ solicited \subseteq Agents
  /\ offers \in Seq(Offer)
  /\ acceptedOffers \subseteq Agents
  /\ plan \in Plan
  /\ results \in Verdicts \cup {"none"}
  /\ memory \in BOOLEAN
  /\ valRounds \in Nat
  /\ serving \subseteq Agents
  /\ answer \in Verdicts \cup {"none"}
  /\ late \in BOOLEAN
  /\ mapped \in BOOLEAN
  /\ up \in [Tasks -> BOOLEAN]
  /\ due \in [Agents -> Nat]
  /\ todo \subseteq Agents
  /\ plansOut \in Seq(Steps)
  /\ pc \in [Tasks -> AgentPCs \cup RequesterPCs]
  /\ pc[Requester] \in RequesterPCs
  /\ \A a \in Agents : pc[a] \in AgentPCs
  /\ idx \in [Agents -> Nat]
  /\ hold \in [Agents -> [agent : Agents, listed : BOOLEAN]]
  /\ draft \in [Agents -> Steps]
  /\ approved \in Steps
  /\ allowed \subseteq Agents
  /\ cycles \in Nat
  /\ completes \in Nat
  /\ dissolves \in Nat
  /\ archives \in Seq(Verdicts \cup {"cancelled"})

Init ==
  /\ stage = "none" /\ phase = "created"
  /\ discovered = {} /\ solicited = {}
  /\ offers = <<>> /\ acceptedOffers = {}
  /\ plan = NewPlan(0)
  /\ results = "none" /\ memory = FALSE /\ valRounds = 0 /\ serving = {}
  /\ answer = "none" /\ late = FALSE
  /\ mapped = FALSE
  /\ up = [t \in Tasks |-> TRUE]
  /\ due = [a \in Agents |-> 0]
  /\ todo = {}
  /\ plansOut = <<>>
  /\ pc = [t \in Tasks |-> "idle"]
  /\ idx = [a \in Agents |-> 0]
  /\ hold = [a \in Agents |-> NoRecord(a)]
  /\ draft = [a \in Agents |-> NoSteps]
  /\ approved = NoSteps
  /\ allowed = {}
  /\ cycles = 0 /\ completes = 0 /\ dissolves = 0 /\ archives = <<>>

----------------------------------------------------------------------------
(* Sending *)

Goto(t, l) == pc' = [pc EXCEPT ![t] = l]

(* Where a handler can be after a send to the requester.  A send on a      *)
(* closed connection raises and ends the handler; get_peer finds no peer   *)
(* once the server has forgotten the connection, which it does only when   *)
(* the handler of its last message has returned.  AfterReply: the handler  *)
(* holds the peer.  AfterSend: it looks the peer up.                       *)
AfterReply(l) == {IF up[Requester] THEN l ELSE "idle"}
AfterSend(l) ==
  {x \in {l, "idle"} :
     \/ x = l /\ (up[Requester] \/ ~mapped \/ pc[Requester] = "idle")
     \/ x = "idle" /\ mapped /\ ~up[Requester]}

----------------------------------------------------------------------------
(* The intent, on the requester's connection (_handle_intent) *)

HandleIntent ==
  /\ pc[Requester] = "idle" /\ stage = "none"
  /\ stage' = "open"
  /\ mapped' = TRUE
  /\ Goto(Requester, "admission")
  /\ UNCHANGED <<phase, market, run, up, due, todo, plansOut, locals, history>>

(* The IBAC verdict on the intent: a denial is sent, and dissolves.        *)
AdmitIntent ==
  /\ pc[Requester] = "admission"
  /\ \/ /\ phase' = "intent_received"
        /\ Goto(Requester, "decomposing")
     \/ /\ \E l \in AfterReply("dissolve") : Goto(Requester, l)
        /\ UNCHANGED phase
  /\ UNCHANGED <<stage, market, run, links, locals, history>>

Decompose ==
  /\ pc[Requester] = "decomposing"
  /\ \/ /\ phase' = "discovery"
        /\ cycles' = cycles + 1
        /\ Goto(Requester, "discovering")
     \/ /\ Faulty                        \* the model's answer does not parse
        /\ Goto(Requester, "idle")
        /\ UNCHANGED <<phase, cycles>>
  /\ UNCHANGED <<stage, market, run, links, locals, approved, allowed,
                 completes, dissolves, archives>>

(* SemanticAdjudicator.discover returns: for the intent, for a             *)
(* renegotiation and after a rejected answer.                              *)
Discover ==
  /\ pc[Requester] = "discovering"
  /\ \/ /\ discovered' = {}
        /\ \E l \in AfterReply("dissolve") \cup AfterSend("dissolve") :
             Goto(Requester, l)
        /\ UNCHANGED <<phase, todo>>
     \/ /\ stage = "open"
        /\ discovered' \in (SUBSET Agents) \ {{}}
        /\ phase' = "negotiation"
        /\ todo' = discovered'
        /\ Goto(Requester, "soliciting")
     \/ /\ stage # "open"                \* transition() raises
        /\ discovered' \in (SUBSET Agents) \ {{}}
        /\ Goto(Requester, "idle")
        /\ UNCHANGED <<phase, todo>>
     \/ /\ Faulty                        \* the model call raises
        /\ Goto(Requester, "idle")
        /\ UNCHANGED <<discovered, phase, todo>>
  /\ UNCHANGED <<stage, solicited, offers, acceptedOffers, plan, run, mapped,
                 up, due, plansOut, locals, history>>

(* One iteration of _request_offers: the intent is sent, the agent has no  *)
(* connection, or its connection has just closed and the send raises.      *)
RequestOffer(a) ==
  /\ pc[Requester] = "soliciting" /\ a \in todo
  /\ \/ /\ up[a]
        /\ solicited' = solicited \cup {a}
        /\ due' = [due EXCEPT ![a] = @ + Capabilities]
        /\ todo' = todo \ {a}
     \/ /\ ~up[a] /\ pc[a] = "idle"
        /\ todo' = todo \ {a}
        /\ UNCHANGED <<solicited, due>>
     \/ /\ ~up[a]
        /\ solicited' = solicited \cup {a}
        /\ todo' = {}
        /\ UNCHANGED due
  /\ Goto(Requester, IF todo' = {} THEN "idle" ELSE "soliciting")
  /\ UNCHANGED <<lifecycle, discovered, offers, acceptedOffers, plan, run,
                 mapped, up, plansOut, locals, history>>

----------------------------------------------------------------------------
(* Offers and convergence, on an agent's connection *)

(* _handle_offer: whatever the phase is when the IBAC verdict on the       *)
(* offer's eligibility comes, its record is appended.                      *)
HandleOffer(a) ==
  /\ pc[a] = "idle" /\ due[a] > 0
  /\ due' = [due EXCEPT ![a] = @ - 1]
  /\ IF stage = "open"
     THEN /\ \E s \in {"pending", "rejected"} :
               offers' = Append(offers, [agent |-> a, status |-> s])
          /\ Goto(a, "offered")
     ELSE UNCHANGED <<offers, pc>>
  /\ UNCHANGED <<lifecycle, discovered, solicited, acceptedOffers, plan, run,
                 mapped, up, todo, plansOut, locals, history>>

(* BaseAgent catches what generate_offer raises and sends nothing.         *)
Decline(a) ==
  /\ Declining /\ pc[a] = "idle" /\ due[a] > 0
  /\ due' = [due EXCEPT ![a] = @ - 1]
  /\ UNCHANGED <<lifecycle, market, run, mapped, up, todo, plansOut, pc,
                 locals, history>>

(* A reject from an agent dissolves the session (_handle_reject).          *)
AgentReject(a) ==
  /\ Declining /\ pc[a] = "idle" /\ a \in solicited /\ stage = "open"
  /\ Goto(a, "dissolve")
  /\ UNCHANGED <<lifecycle, market, run, links, locals, history>>

(* _try_converge up to its loop: the guard, and has everybody responded?   *)
Expected  == IF solicited # {} THEN solicited ELSE discovered
(* A slip: an offer that was rejected is no response.                      *)
RespondedWell == {offers[i].agent : i \in {j \in DOMAIN offers : offers[j].status # "rejected"}}
Responded == {offers[i].agent : i \in DOMAIN offers}
CheckResponses(a) ==
  /\ pc[a] = "offered"
  /\ IF phase \in {"awaiting_approval", "dissolved"} \/ ~(Expected \subseteq Responded)
     THEN Goto(a, "idle") /\ UNCHANGED idx
     ELSE Goto(a, "evaluating") /\ idx' = [idx EXCEPT ![a] = 1]
  /\ UNCHANGED <<lifecycle, market, run, links, hold, draft, history>>

(* The loop over session.offers goes by position.                          *)
Pending(a) == {i \in DOMAIN offers : i >= idx[a] /\ offers[i].status = "pending"}

NextPending(a) ==
  /\ pc[a] = "evaluating"
  /\ \E i \in Pending(a) :
       /\ \A j \in Pending(a) : i <= j
       /\ idx' = [idx EXCEPT ![a] = i]
       /\ hold' = [hold EXCEPT ![a] = [agent |-> offers[i].agent, listed |-> TRUE]]
  /\ Goto(a, "accepting")
  /\ UNCHANGED <<lifecycle, market, run, links, draft, history>>

(* The IBAC verdict on acceptance goes into the record the loop holds,     *)
(* whether or not the record is still in session.offers.                   *)
Acceptance(a) ==
  /\ pc[a] = "accepting"
  /\ \E s \in {"accepted", "rejected"} :
       /\ offers' = IF hold[a].listed THEN [offers EXCEPT ![idx[a]].status = s]
                    ELSE offers
       /\ IF s = "accepted"
          THEN /\ acceptedOffers' = acceptedOffers \cup {hold[a].agent}
               /\ allowed' = allowed \cup {hold[a].agent}
          ELSE UNCHANGED <<acceptedOffers, allowed>>
  /\ idx' = [idx EXCEPT ![a] = @ + 1]
  /\ hold' = [hold EXCEPT ![a] = NoRecord(a)]
  /\ Goto(a, "evaluating")
  /\ UNCHANGED <<lifecycle, discovered, solicited, plan, run, links, draft,
                 approved, cycles, completes, dissolves, archives>>

(* check_convergence with tau = 0.5: the normalised entropy of at most     *)
(* nine statuses is either 0 or above half of any initial entropy, and     *)
(* that of no offer is 1.                                                  *)
Converged == /\ offers # <<>>
             /\ \A i \in DOMAIN offers : offers[i].status = offers[1].status

Accepted == {i \in DOMAIN offers : offers[i].status = "accepted"}

Smaller(m, n) == IF m < n THEN m ELSE n

(* A slip: offers that have not converged are gone through once more.      *)
DecideAgain(a) ==
  /\ pc[a] = "evaluating" /\ Pending(a) = {}
  /\ IF Converged
     THEN Goto(a, "composing") /\ UNCHANGED plan /\ idx' = [idx EXCEPT ![a] = 0]
     ELSE /\ plan' = [plan EXCEPT !.round = Smaller(@ + 1, MaxRounds)]
          /\ Goto(a, IF Accepted # {} THEN "evaluating" ELSE "dissolve")
          /\ idx' = [idx EXCEPT ![a] = IF Accepted # {} THEN 1 ELSE 0]
  /\ UNCHANGED <<lifecycle, discovered, solicited, offers, acceptedOffers, run,
                 links, hold, draft, history>>

(* The loop has ended: converged, or needs_fallback decides.  The count of *)
(* rounds matters up to MaxRounds only, and stops there.                   *)
Decide(a) ==
  /\ pc[a] = "evaluating" /\ Pending(a) = {}
  /\ IF Converged
     THEN Goto(a, "composing") /\ UNCHANGED plan
     ELSE /\ plan' = [plan EXCEPT !.round = Smaller(@ + 1, MaxRounds)]
          /\ Goto(a, IF Accepted # {} /\ plan.round < MaxRounds
                     THEN "composing" ELSE "dissolve")
  /\ idx' = [idx EXCEPT ![a] = 0]
  /\ UNCHANGED <<lifecycle, discovered, solicited, offers, acceptedOffers, run,
                 links, hold, draft, history>>

----------------------------------------------------------------------------
(* The plan put to the requester (_propose_plan_to_requester) *)

(* A slip: every offer that was not rejected is composed.                  *)
ComposeUnrejected(a) ==
  /\ pc[a] = "composing"
  /\ draft' = [draft EXCEPT ![a] = [b \in Agents |->
       Cardinality({i \in DOMAIN offers :
                      offers[i].agent = b /\ offers[i].status # "rejected"})]]
  /\ Goto(a, "ordered")
  /\ UNCHANGED <<lifecycle, market, run, links, idx, hold, history>>

(* compose_offers, then the model orders the steps.                        *)
Compose(a) ==
  /\ pc[a] = "composing"
  /\ draft' = [draft EXCEPT ![a] =
       [b \in Agents |-> Cardinality({i \in Accepted : offers[i].agent = b})]]
  /\ Goto(a, "ordered")
  /\ UNCHANGED <<lifecycle, market, run, links, idx, hold, history>>

(* A slip: the composition plan is replaced, its counters with it.         *)
PublishAnew(a) ==
  /\ pc[a] = "ordered"
  /\ plan' = [NewPlan(0) EXCEPT !.steps = draft[a],
                                !.viable = IF draft[a] = NoSteps THEN "no" ELSE "yes"]
  /\ IF draft[a] = NoSteps
     THEN \E l \in AfterSend("dissolve") : Goto(a, l)
     ELSE Goto(a, "explaining")
  /\ UNCHANGED <<lifecycle, discovered, solicited, offers, acceptedOffers, run,
                 links, locals, history>>

Publish(a) ==
  /\ pc[a] = "ordered"
  /\ plan' = [plan EXCEPT !.steps = draft[a],
                          !.viable = IF draft[a] = NoSteps THEN "no" ELSE "yes"]
  /\ IF draft[a] = NoSteps
     THEN \E l \in AfterSend("dissolve") : Goto(a, l)
     ELSE Goto(a, "explaining")
  /\ UNCHANGED <<lifecycle, discovered, solicited, offers, acceptedOffers, run,
                 links, locals, history>>

(* Slips: the phase set without transition(), the requester's peer looked  *)
(* up before the await, the phase not set at all.                          *)
ProposeUnchecked(a) ==
  /\ pc[a] = "explaining"
  /\ \E l \in AfterSend("sent") :
       /\ plansOut' = IF mapped /\ up[Requester] THEN Append(plansOut, draft[a])
                      ELSE plansOut
       /\ phase' = IF l = "sent" THEN "awaiting_approval" ELSE phase
  /\ draft' = [draft EXCEPT ![a] = NoSteps]
  /\ Goto(a, "idle")
  /\ UNCHANGED <<stage, market, run, mapped, up, due, todo, idx, hold, history>>

ProposeToHeldPeer(a) ==
  /\ pc[a] = "explaining" /\ up[Requester]
  /\ plansOut' = Append(plansOut, draft[a])
  /\ phase' = IF stage = "open" THEN "awaiting_approval" ELSE phase
  /\ draft' = [draft EXCEPT ![a] = NoSteps]
  /\ Goto(a, "idle")
  /\ UNCHANGED <<stage, market, run, mapped, up, due, todo, idx, hold, history>>

ProposeInPlace(a) ==
  /\ pc[a] = "explaining" /\ mapped /\ up[Requester]
  /\ plansOut' = Append(plansOut, draft[a])
  /\ draft' = [draft EXCEPT ![a] = NoSteps]
  /\ Goto(a, "idle")
  /\ UNCHANGED <<lifecycle, market, run, mapped, up, due, todo, idx, hold, history>>

(* The plan is sent, and the phase set on return from the send: before any *)
(* reply to it is read.                                                    *)
Propose(a) ==
  /\ pc[a] = "explaining"
  /\ \E l \in AfterSend("sent") :
       /\ plansOut' = IF mapped /\ up[Requester] THEN Append(plansOut, draft[a])
                      ELSE plansOut
       /\ phase' = IF l = "sent" /\ stage = "open" THEN "awaiting_approval"
                   ELSE phase
  /\ draft' = [draft EXCEPT ![a] = NoSteps]
  /\ Goto(a, "idle")
  /\ UNCHANGED <<stage, market, run, mapped, up, due, todo, idx, hold, history>>

----------------------------------------------------------------------------
(* The requester's decision: it answers every plan it is sent, in order    *)

Answer == /\ pc[Requester] = "idle" /\ plansOut # <<>>
          /\ plansOut' = Tail(plansOut)

(* _handle_accept: dropped unless the phase is right; else acknowledged.   *)
Accept ==
  /\ Answer
  /\ IF stage = "open" /\ phase = "awaiting_approval"
     THEN /\ approved' = IF up[Requester] THEN Head(plansOut) ELSE NoSteps
          /\ \E l \in AfterReply("approved") : Goto(Requester, l)
     ELSE UNCHANGED <<approved, pc>>
  /\ UNCHANGED <<lifecycle, market, run, mapped, up, due, todo, locals, allowed,
                 cycles, completes, dissolves, archives>>

(* _handle_reject without renegotiate.                                     *)
Reject ==
  /\ Answer
  /\ Goto(Requester, IF stage = "open" THEN "dissolve" ELSE "idle")
  /\ UNCHANGED <<lifecycle, market, run, mapped, up, due, todo, locals, history>>

(* The reset that a renegotiation and a rejected answer share: a loop over *)
(* session.offers goes on holding a record that is no longer in it.        *)
ClearMarket(p) ==
  /\ offers' = <<>> /\ acceptedOffers' = {} /\ solicited' = {}
  /\ plan' = p
  /\ hold' = [a \in Agents |-> [agent |-> hold[a].agent, listed |-> FALSE]]
  /\ UNCHANGED <<discovered, idx, draft>>

(* _handle_reject with renegotiate, and _handle_renegotiation up to its    *)
(* discovery.                                                              *)
Renegotiate ==
  /\ Answer
  /\ \/ /\ stage # "open"
        /\ UNCHANGED <<phase, market, pc, locals, cycles>>
     \/ /\ stage = "open" /\ plan.renegotiation >= MaxRenegotiations
        /\ \E l \in AfterReply("dissolve") : Goto(Requester, l)
        /\ UNCHANGED <<phase, market, locals, cycles>>
     \/ /\ stage = "open" /\ plan.renegotiation < MaxRenegotiations
        /\ ClearMarket(NewPlan(plan.renegotiation + 1))
        /\ phase' = "discovery"
        /\ cycles' = cycles + 1
        /\ Goto(Requester, "discovering")
  /\ UNCHANGED <<stage, run, mapped, up, due, todo, approved, allowed,
                 completes, dissolves, archives>>

----------------------------------------------------------------------------
(* Execution and validation, still in the handler of the accept *)

(* _finalize_negotiation, and _build_and_execute: the memory is given its  *)
(* policies and seeded ...                                                 *)
Finalize ==
  /\ pc[Requester] = "approved"
  /\ IF plan.viable = "yes"
     THEN /\ memory' = TRUE
          /\ Goto(Requester, "graph")
          /\ UNCHANGED approved
     ELSE /\ approved' = NoSteps
          /\ Goto(Requester, "dissolve")
          /\ UNCHANGED memory
  /\ UNCHANGED <<lifecycle, market, results, valRounds, serving, answer, late, links,
                 locals, allowed, cycles, completes, dissolves, archives>>

(* ... and the graph built; building one without steps raises.             *)
BuildGraph ==
  /\ pc[Requester] = "graph"
  /\ Goto(Requester, IF plan.steps = NoSteps THEN "idle" ELSE "authorizing")
  /\ approved' = NoSteps
  /\ UNCHANGED <<lifecycle, market, run, links, locals, allowed, cycles,
                 completes, dissolves, archives>>

(* The IBAC verdict on the execution (ExecutionSupervisor.execute).        *)
Authorize ==
  /\ pc[Requester] = "authorizing"
  /\ \/ /\ results' = "denied" /\ answer' = "denied" /\ late' = FALSE
        /\ Goto(Requester, "completing")
        /\ UNCHANGED <<phase, serving>>
     \/ /\ IF stage = "open"
           THEN /\ phase' = "execution"
                /\ serving' = serving \cup {a \in Holders(plan.steps) : up[a]}
                /\ Goto(Requester, "running")
           ELSE Goto(Requester, "idle") /\ UNCHANGED <<phase, serving>>
        /\ UNCHANGED <<results, answer, late>>
  /\ UNCHANGED <<stage, market, memory, valRounds, links, locals, history>>

(* _handle_complete of an agent: its payload is one more of the session's  *)
(* execution_results, and its step is over.  The steps run in turn, in an  *)
(* order that is not kept.  A step that timed out may be answered late, as *)
(* long as the session is there, also when the run's own result is already *)
(* the last.                                                               *)
AgentComplete(a) ==
  /\ pc[a] = "idle" /\ a \in serving
  /\ serving' = serving \ {a}
  /\ IF stage = "open"
     THEN results' \in AgentVerdicts /\ late' = (answer # "none")
     ELSE UNCHANGED <<results, late>>
  /\ UNCHANGED <<lifecycle, market, memory, valRounds, answer, links, pc, locals,
                 history>>

(* The graph has run: every step was answered, or timed out, which it also *)
(* does when the agent was told of a dissolution and dropped its work.  The *)
(* COMPLETE of a slow agent may still come.                                *)
(* What agents write goes to a memory that still has its policies, which   *)
(* are set as it is seeded and cleared with it: the memory holds entries   *)
(* after the run if it did before.  Only a run that finished is put to the *)
(* validator.  A model's answer that is no object makes scoring or         *)
(* synthesis raise.                                                        *)
RunGraph ==
  /\ pc[Requester] = "running"
  /\ serving = {} \/ Faulty \/ stage # "open"
  /\ \/ /\ results' \in {"success", "partial_failure"}
        /\ answer' = results' /\ late' = FALSE
        /\ Goto(Requester, "finished")
     \/ /\ Faulty
        /\ results' = "error" /\ answer' = results' /\ late' = FALSE
        /\ Goto(Requester, "completing")
     \/ /\ Faulty
        /\ Goto(Requester, "idle")
        /\ UNCHANGED <<results, answer, late>>
  /\ UNCHANGED <<lifecycle, market, memory, valRounds, serving, links, locals,
                 history>>

(* _validation_renegotiate up to its discovery: the reset comes before the *)
(* transition, which raises when the session is gone.                      *)
ValidationRenegotiate ==
  /\ ClearMarket(NewPlan(0))
  /\ results' = "none" /\ answer' = "none" /\ late' = FALSE
  /\ IF stage = "open"
     THEN /\ phase' = "discovery"
          /\ cycles' = cycles + 1
          /\ Goto(Requester, "discovering")
     ELSE Goto(Requester, "idle") /\ UNCHANGED <<phase, cycles>>

(* ValidationEngine.validate, and what _run_validation_loop makes of it.   *)
Validate ==
  /\ pc[Requester] = "finished" /\ Validated
  /\ valRounds' = valRounds + 1
  /\ \/ /\ Goto(Requester, "completing")
        /\ UNCHANGED <<phase, market, results, answer, late, locals, cycles>>
     \/ /\ valRounds' >= MaxValidations
        /\ \E l \in AfterSend("dissolve") : Goto(Requester, l)
        /\ UNCHANGED <<phase, market, results, answer, late, locals, cycles>>
     \/ /\ valRounds' < MaxValidations
        /\ ValidationRenegotiate
  /\ UNCHANGED <<stage, memory, serving, links, approved, allowed, completes,
                 dissolves, archives>>

(* A slip: the session's requester is popped, not looked up, to answer it. *)
CompleteAndForget ==
  /\ pc[Requester] \in {"completing", "finished"}
  /\ completes' = IF mapped /\ up[Requester] THEN completes + 1 ELSE completes
  /\ mapped' = FALSE
  /\ \E l \in AfterSend("dissolve") : Goto(Requester, l)
  /\ UNCHANGED <<lifecycle, market, run, up, due, todo, plansOut, locals, approved,
                 allowed, cycles, dissolves, archives>>

(* COMPLETE, if the session still maps to its requester's peer: after the  *)
(* validation or, with no validator named or to be found, or nothing to    *)
(* validate, without one.                                                  *)
Complete ==
  /\ pc[Requester] \in {"completing", "finished"}
  /\ completes' = IF mapped /\ up[Requester] THEN completes + 1 ELSE completes
  /\ \E l \in AfterSend("dissolve") : Goto(Requester, l)
  /\ UNCHANGED <<lifecycle, market, run, links, locals, approved, allowed,
                 cycles, dissolves, archives>>

----------------------------------------------------------------------------
(* Dissolution, on any connection (_dissolve_session) *)

Dissolve(t) ==
  /\ pc[t] = "dissolve"
  /\ IF stage = "open"
     THEN memory' = FALSE /\ Goto(t, "d_requester")
     ELSE Goto(t, "idle") /\ UNCHANGED memory
  /\ UNCHANGED <<lifecycle, market, results, valRounds, serving, answer, late, links,
                 locals, history>>

(* A slip: the mapping is looked up, not popped.                           *)
DissolveRequesterAgain(t) ==
  /\ pc[t] = "d_requester"
  /\ dissolves' = IF mapped /\ up[Requester] THEN dissolves + 1 ELSE dissolves
  /\ \E l \in AfterSend("d_agents") : Goto(t, l)
  /\ UNCHANGED <<lifecycle, market, run, links, locals, approved, allowed, cycles,
                 completes, archives>>

(* The mapping is popped before the send, which may raise.                 *)
DissolveRequester(t) ==
  /\ pc[t] = "d_requester"
  /\ mapped' = FALSE
  /\ dissolves' = IF mapped /\ up[Requester] THEN dissolves + 1 ELSE dissolves
  /\ \E l \in AfterSend("d_agents") : Goto(t, l)
  /\ UNCHANGED <<lifecycle, market, run, up, due, todo, plansOut, locals,
                 approved, allowed, cycles, completes, archives>>

(* Slips: a session without results has no outcome of its own; the offers  *)
(* decide before the results do.                                           *)
OutcomeOfResults == results
OutcomeOfOffers  == IF acceptedOffers = {} THEN "cancelled" ELSE "success"

(* The agents are told, the session is removed and its snapshot archived   *)
(* (_archive_session logs what the repository raises).  The repository     *)
(* takes a status that is no outcome for a success.                        *)
Outcome == IF results \in Verdicts \ {"invalid_input"} THEN results
           ELSE IF results = "none" /\ acceptedOffers = {} THEN "cancelled"
           ELSE "success"

DissolveAgents(t) ==
  /\ pc[t] = "d_agents"
  /\ Goto(t, "idle")
  /\ \/ /\ \A a \in discovered : up[a] \/ pc[a] = "idle"
        /\ stage = "open"
        /\ stage' = "dissolved"
        /\ phase' = "dissolved"
        /\ \/ archives' = Append(archives, Outcome)
           \/ Faulty /\ UNCHANGED archives
     \/ /\ stage # "open"                   \* another handler removed it
        /\ UNCHANGED <<stage, phase, archives>>
     \/ /\ \E a \in discovered : ~up[a]       \* the send raises
        /\ UNCHANGED <<stage, phase, archives>>
  /\ UNCHANGED <<market, run, links, locals, approved, allowed, cycles,
                 completes, dissolves>>

----------------------------------------------------------------------------
(* A connection closes: what was sent on it may still be read.             *)
Close(t) ==
  /\ Faulty /\ up[t]
  /\ up' = [up EXCEPT ![t] = FALSE]
  /\ UNCHANGED <<lifecycle, market, run, mapped, due, todo, plansOut, pc, locals,
                 history>>

Dissolution(t) == Dissolve(t) \/ DissolveRequester(t) \/ DissolveAgents(t)

RequesterTask ==
  \/ HandleIntent \/ AdmitIntent \/ Decompose \/ Discover
  \/ \E a \in Agents : RequestOffer(a)
  \/ Accept \/ Reject \/ Renegotiate
  \/ Finalize \/ BuildGraph \/ Authorize \/ RunGraph
  \/ Validate \/ Complete
  \/ Dissolution(Requester)

AgentTask(a) ==
  \/ HandleOffer(a) \/ Decline(a) \/ AgentReject(a)
  \/ CheckResponses(a) \/ NextPending(a) \/ Acceptance(a) \/ Decide(a)
  \/ Compose(a) \/ Publish(a) \/ Propose(a) \/ AgentComplete(a) \/ Dissolution(a)

Quiet == /\ stage = "dissolved" /\ \A t \in Tasks : pc[t] = "idle"
         /\ plansOut = <<>> /\ \A a \in Agents : due[a] = 0
Done  == Quiet /\ UNCHANGED vars

Handlers == RequesterTask \/ \E a \in Agents : AgentTask(a)

Next == Handlers \/ (\E t \in Tasks : Close(t)) \/ Done

Spec == Init /\ [][Next]_vars

(* The event loop runs some handler as long as one can run; with Faulty    *)
(* and Declining off the agents answer every solicitation and the          *)
(* requester every plan.                                                   *)
FairSpec == Spec /\ WF_vars(Handlers)

----------------------------------------------------------------------------
(* Properties *)

(* The session keeps the contract towards the requester and the archive,   *)
(* although any number of handlers may dissolve it at the same time and    *)
(* each may stop half-way: at most one COMPLETE, one DISSOLVE, one record, *)
(* in that order (_build_and_execute, _dissolve_session).                  *)
Contract == INSTANCE SessionContract WITH recorded <- Len(archives)
KeepsContract == Contract!Spec

(* A handler suspended while another dissolved the session cannot bring    *)
(* it back: its phase stays "dissolved" and no graph is started.           *)
NoResurrection ==
  [][stage = "dissolved" =>
       /\ stage' = "dissolved" /\ phase' = "dissolved"
       /\ pc'[Requester] = "running" => pc[Requester] = "running"]_vars

(* Once the session no longer maps to its requester, nobody puts a plan to *)
(* the requester: _propose_plan_to_requester looks the peer up after its   *)
(* last await.                                                             *)
NoPlanAfterFarewell ==
  [][stage # "none" /\ ~mapped => Len(plansOut') <= Len(plansOut)]_vars

(* Every step of a plan, composed, put to the requester or about to be     *)
(* run, is of an agent whose offer passed the acceptance gate, whatever    *)
(* handlers that work on the same records, or on records of an earlier     *)
(* cycle, do to each other.                                                *)
VettedPlans ==
  /\ Holders(plan.steps) \cup acceptedOffers \subseteq allowed
  /\ {offers[i].agent : i \in Accepted} \subseteq allowed
  /\ \A a \in Agents : Holders(draft[a]) \subseteq allowed
  /\ \A i \in DOMAIN plansOut : Holders(plansOut[i]) \subseteq allowed

Connected == \A t \in Tasks : up[t]

(* While connections hold, an open session that no longer addresses its    *)
(* requester is being dissolved by some handler.                           *)
DissolutionUnderway ==
  Connected /\ stage = "open" /\ ~mapped => \E t \in Tasks : pc[t] = "d_agents"

(* Discovery is run a bounded number of times: a rejected answer resets    *)
(* the count of renegotiations, and is itself counted.                     *)
Larger(m, n) == IF m > n THEN m ELSE n
RoundsBounded ==
  cycles <= (MaxRenegotiations + 1) * Larger(1, MaxValidations)

(* While connections hold, a session whose answer was sent is archived     *)
(* with the status of that answer, whichever handler archives it, though   *)
(* steps time out and calls raise, unless an agent's COMPLETE of a step    *)
(* that had timed out was recorded since the run ended.                    *)
ArchiveAgrees ==
  Connected /\ completes = 1 /\ archives # <<>> => archives[1] = answer \/ late

(* While everybody answers and no connection closes, an open session is    *)
(* never left with nothing to come: some handler can run on, or an offer   *)
(* or a decision is owed.  In particular the offers that complete the set  *)
(* of responses always make some handler decide (_try_converge).           *)
NeverStranded ==
  ~Faulty /\ ~Declining /\ stage = "open" =>
    \/ \E t \in Tasks : pc[t] \notin {"idle", "soliciting"}
    \/ pc[Requester] = "soliciting" /\ todo # {}
    \/ plansOut # <<>>
    \/ \E a \in Agents : due[a] > 0

(* The order in which a handler comes to its awaits: a loop over the       *)
(* offers stays where it is, and idle is the end.                          *)
Pass(l) ==
  CASE l = "offered" -> 1                  [] l = "approved" -> 1
    [] l \in {"evaluating", "accepting"} -> 2
    [] l = "graph" -> 2                    [] l = "authorizing" -> 3
    [] l = "composing" -> 3                [] l = "ordered" -> 4
    [] l = "running" -> 4                  [] l = "explaining" -> 5
    [] l = "finished" -> 5                 [] l = "completing" -> 6
    [] l = "dissolve" -> 7                 [] l = "d_requester" -> 8
    [] l = "d_agents" -> 9                 [] OTHER -> 10

(* How far the discovery of a cycle has come.                              *)
Search(l) ==
  CASE l = "admission" -> 1                [] l = "decomposing" -> 2
    [] l = "discovering" -> 3              [] l = "soliciting" -> 4
    [] OTHER -> 5

(* What a step takes forward, if nothing that ranks before it changes: the *)
(* session, its cycles, the discovery of a cycle, the agents still to be   *)
(* asked, the offers owed, an agent's pass through _try_converge, the      *)
(* plans to be answered, the requester's pass, the steps to be answered.   *)
AgentAdvances(a) ==
  /\ \A t \in Tasks \ {a} : pc'[t] = pc[t]
  /\ \/ Pass(pc'[a]) > Pass(pc[a])
     \/ Pass(pc'[a]) = Pass(pc[a]) /\ idx'[a] > idx[a]
     \/ pc[a] = "evaluating" /\ pc'[a] = "accepting" /\ idx'[a] = idx[a]

Advances ==
  \/ stage' # stage
  \/ cycles' > cycles
  \/ Search(pc'[Requester]) > Search(pc[Requester])
  \/ /\ Search(pc'[Requester]) = Search(pc[Requester])
     /\ \/ todo' \subseteq todo /\ todo' # todo
        \/ /\ UNCHANGED todo
           /\ \E a \in Agents : due[a] > 0 /\ due' = [due EXCEPT ![a] = @ - 1]
        \/ UNCHANGED <<todo, due>> /\ \E a \in Agents : AgentAdvances(a)
        \/ /\ UNCHANGED <<todo, due>> /\ \A a \in Agents : pc'[a] = pc[a]
           /\ \/ plansOut # <<>> /\ plansOut' = Tail(plansOut)
              \/ UNCHANGED plansOut /\ Pass(pc'[Requester]) > Pass(pc[Requester])
              \/ /\ UNCHANGED <<plansOut, pc>>
                 /\ serving' \subseteq serving /\ serving' # serving

(* Whatever handlers do to each other's records, plans and counters, each  *)
(* step of one brings the session nearer to its end, unless an agent calls *)
(* the session off or a connection closes: with the bound on cycles, only  *)
(* finitely many steps can be taken.                                       *)
SessionAdvances == [][~Declining /\ up' = up => Advances]_vars

(* Every open session is dissolved, when every agent and the requester     *)
(* answer and no connection closes.                                        *)
Terminates == stage = "open" ~> stage = "dissolved"

(* What the code says of itself and does not do; see the README.           *)

(* What is built for execution is the plan the accept being handled        *)
(* answered ("execution proceeds ONLY after the requester explicitly sends *)
(* an accept message in response to the proposed execution plan").         *)
ApprovedIsExecuted ==
  [][pc[Requester] = "graph" /\ pc'[Requester] = "authorizing"
       => plan.steps = approved]_vars

(* A session whose answer was sent is dissolved ("Mandatory dissolution",  *)
(* the statement after the send of COMPLETE).                              *)
AnsweredIsDissolved == completes = 1 ~> stage = "dissolved"

(* A dissolved session's memory is empty ("Destroyed at dissolution").     *)
MemoryDestroyed == stage = "dissolved" => ~memory

(* An answered session is archived with its answer's status ("Derive       *)
(* outcome from execution results").                                       *)
ArchivedAsAnswered ==
  completes = 1 /\ archives # <<>> => archives[1] = answer

(* The archive says "success" only of a session whose execution succeeded. *)
SuccessWasReached ==
  [][archives' # archives /\ Outcome = "success" => results = "success"]_vars
=============================================================================
