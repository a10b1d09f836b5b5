-------------------------- MODULE Execution_proofs --------------------------
(***************************************************************************)
(* Proofs about Execution, for every set of agents, every length of plan   *)
(* and every number of attempts.                                           *)
(***************************************************************************)
EXTENDS Execution, TLAPS

(* A plan is a sequence of agents, and not an empty one.                   *)
LEMMA PlanType ==
  \A p \in Plans : /\ Len(p) \in Nat \ {0}
                   /\ DOMAIN p = 1..Len(p)
                   /\ \A i \in 1..Len(p) : p[i] \in Agents
<1> TAKE p \in Plans
<1>1. PICK n \in 1..MaxSteps : p \in [1..n -> Agents]
  BY DEF Plans
<1>2. n \in Nat /\ n > 0
  BY LimitsAssumption
<1>3. p \in Seq(Agents) /\ Len(p) = n
  BY <1>1, <1>2
<1> QED BY <1>1, <1>2, <1>3

----------------------------------------------------------------------------
(* Where the run is, node, pos and attempt say: a node that is run exists, *)
(* a result that is validated is one of the listed agents', and the graph  *)
(* is run again only with attempts left.                                   *)
Placed ==
  /\ pc = "authorizing" => pos = 0 /\ attempt = 0
  /\ pc \in {"composing", "waiting"} => node <= Len(graph)
  /\ pc \in {"node", "composing", "waiting"} => pos <= Len(listed)
  /\ pc # "validating" =>
       attempt < MaxRetries /\ (pos > Len(listed) => attempt = 0)
  /\ pc = "validating" => pos \in 1..Len(listed) /\ attempt > 0

Shape == TypeOK /\ Placed

(* Shape in two parts: where the run is, and what it and the agents hold.  *)
Place ==
  /\ graph \in Plans /\ listed \in Plans
  /\ pc \in {"authorizing", "node", "composing", "waiting",
             "validating", "scoring", "finished", "raised"}
  /\ node \in 1..Len(graph) + 1
  /\ pos \in 0..Len(listed) + 1
  /\ attempt \in 0..MaxRetries
  /\ Placed

Data ==
  /\ stage \in {"open", "dissolved"}
  /\ principals \subseteq Agents
  /\ stepResults \in [Agents -> Nat \cup {Placeholder}]
  /\ errors \subseteq Agents
  /\ status \in {"none", "denied", "error", "success", "partial_failure"}
  /\ pending \in [Agents -> Nat]
  /\ answer \in Nat
  /\ sent \in Nat
  /\ work \in [Agents -> SUBSET Nat]
  /\ verdict \in [Agents -> {"none", "allowed", "refused"}]
  /\ failed \subseteq Nat
  /\ {late, raised} \subseteq BOOLEAN

LEMMA ShapeParts == Shape <=> Place /\ Data
BY DEF Shape, TypeOK, Place, Data

LEMMA ShapeInit == Init => Shape
<1> SUFFICES ASSUME Init PROVE Shape
  OBVIOUS
<1>1. Len(graph) \in Nat \ {0} /\ Len(listed) \in Nat \ {0}
  BY PlanType DEF Init
<1>2. NoResult \in [Agents -> Nat \cup {Placeholder}]
  BY DEF NoResult, None
<1>3. /\ Unjudged \in [Agents -> {"none", "allowed", "refused"}]
      /\ pending \in [Agents -> Nat]
      /\ work \in [Agents -> SUBSET Nat]
  BY DEF Init, Unjudged
<1>4. graph \in Plans /\ listed \in Plans
  BY DEF Init
<1>5. /\ node \in 1..Len(graph) + 1 /\ pos \in 0..Len(listed) + 1
      /\ attempt \in 0..MaxRetries /\ attempt < MaxRetries
  BY <1>1, LimitsAssumption DEF Init
<1>6. TypeOK
  BY <1>2, <1>3, <1>4, <1>5 DEF Init, TypeOK
<1>7. Placed
  BY <1>1, <1>5 DEF Init, Placed
<1> QED BY <1>6, <1>7 DEF Shape

(* The steps from which the others are built.                              *)
LEMMA FailsType ==
  ASSUME Shape, NodeFails, graph' = graph, pc \in {"node", "composing", "waiting"},
         node <= Len(graph)
  PROVE  /\ errors' \subseteq Agents /\ node' \in 1..Len(graph) + 1
         /\ pc' = "node" /\ UNCHANGED <<stepResults, verdict>>
<1>1. Len(graph) \in Nat /\ graph[node] \in Agents
  BY PlanType DEF Shape, TypeOK
<1> QED BY <1>1 DEF Shape, TypeOK, NodeFails, Current

LEMMA ReturnsType ==
  ASSUME Shape, NEW r \in Nat \cup {Placeholder}, NodeReturns(r), graph' = graph,
         node <= Len(graph)
  PROVE  /\ stepResults' \in [Agents -> Nat \cup {Placeholder}]
         /\ verdict' \in [Agents -> {"none", "allowed", "refused"}]
         /\ node' \in 1..Len(graph) + 1
         /\ pc' = "node" /\ UNCHANGED errors
<1>1. Len(graph) \in Nat /\ graph[node] \in Agents
  BY PlanType DEF Shape, TypeOK
<1> QED BY <1>1 DEF Shape, TypeOK, NodeReturns, Current

LEMMA GoOnType ==
  ASSUME Shape, pos + 1 \in 1..Len(listed) + 1, GoOnAt(pos + 1), listed' = listed
  PROVE  /\ pos' \in 0..Len(listed') + 1 /\ attempt' \in 0..MaxRetries
         /\ \/ pc' = "scoring" /\ pos' = Len(listed) + 1 /\ attempt' = 0
            \/ /\ pc' = "validating" /\ attempt' = 1
               /\ pos' > pos /\ pos' \in 1..Len(listed')
<1>1. Len(listed) \in Nat /\ DOMAIN listed = 1..Len(listed) /\ MaxRetries \in Nat \ {0}
  BY PlanType, LimitsAssumption DEF Shape, TypeOK
<1>2. CASE pos' = Len(listed) + 1 /\ attempt' = 0 /\ pc' = "scoring"
  BY <1>1, <1>2
<1>3. CASE pos' \in WithResult(pos + 1) /\ attempt' = 1 /\ pc' = "validating"
  <2>1. pos' \in 1..Len(listed) /\ pos' >= pos + 1
    BY <1>1, <1>3 DEF WithResult
  <2>2. pos \in Int
    BY DEF Shape, TypeOK
  <2> QED BY <1>1, <1>3, <2>1, <2>2
<1> QED BY <1>2, <1>3 DEF GoOnAt

LEMMA GoOnPlace ==
  ASSUME Shape, pos + 1 \in 1..Len(listed) + 1, GoOnAt(pos + 1),
         UNCHANGED <<graph, node, listed>>
  PROVE  Place'
<1>1. /\ graph \in Plans /\ listed \in Plans /\ node \in 1..Len(graph) + 1
      /\ Len(listed) \in Nat /\ MaxRetries \in Nat \ {0}
  BY PlanType, LimitsAssumption DEF Shape, TypeOK
<1> QED BY <1>1, GoOnType DEF Place, Placed

----------------------------------------------------------------------------
LEMMA ShapeStep == Shape /\ [Next]_vars => Shape'
<1> SUFFICES ASSUME Shape, [Next]_vars PROVE Place' /\ Data'
  BY DEF Shape, TypeOK, Place, Data
<1> USE LimitsAssumption
<1>0. Place /\ Data
  BY ShapeParts
<1>1. /\ Len(graph) \in Nat \ {0} /\ Len(listed) \in Nat \ {0}
      /\ DOMAIN graph = 1..Len(graph) /\ DOMAIN listed = 1..Len(listed)
      /\ \A i \in 1..Len(graph) : graph[i] \in Agents
      /\ \A i \in 1..Len(listed) : listed[i] \in Agents
  BY <1>0, PlanType DEF Place
<1>2. ASSUME pc \in {"node", "composing", "waiting"}, node <= Len(graph), pc' = "node",
             node' = node + 1, UNCHANGED <<graph, loop>>
      PROVE  Place'
  BY <1>0, <1>1, <1>2 DEF Place, Placed, loop
<1>3. CASE Authorize
  <2>1. Len(listed') \in Nat \ {0} /\ principals' \subseteq Agents
    BY <1>0, <1>1, <1>3, PlanType DEF Authorize, Place, Data, InGraph
  <2>2. Place'
    BY <1>0, <1>3, <2>1 DEF Authorize, Place, Placed
  <2>3. Data'
    BY <1>0, <1>3, <2>1 DEF Authorize, Data, state, futures, history
  <2> QED BY <2>2, <2>3
<1>4. CASE RunMissing
  <2>1. NodeReturns(Placeholder) /\ node <= Len(graph) /\ graph' = graph
    BY <1>4 DEF RunMissing
  <2>2. Place'
    BY <1>2, <1>4, <2>1 DEF RunMissing, NodeReturns
  <2>3. Data'
    BY <1>0, <1>4, <2>1, ReturnsType DEF RunMissing, Data, futures, history
  <2> QED BY <2>2, <2>3
<1>5. CASE Dispatch
  <2>1. CASE pc' = "composing" /\ UNCHANGED <<node, state>>
    BY <1>0, <1>5, <2>1 DEF Dispatch, Place, Placed, Data, loop, futures, history, state
  <2>2. CASE NodeFails
    <3>1. Place'
      BY <1>2, <1>5, <2>2 DEF Dispatch, NodeFails
    <3>2. Data'
      BY <1>0, <1>5, <2>2, FailsType DEF Dispatch, Data, futures, history
    <3> QED BY <3>1, <3>2
  <2> QED BY <1>5, <2>1, <2>2 DEF Dispatch
<1>6. CASE Send
  <2>1. /\ sent' = sent + 1 /\ answer' = 0
        /\ pending' = [pending EXCEPT ![Current] = sent']
        /\ UNCHANGED <<stage, graph, principals, loop, status, failed, late>>
        /\ pc = "composing" /\ node <= Len(graph)
    BY <1>0, <1>6 DEF Send, Place, Placed
  <2>2. sent' \in Nat /\ answer' \in Nat
    BY <1>0, <2>1 DEF Data
  <2>3. \A n \in Nat : [pending EXCEPT ![Current] = n] \in [Agents -> Nat]
    BY <1>0 DEF Data
  <2>4. pending' \in [Agents -> Nat]
    BY <2>1, <2>2, <2>3
  <2>5. CASE work' = [work EXCEPT ![Current] = @ \cup {sent'}] /\ pc' = "waiting"
             /\ UNCHANGED <<node, state, raised>>
    <3>1. \A n \in Nat : [work EXCEPT ![Current] = @ \cup {n}] \in [Agents -> SUBSET Nat]
      BY <1>0 DEF Data
    <3>2. Place'
      BY <1>0, <2>1, <2>5 DEF Place, Placed, loop
    <3>3. Data'
      BY <1>0, <2>1, <2>2, <2>4, <2>5, <3>1 DEF Data, state
    <3> QED BY <3>2, <3>3
  <2>6. CASE raised' = TRUE /\ NodeFails /\ UNCHANGED work
    <3>1. Place'
      BY <1>2, <2>1, <2>6 DEF NodeFails
    <3>2. Data'
      BY <1>0, <2>1, <2>2, <2>4, <2>6, FailsType DEF Data
    <3> QED BY <3>1, <3>2
  <2> QED BY <1>6, <2>5, <2>6 DEF Send
<1>7. CASE Receive
  <2>1. NodeReturns(answer) /\ node <= Len(graph) /\ graph' = graph
    BY <1>0, <1>7 DEF Receive, Place, Placed
  <2>2. answer \in Nat \cup {Placeholder}
    BY <1>0 DEF Data
  <2>3. Place'
    BY <1>2, <1>7, <2>1 DEF Receive, NodeReturns
  <2>4. Data'
    BY <1>0, <1>7, <2>1, <2>2, ReturnsType DEF Receive, Data, futures, history
  <2> QED BY <2>3, <2>4
<1>8. CASE Timeout
  <2>1. pc = "waiting" /\ NodeFails /\ node <= Len(graph) /\ graph' = graph
    BY <1>0, <1>8 DEF Timeout, Place, Placed
  <2>2. pending' \in [Agents -> Nat]
    BY <1>0, <1>8 DEF Timeout, Data
  <2>3. Place'
    BY <1>2, <1>8, <2>1 DEF Timeout, NodeFails
  <2>4. Data'
    BY <1>0, <1>8, <2>1, <2>2, FailsType DEF Timeout, Data
  <2> QED BY <2>3, <2>4
<1>9. CASE GraphDone
  <2>1. Data'
    BY <1>0, <1>9 DEF GraphDone, Data, state, futures, history
  <2>2. /\ pc = "node" /\ pos <= Len(listed) /\ attempt < MaxRetries
        /\ UNCHANGED <<graph, node, listed>>
    BY <1>0, <1>9 DEF GraphDone, Place, Placed
  <2>3. CASE pos > 0 /\ pos' = pos /\ attempt' = attempt + 1 /\ pc' = "validating"
    BY <1>0, <1>1, <2>1, <2>2, <2>3 DEF Place, Placed
  <2>4. CASE GoOnAt(pos + 1)
    <3>1. pos + 1 \in 1..Len(listed) + 1
      BY <1>0, <1>1, <2>2 DEF Place
    <3> QED BY <2>1, <2>2, <2>4, <3>1, GoOnPlace
  <2> QED BY <1>9, <2>3, <2>4 DEF GraphDone
<1>10. CASE Allow
  <2>1. GoOnAt(pos + 1) /\ UNCHANGED <<graph, node, listed>>
    BY <1>10 DEF Allow
  <2>2. pos + 1 \in 1..Len(listed) + 1
    BY <1>0, <1>1, <1>10 DEF Allow, Place, Placed
  <2>3. Place'
    BY <2>1, <2>2, GoOnPlace
  <2>4. verdict' \in [Agents -> {"none", "allowed", "refused"}]
    BY <1>0, <1>10 DEF Allow, Data
  <2>5. Data'
    BY <1>0, <1>10, <2>4 DEF Allow, Data, futures, history
  <2> QED BY <2>3, <2>5
<1>11. CASE Rerun
  <2>1. stepResults' \in [Agents -> Nat \cup {Placeholder}]
    BY <1>11 DEF Rerun, NoResult, None
  <2>2. Place'
    BY <1>0, <1>1, <1>11 DEF Rerun, Place, Placed, loop
  <2>3. Data'
    BY <1>0, <1>11, <2>1 DEF Rerun, Data, Unjudged, futures, history
  <2> QED BY <2>2, <2>3
<1>12. CASE GiveUp
  <2>1. GoOnAt(pos + 1) /\ UNCHANGED <<graph, node, listed>>
    BY <1>12 DEF GiveUp
  <2>2. pos \in 1..Len(listed) /\ pos + 1 \in 1..Len(listed) + 1
    BY <1>0, <1>1, <1>12 DEF GiveUp, Place, Placed
  <2>3. Place'
    BY <2>1, <2>2, GoOnPlace
  <2>4. /\ verdict' \in [Agents -> {"none", "allowed", "refused"}]
        /\ stepResults' \in [Agents -> Nat \cup {Placeholder}]
    BY <1>0, <1>12 DEF GiveUp, Data, None
  <2>5. errors' \subseteq Agents
    BY <1>0, <1>1, <1>12, <2>2 DEF GiveUp, Data
  <2>6. Data'
    BY <1>0, <1>12, <2>4, <2>5 DEF GiveUp, Data, futures, history
  <2> QED BY <2>3, <2>6
<1>13. CASE Conclude \/ GraphFails
  <2>1. Place'
    BY <1>0, <1>13 DEF Conclude, GraphFails, Place, Placed, loop
  <2>2. Data'
    BY <1>0, <1>13 DEF Conclude, GraphFails, Data, state, futures, history
  <2> QED BY <2>1, <2>2
<1>14. CASE Dissolve \/ UNCHANGED vars
  <2>1. Place'
    BY <1>0, <1>14 DEF Dissolve, vars, Place, Placed, position, loop
  <2>2. Data'
    BY <1>0, <1>14 DEF Dissolve, vars, Data, state, futures, history
  <2> QED BY <2>1, <2>2
<1>15. ASSUME NEW a \in Agents, AgentComplete(a) PROVE Place' /\ Data'
  <2>1. /\ work' \in [Agents -> SUBSET Nat] /\ answer' \in Nat
        /\ pending' \in [Agents -> Nat] /\ failed' \subseteq Nat
    BY <1>0, <1>15 DEF AgentComplete, Data
  <2>2. Place'
    BY <1>0, <1>15 DEF AgentComplete, Place, Placed, position, loop
  <2>3. Data'
    BY <1>0, <1>15, <2>1 DEF AgentComplete, Data, state
  <2> QED BY <2>2, <2>3
<1>16. ASSUME NEW a \in Agents, Cancel(a) PROVE Place' /\ Data'
  <2>1. work' \in [Agents -> SUBSET Nat]
    BY <1>0, <1>16 DEF Cancel, Data
  <2>2. Place'
    BY <1>0, <1>16 DEF Cancel, Place, Placed, position, loop
  <2>3. Data'
    BY <1>0, <1>16, <2>1 DEF Cancel, Data, state, futures, history
  <2> QED BY <2>2, <2>3
<1> QED BY <1>3, <1>4, <1>5, <1>6, <1>7, <1>8, <1>9, <1>10, <1>11, <1>12,
           <1>13, <1>14, <1>15, <1>16 DEF Next, Run, Others, Done

(* Every variable of the run keeps its type, and the run its place.        *)
THEOREM ShapeCorrect == Spec => []Shape
BY ShapeInit, ShapeStep, PTL DEF Spec

(* The run's variables keep their types, whatever the plan and the agents. *)
THEOREM TypeCorrect == Spec => []TypeOK
BY ShapeCorrect, PTL DEF Shape

----------------------------------------------------------------------------
(* A registered future belongs to the step being waited for, and is taken  *)
(* out as it is resolved; but for those whose send raised.                 *)
FuturesInv ==
  /\ pc = "waiting" => sent > 0
  /\ ~raised => \A a \in Agents :
       pending[a] # 0 => /\ pc = "waiting" /\ a = Current
                         /\ pending[a] = sent /\ answer = 0

LEMMA FuturesStep == Shape /\ FuturesInv /\ [Next]_vars => FuturesInv'
<1> SUFFICES ASSUME Shape, FuturesInv, [Next]_vars PROVE FuturesInv'
  OBVIOUS
<1>0. sent \in Nat /\ pending \in [Agents -> Nat] /\ raised \in BOOLEAN
  BY DEF Shape, TypeOK
<1>1. CASE Authorize \/ RunMissing \/ GraphFails \/ GraphDone \/ Allow \/ Rerun
           \/ GiveUp \/ Conclude
  <2>1. /\ pc # "waiting" /\ pc' # "waiting"
        /\ UNCHANGED <<pending, raised>>
    BY <1>1 DEF Authorize, RunMissing, GraphFails, GraphDone, Allow, Rerun, GiveUp,
                Conclude, NodeReturns, GoOnAt, futures, history
  <2> QED BY <2>1 DEF FuturesInv
<1>2. CASE Dispatch
  BY <1>2 DEF Dispatch, NodeFails, FuturesInv, futures, history
<1>3. CASE Send
  <2>1. /\ pc = "composing" /\ sent' = sent + 1 /\ answer' = 0
        /\ pending' = [pending EXCEPT ![Current] = sent'] /\ graph' = graph
    BY <1>3 DEF Send
  <2>2. sent' \in Nat /\ sent' > 0
    BY <1>0, <2>1
  <2>3. CASE pc' = "waiting" /\ UNCHANGED <<node, state, raised>>
    BY <1>0, <2>1, <2>2, <2>3 DEF FuturesInv, Current
  <2>4. CASE raised' = TRUE /\ NodeFails
    BY <2>4 DEF FuturesInv, NodeFails
  <2> QED BY <1>3, <2>3, <2>4 DEF Send
<1>4. CASE Receive
  <2>1. pc = "waiting" /\ answer # 0 /\ pc' = "node" /\ UNCHANGED <<pending, raised>>
    BY <1>4 DEF Receive, NodeReturns, futures, history
  <2> QED BY <2>1 DEF FuturesInv
<1>5. CASE Timeout
  <2>1. /\ pc' = "node" /\ pending' = [pending EXCEPT ![Current] = 0]
        /\ raised' = raised
    BY <1>5 DEF Timeout, NodeFails
  <2> QED BY <1>0, <2>1 DEF FuturesInv
<1>6. ASSUME NEW a \in Agents, AgentComplete(a) PROVE FuturesInv'
  <2>1. /\ pending' = [pending EXCEPT ![a] = 0]
        /\ UNCHANGED <<pc, node, graph, sent, raised>>
        /\ answer' # answer => pc = "waiting" /\ pending[a] = sent
    BY <1>6 DEF AgentComplete, position
  <2>2. SUFFICES ASSUME ~raised, NEW b \in Agents, pending'[b] # 0
                 PROVE  pc' = "waiting" /\ b = Current' /\ pending'[b] = sent' /\ answer' = 0
    BY <2>1 DEF FuturesInv
  <2>3. b # a /\ pending'[b] = pending[b]
    BY <1>0, <2>1, <2>2
  <2>4. pc = "waiting" /\ b = Current /\ pending[b] = sent /\ answer = 0 /\ sent > 0
    BY <2>2, <2>3 DEF FuturesInv
  <2>5. pending[a] = 0
    BY <2>2, <2>3, <2>4 DEF FuturesInv
  <2>6. answer' = answer
    BY <1>0, <2>1, <2>4, <2>5
  <2> QED BY <2>1, <2>3, <2>4, <2>6 DEF Current
<1>7. ASSUME NEW a \in Agents, Cancel(a) PROVE FuturesInv'
  BY <1>7 DEF Cancel, FuturesInv, position, futures, history, Current
<1>8. CASE Dissolve \/ UNCHANGED vars
  BY <1>8 DEF Dissolve, vars, FuturesInv, position, futures, history, Current
<1> QED BY <1>1, <1>2, <1>3, <1>4, <1>5, <1>6, <1>7, <1>8 DEF Next, Run, Others, Done

LEMMA FuturesCorrect == Spec => []FuturesInv
<1>1. Init => FuturesInv
  BY DEF Init, FuturesInv
<1> QED BY <1>1, ShapeCorrect, FuturesStep, PTL DEF Spec

(* No future outlives the step it was made for, unless its send raised, in *)
(* plans of any length with any number of re-runs, timeouts and late       *)
(* answers.                                                                *)
THEOREM FuturesOfTheStep == Spec => []NoStaleFuture
<1>1. FuturesInv => NoStaleFuture
  BY DEF FuturesInv, NoStaleFuture
<1> QED BY <1>1, FuturesCorrect, PTL

----------------------------------------------------------------------------
(* Until an executor times out, an agent works at most on the step that is *)
(* waited for, and no longer than until it is answered.                    *)
AnswerInv ==
  ~late =>
    /\ \A a \in Agents : work[a] # {} =>
         pc = "waiting" /\ a = Current /\ answer = 0 /\ work[a] = {sent}
    /\ pc = "waiting" /\ answer # 0 => answer = sent

LEMMA AnswerStep == Shape /\ AnswerInv /\ [Next]_vars => AnswerInv'
<1> SUFFICES ASSUME Shape, AnswerInv, [Next]_vars, ~late' PROVE AnswerInv'
  BY DEF AnswerInv
<1>0. sent \in Nat /\ work \in [Agents -> SUBSET Nat] /\ late \in BOOLEAN
  BY DEF Shape, TypeOK
<1>1. CASE Authorize \/ RunMissing \/ GraphFails \/ GraphDone \/ Allow \/ Rerun
           \/ GiveUp \/ Conclude
  <2>1. /\ pc # "waiting" /\ pc' # "waiting"
        /\ UNCHANGED <<work, late>>
    BY <1>1 DEF Authorize, RunMissing, GraphFails, GraphDone, Allow, Rerun, GiveUp,
                Conclude, NodeReturns, GoOnAt, history
  <2> QED BY <2>1 DEF AnswerInv
<1>2. CASE Dispatch
  <2>1. pc # "waiting" /\ pc' # "waiting" /\ UNCHANGED <<work, late>>
    BY <1>2 DEF Dispatch, NodeFails, history
  <2> QED BY <2>1 DEF AnswerInv
<1>3. CASE Send
  <2>1. pc = "composing" /\ ~late /\ answer' = 0 /\ graph' = graph
    BY <1>3 DEF Send
  <2>2. \A a \in Agents : work[a] = {}
    BY <2>1 DEF AnswerInv
  <2>3. CASE /\ work' = [work EXCEPT ![Current] = @ \cup {sent'}]
             /\ pc' = "waiting" /\ UNCHANGED <<node, state, raised>>
    <3>1. \A a \in Agents : work'[a] # {} => a = Current /\ work'[a] = {sent'}
      BY <1>0, <2>2, <2>3
    <3>2. Current' = Current
      BY <2>1, <2>3 DEF Current
    <3> QED BY <2>1, <2>3, <3>1, <3>2 DEF AnswerInv
  <2>4. CASE NodeFails /\ UNCHANGED work
    BY <2>2, <2>4 DEF AnswerInv, NodeFails
  <2> QED BY <1>3, <2>3, <2>4 DEF Send
<1>4. CASE Receive
  <2>1. /\ pc = "waiting" /\ answer # 0 /\ pc' = "node"
        /\ UNCHANGED <<work, late>>
    BY <1>4 DEF Receive, NodeReturns, history
  <2> QED BY <2>1 DEF AnswerInv
<1>5. CASE Timeout
  BY <1>5 DEF Timeout
<1>6. ASSUME NEW a \in Agents, AgentComplete(a) PROVE AnswerInv'
  <2>1. PICK id \in work[a] :
          /\ work' = [work EXCEPT ![a] = @ \ {id}]
          /\ answer' = IF pc = "waiting" /\ pending[a] = sent THEN id ELSE answer
    BY <1>6 DEF AgentComplete
  <2>2. UNCHANGED <<pc, node, graph, sent, late>>
    BY <1>6 DEF AgentComplete, position
  <2>3. /\ pc = "waiting" /\ a = Current /\ answer = 0
        /\ work[a] = {sent} /\ id = sent
    BY <2>1, <2>2 DEF AnswerInv
  <2>4. \A b \in Agents : work'[b] = {}
    BY <1>0, <2>1, <2>2, <2>3 DEF AnswerInv
  <2> QED BY <2>1, <2>2, <2>3, <2>4 DEF AnswerInv
<1>7. ASSUME NEW a \in Agents, Cancel(a) PROVE AnswerInv'
  <2>1. /\ work' = [work EXCEPT ![a] = {}]
        /\ UNCHANGED <<pc, node, graph, sent, answer, late>>
    BY <1>7 DEF Cancel, position, futures, history
  <2>2. \A b \in Agents : work'[b] # {} => work'[b] = work[b]
    BY <1>0, <2>1
  <2> QED BY <2>1, <2>2 DEF AnswerInv, Current
<1>8. CASE Dissolve \/ UNCHANGED vars
  BY <1>8 DEF Dissolve, vars, AnswerInv, position, futures, history, Current
<1> QED BY <1>1, <1>2, <1>3, <1>4, <1>5, <1>6, <1>7, <1>8 DEF Next, Run, Others, Done

(* Although a future is found by its agent only, the answer a step gets is *)
(* its own, as long as no executor has timed out: whatever is sent, fails, *)
(* is refused and sent again.                                              *)
THEOREM AnswersMatch == Spec => []AnswersAreOwn
<1>1. Init => AnswerInv
  BY DEF Init, AnswerInv
<1>2. AnswerInv => AnswersAreOwn
  BY DEF AnswerInv, AnswersAreOwn
<1> QED BY <1>1, <1>2, ShapeCorrect, AnswerStep, PTL DEF Spec

----------------------------------------------------------------------------
(* A refused agent has no result: it gets one only with a new verdict.     *)
RefusedInv == \A a \in Agents : verdict[a] = "refused" => stepResults[a] = None

LEMMA RefusedStep == Shape /\ RefusedInv /\ [Next]_vars => RefusedInv'
<1> SUFFICES ASSUME Shape, RefusedInv, [Next]_vars PROVE RefusedInv'
  OBVIOUS
<1>0. /\ stepResults \in [Agents -> Nat \cup {Placeholder}]
      /\ verdict \in [Agents -> {"none", "allowed", "refused"}]
  BY DEF Shape, TypeOK
<1>1. CASE UNCHANGED <<stepResults, verdict>>
  BY <1>1 DEF RefusedInv
<1>2. ASSUME NEW r, NodeReturns(r) PROVE RefusedInv'
  <2>1. /\ stepResults' = [stepResults EXCEPT ![Current] = r]
        /\ verdict' = [verdict EXCEPT ![Current] = "none"]
    BY <1>2 DEF NodeReturns
  <2> QED BY <1>0, <2>1 DEF RefusedInv
<1>3. CASE Allow
  <2>1. /\ verdict' = [verdict EXCEPT ![listed[pos]] = "allowed"]
        /\ stepResults' = stepResults
    BY <1>3 DEF Allow
  <2> QED BY <1>0, <2>1 DEF RefusedInv
<1>4. CASE Rerun
  <2>1. verdict' = Unjudged
    BY <1>4 DEF Rerun
  <2> QED BY <2>1 DEF Unjudged, RefusedInv
<1>5. CASE GiveUp
  <2>1. /\ verdict' = [verdict EXCEPT ![listed[pos]] = "refused"]
        /\ stepResults' = [stepResults EXCEPT ![listed[pos]] = None]
    BY <1>5 DEF GiveUp
  <2> QED BY <1>0, <2>1 DEF RefusedInv
<1> QED BY <1>1, <1>2, <1>3, <1>4, <1>5
        DEF Next, Run, Others, Done, Authorize, RunMissing, Dispatch, Send, Receive,
            Timeout, GraphFails, GraphDone, Conclude, Dissolve, AgentComplete, Cancel,
            NodeFails, state, vars

(* However often a graph is run again, a result that was refused is not    *)
(* reported.                                                               *)
THEOREM RefusedIsGone == Spec => []RefusedNotReported
<1>1. Init => RefusedInv
  BY DEF Init, Unjudged, RefusedInv
<1>2. RefusedInv => RefusedNotReported
  BY DEF RefusedInv, RefusedNotReported
<1> QED BY <1>1, <1>2, ShapeCorrect, RefusedStep, PTL DEF Spec

----------------------------------------------------------------------------
(* While no error is noted, the nodes that have run of agents with an      *)
(* executor have answers; results are validated once all nodes have run.   *)
Answered(i) == graph[i] \in Executors => stepResults[graph[i]] > 0

CompleteInv ==
  /\ errors = {} => \A i \in 1..node - 1 : Answered(i)
  /\ pc \in {"validating", "scoring"} => node = Len(graph) + 1
  /\ status = "success" =>
       pc = "finished" /\ errors = {} /\ node = Len(graph) + 1

LEMMA CompleteStep == Shape /\ CompleteInv /\ [Next]_vars => CompleteInv'
<1> SUFFICES ASSUME Shape, CompleteInv, [Next]_vars PROVE CompleteInv'
  OBVIOUS
<1>0. /\ stepResults \in [Agents -> Nat \cup {Placeholder}]
      /\ Len(graph) \in Nat /\ node \in 1..Len(graph) + 1
      /\ \A i \in 1..Len(graph) : graph[i] \in Agents
      /\ answer \in Nat /\ listed \in Plans
  BY PlanType DEF Shape, TypeOK
<1>1. CASE Authorize
  BY <1>1 DEF Authorize, CompleteInv, Answered, state
<1>2. ASSUME NEW r \in Nat \cup {Placeholder}, NodeReturns(r),
             Current \in Executors => r > 0, node <= Len(graph), pc # "finished",
             UNCHANGED <<graph, status>>
      PROVE  CompleteInv'
  <2>1. /\ stepResults' = [stepResults EXCEPT ![graph[node]] = r]
        /\ pc' = "node" /\ node' = node + 1 /\ errors' = errors
    BY <1>2 DEF NodeReturns, Current
  <2>2. ASSUME errors = {}, NEW i \in 1..node' - 1 PROVE Answered(i)'
    <3>1. CASE graph[i] = graph[node]
      BY <1>0, <1>2, <2>1, <3>1 DEF Answered, Current
    <3>2. CASE graph[i] # graph[node]
      <4>1. i \in 1..node - 1
        BY <1>0, <2>1, <3>2
      <4>2. Answered(i)
        BY <2>2, <4>1 DEF CompleteInv
      <4>3. i \in 1..Len(graph) /\ stepResults'[graph[i]] = stepResults[graph[i]]
        BY <1>0, <2>1, <3>2, <4>1
      <4> QED BY <1>2, <4>2, <4>3 DEF Answered
    <3> QED BY <3>1, <3>2
  <2>3. status' # "success"
    BY <1>2 DEF CompleteInv
  <2> QED BY <2>1, <2>2, <2>3 DEF CompleteInv
<1>3. ASSUME NodeFails, pc # "finished", UNCHANGED status PROVE CompleteInv'
  BY <1>3 DEF NodeFails, CompleteInv
<1>4. CASE RunMissing
  BY <1>2, <1>4 DEF RunMissing
<1>5. CASE Dispatch
  <2>1. CASE pc' = "composing" /\ UNCHANGED <<node, state>>
    BY <1>5, <2>1 DEF Dispatch, CompleteInv, Answered, state
  <2> QED BY <1>3, <1>5, <2>1 DEF Dispatch
<1>6. CASE Send
  <2>1. CASE pc' = "waiting" /\ UNCHANGED <<node, state>>
    BY <1>6, <2>1 DEF Send, CompleteInv, Answered, state
  <2> QED BY <1>3, <1>6, <2>1 DEF Send
<1>7. CASE Receive
  <2>1. answer > 0 /\ node <= Len(graph)
    BY <1>0, <1>7 DEF Receive, Shape, Placed
  <2> QED BY <1>0, <1>2, <1>7, <2>1 DEF Receive
<1>8. CASE Timeout
  BY <1>3, <1>8 DEF Timeout
<1>9. CASE GraphDone \/ Allow
  <2>1. /\ UNCHANGED <<node, graph, stepResults, errors, status>>
        /\ node = Len(graph) + 1 /\ pc # "finished"
    BY <1>9 DEF GraphDone, Allow, CompleteInv, state
  <2> QED BY <2>1 DEF CompleteInv, Answered
<1>10. CASE Rerun
  BY <1>10 DEF Rerun, CompleteInv
<1>11. CASE GiveUp
  <2>1. /\ UNCHANGED <<node, graph, status>> /\ errors' # {}
        /\ pc = "validating"
    BY <1>11 DEF GiveUp
  <2> QED BY <2>1 DEF CompleteInv
<1>12. CASE Conclude \/ GraphFails
  BY <1>12 DEF Conclude, GraphFails, CompleteInv, Answered, state
<1>13. CASE Dissolve \/ UNCHANGED vars
  BY <1>13 DEF Dissolve, vars, CompleteInv, Answered, position, state
<1>14. ASSUME NEW a \in Agents, AgentComplete(a) \/ Cancel(a) PROVE CompleteInv'
  BY <1>14 DEF AgentComplete, Cancel, CompleteInv, Answered, position, state
<1> QED BY <1>1, <1>4, <1>5, <1>6, <1>7, <1>8, <1>9, <1>10, <1>11, <1>12,
           <1>13, <1>14 DEF Next, Run, Others, Done

(* A success has an answer for every step whose agent has an executor.     *)
THEOREM SuccessHasAnswers == Spec => []SuccessIsComplete
<1>1. Init => CompleteInv
  BY DEF Init, CompleteInv
<1>2. Shape /\ CompleteInv => SuccessIsComplete
  <2> SUFFICES ASSUME Shape, CompleteInv, status = "success",
                      NEW a \in InGraph \cap Executors
               PROVE  stepResults[a] > 0
    BY DEF SuccessIsComplete
  <2>1. PICK i \in DOMAIN graph : a = graph[i]
    BY DEF InGraph
  <2>2. i \in 1..Len(graph) /\ Len(graph) \in Nat
    BY PlanType DEF Shape, TypeOK
  <2> QED BY <2>1, <2>2 DEF CompleteInv, Answered
<1> QED BY <1>1, <1>2, ShapeCorrect, CompleteStep, PTL DEF Spec

----------------------------------------------------------------------------
(* How often the graph has been run again: MaxRetries - 1 times for each   *)
(* result behind the one being validated, and once for each attempt at     *)
(* that one but the first.                                                 *)
Reruns ==
  IF pos = 0 THEN 0
  ELSE (pos - 1) * (MaxRetries - 1)
         + (IF pc = "validating" THEN attempt - 1 ELSE attempt)

(* The steps this run of the graph has sent, at most.                      *)
Dispatched == IF pc = "waiting" THEN node ELSE node - 1

SentInv == sent <= Len(graph) * Reruns + Dispatched

LEMMA Product ==
  \A m, a, b \in Nat : /\ m * a \in Nat /\ m * a = a * m
                      /\ a <= b => m * a <= m * b
                      /\ m * (a + 1) = m * a + m
                      /\ (a + 1) * m = a * m + m
OBVIOUS

LEMMA RerunsType ==
  ASSUME Shape
  PROVE  /\ Reruns \in Nat /\ Reruns <= Len(listed) * (MaxRetries - 1)
         /\ pos > 0 => Reruns <= pos * (MaxRetries - 1)
<1> DEFINE m == MaxRetries - 1
           l == Len(listed)
           extra == IF pc = "validating" THEN attempt - 1 ELSE attempt
<1>1. /\ m \in Nat /\ l \in Nat /\ pos \in 0..l + 1 /\ attempt \in 0..MaxRetries
      /\ MaxRetries \in Nat
  BY PlanType, LimitsAssumption DEF Shape, TypeOK
<1>2. extra \in 0..m
  BY <1>1 DEF Shape, Placed
<1>3. pos = l + 1 => extra = 0
  BY <1>1 DEF Shape, Placed
<1>4. CASE pos = 0
  BY <1>1, <1>4, Product DEF Reruns
<1>5. CASE pos > 0
  <2>1. PICK q \in 0..l : pos = q + 1
    BY <1>1, <1>5
  <2>2. Reruns = q * m + extra
    BY <1>1, <1>5, <2>1 DEF Reruns
  <2> HIDE DEF m, l, extra
  <2>3. q * m \in Nat /\ pos * m = q * m + m /\ m * q <= m * l /\ m * q = q * m
        /\ m * l = l * m
    BY <1>1, <2>1, Product
  <2>4. Reruns \in Nat /\ Reruns <= pos * m
    BY <1>1, <1>2, <2>2, <2>3
  <2>5. Reruns <= l * m
    <3>1. CASE q = l
      BY <1>1, <1>2, <1>3, <2>1, <2>2, <2>3, <3>1
    <3>2. CASE q < l
      <4>1. pos \in Nat /\ pos <= l
        BY <1>1, <2>1, <3>2
      <4>2. m * pos <= m * l /\ m * pos = pos * m
        BY <1>1, <4>1, Product
      <4> QED BY <1>1, <2>3, <2>4, <4>1, <4>2, Product
    <3> QED BY <1>1, <2>1, <3>1, <3>2
  <2> QED BY <2>4, <2>5 DEF m, l
<1> QED BY <1>1, <1>4, <1>5

(* Going on to a later result leaves room for the attempts not made.       *)
LEMMA GoOnReruns ==
  ASSUME Shape, pos + 1 \in 1..Len(listed) + 1, GoOnAt(pos + 1), listed' = listed
  PROVE  Reruns' \in Nat /\ Reruns' >= Reruns /\ pc' # "waiting"
<1> DEFINE m == MaxRetries - 1
<1>1. m \in Nat /\ pos \in Nat /\ Len(listed) \in Nat
  BY LimitsAssumption, PlanType DEF Shape, TypeOK
<1>2. \/ pc' = "scoring" /\ attempt' = 0
      \/ pc' = "validating" /\ attempt' = 1
  BY <1>1, GoOnType
<1>3. pos' \in Nat /\ pos' # 0 /\ pos' - 1 \in Nat /\ pos <= pos' - 1
  BY <1>1, GoOnType
<1>4. /\ m * pos <= m * (pos' - 1)
      /\ m * pos = pos * m /\ m * (pos' - 1) = (pos' - 1) * m
      /\ (pos' - 1) * m \in Nat
  <2> HIDE DEF m
  <2>1. PICK q \in Nat : q = pos' - 1
    BY <1>3
  <2>2. pos <= q /\ m \in Nat /\ pos \in Nat
    BY <1>1, <1>3, <2>1
  <2>3. m * pos <= m * q
    BY <2>2, Product
  <2>4. m * pos = pos * m /\ m * q = q * m /\ q * m \in Nat
    BY <2>2, Product
  <2> QED BY <2>1, <2>3, <2>4
<1>5. Reruns' = (pos' - 1) * m
  BY <1>2, <1>3, <1>4 DEF Reruns
<1>6. Reruns \in Nat /\ (pos > 0 => Reruns <= pos * m) /\ (pos = 0 => Reruns = 0)
  BY RerunsType DEF Reruns
<1> HIDE DEF m
<1>7. pos * m \in Nat
  BY <1>1, Product
<1> QED BY <1>1, <1>2, <1>4, <1>5, <1>6, <1>7

LEMMA SentStep ==
  Shape /\ CompleteInv /\ SentInv /\ [Next]_vars => SentInv'
<1> SUFFICES ASSUME Shape, CompleteInv, SentInv, [Next]_vars PROVE SentInv'
  OBVIOUS
<1> DEFINE g == Len(graph)
<1>0. /\ g \in Nat /\ node \in 1..g + 1 /\ sent \in Nat /\ pos \in Nat /\ attempt \in Nat
      /\ Reruns \in Nat /\ (pos - 1) * (MaxRetries - 1) \in Int
  <2>1. Reruns \in Nat
    BY RerunsType
  <2>2. g \in Nat /\ pos \in Nat /\ MaxRetries \in Nat
    BY PlanType, LimitsAssumption DEF Shape, TypeOK
  <2>3. (pos - 1) * (MaxRetries - 1) \in Int
    BY <2>2
  <2> QED BY <2>1, <2>2, <2>3 DEF Shape, TypeOK
<1>1. ASSUME UNCHANGED <<graph, sent>>, Reruns' \in Nat, Reruns' >= Reruns,
             Dispatched' >= Dispatched, node' \in Nat
      PROVE  SentInv'
  <2>1. Dispatched \in Int /\ Dispatched' \in Int
    BY <1>0, <1>1 DEF Dispatched
  <2>2. \A r, q \in Nat : r <= q => g * r <= g * q /\ g * r \in Nat /\ g * q \in Nat
    <3> HIDE DEF g
    <3> QED BY <1>0, Product
  <2>3. sent <= g * Reruns + Dispatched
    BY DEF SentInv
  <2>4. sent <= g * Reruns' + Dispatched'
    BY <1>0, <1>1, <2>1, <2>2, <2>3
  <2> QED BY <1>1, <2>4 DEF SentInv
<1>2. ASSUME pc \in {"node", "composing", "waiting"}, pc' = "node", node' = node + 1,
             UNCHANGED <<graph, loop, sent>>
      PROVE  SentInv'
  BY <1>0, <1>1, <1>2 DEF Reruns, Dispatched, loop
<1>3. CASE Authorize
  <2>1. /\ pos = 0 /\ pos' = 0 /\ pc' # "waiting" /\ UNCHANGED <<graph, sent, node>>
        /\ pc # "waiting"
    BY <1>3 DEF Authorize, Shape, Placed, futures
  <2> QED BY <1>0, <1>1, <2>1 DEF Reruns, Dispatched
<1>4. CASE RunMissing
  BY <1>2, <1>4 DEF RunMissing, NodeReturns, futures
<1>5. CASE Dispatch
  <2>1. CASE pc' = "composing" /\ UNCHANGED <<node, state>>
    BY <1>0, <1>1, <1>5, <2>1 DEF Dispatch, Reruns, Dispatched, loop, futures
  <2> QED BY <1>2, <1>5, <2>1 DEF Dispatch, NodeFails, futures
<1>6. CASE Send
  <2>1. /\ pc = "composing" /\ sent' = sent + 1 /\ UNCHANGED <<graph, loop>>
        /\ \/ pc' = "waiting" /\ node' = node
           \/ pc' = "node" /\ node' = node + 1
    BY <1>6 DEF Send, NodeFails, state
  <2>2. Reruns' = Reruns /\ Dispatched' = Dispatched + 1 /\ Dispatched \in Int
    BY <1>0, <2>1 DEF Reruns, Dispatched, loop
  <2>3. sent <= g * Reruns + Dispatched /\ g * Reruns \in Nat
    BY <1>0, Product DEF SentInv
  <2>4. sent' <= g * Reruns + Dispatched'
    BY <1>0, <2>1, <2>2, <2>3
  <2> QED BY <2>1, <2>2, <2>4 DEF SentInv
<1>7. CASE Receive
  BY <1>2, <1>7 DEF Receive, NodeReturns, futures
<1>8. CASE Timeout
  BY <1>2, <1>8 DEF Timeout, NodeFails
<1>9. CASE GraphDone
  <2>1. pc = "node" /\ UNCHANGED <<graph, sent, node, listed>>
    BY <1>9 DEF GraphDone, futures
  <2>2. CASE pos > 0 /\ pos' = pos /\ attempt' = attempt + 1 /\ pc' = "validating"
    BY <1>0, <1>1, <2>1, <2>2 DEF Reruns, Dispatched
  <2>3. CASE GoOnAt(pos + 1)
    <3>1. pos + 1 \in 1..Len(listed) + 1
      BY <1>0, <2>1, PlanType DEF Shape, TypeOK, Placed
    <3>2. Reruns' \in Nat /\ Reruns' >= Reruns /\ pc' # "waiting"
      BY <2>1, <2>3, <3>1, GoOnReruns
    <3> QED BY <1>0, <1>1, <2>1, <3>2 DEF Dispatched
  <2> QED BY <1>9, <2>2, <2>3 DEF GraphDone
<1>10. CASE Allow \/ GiveUp
  <2>1. pc = "validating" /\ UNCHANGED <<graph, sent, node, listed>> /\ GoOnAt(pos + 1)
    BY <1>10 DEF Allow, GiveUp, futures
  <2>2. pos + 1 \in 1..Len(listed) + 1
    BY <1>0, <2>1, PlanType DEF Shape, TypeOK, Placed
  <2>3. Reruns' \in Nat /\ Reruns' >= Reruns /\ pc' # "waiting"
    BY <2>1, <2>2, GoOnReruns
  <2> QED BY <1>0, <1>1, <2>1, <2>3 DEF Dispatched
<1>11. CASE Rerun
  <2>1. /\ pc = "validating" /\ pc' = "node" /\ node' = 1 /\ node = g + 1 /\ pos > 0
        /\ UNCHANGED <<graph, loop, sent>>
    BY <1>11 DEF Rerun, CompleteInv, Shape, Placed, futures
  <2>2. Reruns' = Reruns + 1 /\ Dispatched = g /\ Dispatched' = 0
    BY <1>0, <2>1 DEF Reruns, Dispatched, loop
  <2>3. g * Reruns' = g * Reruns + g /\ g * Reruns \in Nat
    BY <1>0, <2>2, Product
  <2>4. sent <= g * Reruns + g
    BY <2>2 DEF SentInv
  <2>5. sent' <= g * Reruns' + Dispatched'
    BY <1>0, <2>1, <2>2, <2>3, <2>4
  <2> QED BY <2>1, <2>5 DEF SentInv
<1>12. CASE Conclude \/ GraphFails
  <2>1. /\ pc \in {"node", "scoring"} /\ pc' \in {"finished", "raised"}
        /\ UNCHANGED <<graph, sent, node, loop>>
    BY <1>12 DEF Conclude, GraphFails, futures
  <2> QED BY <1>0, <1>1, <2>1 DEF Reruns, Dispatched, loop
<1>13. CASE Dissolve \/ UNCHANGED vars
  BY <1>13 DEF Dissolve, vars, SentInv, Reruns, Dispatched, position, loop, futures
<1>14. ASSUME NEW a \in Agents, AgentComplete(a) \/ Cancel(a) PROVE SentInv'
  BY <1>14 DEF AgentComplete, Cancel, SentInv, Reruns, Dispatched, position, loop, futures
<1> QED BY <1>3, <1>4, <1>5, <1>6, <1>7, <1>8, <1>9, <1>10, <1>11, <1>12,
           <1>13, <1>14 DEF Next, Run, Others, Done

(* A run sends each step of its plan once, and once more for each refusal  *)
(* of a result; the refusals of all agents together are bounded.           *)
THEOREM BoundedDispatches == Spec => []DispatchesBounded
<1>1. Init => CompleteInv /\ SentInv
  <2> SUFFICES ASSUME Init PROVE CompleteInv /\ SentInv
    OBVIOUS
  <2>1. Reruns = 0 /\ Dispatched = 0 /\ sent = 0 /\ Len(graph) \in Nat
    BY PlanType DEF Init, Reruns, Dispatched
  <2>2. Len(graph) * 0 \in Nat
    BY <2>1, Product
  <2>3. SentInv
    BY <2>1, <2>2 DEF SentInv
  <2> QED BY <2>3 DEF Init, CompleteInv
<1>2. Shape /\ SentInv => DispatchesBounded
  <2> SUFFICES ASSUME Shape, SentInv PROVE DispatchesBounded
    OBVIOUS
  <2> DEFINE g == Len(graph)
             l == Len(listed)
             m == MaxRetries - 1
  <2>1. g \in Nat /\ l \in Nat /\ m \in Nat /\ sent \in Nat /\ Reruns \in Nat
        /\ Reruns <= l * m
    BY PlanType, RerunsType, LimitsAssumption DEF Shape, TypeOK
  <2>2. sent <= g * Reruns + Dispatched
    BY DEF SentInv
  <2>3. Dispatched \in 0..g
    BY <2>1 DEF Dispatched, Shape, TypeOK, Placed
  <2>4. DispatchesBounded = (sent <= g * (1 + m * l))
    BY DEF DispatchesBounded
  <2> HIDE DEF g, l, m
  <2>5. l * m \in Nat /\ m * l = l * m /\ g * Reruns \in Nat
    BY <2>1, Product
  <2>6. g * Reruns <= g * (l * m) /\ g * (l * m) \in Nat
        /\ g * (l * m + 1) = g * (l * m) + g
    BY <2>1, <2>5, Product
  <2>7. 1 + m * l = l * m + 1
    BY <2>1, <2>5
  <2>8. sent <= g * (l * m + 1)
    BY <2>1, <2>2, <2>3, <2>5, <2>6
  <2> QED BY <2>4, <2>7, <2>8
<1> QED BY <1>1, <1>2, ShapeCorrect, CompleteStep, SentStep, PTL DEF Spec

----------------------------------------------------------------------------
(* What RunContract sees of a run: where it is, the agents who have steps  *)
(* that can be run, and those of them who have answered.                   *)
Phase == CASE pc = "authorizing" -> "gate"
           [] pc = "finished" -> "reported"
           [] pc = "raised" -> "lost"
           [] OTHER -> "running"
StepsOf == InGraph \cap Executors
HaveAnswered == {a \in StepsOf : stepResults[a] > 0}

LEMMA SeenByPromise ==
  /\ UNCHANGED graph => UNCHANGED StepsOf
  /\ UNCHANGED <<graph, stepResults>> => UNCHANGED HaveAnswered
  /\ pc \in {"node", "composing", "waiting", "validating", "scoring"} =>
       Phase = "running"
BY DEF StepsOf, HaveAnswered, InGraph, Phase

(* The result put in for the node that is run changes at most who of its   *)
(* agents has answered.                                                    *)
LEMMA OneAnswers ==
  ASSUME Shape, CompleteInv, NEW r \in Nat \cup {Placeholder}, NodeReturns(r),
         node <= Len(graph), graph' = graph, Current \in Executors => r > 0
  PROVE  HaveAnswered' \in {HaveAnswered} \cup {HaveAnswered \cup {a} : a \in StepsOf}
<1>1. /\ stepResults' = [stepResults EXCEPT ![Current] = r] /\ StepsOf' = StepsOf
      /\ stepResults \in [Agents -> Nat \cup {Placeholder}]
  BY SeenByPromise DEF NodeReturns, Shape, TypeOK
<1>2. Current \in InGraph /\ Current \in Agents /\ InGraph \subseteq Agents
  BY PlanType DEF Shape, TypeOK, Current, InGraph
<1>3. HaveAnswered' = {a \in StepsOf : stepResults'[a] > 0}
  BY <1>1 DEF HaveAnswered
<1>4. CASE Current \in Executors
  <2>1. HaveAnswered' = HaveAnswered \cup {Current} /\ Current \in StepsOf
    BY <1>1, <1>2, <1>3, <1>4 DEF HaveAnswered, StepsOf
  <2> QED BY <2>1
<1>5. CASE Current \notin Executors
  <2>1. \A a \in StepsOf : a \in Agents /\ a # Current
    BY <1>2, <1>5 DEF StepsOf
  <2>2. HaveAnswered' = HaveAnswered
    BY <1>1, <1>3, <2>1 DEF HaveAnswered
  <2> QED BY <2>2
<1> QED BY <1>4, <1>5

(* Each step of a run is a step of RunContract, or none it sees.           *)
LEMMA PromiseStep ==
  Shape /\ CompleteInv /\ [Next]_vars => [Promise!Next]_(Promise!vars)
<1> SUFFICES ASSUME Shape, CompleteInv, [Next]_vars
             PROVE  Promise!Next \/ UNCHANGED Promise!vars
  OBVIOUS
<1> DEFINE seen == <<stage, Phase, StepsOf, status, sent, HaveAnswered>>
<1>0. UNCHANGED seen => UNCHANGED Promise!vars
  BY DEF Promise!vars, Phase, StepsOf, HaveAnswered
<1>1. ASSUME pc \in {"node", "composing", "waiting", "validating", "scoring"},
             pc' \in {"node", "composing", "waiting", "validating", "scoring"},
             UNCHANGED <<stage, graph, stepResults, status, sent>>
      PROVE  Promise!Next \/ UNCHANGED Promise!vars
  BY <1>0, <1>1, SeenByPromise DEF Phase
<1>2. ASSUME NEW r \in Nat \cup {Placeholder}, NodeReturns(r), node <= Len(graph),
             Current \in Executors => r > 0, pc \in {"node", "waiting"},
             UNCHANGED <<stage, graph, status, sent>>
      PROVE  Promise!Next \/ UNCHANGED Promise!vars
  <2>1. Phase = "running" /\ Phase' = "running" /\ UNCHANGED StepsOf
    BY <1>2, SeenByPromise DEF NodeReturns, Phase
  <2>2. CASE HaveAnswered' = HaveAnswered
    BY <1>0, <1>2, <2>1, <2>2
  <2>3. ASSUME NEW a \in StepsOf, HaveAnswered' = HaveAnswered \cup {a}
        PROVE  Promise!Answer
    BY <1>2, <2>1, <2>3 DEF Promise!Answer, Phase, StepsOf, HaveAnswered
  <2> QED BY <1>2, <2>2, <2>3, OneAnswers DEF Promise!Next
<1>3. CASE Authorize
  <2>1. /\ pc = "authorizing"
        /\ UNCHANGED <<stage, StepsOf, sent, HaveAnswered>>
    BY <1>3, SeenByPromise DEF Authorize, state, futures
  <2>2. CASE status' = "denied" /\ pc' = "finished"
    BY <2>1, <2>2 DEF Promise!Next, Promise!Refuse, Phase, StepsOf, HaveAnswered
  <2>3. CASE stage = "open" /\ pc' = "node" /\ status' = status
    BY <2>1, <2>3 DEF Promise!Next, Promise!Start, Phase, StepsOf, HaveAnswered
  <2>4. CASE stage = "dissolved" /\ pc' = "raised" /\ status' = status
    BY <2>1, <2>4 DEF Promise!Next, Promise!Lose, Phase, StepsOf, HaveAnswered
  <2> QED BY <1>3, <2>2, <2>3, <2>4 DEF Authorize
<1>4. CASE RunMissing
  BY <1>2, <1>4 DEF RunMissing, futures
<1>5. CASE Dispatch
  BY <1>1, <1>5 DEF Dispatch, NodeFails, state, futures
<1>6. CASE Send
  <2>1. /\ pc = "composing" /\ pc' \in {"waiting", "node"} /\ sent' = sent + 1
        /\ UNCHANGED <<stage, graph, stepResults, status>>
    BY <1>6 DEF Send, NodeFails, state
  <2>2. Promise!Send
    BY <2>1, SeenByPromise DEF Promise!Send, Phase, StepsOf, HaveAnswered
  <2> QED BY <2>2 DEF Promise!Next
<1>7. CASE Receive
  <2>1. /\ answer \in Nat /\ answer > 0 /\ node <= Len(graph)
    BY <1>7 DEF Receive, Shape, TypeOK, Placed
  <2> QED BY <1>2, <1>7, <2>1 DEF Receive, futures
<1>8. CASE Timeout
  BY <1>1, <1>8 DEF Timeout, NodeFails
<1>9. CASE GraphFails
  <2>1. /\ pc = "node" /\ pc' = "finished" /\ status' = "error"
        /\ UNCHANGED <<stage, graph, stepResults, sent>>
    BY <1>9 DEF GraphFails, state, futures
  <2>2. Promise!Report
    BY <2>1, SeenByPromise DEF Promise!Report, Phase, StepsOf, HaveAnswered
  <2> QED BY <2>2 DEF Promise!Next
<1>10. CASE GraphDone
  BY <1>1, <1>10 DEF GraphDone, GoOnAt, state, futures
<1>11. CASE Allow
  BY <1>1, <1>11 DEF Allow, GoOnAt, futures
<1>12. CASE Rerun
  <2>1. /\ pc = "validating" /\ pc' = "node" /\ stepResults' = NoResult
        /\ UNCHANGED <<stage, graph, status, sent>>
    BY <1>12 DEF Rerun, futures
  <2>2. HaveAnswered' = {}
    <3>1. InGraph \subseteq Agents
      BY PlanType DEF Shape, TypeOK, InGraph
    <3>2. \A a \in InGraph : NoResult[a] = 0
      BY <3>1 DEF NoResult, None
    <3>3. StepsOf' = StepsOf /\ HaveAnswered' = {a \in StepsOf : NoResult[a] > 0}
      BY <2>1, SeenByPromise DEF HaveAnswered
    <3> QED BY <3>2, <3>3 DEF StepsOf
  <2>3. Promise!Drop
    BY <2>1, <2>2, SeenByPromise DEF Promise!Drop, Phase, StepsOf, HaveAnswered
  <2> QED BY <2>3 DEF Promise!Next
<1>13. CASE GiveUp
  <2>1. /\ pc = "validating" /\ pc' \in {"validating", "scoring"}
        /\ stepResults' = [stepResults EXCEPT ![listed[pos]] = None]
        /\ UNCHANGED <<stage, graph, status, sent>>
    BY <1>13 DEF GiveUp, GoOnAt, futures
  <2>2. /\ StepsOf' = StepsOf /\ StepsOf \subseteq Agents
        /\ stepResults \in [Agents -> Nat \cup {Placeholder}]
    BY <2>1, SeenByPromise, PlanType DEF Shape, TypeOK, InGraph, StepsOf
  <2>3. HaveAnswered' = HaveAnswered \ {listed[pos]}
    BY <2>1, <2>2 DEF HaveAnswered, None
  <2>4. CASE listed[pos] \in HaveAnswered
    <3>1. Promise!Drop
      BY <2>1, <2>2, <2>3, <2>4, SeenByPromise
         DEF Promise!Drop, Phase, StepsOf, HaveAnswered
    <3> QED BY <3>1 DEF Promise!Next
  <2>5. CASE listed[pos] \notin HaveAnswered
    BY <1>0, <2>1, <2>2, <2>3, <2>5 DEF Phase
  <2> QED BY <2>4, <2>5
<1>14. CASE Conclude
  <2>1. /\ pc = "scoring" /\ UNCHANGED <<stage, graph, stepResults, sent>>
    BY <1>14 DEF Conclude, state, futures
  <2>2. CASE pc' = "raised" /\ UNCHANGED status
    <3>1. Promise!Lose
      BY <2>1, <2>2, SeenByPromise DEF Promise!Lose, Phase, StepsOf, HaveAnswered
    <3> QED BY <3>1 DEF Promise!Next
  <2>3. CASE pc' = "finished" /\ status' = "partial_failure"
    <3>1. Promise!Report
      BY <2>1, <2>3, SeenByPromise DEF Promise!Report, Phase, StepsOf, HaveAnswered
    <3> QED BY <3>1 DEF Promise!Next
  <2>4. CASE pc' = "finished" /\ status' = "success" /\ errors = {}
    <3>1. \A i \in 1..Len(graph) : Answered(i)
      BY <2>1, <2>4, PlanType DEF CompleteInv, Shape, TypeOK
    <3>2. StepsOf \subseteq HaveAnswered
      BY <3>1, PlanType DEF Answered, StepsOf, HaveAnswered, InGraph, Shape, TypeOK
    <3>3. Promise!Report
      BY <2>1, <2>4, <3>2, SeenByPromise DEF Promise!Report, Phase, StepsOf, HaveAnswered
    <3> QED BY <3>3 DEF Promise!Next
  <2> QED BY <1>14, <2>2, <2>3, <2>4 DEF Conclude
<1>15. CASE Dissolve
  <2>1. /\ stage = "open" /\ stage' = "dissolved"
        /\ UNCHANGED <<pc, graph, stepResults, status, sent>>
    BY <1>15 DEF Dissolve, position, state, futures
  <2>2. Promise!Leave
    BY <2>1, SeenByPromise DEF Promise!Leave, Phase, StepsOf, HaveAnswered
  <2> QED BY <2>2 DEF Promise!Next
<1>16. ASSUME NEW a \in Agents, AgentComplete(a) \/ Cancel(a) PROVE UNCHANGED Promise!vars
  <2>1. UNCHANGED <<stage, pc, graph, stepResults, status, sent>>
    BY <1>16 DEF AgentComplete, Cancel, position, state, futures
  <2> QED BY <1>0, <2>1, SeenByPromise DEF Phase
<1>17. CASE UNCHANGED vars
  <2>1. UNCHANGED <<stage, pc, graph, stepResults, status, sent>>
    BY <1>17 DEF vars, position, state, futures
  <2> QED BY <1>0, <2>1, SeenByPromise DEF Phase
<1> QED BY <1>3, <1>4, <1>5, <1>6, <1>7, <1>8, <1>9, <1>10, <1>11, <1>12,
           <1>13, <1>14, <1>15, <1>16, <1>17 DEF Next, Run, Others, Done

(* A run keeps the promise of RunContract, for plans of any length and any *)
(* number of attempts: nothing is sent before the gate has let it through  *)
(* or after its end, it reports once at most, and a success says that the  *)
(* agents of all steps with an executor have answered.                     *)
THEOREM PromiseKept == Spec => KeepsPromise
<1>1. Init => CompleteInv
  BY DEF Init, CompleteInv
<1>2. Init => Promise!Init
  <2> SUFFICES ASSUME Init PROVE Promise!Init
    OBVIOUS
  <2>1. InGraph \subseteq Agents
    BY PlanType DEF Init, InGraph
  <2>2. {a \in InGraph \cap Executors : stepResults[a] > 0} = {}
    BY <2>1 DEF Init, NoResult, None
  <2> QED BY <2>2 DEF Init, Promise!Init
<1> QED BY <1>1, <1>2, ShapeCorrect, CompleteStep, PromiseStep, PTL
        DEF Spec, KeepsPromise, Promise!Spec

----------------------------------------------------------------------------
(* Position, attempt, pass and node only go forward.                       *)
LEMMA AdvanceStep == Shape /\ Run => Advances
<1> SUFFICES ASSUME Shape, Run PROVE Advances
  OBVIOUS
<1>0. /\ node \in Nat /\ pos \in Nat /\ attempt \in Nat
      /\ Len(listed) \in Nat
  BY PlanType DEF Shape, TypeOK
<1>1. ASSUME UNCHANGED <<pos, attempt>>, Pass(pc) < Pass(pc') PROVE Advances
  BY <1>0, <1>1 DEF Advances
<1>2. ASSUME UNCHANGED <<pos, attempt>>, pc \in {"node", "composing", "waiting"},
             pc' = "node", node' = node + 1
      PROVE  Advances
  BY <1>0, <1>2 DEF Advances, Pass
<1>3. ASSUME pos + 1 \in 1..Len(listed) + 1, GoOnAt(pos + 1), listed' = listed
      PROVE  Advances
  <2>1. pos' > pos
    BY <1>0, <1>3, GoOnType
  <2> QED BY <2>1 DEF Advances
<1>4. CASE Authorize
  BY <1>1, <1>4 DEF Authorize, Pass
<1>5. CASE RunMissing \/ Receive
  BY <1>2, <1>5 DEF RunMissing, Receive, NodeReturns, loop
<1>6. CASE Dispatch
  <2>1. CASE pc' = "composing" /\ UNCHANGED <<node, state>>
    BY <1>0, <1>6, <2>1 DEF Dispatch, Advances, Pass, Progress, loop
  <2> QED BY <1>2, <1>6, <2>1 DEF Dispatch, NodeFails, loop
<1>7. CASE Send
  <2>1. CASE pc' = "waiting" /\ UNCHANGED node
    BY <1>0, <1>7, <2>1 DEF Send, Advances, Pass, Progress, loop
  <2> QED BY <1>2, <1>7, <2>1 DEF Send, NodeFails, loop
<1>8. CASE Timeout
  BY <1>2, <1>8 DEF Timeout, NodeFails, loop
<1>9. CASE GraphFails
  BY <1>1, <1>9 DEF GraphFails, Pass, loop
<1>10. CASE GraphDone
  <2>1. pos + 1 \in 1..Len(listed) + 1 /\ listed' = listed
    BY <1>0, <1>10 DEF GraphDone, Shape, Placed
  <2>2. CASE attempt' = attempt + 1 /\ UNCHANGED pos
    BY <1>0, <2>2 DEF Advances
  <2> QED BY <1>3, <1>10, <2>1, <2>2 DEF GraphDone
<1>11. CASE Allow \/ GiveUp
  <2>1. pos + 1 \in 1..Len(listed) + 1 /\ listed' = listed /\ GoOnAt(pos + 1)
    BY <1>0, <1>11 DEF Allow, GiveUp, Shape, Placed
  <2> QED BY <1>3, <2>1
<1>12. CASE Rerun
  BY <1>1, <1>12 DEF Rerun, Pass, loop
<1>13. CASE Conclude
  BY <1>1, <1>13 DEF Conclude, Pass, loop
<1> QED BY <1>4, <1>5, <1>6, <1>7, <1>8, <1>9, <1>10, <1>11, <1>12, <1>13 DEF Run

(* Each step of a run takes it forward, and nobody else moves it: however  *)
(* results are refused, nodes fail and the graph is run again, it can only *)
(* go on or wait.                                                          *)
THEOREM RunAlwaysAdvances == Spec => RunAdvances
<1>1. ASSUME Shape, [Next]_vars
      PROVE  [IF Run THEN Advances ELSE UNCHANGED <<position, loop>>]_vars
  <2>1. CASE Run
    BY <1>1, <2>1, AdvanceStep
  <2>2. CASE ~Run
    BY <1>1, <2>2 DEF Next, Others, Dissolve, AgentComplete, Cancel, Done, vars
  <2> QED BY <2>1, <2>2
<1> QED BY <1>1, ShapeCorrect, PTL DEF Spec, RunAdvances
----------------------------------------------------------------------------
(* Where the run goes on after a result, with what it passed over: the     *)
(* listed agents in between have no result.                                *)
LEMMA GoOnPasses ==
  ASSUME Shape, pos + 1 \in 1..Len(listed) + 1, GoOnAt(pos + 1), listed' = listed
  PROVE  /\ pos' \in Nat
         /\ pc' = "scoring" => pos' = Len(listed) + 1
         /\ pc' \in {"scoring", "validating"}
         /\ \A i \in 1..Len(listed) :
              pos < i /\ i < pos' => stepResults'[listed[i]] = None
<1>1. Len(listed) \in Nat /\ DOMAIN listed = 1..Len(listed) /\ pos \in Int
  BY PlanType DEF Shape, TypeOK
<1>2. CASE WithResult(pos + 1) = {} /\ pos' = Len(listed) + 1 /\ pc' = "scoring"
  <2>1. ASSUME NEW i \in 1..Len(listed), pos < i PROVE stepResults'[listed[i]] = None
    <3>1. i >= pos + 1 /\ i \in DOMAIN listed
      BY <1>1, <2>1
    <3> QED BY <1>2, <3>1 DEF WithResult
  <2> QED BY <1>1, <1>2, <2>1
<1>3. CASE /\ pos' \in WithResult(pos + 1) /\ pc' = "validating"
           /\ \A j \in WithResult(pos + 1) : pos' <= j
  <2>1. pos' \in 1..Len(listed)
    BY <1>1, <1>3 DEF WithResult
  <2>2. ASSUME NEW i \in 1..Len(listed), pos < i, i < pos'
        PROVE  stepResults'[listed[i]] = None
    <3>1. i >= pos + 1 /\ i \in DOMAIN listed
      BY <1>1, <2>2
    <3>2. i \notin WithResult(pos + 1)
      BY <1>3, <2>1, <2>2
    <3> QED BY <3>1, <3>2 DEF WithResult
  <2> QED BY <1>3, <2>1, <2>2
<1> QED BY <1>2, <1>3 DEF GoOnAt

(* What a run without re-runs has settled: each listed agent it has been   *)
(* through has no result, or one that was allowed.                         *)
Settled(i) == stepResults[listed[i]] # None => verdict[listed[i]] = "allowed"
SettledInv ==
  /\ pc \in {"node", "composing", "waiting"} => pos = 0
  /\ pc = "scoring" \/ status \in {"success", "partial_failure"}
       => pos = Len(listed) + 1
  /\ \A i \in 1..Len(listed) : i < pos => Settled(i)

LEMMA SettledStep ==
  ASSUME MaxRetries = 1, Shape, SettledInv, [Next]_vars
  PROVE  SettledInv'
<1>0. /\ stepResults \in [Agents -> Nat \cup {Placeholder}]
      /\ verdict \in [Agents -> {"none", "allowed", "refused"}]
      /\ Len(listed) \in Nat /\ \A i \in 1..Len(listed) : listed[i] \in Agents
      /\ pos \in 0..Len(listed) + 1
      /\ Placed
  BY PlanType DEF Shape, TypeOK
<1>1. CASE UNCHANGED vars
  BY <1>1 DEF vars, position, state, loop, SettledInv, Settled
<1>2. CASE Authorize
  <2>1. pos' = 0 /\ (pc' \in {"finished", "node", "raised"})
        /\ status' \in {status, "denied"} /\ pos = 0 /\ pc' # "scoring"
    BY <1>0, <1>2 DEF Authorize, Placed
  <2>2. status \notin {"success", "partial_failure"}
    BY <1>0, <2>1 DEF SettledInv
  <2>3. Len(listed') \in Nat
    BY <1>2, ShapeStep, PlanType DEF Shape, TypeOK
  <2> QED BY <2>1, <2>2, <2>3 DEF SettledInv
<1>3. ASSUME NodeFails \/ (\E r : NodeReturns(r)), pos = 0, UNCHANGED <<loop, status>>
      PROVE  SettledInv'
  <2>1. pc' = "node" /\ pos' = 0 /\ listed' = listed /\ status' = status
    BY <1>3 DEF NodeFails, NodeReturns, loop
  <2>2. status \notin {"success", "partial_failure"}
    BY <1>0, <1>3 DEF SettledInv
  <2> QED BY <1>0, <2>1, <2>2 DEF SettledInv
<1>4. CASE RunMissing \/ Dispatch \/ Send \/ Receive \/ Timeout
  <2>1. pos = 0 /\ UNCHANGED <<loop, status>>
    BY <1>4 DEF RunMissing, Dispatch, Send, Receive, Timeout, SettledInv
  <2>2. CASE pc' \in {"composing", "waiting"}
    <3>1. status \notin {"success", "partial_failure"}
      BY <1>0, <2>1 DEF SettledInv
    <3> QED BY <1>0, <2>1, <2>2, <3>1 DEF SettledInv, loop
  <2> QED BY <1>3, <1>4, <2>1, <2>2 DEF RunMissing, Dispatch, Send, Receive, Timeout
<1>5. CASE GraphFails
  BY <1>0, <1>5 DEF GraphFails, SettledInv, Settled, state, loop
<1>6. ASSUME GoOnAt(pos + 1), pos + 1 \in 1..Len(listed) + 1, UNCHANGED <<listed, status>>,
             status \notin {"success", "partial_failure"},
             \A i \in 1..Len(listed) : i <= pos => Settled(i)'
      PROVE  SettledInv'
  <2>1. ASSUME NEW i \in 1..Len(listed), i < pos' PROVE Settled(i)'
    <3>1. CASE i <= pos
      BY <1>6, <3>1
    <3>2. CASE pos < i
      BY <1>6, <2>1, <3>2, GoOnPasses DEF Settled
    <3> QED BY <1>0, <3>1, <3>2
  <2>2. pc' \in {"scoring", "validating"} /\ (pc' = "scoring" => pos' = Len(listed) + 1)
    BY <1>6, GoOnPasses
  <2> QED BY <1>6, <2>1, <2>2 DEF SettledInv
<1>7. CASE GraphDone
  <2>1. pos = 0 /\ GoOnAt(pos + 1) /\ UNCHANGED <<listed, status>>
    BY <1>7 DEF GraphDone, SettledInv
  <2> QED BY <1>0, <1>6, <2>1 DEF SettledInv
<1>8. CASE Allow
  <2>1. /\ pos \in 1..Len(listed) /\ GoOnAt(pos + 1) /\ UNCHANGED <<listed, status>>
        /\ verdict' = [verdict EXCEPT ![listed[pos]] = "allowed"]
        /\ stepResults' = stepResults
    BY <1>0, <1>8 DEF Allow, Placed
  <2>2. status \notin {"success", "partial_failure"}
    BY <1>0, <2>1 DEF SettledInv
  <2>3. ASSUME NEW i \in 1..Len(listed), i <= pos PROVE Settled(i)'
    <3>1. i < pos => Settled(i)
      BY DEF SettledInv
    <3> QED BY <1>0, <2>1, <2>3, <3>1 DEF Settled
  <2> QED BY <1>0, <1>6, <2>1, <2>2, <2>3
<1>9. CASE GiveUp
  <2>1. /\ pos \in 1..Len(listed) /\ GoOnAt(pos + 1) /\ UNCHANGED <<listed, status>>
        /\ verdict' = [verdict EXCEPT ![listed[pos]] = "refused"]
        /\ stepResults' = [stepResults EXCEPT ![listed[pos]] = None]
    BY <1>0, <1>9 DEF GiveUp, Placed
  <2>2. status \notin {"success", "partial_failure"}
    BY <1>0, <2>1 DEF SettledInv
  <2>3. ASSUME NEW i \in 1..Len(listed), i <= pos PROVE Settled(i)'
    <3>1. i < pos => Settled(i)
      BY DEF SettledInv
    <3> QED BY <1>0, <2>1, <2>3, <3>1 DEF Settled
  <2> QED BY <1>0, <1>6, <2>1, <2>2, <2>3
<1>10. ~Rerun
  <2>1. pc = "validating" => attempt > 0 /\ attempt \in Nat
    BY <1>0 DEF Placed, Shape, TypeOK
  <2> QED BY <2>1 DEF Rerun
<1>11. CASE Conclude
  <2>1. pos = Len(listed) + 1 /\ pc' \in {"finished", "raised"} /\ UNCHANGED <<state, loop>>
    BY <1>11 DEF Conclude, SettledInv
  <2> QED BY <2>1 DEF SettledInv, Settled, state, loop
<1>12. CASE Others
  <2>1. UNCHANGED <<position, state, loop, status>>
    BY <1>12 DEF Others, Dissolve, AgentComplete, Cancel
  <2> QED BY <2>1 DEF SettledInv, Settled, position, state, loop
<1> QED BY <1>1, <1>2, <1>4, <1>5, <1>7, <1>8, <1>9, <1>10, <1>11, <1>12
        DEF Next, Run, Done

(* What it takes to report a result without a verdict is a re-run: a       *)
(* supervisor with one attempt for each result (max_retries of its         *)
(* constructor) reports results that were allowed, however late agents     *)
(* answer, and whatever fails.                                             *)
THEOREM OneAttemptReportsAllowed == MaxRetries = 1 => (Spec => []ReportedWasAllowed)
<1> SUFFICES ASSUME MaxRetries = 1 PROVE Spec => []ReportedWasAllowed
  OBVIOUS
<1>1. Init => SettledInv
  <2> SUFFICES ASSUME Init PROVE SettledInv
    OBVIOUS
  <2> QED BY DEF Init, SettledInv
<1>2. Shape /\ SettledInv /\ [Next]_vars => SettledInv'
  BY SettledStep
<1>3. Shape /\ SettledInv => ReportedWasAllowed
  <2> SUFFICES ASSUME Shape, SettledInv, status \in {"success", "partial_failure"},
                      NEW i \in DOMAIN listed
               PROVE  Settled(i)
    BY DEF ReportedWasAllowed, Settled
  <2>1. i \in 1..Len(listed) /\ pos = Len(listed) + 1 /\ Len(listed) \in Nat
    BY PlanType DEF Shape, TypeOK, SettledInv
  <2> QED BY <2>1 DEF SettledInv
<1> QED BY <1>1, <1>2, <1>3, ShapeCorrect, PTL DEF Spec
=============================================================================
