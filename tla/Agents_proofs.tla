---------------------------- MODULE Agents_proofs ----------------------------
(***************************************************************************)
(* What is proved about the processes of agents, for any tasks, sessions,  *)
(* tools, requests and limit: an agent's runtime (AgentTasks), the bridge  *)
(* to an MCP server (McpBridge), and the servers the coordinator hosts     *)
(* (ManagedAgents), whose table, rows and requests agree.                  *)
(***************************************************************************)
EXTENDS AgentTasks, McpBridge, ManagedAgents, TLAPS

-----------------------------------------------------------------------------
(* Types *)

LEMMA CancelType ==
  ASSUME AgentTasksTypeOK, NEW k \in Callers, NEW S \in SUBSET TaskSessions,
         CancelSessionTasks(k, S)
  PROVE  /\ task' \in [Tasks -> {"free", "cancelled"} \cup Untold]
         /\ taskSession' \in [Tasks -> TaskSessions]
         /\ sessionTasks' \in [TaskSessions -> SUBSET Tasks]
         /\ awaited' \in [Callers -> SUBSET Tasks]
         /\ strays' \subseteq Tasks
<1>1. UNION {sessionTasks[s] : s \in S} \subseteq Tasks
  BY DEF AgentTasksTypeOK
<1>2. task' \in [Tasks -> {"free", "cancelled"} \cup Untold]
  BY DEF AgentTasksTypeOK, CancelSessionTasks
<1>3. sessionTasks' \in [TaskSessions -> SUBSET Tasks]
  BY DEF AgentTasksTypeOK, CancelSessionTasks
<1>4. awaited' \in [Callers -> SUBSET Tasks]
  BY <1>1 DEF AgentTasksTypeOK, CancelSessionTasks
<1> QED BY <1>2, <1>3, <1>4 DEF AgentTasksTypeOK, CancelSessionTasks

LEMMA CallerNames == {"stop", "final"} \subseteq Callers /\ Clients \subseteq Callers
BY DEF Callers

(* Tasks, futures and suspension points stay what they are.                *)
THEOREM AgentTypeCorrect == AgentTasksSpec => []AgentTasksTypeOK
<1>1. AgentTasksInit => AgentTasksTypeOK
  <2> SUFFICES ASSUME AgentTasksInit PROVE AgentTasksTypeOK
    OBVIOUS
  <2>1. /\ task \in [Tasks -> {"free", "cancelled"} \cup Untold]
        /\ taskSession \in [Tasks -> TaskSessions]
        /\ sessionTasks \in [TaskSessions -> SUBSET Tasks]
        /\ awaited \in [Callers -> SUBSET Tasks]
    BY DEF AgentTasksInit
  <2>2. loop \in [Clients -> {"down", "reading"} \cup TaskSessions]
    BY DEF AgentTasksInit
  <2> QED BY <2>1, <2>2 DEF AgentTasksInit, AgentTasksTypeOK
<1>2. AgentTasksTypeOK /\ [AgentTasksNext]_agentVars => AgentTasksTypeOK'
  <2> SUFFICES ASSUME AgentTasksTypeOK, [AgentTasksNext]_agentVars
               PROVE  AgentTasksTypeOK'
    OBVIOUS
  <2>1. CASE Serving /\ ~Leave
    <3>1. CASE RunForever \/ Backoff
      BY <3>1 DEF RunForever, Backoff, NewClient, work, socket, AgentTasksTypeOK
    <3>2. CASE Start \/ StartFails \/ AwaitRegistrationAck
      BY <3>2 DEF Start, StartFails, AwaitRegistrationAck, Forsake, Retry, work, socket,
                  AgentTasksTypeOK
    <3>3. CASE ConnectionDropped \/ Left
      BY <3>3 DEF ConnectionDropped, Left, Retry, Disconnected, work, socket, AgentTasksTypeOK
    <3> QED BY <2>1, <3>1, <3>2, <3>3 DEF Serving
  <2>2. CASE Leave
    BY <2>2, CancelType, CallerNames DEF Leave, socket, AgentTasksTypeOK
  <2>3. CASE StopCalled
    BY <2>3, CancelType, CallerNames DEF StopCalled, socket, AgentTasksTypeOK
  <2>4. ASSUME NEW c \in Clients, NEW s \in TaskSessions, Dissolve(c, s)
        PROVE  AgentTasksTypeOK'
    <3>1. c \in Callers /\ {s} \in SUBSET TaskSessions
      BY CallerNames
    <3> QED BY <2>4, <3>1, CancelType DEF Dissolve, control, AgentTasksTypeOK
  <2>5. CASE CancelRunForever \/ StopReturns
    BY <2>5 DEF CancelRunForever, StopReturns, Forsake, Disconnected, work, socket,
                AgentTasksTypeOK
  <2>6. ASSUME NEW c \in Clients, LoopEnds(c) \/ HandleRegistered(c) \/ HandleDissolve(c)
        PROVE  AgentTasksTypeOK'
    BY <2>6 DEF LoopEnds, HandleRegistered, HandleDissolve, work, socket, control,
                AgentTasksTypeOK
  <2>7. ASSUME NEW t \in Tasks, EnterSemaphore(t) PROVE AgentTasksTypeOK'
    BY <2>7 DEF EnterSemaphore, Untold, socket, control, AgentTasksTypeOK
  <2>8. ASSUME NEW t \in Tasks, TaskEnds(t) PROVE AgentTasksTypeOK'
    BY <2>8 DEF TaskEnds, Discard, socket, control, AgentTasksTypeOK
  <2>9. ASSUME NEW c \in Clients, NEW t \in Tasks, NEW s \in TaskSessions, Spawn(c, t, s)
        PROVE  AgentTasksTypeOK'
    BY <2>9 DEF Spawn, Untold, socket, control, AgentTasksTypeOK
  <2>10. CASE UNCHANGED agentVars
    BY <2>10 DEF agentVars, work, socket, control, AgentTasksTypeOK
  <2> QED
    BY <2>1, <2>2, <2>3, <2>4, <2>5, <2>6, <2>7, <2>8, <2>9, <2>10
       DEF AgentTasksNext, Serving
<1> QED BY <1>1, <1>2, PTL DEF AgentTasksSpec

-----------------------------------------------------------------------------
(* Work that is known *)

(* A cancellation leaves no work for its sessions uncancelled, and what is *)
(* known of the others as it was.                                           *)
LEMMA CancelReaches ==
  ASSUME AgentTasksTypeOK, WorkIsTracked, NEW k \in Callers, NEW S \in SUBSET TaskSessions,
         CancelSessionTasks(k, S)
  PROVE  /\ WorkIsTracked'
         /\ \A t \in Tasks : task'[t] \in Untold =>
               task[t] = task'[t] /\ taskSession'[t] \notin S
         /\ \A t \in Tasks : task'[t] = "cancelled" /\ task[t] # "cancelled" =>
               t \in awaited'[k]
         /\ \A j \in Callers \ {k} : awaited'[j] = awaited[j]
<1> DEFINE known == UNION {sessionTasks[s] : s \in S}
<1>1. /\ sessionTasks' = [s \in TaskSessions |-> IF s \in S THEN {} ELSE sessionTasks[s]]
      /\ task' = [t \in Tasks |-> IF t \in known THEN "cancelled" ELSE task[t]]
      /\ awaited' = [awaited EXCEPT ![k] = known]
      /\ taskSession' = taskSession
  BY DEF CancelSessionTasks
<1>2. ASSUME NEW t \in Tasks, task'[t] \in Untold
      PROVE  /\ task[t] = task'[t] /\ taskSession[t] \in TaskSessions \ S
             /\ t \in sessionTasks[taskSession[t]]
  <2>1. t \notin known /\ task[t] = task'[t]
    BY <1>1, <1>2 DEF Untold
  <2>2. t \in sessionTasks[taskSession[t]]
    BY <1>2, <2>1 DEF WorkIsTracked
  <2> QED BY <2>1, <2>2 DEF AgentTasksTypeOK
<1>3. WorkIsTracked'
  BY <1>1, <1>2 DEF WorkIsTracked
<1> QED BY <1>1, <1>2, <1>3 DEF AgentTasksTypeOK

(* The steps that leave the tasks and the callers alone.                   *)
ControlStep ==
    \/ Serving /\ ~Leave
    \/ CancelRunForever \/ StopReturns
    \/ \E c \in Clients : LoopEnds(c) \/ HandleRegistered(c) \/ HandleDissolve(c)

LEMMA ControlLeavesWork ==
  ASSUME ControlStep
  PROVE  UNCHANGED work
BY DEF ControlStep, Serving, RunForever, Start, StartFails, AwaitRegistrationAck,
       ConnectionDropped, Backoff, Left, CancelRunForever, StopReturns, LoopEnds,
       HandleRegistered, HandleDissolve

LEMMA TrackedStep ==
  AgentTasksTypeOK /\ WorkIsTracked /\ [AgentTasksNext]_agentVars => WorkIsTracked'
<1> SUFFICES ASSUME AgentTasksTypeOK, WorkIsTracked, [AgentTasksNext]_agentVars
             PROVE  WorkIsTracked'
  OBVIOUS
<1>1. CASE UNCHANGED work
  BY <1>1 DEF work, WorkIsTracked
<1>2. CASE Leave \/ StopCalled
  BY <1>2, CancelReaches, CallerNames DEF Leave, StopCalled
<1>3. ASSUME NEW c \in Clients, NEW s \in TaskSessions, Dissolve(c, s) PROVE WorkIsTracked'
  <2>1. c \in Callers /\ {s} \in SUBSET TaskSessions
    BY CallerNames
  <2> QED BY <1>3, <2>1, CancelReaches DEF Dissolve
<1>4. ASSUME NEW t \in Tasks, EnterSemaphore(t) PROVE WorkIsTracked'
  BY <1>4 DEF EnterSemaphore, WorkIsTracked, Untold, AgentTasksTypeOK
<1>5. ASSUME NEW t \in Tasks, TaskEnds(t) PROVE WorkIsTracked'
  BY <1>5 DEF TaskEnds, Discard, WorkIsTracked, Untold, AgentTasksTypeOK
<1>6. ASSUME NEW c \in Clients, NEW t \in Tasks, NEW s \in TaskSessions, Spawn(c, t, s)
      PROVE  WorkIsTracked'
  BY <1>6 DEF Spawn, WorkIsTracked, Untold, AgentTasksTypeOK
<1> QED
  BY <1>1, <1>2, <1>3, <1>4, <1>5, <1>6, ControlLeavesWork
     DEF AgentTasksNext, Serving, ControlStep, agentVars

(* Work nobody cancelled is in the table where a cancellation looks for it *)
(* (_spawn, _cancel_session_tasks).                                         *)
THEOREM WorkAlwaysTracked == AgentTasksSpec => []WorkIsTracked
<1>1. AgentTasksInit => WorkIsTracked
  BY DEF AgentTasksInit, WorkIsTracked, Untold
<1> QED BY <1>1, TrackedStep, AgentTypeCorrect, PTL DEF AgentTasksSpec

-----------------------------------------------------------------------------
(* Work that is over *)

(* Where run_forever neither registers nor serves, only clients it has     *)
(* forsaken receive anything; so once it has cancelled all there is no     *)
(* other work than what they bring.                                         *)
LoopsInv ==
    \A c \in Clients :
        loop[c] # "down" /\ c \notin forsaken =>
            c = client /\ serve \in {"registering", "serving"}

LeftInv ==
    serve \in {"gathering", "stopped"} =>
        \A t \in Tasks : task[t] \in Untold => t \in strays

LeavingInv == LoopsInv /\ LeftInv

LEMMA LoopsStep ==
  AgentTasksTypeOK /\ LoopsInv /\ [AgentTasksNext]_agentVars => LoopsInv'
<1> SUFFICES ASSUME AgentTasksTypeOK, LoopsInv, [AgentTasksNext]_agentVars
             PROVE  LoopsInv'
  OBVIOUS
<1>1. CASE RunForever \/ Backoff
  BY <1>1 DEF RunForever, Backoff, NewClient, socket, LoopsInv
<1>2. CASE Start
  BY <1>2 DEF Start, Retry, LoopsInv, AgentTasksTypeOK
<1>3. CASE StartFails \/ AwaitRegistrationAck
  BY <1>3 DEF StartFails, AwaitRegistrationAck, Retry, Forsake, socket, LoopsInv
<1>4. CASE ConnectionDropped
  BY <1>4 DEF ConnectionDropped, Retry, socket, LoopsInv
<1>5. CASE Left \/ StopReturns
  BY <1>5 DEF Left, StopReturns, Disconnected, LoopsInv, AgentTasksTypeOK
<1>6. CASE Leave \/ StopCalled
  BY <1>6 DEF Leave, StopCalled, socket, LoopsInv
<1>7. CASE CancelRunForever
  BY <1>7 DEF CancelRunForever, Forsake, socket, LoopsInv
<1>8. ASSUME NEW c \in Clients,
             \/ LoopEnds(c) \/ HandleDissolve(c) \/ \E s \in TaskSessions : Dissolve(c, s)
      PROVE  LoopsInv'
  <2>1. /\ UNCHANGED <<client, forsaken, serve>> /\ loop[c] # "down"
        /\ \A d \in Clients \ {c} : loop'[d] = loop[d]
    BY <1>8, NamesAssumption DEF LoopEnds, HandleDissolve, Dissolve, control, AgentTasksTypeOK
  <2> QED BY <2>1 DEF LoopsInv
<1>9. CASE UNCHANGED <<socket, serve>>
  BY <1>9 DEF socket, LoopsInv
<1> QED
  BY <1>1, <1>2, <1>3, <1>4, <1>5, <1>6, <1>7, <1>8, <1>9
     DEF AgentTasksNext, Serving, HandleRegistered, Spawn, EnterSemaphore, TaskEnds,
         control, agentVars

LEMMA LeavingStep ==
  AgentTasksTypeOK /\ WorkIsTracked /\ LeavingInv /\ [AgentTasksNext]_agentVars => LeavingInv'
<1> SUFFICES ASSUME AgentTasksTypeOK, WorkIsTracked, LoopsInv, LeftInv,
                    [AgentTasksNext]_agentVars
             PROVE  LeftInv'
  BY LoopsStep DEF LeavingInv
<1>1. CASE Leave
  <2>1. \A t \in Tasks : task'[t] \notin Untold
    BY <1>1, CancelReaches, CancelType, CallerNames DEF Leave
  <2> QED BY <2>1 DEF LeftInv
<1>2. CASE StopCalled
  <2>1. \A t \in Tasks : task'[t] \in Untold => task[t] \in Untold
    BY <1>2, CancelReaches, CallerNames DEF StopCalled
  <2> QED BY <1>2, <2>1 DEF StopCalled, CancelSessionTasks, LeftInv
<1>3. ASSUME NEW c \in Clients, NEW s \in TaskSessions, Dissolve(c, s) PROVE LeftInv'
  <2>1. c \in Callers /\ {s} \in SUBSET TaskSessions
    BY CallerNames
  <2>2. \A t \in Tasks : task'[t] \in Untold => task[t] \in Untold
    BY <1>3, <2>1, CancelReaches DEF Dissolve
  <2> QED BY <1>3, <2>2 DEF Dissolve, CancelSessionTasks, control, LeftInv
<1>4. CASE ControlStep
  <2>1. serve' \in {"gathering", "stopped"} => serve \in {"gathering", "stopped"}
    BY <1>4 DEF ControlStep, Serving, RunForever, Start, StartFails, AwaitRegistrationAck,
         ConnectionDropped, Backoff, Left, NewClient, Retry, CancelRunForever, StopReturns,
         LoopEnds, HandleRegistered, HandleDissolve, control
  <2> QED BY <1>4, <2>1, ControlLeavesWork DEF work, LeftInv
<1>5. ASSUME NEW t \in Tasks, EnterSemaphore(t) \/ TaskEnds(t) PROVE LeftInv'
  <2>1. /\ serve' = serve
        /\ \A u \in Tasks : task'[u] \in Untold => task[u] \in Untold /\ (u \in strays => u \in strays')
    BY <1>5 DEF EnterSemaphore, TaskEnds, Untold, control, AgentTasksTypeOK
  <2> QED BY <2>1 DEF LeftInv
<1>6. ASSUME NEW c \in Clients, NEW t \in Tasks, NEW s \in TaskSessions, Spawn(c, t, s)
      PROVE  LeftInv'
  <2>1. /\ serve' = serve /\ strays \subseteq strays'
        /\ \A u \in Tasks \ {t} : task'[u] = task[u]
        /\ c \in forsaken => t \in strays'
        /\ loop[c] # "down"
    BY <1>6 DEF Spawn, control, AgentTasksTypeOK
  <2>2. serve \in {"gathering", "stopped"} => c \in forsaken
    BY <2>1 DEF LoopsInv
  <2> QED BY <2>1, <2>2 DEF LeftInv
<1>7. CASE UNCHANGED agentVars
  BY <1>7 DEF agentVars, work, control, LeftInv
<1> QED
  BY <1>1, <1>2, <1>3, <1>4, <1>5, <1>6, <1>7 DEF AgentTasksNext, Serving, ControlStep

(* When run_forever returns nothing it was sent goes on, but what clients  *)
(* brought that it had forsaken (stop, run_forever).                        *)
THEOREM StoppedAlwaysQuiet == AgentTasksSpec => []StoppedIsQuiet
<1>1. AgentTasksInit => LeavingInv
  BY DEF AgentTasksInit, LeavingInv, LoopsInv, LeftInv
<1>2. LeavingInv => StoppedIsQuiet
  BY DEF LeavingInv, LeftInv, StoppedIsQuiet
<1> QED
  BY <1>1, <1>2, LeavingStep, AgentTypeCorrect, WorkAlwaysTracked, PTL DEF AgentTasksSpec

(* A task that was cancelled is awaited by the call that did it, and that  *)
(* call's place is taken by no other: stop() and the end of run_forever are *)
(* once, and a dissolution whose loop went away with its tasks unfinished   *)
(* was ended by a stop(), after which the agent makes no new client.        *)
CancelledAwaited == \A t \in Tasks : task[t] = "cancelled" => \E k \in Callers : t \in awaited[k]

CallsInv ==
    /\ stopper = "none" => awaited["stop"] = {}
    /\ serve \notin {"gathering", "stopped"} => awaited["final"] = {}
    /\ stopper # "none" => stopping /\ serve # "idle"
    /\ serve \in {"gathering", "stopped"} => stopping
    /\ serve = "connecting" => loop[client] = "down"

ClientCalls ==
    \A c \in Clients :
        loop[c] \notin TaskSessions /\ awaited[c] # {} =>
            /\ loop[c] = "down" /\ stopping /\ serve # "idle"
            /\ serve = "connecting" => c # client

DissolvedInv ==
    \A c \in Clients : \A t \in Tasks :
        loop[c] \in TaskSessions /\ c \notin forsaken
        /\ task[t] \in Untold /\ taskSession[t] = loop[c] => t \in strays

CancelInv == CancelledAwaited /\ CallsInv /\ ClientCalls /\ DissolvedInv

LEMMA CancelKeeps ==
  ASSUME AgentTasksTypeOK, WorkIsTracked, CancelInv, NEW k \in Callers,
         NEW S \in SUBSET TaskSessions, CancelSessionTasks(k, S), awaited[k] = {}
  PROVE  /\ CancelledAwaited'
         /\ \A j \in Callers \ {k} : awaited'[j] = awaited[j]
         /\ \A t \in Tasks : task'[t] \in Untold =>
               task[t] \in Untold /\ taskSession'[t] \notin S
         /\ taskSession' = taskSession /\ strays' = strays
<1>1. /\ \A t \in Tasks : task'[t] = "cancelled" /\ task[t] # "cancelled" => t \in awaited'[k]
      /\ \A j \in Callers \ {k} : awaited'[j] = awaited[j]
      /\ \A t \in Tasks : task'[t] \in Untold => task[t] \in Untold /\ taskSession'[t] \notin S
  BY CancelReaches
<1>2. ASSUME NEW t \in Tasks, task[t] = "cancelled" PROVE \E j \in Callers : t \in awaited'[j]
  <2> PICK j \in Callers : t \in awaited[j]
    BY <1>2 DEF CancelInv, CancelledAwaited
  <2> QED BY <1>1
<1> QED BY <1>1, <1>2 DEF CancelSessionTasks, CancelledAwaited

(* stop() and the end of run_forever cancel everything.                    *)
LEMMA CancelsAll ==
  ASSUME AgentTasksTypeOK, WorkIsTracked, CancelInv, NEW k \in {"stop", "final"},
         CancelSessionTasks(k, TaskSessions), awaited[k] = {}, UNCHANGED <<loop, forsaken>>
  PROVE  /\ CancelledAwaited' /\ DissolvedInv'
         /\ \A j \in Callers \ {k} : awaited'[j] = awaited[j]
         /\ \A c \in Clients : awaited'[c] = awaited[c]
<1>1. k \in Callers /\ k \notin Clients
  BY CallerNames, NamesAssumption
<1>2. /\ CancelledAwaited'
      /\ \A j \in Callers \ {k} : awaited'[j] = awaited[j]
      /\ \A t \in Tasks : task'[t] \in Untold => task[t] \in Untold
      /\ taskSession' = taskSession /\ strays' = strays
  BY <1>1, CancelKeeps
<1>3. DissolvedInv'
  BY <1>2 DEF CancelInv, DissolvedInv
<1> QED BY <1>1, <1>2, <1>3, CallerNames

LEMMA CancelStep ==
  /\ AgentTasksTypeOK /\ WorkIsTracked /\ LeavingInv /\ CancelInv
  /\ [AgentTasksNext]_agentVars
  => CancelInv'
<1> SUFFICES ASSUME AgentTasksTypeOK, WorkIsTracked, LeavingInv, CancelInv,
                    [AgentTasksNext]_agentVars
             PROVE  CancelInv'
  OBVIOUS
<1>1. CASE Leave
  <2>1. awaited["final"] = {}
    BY <1>1 DEF Leave, CancelInv, CallsInv
  <2>2. /\ CancelledAwaited' /\ DissolvedInv' /\ awaited'["stop"] = awaited["stop"]
        /\ \A c \in Clients : awaited'[c] = awaited[c]
    BY <1>1, <2>1, CancelsAll, CallerNames DEF Leave, socket
  <2> QED BY <1>1, <2>2 DEF Leave, CancelInv, CallsInv, ClientCalls, socket
<1>2. CASE StopCalled
  <2>1. awaited["stop"] = {}
    BY <1>2 DEF StopCalled, CancelInv, CallsInv
  <2>2. /\ CancelledAwaited' /\ DissolvedInv' /\ awaited'["final"] = awaited["final"]
        /\ \A c \in Clients : awaited'[c] = awaited[c]
    BY <1>2, <2>1, CancelsAll, CallerNames DEF StopCalled, socket
  <2> QED BY <1>2, <2>2 DEF StopCalled, CancelInv, CallsInv, ClientCalls, socket
<1>3. ASSUME NEW c \in Clients, NEW s \in TaskSessions, Dissolve(c, s) PROVE CancelInv'
  <2>1. c \in Callers \ {"stop", "final"} /\ {s} \in SUBSET TaskSessions
    BY CallerNames, NamesAssumption
  <2>2. loop[c] = "reading" /\ "reading" \notin TaskSessions /\ "down" \notin TaskSessions
    BY <1>3, NamesAssumption DEF Dissolve
  <2>3. awaited[c] = {}
    BY <2>2 DEF CancelInv, ClientCalls
  <2>4. /\ CancelledAwaited'
        /\ \A j \in Callers \ {c} : awaited'[j] = awaited[j]
        /\ \A t \in Tasks : task'[t] \in Untold => task[t] \in Untold /\ taskSession'[t] # s
        /\ taskSession' = taskSession /\ strays' = strays
    BY <1>3, <2>1, <2>3, CancelKeeps DEF Dissolve
  <2>5. /\ loop'[c] = s /\ \A d \in Clients \ {c} : loop'[d] = loop[d]
        /\ UNCHANGED <<client, forsaken, serve, stopper, stopping>>
    BY <1>3 DEF Dissolve, control, AgentTasksTypeOK
  <2>6. CallsInv'
    <3>1. awaited'["stop"] = awaited["stop"] /\ awaited'["final"] = awaited["final"]
      BY <2>1, <2>4, CallerNames
    <3>2. serve = "connecting" => loop'[client] = "down"
      BY <2>2, <2>5 DEF CancelInv, CallsInv, AgentTasksTypeOK
    <3> QED BY <2>5, <3>1, <3>2 DEF CancelInv, CallsInv
  <2>7. ClientCalls'
    BY <2>4, <2>5, CallerNames DEF CancelInv, ClientCalls
  <2>8. DissolvedInv'
    BY <2>4, <2>5 DEF CancelInv, DissolvedInv
  <2> QED BY <2>4, <2>6, <2>7, <2>8 DEF CancelInv
<1>4. CASE Serving /\ ~Leave
  <2>0. UNCHANGED work
    BY <1>4, ControlLeavesWork DEF ControlStep
  <2>1. CASE RunForever \/ Backoff
    <3>1. CASE UNCHANGED socket
      BY <2>0, <2>1, <3>1
         DEF RunForever, Backoff, NewClient, work, socket, CancelInv, CancelledAwaited, CallsInv,
             ClientCalls, DissolvedInv
    <3>2. CASE ~UNCHANGED socket
      <4>1. /\ NewClient /\ UNCHANGED stopper /\ serve # "connecting"
            /\ serve \notin {"gathering", "stopped"}
            /\ serve = "idle" \/ (~stopping /\ stopping' = stopping)
        BY <2>1, <3>2 DEF RunForever, Backoff
      <4>2. \A c \in Clients : awaited[c] # {} => loop[c] \in TaskSessions
        BY <4>1 DEF CancelInv, ClientCalls
      <4>3. ClientCalls'
        BY <2>0, <4>1, <4>2 DEF NewClient, work, ClientCalls
      <4>4. DissolvedInv' /\ CancelledAwaited'
        <5>1. loop' = loop /\ forsaken' = forsaken \ {client'} /\ loop[client'] = "down"
          BY <4>1 DEF NewClient
        <5>2. \A c \in Clients : loop'[c] \in TaskSessions /\ c \notin forsaken' => c \notin forsaken
          BY <5>1, NamesAssumption
        <5> QED BY <2>0, <5>1, <5>2 DEF work, CancelInv, DissolvedInv, CancelledAwaited
      <4>5. CallsInv'
        BY <2>0, <4>1 DEF NewClient, work, CancelInv, CallsInv
      <4> QED BY <4>3, <4>4, <4>5 DEF CancelInv
    <3> QED BY <3>1, <3>2
  <2>2. CASE Start
    <3>1. /\ loop'[client] = "reading" /\ \A c \in Clients \ {client} : loop'[c] = loop[c]
          /\ loop[client] = "down" /\ client' = client /\ client \in Clients
          /\ forsaken \subseteq forsaken'
          /\ serve = "connecting" /\ serve' \in {"registering", "leaving", "backoff"}
          /\ UNCHANGED <<stopper, stopping>>
      BY <2>2 DEF Start, Retry, CancelInv, CallsInv, AgentTasksTypeOK
    <3>2. awaited[client] = {}
      BY <3>1, NamesAssumption DEF CancelInv, ClientCalls
    <3>3. CallsInv' /\ CancelledAwaited'
      BY <2>0, <3>1 DEF work, CancelInv, CallsInv, CancelledAwaited
    <3>4. ClientCalls'
      BY <2>0, <3>1, <3>2 DEF work, CancelInv, ClientCalls
    <3>5. DissolvedInv'
      BY <2>0, <3>1, NamesAssumption DEF work, CancelInv, DissolvedInv
    <3> QED BY <3>3, <3>4, <3>5 DEF CancelInv
  <2>3. CASE StartFails \/ AwaitRegistrationAck \/ ConnectionDropped
    <3>1. /\ UNCHANGED <<client, loop, stopper, stopping>> /\ forsaken \subseteq forsaken'
          /\ serve \in {"connecting", "registering", "serving"}
          /\ serve' \in {"serving", "leaving", "backoff"}
      BY <2>3 DEF StartFails, AwaitRegistrationAck, ConnectionDropped, Retry, Forsake, socket
    <3> QED
      BY <2>0, <3>1 DEF work, CancelInv, CancelledAwaited, CallsInv, ClientCalls, DissolvedInv
  <2>4. CASE Left
    <3>1. /\ loop'[client] = "down" /\ \A c \in Clients \ {client} : loop'[c] = loop[c]
          /\ UNCHANGED <<client, forsaken, stopper, stopping>> /\ client \in Clients
          /\ serve = "gathering" /\ serve' = "stopped"
      BY <2>4 DEF Left, Disconnected, AgentTasksTypeOK
    <3> QED
      BY <2>0, <3>1, NamesAssumption
         DEF work, CancelInv, CancelledAwaited, CallsInv, ClientCalls, DissolvedInv
  <2> QED BY <1>4, <2>1, <2>2, <2>3, <2>4 DEF Serving
<1>5. CASE CancelRunForever
  <2>1. /\ UNCHANGED <<client, loop, stopper, stopping>> /\ forsaken \subseteq forsaken'
        /\ serve \notin {"idle", "gathering", "stopped"} /\ serve' = "leaving" /\ UNCHANGED work
    BY <1>5 DEF CancelRunForever, Forsake, socket
  <2> QED
    BY <2>1 DEF work, CancelInv, CancelledAwaited, CallsInv, ClientCalls, DissolvedInv
<1>6. ASSUME NEW c \in Clients, LoopEnds(c) \/ HandleDissolve(c) PROVE CancelInv'
  <2>1. /\ \A d \in Clients \ {c} : loop'[d] = loop[d]
        /\ loop[c] # "down" /\ loop'[c] \in {"down", "reading"}
        /\ UNCHANGED <<work, client, forsaken, serve, stopper, stopping>>
    BY <1>6, NamesAssumption DEF LoopEnds, HandleDissolve, control, AgentTasksTypeOK
  <2>2. awaited[c] = {}
    BY <1>6, NamesAssumption DEF LoopEnds, HandleDissolve, CancelInv, ClientCalls
  <2>3. CallsInv'
    <3>1. serve = "connecting" => loop'[client] = "down"
      BY <2>1 DEF CancelInv, CallsInv, AgentTasksTypeOK
    <3> QED BY <2>1, <3>1 DEF work, CancelInv, CallsInv
  <2>4. ClientCalls'
    BY <2>1, <2>2 DEF work, CancelInv, ClientCalls
  <2>5. DissolvedInv' /\ CancelledAwaited'
    BY <2>1, NamesAssumption DEF work, CancelInv, CancelledAwaited, DissolvedInv
  <2> QED BY <2>3, <2>4, <2>5 DEF CancelInv
<1>7. CASE StopReturns
  <2>1. /\ loop'[client] = "down" /\ \A c \in Clients \ {client} : loop'[c] = loop[c]
        /\ UNCHANGED <<work, client, forsaken, serve, stopping>> /\ client \in Clients
        /\ stopper = "gathering" /\ stopper' = "done"
    BY <1>7 DEF StopReturns, Disconnected, AgentTasksTypeOK
  <2>2. stopping /\ serve # "idle" /\ (serve = "connecting" => loop[client] = "down")
    BY <2>1 DEF CancelInv, CallsInv
  <2>3. serve = "connecting" => awaited[client] = {}
    BY <2>1, <2>2, NamesAssumption DEF CancelInv, ClientCalls
  <2>4. CallsInv' /\ CancelledAwaited'
    BY <2>1, <2>2 DEF work, CancelInv, CallsInv, CancelledAwaited
  <2>5. ClientCalls'
    BY <2>1, <2>2, <2>3 DEF work, CancelInv, ClientCalls
  <2>6. DissolvedInv'
    BY <2>1, NamesAssumption DEF work, CancelInv, DissolvedInv
  <2> QED BY <2>4, <2>5, <2>6 DEF CancelInv
<1>8. ASSUME NEW t \in Tasks, EnterSemaphore(t) PROVE CancelInv'
  <2>1. /\ \A u \in Tasks : /\ task'[u] \in Untold => task[u] \in Untold
                            /\ task'[u] = "cancelled" => task[u] = "cancelled"
        /\ UNCHANGED <<taskSession, awaited, strays, socket, serve, stopper, stopping>>
    BY <1>8 DEF EnterSemaphore, Untold, control, AgentTasksTypeOK
  <2> QED
    BY <2>1 DEF socket, CancelInv, CancelledAwaited, CallsInv, ClientCalls, DissolvedInv
<1>9. ASSUME NEW t \in Tasks, TaskEnds(t) PROVE CancelInv'
  <2>1. /\ \A u \in Tasks \ {t} : task'[u] = task[u]
        /\ task'[t] = "free" /\ strays' = strays \ {t}
        /\ \A k \in Callers : awaited'[k] = awaited[k] \ {t}
        /\ UNCHANGED <<taskSession, socket, serve, stopper, stopping>>
    BY <1>9 DEF TaskEnds, control, AgentTasksTypeOK
  <2>2. CancelledAwaited'
    BY <2>1 DEF CancelInv, CancelledAwaited
  <2>3. CallsInv' /\ ClientCalls'
    BY <2>1, CallerNames DEF socket, CancelInv, CallsInv, ClientCalls
  <2>4. DissolvedInv'
    BY <2>1 DEF socket, CancelInv, DissolvedInv, Untold
  <2> QED BY <2>2, <2>3, <2>4 DEF CancelInv
<1>10. ASSUME NEW c \in Clients, NEW t \in Tasks, NEW s \in TaskSessions, Spawn(c, t, s)
       PROVE  CancelInv'
  <2>1. /\ task[t] = "free" /\ task'[t] = "queued" /\ loop[c] = "reading"
        /\ \A u \in Tasks \ {t} : task'[u] = task[u] /\ taskSession'[u] = taskSession[u]
        /\ strays \subseteq strays' /\ (c \in forsaken => t \in strays')
        /\ UNCHANGED <<awaited, socket, serve, stopper, stopping>>
    BY <1>10 DEF Spawn, control, AgentTasksTypeOK
  <2>2. CallsInv' /\ ClientCalls' /\ CancelledAwaited'
    BY <2>1 DEF socket, CancelInv, CallsInv, ClientCalls, CancelledAwaited
  <2>3. \A d \in Clients : loop[d] \in TaskSessions /\ d \notin forsaken => c \in forsaken
    BY <2>1, NamesAssumption DEF LeavingInv, LoopsInv
  <2>4. DissolvedInv'
    BY <2>1, <2>3 DEF socket, CancelInv, DissolvedInv
  <2> QED BY <2>2, <2>4 DEF CancelInv
<1>11. CASE UNCHANGED <<work, socket, serve, stopper, stopping>>
  BY <1>11 DEF work, socket, CancelInv, CancelledAwaited, CallsInv, ClientCalls, DissolvedInv
<1> QED
  BY <1>1, <1>2, <1>3, <1>4, <1>5, <1>6, <1>7, <1>8, <1>9, <1>10, <1>11
     DEF AgentTasksNext, Serving, HandleRegistered, control, agentVars

(* When a dissolution is handled no work of its session is left that no    *)
(* call is waiting for, nor a forsaken client brought (_handle_dissolve,    *)
(* _cancel_session_tasks).                                                  *)
THEOREM DissolvedAlwaysQuiet == AgentTasksSpec => DissolvedIsQuiet
<1>1. AgentTasksInit => LeavingInv /\ CancelInv
  BY CallerNames, NamesAssumption
     DEF AgentTasksInit, LeavingInv, LoopsInv, LeftInv, CancelInv, CancelledAwaited, CallsInv,
         ClientCalls, DissolvedInv
<1>2. AgentTasksTypeOK /\ CancelInv =>
         \A c \in Clients \ forsaken :
            loop[c] \in TaskSessions /\ loop'[c] = "reading" =>
               \A t \in Tasks :
                  task[t] # "free" /\ taskSession[t] = loop[c] =>
                     t \in strays \/ \E k \in Callers : t \in awaited[k]
  BY DEF AgentTasksTypeOK, CancelInv, CancelledAwaited, DissolvedInv
<1> QED
  BY <1>1, <1>2, LeavingStep, CancelStep, AgentTypeCorrect, WorkAlwaysTracked, PTL
     DEF AgentTasksSpec, DissolvedIsQuiet

-----------------------------------------------------------------------------
(* The bridge *)

(* Its tools, names and replies are what they are.                         *)
THEOREM BridgeTypeCorrect == BridgeSpec => []BridgeTypeOK
<1>1. BridgeInit => BridgeTypeOK
  BY DEF BridgeInit, BridgeTypeOK, NoReply, Calls
<1>2. BridgeTypeOK /\ [BridgeNext]_bridgeVars => BridgeTypeOK'
  <2> SUFFICES ASSUME BridgeTypeOK, [BridgeNext]_bridgeVars PROVE BridgeTypeOK'
    OBVIOUS
  <2>0. /\ NoReply.tools \subseteq BridgeTools /\ Failure.tools \subseteq BridgeTools
        /\ \A d \in Discoverers : replies[d].tools \subseteq BridgeTools
        /\ {"start", "rediscover"} \subseteq Discoverers
    BY DEF NoReply, Failure, BridgeTypeOK, Discoverers
  <2>1. ASSUME NEW d \in Discoverers, DiscoverTools(replies[d])
        PROVE  /\ names' \subseteq BridgeTools /\ caps' \subseteq BridgeTools
               /\ headTool' \in BridgeTools \cup {NoTool}
    BY <2>0, <2>1 DEF DiscoverTools, BridgeTypeOK
  <2>2. CASE ToolsFound
    BY <2>0, <2>1, <2>2 DEF ToolsFound, BridgeTypeOK
  <2>3. CASE RediscoverTools
    <3>1. /\ names' \subseteq BridgeTools /\ caps' \subseteq BridgeTools
          /\ headTool' \in BridgeTools \cup {NoTool}
      BY <2>0, <2>1, <2>3 DEF RediscoverTools
    <3>2. registered' \subseteq BridgeTools /\ promised' \subseteq BridgeTools
      BY <2>3, <3>1 DEF RediscoverTools, Registers, BridgeTypeOK
    <3> QED BY <2>3, <3>1, <3>2 DEF RediscoverTools, BridgeTypeOK
  <2>4. ASSUME NEW t \in BridgeTools, NEW hint \in BridgeTools \cup {NoTool},
               ExecuteStep(t, hint)
        PROVE  BridgeTypeOK'
    BY <2>4 DEF ExecuteStep, PickTool, Calls, BridgeTypeOK, lists
  <2>5. ASSUME NEW d \in Discoverers, NEW ok \in BOOLEAN, Reply(d, ok) PROVE BridgeTypeOK'
    BY <2>5 DEF Reply, BridgeTypeOK, lists
  <2>6. ASSUME NEW tools \in SUBSET BridgeTools, ServerChanges(tools) PROVE BridgeTypeOK'
    BY <2>6 DEF ServerChanges, BridgeTypeOK, lists
  <2>7. CASE StartBridge \/ BridgeConnects \/ BridgeDrops \/ ReplaceBridge
             \/ RequestRediscovery
    BY <2>7 DEF StartBridge, BridgeConnects, BridgeDrops, ReplaceBridge, RequestRediscovery,
                Registers, BridgeTypeOK, lists
  <2>8. CASE UNCHANGED bridgeVars
    BY <2>8 DEF bridgeVars, lists, BridgeTypeOK
  <2> QED BY <2>2, <2>3, <2>4, <2>5, <2>6, <2>7, <2>8 DEF BridgeNext
<1> QED BY <1>1, <1>2, PTL DEF BridgeSpec

(* What the bridge registers it can name, and what it registered last is   *)
(* what it would register now.                                              *)
BridgeInv ==
    /\ caps \subseteq names
    /\ bridge = "serving" => registered = caps

(* Whichever answer of the server comes first, the coordinator has what    *)
(* the bridge takes for its capabilities (start, rediscover_tools).         *)
THEOREM RegisteredAlwaysKnown == BridgeSpec => []RegisteredAsKnown
<1>1. BridgeInit => BridgeInv
  BY DEF BridgeInit, BridgeInv
<1>2. BridgeInv /\ [BridgeNext]_bridgeVars => BridgeInv'
  <2> SUFFICES ASSUME BridgeInv, [BridgeNext]_bridgeVars PROVE BridgeInv'
    OBVIOUS
  <2>1. ASSUME NEW reply, DiscoverTools(reply) PROVE caps' \subseteq names'
    BY <2>1 DEF DiscoverTools
  <2>2. CASE ToolsFound \/ RediscoverTools
    BY <2>1, <2>2 DEF ToolsFound, RediscoverTools, Registers, BridgeInv
  <2>3. CASE ~ToolsFound /\ ~RediscoverTools
    BY <2>3 DEF BridgeNext, ServerChanges, Reply, StartBridge, BridgeConnects, BridgeDrops,
                ReplaceBridge, RequestRediscovery, ExecuteStep, Registers, bridgeVars, lists,
                BridgeInv
  <2> QED BY <2>2, <2>3
<1>3. BridgeInv => RegisteredAsKnown
  BY DEF BridgeInv, RegisteredAsKnown
<1> QED BY <1>1, <1>2, <1>3, PTL DEF BridgeSpec

-----------------------------------------------------------------------------
(* Hosted servers (ManagedAgents) *)

(* A request is idle, about to start a server, or stopping one.            *)
LEMMA RequestForms ==
  ASSUME NEW r \in HostRequests
  PROVE  \/ r = Idle /\ r.pc = "free"
         \/ r # Idle /\ r.pc = "start" /\ r.agent \in Hosted
         \/ /\ r # Idle /\ r.pc = "stopping" /\ r.agent \in Hosted
            /\ r.waits \in ServerTasks \cup {NoTask} /\ r.to \in {"inactive", "absent"}
BY DEF HostRequests, Idle

TasksOK ==
    /\ table \in [Hosted -> ServerTasks \cup {NoTask}]
    /\ server \in [ServerTasks -> {"free", "running", "cancelled", "over"}]
    /\ serves \in [ServerTasks -> Hosted \cup {NoTask}]

RowsOK == row \in [Hosted -> Rows]
RequestsOK == request \in [AdminRequests -> HostRequests]

LEMMA StartAgentType ==
  ASSUME TasksOK, NEW a \in Hosted, StartAgent(a) PROVE TasksOK'
<1>1. CASE UNCHANGED tasks
  BY <1>1 DEF tasks, TasksOK
<1>2. ASSUME NEW k \in ServerTasks, NewTask(a, k) PROVE TasksOK'
  <2>1. table' \in [Hosted -> ServerTasks \cup {NoTask}]
    BY <1>2 DEF NewTask, TasksOK
  <2>2. server' \in [ServerTasks -> {"free", "running", "cancelled", "over"}]
    BY <1>2 DEF NewTask, TasksOK
  <2>3. serves' \in [ServerTasks -> Hosted \cup {NoTask}]
    BY <1>2 DEF NewTask, TasksOK
  <2> QED BY <2>1, <2>2, <2>3 DEF TasksOK
<1> QED BY <1>1, <1>2 DEF StartAgent

LEMMA StopAgentType ==
  ASSUME TasksOK, NEW a \in Hosted, StopAgent(a)
  PROVE  TasksOK' /\ Awaits(a) \in ServerTasks \cup {NoTask}
<1>1. table' \in [Hosted -> ServerTasks \cup {NoTask}]
  BY DEF StopAgent, TasksOK
<1>2. server' \in [ServerTasks -> {"free", "running", "cancelled", "over"}]
  BY DEF StopAgent, TasksOK
<1>3. serves' \in [ServerTasks -> Hosted \cup {NoTask}]
  BY DEF StopAgent, ServesWhileUsed, TasksOK
<1>4. Awaits(a) \in ServerTasks \cup {NoTask}
  BY DEF Awaits, TasksOK
<1> QED BY <1>1, <1>2, <1>3, <1>4 DEF TasksOK

LEMMA RowTypes ==
  ASSUME RowsOK, NEW a \in Hosted, NEW to \in Rows,
         InsertRow(a, to) \/ SetRow(a, to) \/ DeleteRow(a)
  PROVE  RowsOK'
BY DEF InsertRow, SetRow, DeleteRow, RowsOK, Rows

(* Every action of a request, and what it leaves of the types.             *)
LEMMA RequestTypes ==
  ASSUME HostedTypeOK, AdminRequest PROVE HostedTypeOK'
<1> SUFFICES ASSUME NEW q \in AdminRequests,
                    \/ StartRequested(q)
                    \/ Store(q)
                    \/ \E a \in Hosted :
                          \/ \E activate \in BOOLEAN : Create(q, a, activate)
                          \/ Activate(q, a)
                          \/ \E to \in {"inactive", "absent"} : DisableOrDelete(q, a, to)
             PROVE  HostedTypeOK'
  BY DEF AdminRequest
<1> USE DEF HostedTypeOK
<1>0. TasksOK /\ RowsOK /\ RequestsOK
  BY DEF TasksOK, RowsOK, RequestsOK
<1>1. Idle \in HostRequests
  BY DEF HostRequests
<1>2. CASE StartRequested(q)
  <2>1. request[q].agent \in Hosted
    BY <1>2, RequestForms DEF StartRequested
  <2>2. TasksOK'
    BY <1>0, <1>2, <2>1, StartAgentType DEF StartRequested
  <2> QED BY <1>1, <1>2, <2>2 DEF StartRequested, TasksOK, life
<1>3. CASE Store(q)
  <2>1. request[q].agent \in Hosted /\ request[q].to \in Rows
    BY <1>3, RequestForms DEF Store, Rows
  <2>2. RowsOK'
    BY <1>0, <1>3, <2>1, RowTypes DEF Store
  <2> QED BY <1>1, <1>3, <2>2 DEF Store, RowsOK, life, tasks
<1>4. ASSUME NEW a \in Hosted, NEW activate \in BOOLEAN, Create(q, a, activate)
      PROVE  HostedTypeOK'
  <2>1. RowsOK'
    BY <1>0, <1>4, RowTypes DEF Create, Rows
  <2>2. [pc |-> "start", agent |-> a] \in HostRequests
    BY DEF HostRequests
  <2>3. request' \in [AdminRequests -> HostRequests]
    BY <1>1, <1>4, <2>2 DEF Create
  <2>4. raced' \in [Hosted -> BOOLEAN]
    BY <1>4 DEF Create, Begins, Busy
  <2> QED BY <1>4, <2>1, <2>3, <2>4 DEF Create, RowsOK, life, tasks
<1>5. ASSUME NEW a \in Hosted, Activate(q, a) PROVE HostedTypeOK'
  <2>1. RowsOK'
    BY <1>0, <1>5, RowTypes DEF Activate, Rows
  <2>2. [pc |-> "start", agent |-> a] \in HostRequests
    BY DEF HostRequests
  <2>3. raced' \in [Hosted -> BOOLEAN]
    BY <1>5 DEF Activate, Begins, Busy
  <2> QED BY <1>5, <2>1, <2>2, <2>3 DEF Activate, RowsOK, life, tasks
<1>6. ASSUME NEW a \in Hosted, NEW to \in {"inactive", "absent"},
             DisableOrDelete(q, a, to)
      PROVE  HostedTypeOK'
  <2>1. TasksOK' /\ Awaits(a) \in ServerTasks \cup {NoTask}
    BY <1>0, <1>6, StopAgentType DEF DisableOrDelete
  <2>2. [pc |-> "stopping", agent |-> a, waits |-> Awaits(a), to |-> to] \in HostRequests
    BY <2>1 DEF HostRequests
  <2>3. raced' \in [Hosted -> BOOLEAN]
    BY <1>6 DEF DisableOrDelete, Begins, Busy
  <2> QED BY <1>6, <2>1, <2>2, <2>3 DEF DisableOrDelete, TasksOK, life
<1> QED BY <1>2, <1>3, <1>4, <1>5, <1>6

(* The type invariant: rows, table, tasks and requests stay what they are  *)
(* declared to be, through requests that overlap, crashes and restarts.     *)
THEOREM HostedTypeCorrect == HostedSpec => []HostedTypeOK
<1>1. HostedInit => HostedTypeOK
  BY DEF HostedInit, HostedTypeOK, HostRequests, Rows
<1>2. HostedTypeOK /\ [HostedNext]_hostVars => HostedTypeOK'
  <2> SUFFICES ASSUME HostedTypeOK, [HostedNext]_hostVars PROVE HostedTypeOK'
    OBVIOUS
  <2>0. TasksOK /\ RowsOK /\ RequestsOK
    BY DEF HostedTypeOK, TasksOK, RowsOK, RequestsOK
  <2>1. CASE AdminRequest
    BY <2>1, RequestTypes
  <2> USE DEF HostedTypeOK
  <2>2. ASSUME NEW k \in ServerTasks, ServerEnds(k) PROVE HostedTypeOK'
    BY <2>2 DEF ServerEnds, life
  <2>3. ASSUME NEW k \in ServerTasks, ServerLetsGo(k) PROVE HostedTypeOK'
    <3>1. ASSUME NEW q \in AdminRequests, request[q].pc = "stopping"
          PROVE  [request[q] EXCEPT !.waits = NoTask] \in HostRequests
      BY <3>1 DEF HostRequests, Idle
    <3>2. request' \in [AdminRequests -> HostRequests]
      BY <2>3, <3>1 DEF ServerLetsGo
    <3>3. serves' \in [ServerTasks -> Hosted \cup {NoTask}]
      BY <2>3 DEF ServerLetsGo, ServesWhileUsed
    <3> QED BY <2>3, <3>2, <3>3 DEF ServerLetsGo
  <2>4. ASSUME NEW a \in Hosted, NEW to \in Rows, CommandLine(a, to) PROVE HostedTypeOK'
    <3>1. RowsOK'
      BY <2>0, <2>4, RowTypes DEF CommandLine
    <3> QED BY <2>4, <3>1 DEF CommandLine, RowsOK, tasks, life
  <2>5. ASSUME NEW a \in Hosted, StartListed(a) PROVE HostedTypeOK'
    <3>1. TasksOK'
      BY <2>0, <2>5, StartAgentType DEF StartListed
    <3> QED BY <2>5, <3>1 DEF StartListed, TasksOK
  <2>6. ASSUME NEW a \in Hosted, CloseNext(a) PROVE HostedTypeOK'
    <3>1. TasksOK' /\ Awaits(a) \in ServerTasks \cup {NoTask}
      BY <2>0, <2>6, StopAgentType DEF CloseNext
    <3> QED BY <2>6, <3>1 DEF CloseNext, TasksOK
  <2>7. CASE ListActive
    BY <2>7 DEF ListActive, tasks
  <2>8. CASE Started \/ Signal \/ Close \/ Closed
    BY <2>8 DEF Started, Signal, Close, Closed, tasks
  <2>9. CASE ProcessEnds
    BY <2>9 DEF ProcessEnds, NothingRuns, HostRequests
  <2>10. CASE UNCHANGED hostVars
    BY <2>10 DEF hostVars, tasks, life
  <2> QED
    BY <2>1, <2>2, <2>3, <2>4, <2>5, <2>6, <2>7, <2>8, <2>9, <2>10 DEF HostedNext
<1> QED BY <1>1, <1>2, PTL DEF HostedSpec

-----------------------------------------------------------------------------

(* Tasks that run, or ran and ended by themselves, are exactly those in the *)
(* table, each under the agent it serves.                                   *)
InUse == {"running", "over"}

TableInv ==
    /\ \A k \in ServerTasks :
          server[k] \in InUse => serves[k] \in Hosted /\ table[serves[k]] = k
    /\ \A a \in Hosted :
          table[a] # NoTask => server[table[a]] \in InUse /\ serves[table[a]] = a

(* A task is started for an agent only if none runs for it, and one that   *)
(* ended gives way.                                                         *)
LEMMA StartKeepsTable ==
  ASSUME TasksOK, TableInv, NEW a \in Hosted, StartAgent(a) PROVE TableInv'
<1>1. CASE UNCHANGED tasks
  BY <1>1 DEF tasks, TableInv
<1>2. ASSUME NEW k \in ServerTasks, NewTask(a, k), ~Running(a) PROVE TableInv'
  <2>1. /\ server[k] = "free" /\ server'[k] = "running" /\ serves'[k] = a /\ table'[a] = k
        /\ \A b \in Hosted \ {a} : table'[b] = table[b]
    BY <1>2 DEF NewTask, TasksOK
  <2>2. \A j \in ServerTasks \ {k} :
           server'[j] \in InUse => j # table[a] /\ server[j] \in InUse /\ serves'[j] = serves[j]
    BY <1>2, NoTaskAssumption DEF NewTask, TasksOK, Running, InUse
  <2>3. \A j \in ServerTasks \ {k} :
           server[j] \in InUse /\ j # table[a] => server'[j] = server[j] /\ serves'[j] = serves[j]
    BY <1>2 DEF NewTask, TasksOK, InUse
  <2>4. ASSUME NEW j \in ServerTasks, server'[j] \in InUse
        PROVE  serves'[j] \in Hosted /\ table'[serves'[j]] = j
    BY <2>1, <2>2, <2>4 DEF TableInv
  <2>5. ASSUME NEW b \in Hosted, table'[b] # NoTask
        PROVE  server'[table'[b]] \in InUse /\ serves'[table'[b]] = b
    <3>1. CASE b = a
      BY <2>1, <3>1 DEF InUse
    <3>2. CASE b # a
      <4>1. table'[b] = table[b] /\ table[b] \in ServerTasks
        BY <2>1, <2>5, <3>2 DEF TasksOK
      <4>2. server[table[b]] \in InUse /\ serves[table[b]] = b
        BY <2>5, <4>1 DEF TableInv
      <4>3. table[b] # k
        BY <2>1, <4>2 DEF InUse
      <4>4. table[b] # table[a]
        BY <3>2, <4>1, <4>2, NoTaskAssumption DEF TableInv
      <4> QED BY <2>3, <4>1, <4>2, <4>3, <4>4
    <3> QED BY <3>1, <3>2
  <2> QED BY <2>4, <2>5 DEF TableInv
<1> QED BY <1>1, <1>2 DEF StartAgent

(* What is stopped leaves the table and is no longer in use.               *)
LEMMA StopKeepsTable ==
  ASSUME TasksOK, TableInv, NEW a \in Hosted, StopAgent(a) PROVE TableInv'
<1>1. /\ table'[a] = NoTask
      /\ \A b \in Hosted \ {a} : table'[b] = table[b]
  BY DEF StopAgent, TasksOK
<1>2. \A k \in ServerTasks :
         /\ server'[k] \in InUse => k # table[a] /\ server[k] \in InUse /\ serves'[k] = serves[k]
         /\ server[k] \in InUse /\ k # table[a] => server'[k] = server[k] /\ serves'[k] = serves[k]
  BY DEF StopAgent, ServesWhileUsed, TasksOK, InUse
<1>3. ASSUME NEW k \in ServerTasks, server'[k] \in InUse
      PROVE  serves'[k] \in Hosted /\ table'[serves'[k]] = k
  BY <1>1, <1>2, <1>3 DEF TableInv
<1>4. ASSUME NEW b \in Hosted, table'[b] # NoTask
      PROVE  server'[table'[b]] \in InUse /\ serves'[table'[b]] = b
  <2>1. b # a /\ table'[b] = table[b] /\ table[b] \in ServerTasks
    BY <1>1, <1>4 DEF TasksOK
  <2>2. server[table[b]] \in InUse /\ serves[table[b]] = b
    BY <1>4, <2>1 DEF TableInv
  <2>3. table[b] # table[a]
    BY <2>1, <2>2, NoTaskAssumption DEF TableInv
  <2> QED BY <1>2, <2>1, <2>2, <2>3
<1> QED BY <1>3, <1>4 DEF TableInv

LEMMA TableInvariant == HostedSpec => []TableInv
<1>1. HostedInit => TableInv
  BY DEF HostedInit, TableInv, InUse
<1>2. HostedTypeOK /\ TableInv /\ [HostedNext]_hostVars => TableInv'
  <2> SUFFICES ASSUME HostedTypeOK, TableInv, [HostedNext]_hostVars PROVE TableInv'
    OBVIOUS
  <2>0. TasksOK
    BY DEF HostedTypeOK, TasksOK
  <2>1. ASSUME UNCHANGED tasks PROVE TableInv'
    BY <2>1 DEF tasks, TableInv
  <2>2. ASSUME NEW q \in AdminRequests, StartRequested(q) PROVE TableInv'
    <3>1. request[q].agent \in Hosted
      BY <2>2, RequestForms DEF StartRequested, HostedTypeOK
    <3> QED BY <2>0, <2>2, <3>1, StartKeepsTable DEF StartRequested
  <2>3. ASSUME NEW q \in AdminRequests, NEW a \in Hosted, NEW to,
               DisableOrDelete(q, a, to)
        PROVE  TableInv'
    BY <2>0, <2>3, StopKeepsTable DEF DisableOrDelete
  <2>4. ASSUME NEW q \in AdminRequests, NEW a \in Hosted,
               \/ Store(q) \/ Activate(q, a)
               \/ \E activate \in BOOLEAN : Create(q, a, activate)
        PROVE  TableInv'
    BY <2>1, <2>4 DEF Store, Create, Activate
  <2>5. CASE AdminRequest
    <3>1. ASSUME NEW q \in AdminRequests, Store(q) PROVE TableInv'
      BY <2>1, <3>1 DEF Store
    <3> QED BY <2>2, <2>3, <2>4, <2>5, <3>1 DEF AdminRequest
  <2>6. ASSUME NEW k \in ServerTasks, ServerEnds(k) PROVE TableInv'
    <3>1. /\ table' = table /\ serves' = serves
          /\ \A j \in ServerTasks : server'[j] \in InUse <=> server[j] \in InUse
      BY <2>6 DEF ServerEnds, InUse, HostedTypeOK
    <3>2. \A a \in Hosted : table[a] # NoTask => table[a] \in ServerTasks
      BY DEF HostedTypeOK
    <3> QED BY <3>1, <3>2 DEF TableInv
  <2>7. ASSUME NEW k \in ServerTasks, ServerLetsGo(k) PROVE TableInv'
    <3>1. table' = table /\ \A j \in ServerTasks :
             /\ server'[j] \in InUse <=> server[j] \in InUse
             /\ server[j] \in InUse => serves'[j] = serves[j]
      BY <2>7 DEF ServerLetsGo, ServesWhileUsed, InUse, HostedTypeOK
    <3>2. \A a \in Hosted : table[a] # NoTask => table[a] \in ServerTasks
      BY DEF HostedTypeOK
    <3> QED BY <3>1, <3>2 DEF TableInv
  <2>8. ASSUME NEW a \in Hosted, StartListed(a) PROVE TableInv'
    BY <2>0, <2>8, StartKeepsTable DEF StartListed
  <2>9. ASSUME NEW a \in Hosted, CloseNext(a) PROVE TableInv'
    BY <2>0, <2>9, StopKeepsTable DEF CloseNext
  <2>10. CASE ProcessEnds
    BY <2>10 DEF ProcessEnds, NothingRuns, TableInv, InUse
  <2>11. ASSUME NEW a \in Hosted, NEW to \in Rows, CommandLine(a, to) PROVE TableInv'
    BY <2>1, <2>11 DEF CommandLine
  <2>12. CASE ListActive \/ Started \/ Signal \/ Close \/ Closed \/ UNCHANGED hostVars
    BY <2>1, <2>12 DEF ListActive, Started, Signal, Close, Closed, hostVars
  <2> QED
    BY <2>5, <2>6, <2>7, <2>8, <2>9, <2>10, <2>11, <2>12 DEF HostedNext
<1> QED BY <1>1, <1>2, HostedTypeCorrect, PTL DEF HostedSpec

(* A server that runs is the one in the table for its agent.               *)
THEOREM ServedAlwaysFromTable == HostedSpec => []ServedFromTable
<1>1. TableInv => ServedFromTable
  BY DEF TableInv, ServedFromTable, InUse
<1> QED BY <1>1, TableInvariant, PTL

-----------------------------------------------------------------------------

(* Somebody waits for every server that is letting go; requests run only   *)
(* while the admin API is served; what stop() has still to see to is all    *)
(* that is in the table; and afterwards nothing is.                         *)
AwaitedBy(k) ==
    \/ closing = k
    \/ \E q \in AdminRequests : request[q].pc = "stopping" /\ request[q].waits = k

QuietInv ==
    /\ phase \notin {"up", "draining"} => \A q \in AdminRequests : request[q] = Idle
    /\ closing # NoTask => phase = "closing"
    /\ \A k \in ServerTasks : server[k] = "cancelled" => AwaitedBy(k)
    /\ phase = "closing" => \A a \in Hosted : table[a] # NoTask => a \in left
    /\ phase = "closed" => \A k \in ServerTasks : server[k] = "free"

(* Starting a server cancels none, and stopping one cancels what is then   *)
(* awaited.                                                                 *)
LEMMA StartCancelsNone ==
  ASSUME TasksOK, NEW a \in Hosted, StartAgent(a), NEW k \in ServerTasks,
         server'[k] = "cancelled"
  PROVE  server[k] = "cancelled"
BY DEF StartAgent, NewTask, tasks, TasksOK

LEMMA StopCancelsAwaited ==
  ASSUME TasksOK, NEW a \in Hosted, StopAgent(a), NEW k \in ServerTasks,
         server'[k] = "cancelled"
  PROVE  server[k] = "cancelled" \/ Awaits(a) = k
BY NoTaskAssumption DEF StopAgent, Awaits, Running, TasksOK

LEMMA RequestsKeepQuiet ==
  ASSUME HostedTypeOK, QuietInv, AdminRequest PROVE QuietInv'
<1> SUFFICES ASSUME NEW q \in AdminRequests,
                    \/ StartRequested(q)
                    \/ Store(q)
                    \/ \E a \in Hosted :
                          \/ \E activate \in BOOLEAN : Create(q, a, activate)
                          \/ Activate(q, a)
                          \/ \E to \in {"inactive", "absent"} : DisableOrDelete(q, a, to)
             PROVE  QuietInv'
  BY DEF AdminRequest
<1>0. TasksOK /\ RequestsOK /\ Idle.pc = "free"
  BY DEF HostedTypeOK, TasksOK, RequestsOK, Idle
<1>1. phase' = phase /\ left' = left /\ closing' = closing
  BY DEF StartRequested, Store, Create, Activate, DisableOrDelete, life
<1>2. phase \in {"up", "draining"}
  <2>1. CASE request[q] # Idle
    BY <2>1 DEF QuietInv, HostedTypeOK
  <2>2. CASE request[q] = Idle
    BY <1>0, <2>2 DEF StartRequested, Store, Create, Activate, DisableOrDelete, Begins
  <2> QED BY <2>1, <2>2
<1>3. ASSUME NEW k \in ServerTasks, server'[k] = "cancelled" PROVE AwaitedBy(k)'
  <2>1. \A p \in AdminRequests \ {q} : request'[p] = request[p]
    BY <1>0 DEF StartRequested, Store, Create, Activate, DisableOrDelete, RequestsOK
  <2>2. ASSUME server[k] = "cancelled",
               ~(request[q].pc = "stopping" /\ request[q].waits = k)
        PROVE  AwaitedBy(k)'
    BY <1>1, <2>1, <2>2 DEF QuietInv, AwaitedBy
  <2>3. CASE StartRequested(q)
    <3>1. request[q].agent \in Hosted
      BY <1>0, <2>3, RequestForms DEF StartRequested, RequestsOK
    <3>2. server[k] = "cancelled"
      BY <1>0, <1>3, <2>3, <3>1, StartCancelsNone DEF StartRequested
    <3> QED BY <2>2, <2>3, <3>2 DEF StartRequested
  <2>4. CASE Store(q)
    BY <1>3, <2>2, <2>4, NoTaskAssumption DEF Store, tasks
  <2>5. ASSUME NEW a \in Hosted, NEW activate \in BOOLEAN,
               Create(q, a, activate) \/ Activate(q, a)
        PROVE  AwaitedBy(k)'
    BY <1>0, <1>3, <2>2, <2>5 DEF Create, Activate, Begins, tasks
  <2>6. ASSUME NEW a \in Hosted, NEW to \in {"inactive", "absent"},
               DisableOrDelete(q, a, to)
        PROVE  AwaitedBy(k)'
    <3>1. server[k] = "cancelled" \/ Awaits(a) = k
      BY <1>0, <1>3, <2>6, StopCancelsAwaited DEF DisableOrDelete
    <3>2. CASE server[k] = "cancelled"
      BY <1>0, <2>2, <2>6, <3>2 DEF DisableOrDelete, Begins
    <3>3. CASE Awaits(a) = k
      <4>1. request'[q] = [pc |-> "stopping", agent |-> a, waits |-> k, to |-> to]
        BY <1>0, <2>6, <3>3 DEF DisableOrDelete, RequestsOK
      <4> QED BY <4>1 DEF AwaitedBy
    <3> QED BY <3>1, <3>2, <3>3
  <2> QED BY <2>3, <2>4, <2>5, <2>6
<1> QED BY <1>1, <1>2, <1>3 DEF QuietInv

LEMMA QuietInvariant == HostedSpec => []QuietInv
<1>1. HostedInit => QuietInv
  BY DEF HostedInit, QuietInv
<1>2. HostedTypeOK /\ TableInv /\ QuietInv /\ [HostedNext]_hostVars => QuietInv'
  <2> SUFFICES ASSUME HostedTypeOK, TableInv, QuietInv, [HostedNext]_hostVars
               PROVE  QuietInv'
    OBVIOUS
  <2>0. TasksOK /\ RequestsOK /\ Idle.pc = "free"
    BY DEF HostedTypeOK, TasksOK, RequestsOK, Idle
  <2>1. CASE AdminRequest
    BY <2>1, RequestsKeepQuiet
  <2>2. ASSUME NEW k \in ServerTasks, ServerEnds(k) PROVE QuietInv'
    <3>1. UNCHANGED <<table, request, phase, left, closing>>
      BY <2>2 DEF ServerEnds, life
    <3>2. \A j \in ServerTasks : server'[j] = "cancelled" => server[j] = "cancelled"
      BY <2>0, <2>2 DEF ServerEnds, TasksOK
    <3>3. phase # "closed"
      BY <2>2 DEF ServerEnds, QuietInv
    <3> QED BY <3>1, <3>2, <3>3 DEF QuietInv, AwaitedBy
  <2>3. ASSUME NEW k \in ServerTasks, ServerLetsGo(k) PROVE QuietInv'
    <3>1. UNCHANGED <<table, phase, left>> /\ closing' \in {closing, NoTask}
      BY <2>3 DEF ServerLetsGo
    <3>2. \A q \in AdminRequests : request[q] = Idle => request'[q] = Idle
      BY <2>0, <2>3 DEF ServerLetsGo
    <3>3. ASSUME NEW j \in ServerTasks, server'[j] = "cancelled" PROVE AwaitedBy(j)'
      <4>1. j # k /\ server[j] = "cancelled"
        BY <2>0, <2>3, <3>3 DEF ServerLetsGo, TasksOK
      <4>2. closing = j => closing' = j
        BY <2>3, <4>1 DEF ServerLetsGo
      <4>3. \A q \in AdminRequests : request[q].waits = j => request'[q] = request[q]
        BY <2>3, <4>1 DEF ServerLetsGo
      <4> QED BY <4>1, <4>2, <4>3 DEF QuietInv, AwaitedBy
    <3>4. \A j \in ServerTasks : server[j] = "free" => server'[j] = "free"
      BY <2>0, <2>3 DEF ServerLetsGo, TasksOK
    <3> QED BY <3>1, <3>2, <3>3, <3>4 DEF QuietInv
  <2>4. ASSUME NEW a \in Hosted, StartListed(a) PROVE QuietInv'
    <3>1. UNCHANGED <<request, phase, closing>> /\ phase = "starting"
      BY <2>4 DEF StartListed
    <3>2. \A k \in ServerTasks : server'[k] = "cancelled" => server[k] = "cancelled"
      BY <2>0, <2>4, StartCancelsNone DEF StartListed
    <3> QED BY <3>1, <3>2 DEF QuietInv, AwaitedBy
  <2>5. ASSUME NEW a \in Hosted, CloseNext(a) PROVE QuietInv'
    <3>1. phase' = phase /\ phase = "closing" /\ request' = request /\ closing = NoTask
      BY <2>5 DEF CloseNext
    <3>2. \A k \in ServerTasks : server[k] # "cancelled"
      BY <2>0, <3>1, NoTaskAssumption DEF QuietInv, AwaitedBy
    <3>3. \A k \in ServerTasks : server'[k] = "cancelled" => closing' = k
      BY <2>0, <2>5, <3>2, StopCancelsAwaited DEF CloseNext
    <3>4. \A b \in Hosted : table'[b] # NoTask => b \in left'
      BY <2>0, <2>5, <3>1 DEF CloseNext, StopAgent, QuietInv, TasksOK
    <3> QED BY <3>1, <3>3, <3>4 DEF QuietInv, AwaitedBy
  <2>6. CASE Closed
    <3>1. /\ \A a \in Hosted : table[a] = NoTask
          /\ \A q \in AdminRequests : request[q] = Idle
          /\ closing = NoTask
      BY <2>6 DEF Closed, QuietInv
    <3>2. ASSUME NEW k \in ServerTasks PROVE server[k] = "free"
      <4>1. server[k] \notin InUse
        BY <3>1, NoTaskAssumption DEF TableInv
      <4>2. server[k] # "cancelled"
        BY <2>0, <3>1, NoTaskAssumption DEF QuietInv, AwaitedBy
      <4> QED BY <2>0, <4>1, <4>2 DEF TasksOK, InUse
    <3>3. UNCHANGED <<table, server, request, closing>> /\ phase' = "closed"
      BY <2>6 DEF Closed, tasks
    <3> QED BY <3>1, <3>2, <3>3 DEF QuietInv
  <2>7. CASE Close
    BY <2>7 DEF Close, tasks, QuietInv, AwaitedBy
  <2>8. CASE ListActive \/ Started \/ Signal
    BY <2>8 DEF ListActive, Started, Signal, tasks, QuietInv, AwaitedBy
  <2>9. CASE ProcessEnds
    BY <2>9 DEF ProcessEnds, NothingRuns, QuietInv
  <2>10. ASSUME NEW a \in Hosted, NEW to \in Rows, CommandLine(a, to) PROVE QuietInv'
    BY <2>10 DEF CommandLine, tasks, life, QuietInv, AwaitedBy
  <2>11. CASE UNCHANGED hostVars
    BY <2>11 DEF hostVars, tasks, life, QuietInv, AwaitedBy
  <2> QED
    BY <2>1, <2>2, <2>3, <2>4, <2>5, <2>6, <2>7, <2>8, <2>9, <2>10, <2>11 DEF HostedNext
<1> QED BY <1>1, <1>2, HostedTypeCorrect, TableInvariant, PTL DEF HostedSpec

(* stop() returns when every server it found has let go, and every one that *)
(* requests had stopped had done so before.                                 *)
THEOREM ClosedAlwaysQuiet == HostedSpec => []ClosedIsQuiet
<1>1. QuietInv => ClosedIsQuiet
  BY DEF QuietInv, ClosedIsQuiet
<1> QED BY <1>1, QuietInvariant, PTL

-----------------------------------------------------------------------------

(* Where requests did not overlap: a start under way has its row active, a *)
(* stop under way has its entry out of the table, each is the only one for *)
(* its agent, and without one row and table agree.                          *)
Mine(q, a) == request[q] # Idle /\ request[q].agent = a

StatusFor(a) ==
    /\ phase = "down" => table[a] = NoTask
    /\ ~raced[a] =>
          /\ phase = "starting" => (row[a] = "active" <=> (table[a] # NoTask \/ a \in left))
          /\ phase \in {"up", "draining"} =>
                /\ ~Busy(a) => (table[a] # NoTask <=> row[a] = "active")
                /\ \A q \in AdminRequests : Mine(q, a) =>
                      /\ request[q].pc = "start" => row[a] = "active"
                      /\ request[q].pc = "stopping" => table[a] = NoTask
                      /\ \A p \in AdminRequests : Mine(p, a) => p = q

StatusInv == \A a \in Hosted : StatusFor(a)

(* What concerns another agent leaves this one as it is.                   *)
LEMMA StatusFrame ==
  ASSUME NEW b \in Hosted, StatusFor(b), phase' = phase,
         row'[b] = row[b], table'[b] = table[b], raced'[b] = raced[b],
         b \in left' <=> b \in left,
         \A p \in AdminRequests :
            /\ Mine(p, b)' <=> Mine(p, b)
            /\ Mine(p, b) => request'[p].pc = request[p].pc
  PROVE  StatusFor(b)'
<1>1. Busy(b)' <=> Busy(b)
  BY DEF Busy, Mine
<1> QED BY <1>1 DEF StatusFor

(* A start leaves the agent in the table, if its row is there.             *)
LEMMA StartFillsTable ==
  ASSUME TasksOK, NEW a \in Hosted, StartAgent(a)
  PROVE  /\ row[a] # "absent" => table'[a] # NoTask
         /\ \A b \in Hosted \ {a} : table'[b] = table[b]
         /\ row[a] = "absent" => table'[a] = table[a]
<1>1. CASE UNCHANGED tasks /\ (Running(a) \/ row[a] = "absent")
  BY <1>1 DEF tasks, Running
<1>2. ASSUME NEW k \in ServerTasks, NewTask(a, k), row[a] # "absent"
      PROVE  table'[a] # NoTask /\ \A b \in Hosted \ {a} : table'[b] = table[b]
  BY <1>2, NoTaskAssumption DEF NewTask, TasksOK
<1> QED BY <1>1, <1>2 DEF StartAgent

(* One request changes only its agent's row, entry and history, and is the *)
(* only one that changes.                                                   *)
LEMMA RequestsKeepStatus ==
  ASSUME HostedTypeOK, QuietInv, StatusInv, AdminRequest PROVE StatusInv'
<1> SUFFICES ASSUME NEW q \in AdminRequests,
                    \/ StartRequested(q)
                    \/ Store(q)
                    \/ \E a \in Hosted :
                          \/ \E activate \in BOOLEAN : Create(q, a, activate)
                          \/ Activate(q, a)
                          \/ \E to \in {"inactive", "absent"} : DisableOrDelete(q, a, to)
             PROVE  StatusInv'
  BY DEF AdminRequest
<1>0. TasksOK /\ RowsOK /\ RequestsOK /\ Idle.pc = "free" /\ raced \in [Hosted -> BOOLEAN]
  BY DEF HostedTypeOK, TasksOK, RowsOK, RequestsOK, Idle
<1>1. ASSUME NEW a \in Hosted, phase' = phase, left' = left,
             phase \in {"up", "draining"},
             request[q] = Idle \/ request[q].agent = a,
             request'[q] = Idle \/ request'[q].agent = a,
             \A p \in AdminRequests \ {q} : request'[p] = request[p],
             \A b \in Hosted \ {a} :
                row'[b] = row[b] /\ table'[b] = table[b] /\ raced'[b] = raced[b],
             StatusFor(a)'
      PROVE  StatusInv'
  <2>1. ASSUME NEW b \in Hosted \ {a} PROVE StatusFor(b)'
    <3>1. StatusFor(b)
      BY DEF StatusInv
    <3>2. \A p \in AdminRequests :
             /\ Mine(p, b)' <=> Mine(p, b)
             /\ Mine(p, b) => request'[p].pc = request[p].pc
      BY <1>1 DEF Mine
    <3> QED BY <1>1, <3>1, <3>2, StatusFrame
  <2> QED BY <1>1, <2>1 DEF StatusInv
<1>2. CASE StartRequested(q)
  <2>1. request[q].agent \in Hosted /\ request[q] # Idle /\ phase \in {"up", "draining"}
    BY <1>0, <1>2, RequestForms DEF StartRequested, RequestsOK, QuietInv
  <2> PICK a \in Hosted : a = request[q].agent
    BY <2>1
  <2>2. /\ request' = [request EXCEPT ![q] = Idle]
        /\ UNCHANGED <<row, phase, left, raced>>
    BY <1>2 DEF StartRequested, life
  <2>3. /\ row[a] # "absent" => table'[a] # NoTask
        /\ \A b \in Hosted \ {a} : table'[b] = table[b]
    BY <1>0, <1>2, StartFillsTable DEF StartRequested
  <2>4. /\ request'[q] = Idle
        /\ \A p \in AdminRequests \ {q} : request'[p] = request[p]
    BY <1>0, <2>2 DEF RequestsOK
  <2>5. ASSUME ~raced[a]
        PROVE  row[a] = "active" /\ \A p \in AdminRequests : ~Mine(p, a)'
    <3>1. row[a] = "active" /\ \A p \in AdminRequests : Mine(p, a) => p = q
      BY <1>2, <2>1, <2>5 DEF StartRequested, StatusInv, StatusFor, Mine
    <3> QED BY <2>4, <3>1 DEF Mine
  <2>6. StatusFor(a)'
    BY <2>1, <2>2, <2>3, <2>5 DEF StatusFor, Busy, Mine
  <2> QED BY <1>1, <2>1, <2>2, <2>3, <2>4, <2>6
<1>3. CASE Store(q)
  <2>1. /\ request[q].agent \in Hosted /\ request[q] # Idle /\ phase \in {"up", "draining"}
        /\ request[q].pc = "stopping" /\ request[q].to \in {"inactive", "absent"}
    BY <1>0, <1>3, RequestForms DEF Store, RequestsOK, QuietInv
  <2> PICK a \in Hosted : a = request[q].agent
    BY <2>1
  <2>2. /\ request' = [request EXCEPT ![q] = Idle]
        /\ UNCHANGED <<table, phase, left, raced>>
    BY <1>3 DEF Store, life, tasks
  <2>3. row'[a] # "active" /\ \A b \in Hosted \ {a} : row'[b] = row[b]
    BY <1>0, <1>3, <2>1 DEF Store, SetRow, DeleteRow, RowsOK
  <2>4. /\ request'[q] = Idle
        /\ \A p \in AdminRequests \ {q} : request'[p] = request[p]
    BY <1>0, <2>2 DEF RequestsOK
  <2>5. ASSUME ~raced[a]
        PROVE  table[a] = NoTask /\ \A p \in AdminRequests : ~Mine(p, a)'
    <3>1. table[a] = NoTask /\ \A p \in AdminRequests : Mine(p, a) => p = q
      BY <2>1, <2>5 DEF StatusInv, StatusFor, Mine
    <3> QED BY <2>4, <3>1 DEF Mine
  <2>6. StatusFor(a)'
    BY <2>1, <2>2, <2>3, <2>5 DEF StatusFor, Busy, Mine
  <2> QED BY <1>1, <2>1, <2>2, <2>3, <2>4, <2>6
<1>4. ASSUME NEW a \in Hosted, NEW r, Begins(q, a),
             request' = [request EXCEPT ![q] = r],
             r = Idle \/ r.agent = a,
             phase' = phase, left' = left,
             \A b \in Hosted \ {a} : row'[b] = row[b] /\ table'[b] = table[b],
             \* with no other request, the agent's new state is right
             (table[a] # NoTask <=> row[a] = "active") =>
                /\ r = Idle => (table'[a] # NoTask <=> row'[a] = "active")
                /\ r # Idle => /\ r.pc = "start" => row'[a] = "active"
                               /\ r.pc = "stopping" => table'[a] = NoTask
      PROVE  StatusInv'
  <2>1. /\ phase = "up" /\ request[q] = Idle
        /\ raced'[a] = (raced[a] \/ Busy(a))
        /\ \A b \in Hosted \ {a} : raced'[b] = raced[b]
    BY <1>0, <1>4 DEF Begins
  <2>2. request'[q] = r /\ \A p \in AdminRequests \ {q} : request'[p] = request[p]
    BY <1>0, <1>4 DEF RequestsOK
  <2>3. StatusFor(a)'
    <3> SUFFICES ASSUME ~raced'[a] PROVE StatusFor(a)'
      BY <1>4, <2>1 DEF StatusFor
    <3>1. ~raced[a] /\ ~Busy(a)
      BY <2>1
    <3>2. table[a] # NoTask <=> row[a] = "active"
      BY <2>1, <3>1 DEF StatusInv, StatusFor
    <3>3. \A p \in AdminRequests : Mine(p, a)' => p = q /\ r # Idle
      BY <2>2, <3>1 DEF Mine, Busy
    <3>4. CASE r = Idle
      BY <1>4, <2>1, <3>2, <3>3, <3>4 DEF StatusFor, Busy, Mine
    <3>5. CASE r # Idle
      <4>1. Busy(a)'
        BY <1>4, <2>2, <3>5 DEF Busy
      <4> QED BY <1>4, <2>1, <2>2, <3>2, <3>3, <3>5, <4>1 DEF StatusFor, Mine
    <3> QED BY <3>4, <3>5
  <2> QED BY <1>1, <1>4, <2>1, <2>2, <2>3
<1>5. ASSUME NEW a \in Hosted, NEW activate \in BOOLEAN, Create(q, a, activate)
      PROVE  StatusInv'
  <2> DEFINE r == IF activate THEN [pc |-> "start", agent |-> a] ELSE Idle
  <2>1. /\ Begins(q, a) /\ request' = [request EXCEPT ![q] = r]
        /\ UNCHANGED <<table, phase, left>>
        /\ \A b \in Hosted \ {a} : row'[b] = row[b]
        /\ row[a] = "absent"
        /\ row'[a] = IF activate THEN "active" ELSE "inactive"
    BY <1>0, <1>5 DEF Create, InsertRow, tasks, life, RowsOK
  <2>2. /\ activate => r.pc = "start" /\ r.agent = a /\ r # Idle
        /\ ~activate => r = Idle
    BY <1>0
  <2> HIDE DEF r
  <2> QED BY <1>4, <2>1, <2>2
<1>6. ASSUME NEW a \in Hosted, Activate(q, a) PROVE StatusInv'
  <2> DEFINE r == [pc |-> "start", agent |-> a]
  <2>1. /\ Begins(q, a) /\ request' = [request EXCEPT ![q] = r]
        /\ UNCHANGED <<table, phase, left>>
        /\ \A b \in Hosted \ {a} : row'[b] = row[b]
        /\ row'[a] = "active"
    BY <1>0, <1>6 DEF Activate, SetRow, tasks, life, RowsOK
  <2>2. r.pc = "start" /\ r.agent = a /\ r # Idle
    BY <1>0
  <2> HIDE DEF r
  <2> QED BY <1>4, <2>1, <2>2
<1>7. ASSUME NEW a \in Hosted, NEW to \in {"inactive", "absent"},
             DisableOrDelete(q, a, to)
      PROVE  StatusInv'
  <2> DEFINE r == [pc |-> "stopping", agent |-> a, waits |-> Awaits(a), to |-> to]
  <2>1. /\ Begins(q, a) /\ request' = [request EXCEPT ![q] = r]
        /\ UNCHANGED <<row, phase, left>>
        /\ \A b \in Hosted \ {a} : table'[b] = table[b]
        /\ table'[a] = NoTask
    BY <1>0, <1>7 DEF DisableOrDelete, StopAgent, life, TasksOK
  <2>2. r.pc = "stopping" /\ r.agent = a /\ r # Idle
    BY <1>0
  <2> HIDE DEF r
  <2> QED BY <1>4, <2>1, <2>2
<1> QED BY <1>2, <1>3, <1>5, <1>6, <1>7

LEMMA StatusInvariant == HostedSpec => []StatusInv
<1>1. HostedInit => StatusInv
  BY DEF HostedInit, StatusInv, StatusFor
<1>2. HostedTypeOK /\ QuietInv /\ StatusInv /\ [HostedNext]_hostVars => StatusInv'
  <2> SUFFICES ASSUME HostedTypeOK, QuietInv, StatusInv, [HostedNext]_hostVars
               PROVE  StatusInv'
    OBVIOUS
  <2>0. TasksOK /\ RowsOK /\ RequestsOK /\ Idle.pc = "free" /\ raced \in [Hosted -> BOOLEAN]
    BY DEF HostedTypeOK, TasksOK, RowsOK, RequestsOK, Idle
  <2>1. CASE AdminRequest
    BY <2>1, RequestsKeepStatus
  <2>2. ASSUME UNCHANGED <<row, table, phase, left, raced>>,
               \A p \in AdminRequests :
                  /\ request'[p] = Idle <=> request[p] = Idle
                  /\ request[p] # Idle => /\ request'[p].agent = request[p].agent
                                          /\ request'[p].pc = request[p].pc
        PROVE  StatusInv'
    <3>1. ASSUME NEW b \in Hosted PROVE StatusFor(b)'
      <4>1. \A p \in AdminRequests :
               /\ Mine(p, b)' <=> Mine(p, b)
               /\ Mine(p, b) => request'[p].pc = request[p].pc
        BY <2>2 DEF Mine
      <4> QED BY <2>2, <4>1, StatusFrame DEF StatusInv
    <3> QED BY <3>1 DEF StatusInv
  <2>3. ASSUME NEW k \in ServerTasks, ServerEnds(k) PROVE StatusInv'
    BY <2>2, <2>3 DEF ServerEnds, life
  <2>4. ASSUME NEW k \in ServerTasks, ServerLetsGo(k) PROVE StatusInv'
    <3>1. ASSUME NEW p \in AdminRequests
          PROVE  /\ request'[p] = Idle <=> request[p] = Idle
                 /\ request[p] # Idle => /\ request'[p].agent = request[p].agent
                                         /\ request'[p].pc = request[p].pc
      <4>1. CASE request[p].pc = "stopping" /\ request[p].waits = k
        <5>1. request'[p] = [request[p] EXCEPT !.waits = NoTask]
          BY <2>4, <4>1 DEF ServerLetsGo
        <5>2. request[p] \in [pc : {"stopping"}, agent : Hosted,
                              waits : ServerTasks \cup {NoTask}, to : {"inactive", "absent"}]
          BY <2>0, <4>1 DEF RequestsOK, HostRequests, Idle
        <5> QED BY <2>0, <5>1, <5>2
      <4>2. CASE ~(request[p].pc = "stopping" /\ request[p].waits = k)
        BY <2>4, <4>2 DEF ServerLetsGo
      <4> QED BY <4>1, <4>2
    <3> QED BY <2>2, <2>4, <3>1 DEF ServerLetsGo
  <2>5. ASSUME NEW a \in Hosted, StartListed(a) PROVE StatusInv'
    <3>1. /\ UNCHANGED <<row, phase, raced>> /\ phase = "starting"
          /\ a \in left /\ left' = left \ {a}
      BY <2>5 DEF StartListed
    <3>2. /\ row[a] # "absent" => table'[a] # NoTask
          /\ \A b \in Hosted \ {a} : table'[b] = table[b]
      BY <2>0, <2>5, StartFillsTable DEF StartListed
    <3> QED BY <3>1, <3>2 DEF StatusInv, StatusFor
  <2>6. ASSUME NEW a \in Hosted, CloseNext(a) PROVE StatusInv'
    BY <2>6 DEF CloseNext, StatusInv, StatusFor
  <2>7. CASE ListActive
    BY <2>7 DEF ListActive, tasks, StatusInv, StatusFor
  <2>8. CASE Started
    <3>1. \A q \in AdminRequests : request'[q] = Idle
      BY <2>8 DEF Started, QuietInv
    <3>2. /\ UNCHANGED <<row, table, raced>> /\ phase' = "up"
          /\ phase = "starting" /\ left = {}
      BY <2>8 DEF Started, tasks
    <3> QED BY <3>1, <3>2 DEF StatusInv, StatusFor, Mine
  <2>9. CASE Signal
    BY <2>9 DEF Signal, tasks, StatusInv, StatusFor, Busy, Mine
  <2>10. CASE Close \/ Closed
    BY <2>10 DEF Close, Closed, StatusInv, StatusFor
  <2>11. CASE ProcessEnds
    BY <2>11 DEF ProcessEnds, NothingRuns, StatusInv, StatusFor
  <2>12. ASSUME NEW a \in Hosted, NEW to \in Rows, CommandLine(a, to) PROVE StatusInv'
    <3>1. /\ UNCHANGED <<table, request, phase, left>>
          /\ raced'[a] = TRUE
          /\ \A b \in Hosted \ {a} : raced'[b] = raced[b] /\ row'[b] = row[b]
      BY <2>0, <2>12 DEF CommandLine, InsertRow, SetRow, DeleteRow, tasks, life, RowsOK
    <3>2. ASSUME NEW b \in Hosted \ {a} PROVE StatusFor(b)'
      BY <3>1, StatusFrame DEF StatusInv, Mine
    <3>3. StatusFor(a)'
      BY <3>1 DEF StatusInv, StatusFor
    <3> QED BY <3>2, <3>3 DEF StatusInv
  <2>13. CASE UNCHANGED hostVars
    BY <2>2, <2>13 DEF hostVars, tasks, life
  <2> QED
    BY <2>1, <2>3, <2>4, <2>5, <2>6, <2>7, <2>8, <2>9, <2>10, <2>11, <2>12, <2>13
       DEF HostedNext
<1> QED BY <1>1, <1>2, HostedTypeCorrect, QuietInvariant, PTL DEF HostedSpec

(* An agent nobody is working on is in the table exactly if its row says so. *)
THEOREM StatusAlwaysAgrees == HostedSpec => []StatusAgrees
<1>1. StatusInv => StatusAgrees
  BY DEF StatusInv, StatusFor, StatusAgrees
<1> QED BY <1>1, StatusInvariant, PTL
=============================================================================
