----------------------------- MODULE AgentTasks -----------------------------
(***************************************************************************)
(* A provider agent's own process (agents/base/agent.py, the client half   *)
(* of core/transport/ws.py): run_forever that connects, registers, serves  *)
(* and connects again; the receive loop; the tasks it starts, one for each *)
(* intent or execute, under the concurrency limit; and the two calls that  *)
(* cancel them, the dissolution of a session and stop().                    *)
(*                                                                         *)
(* These are coroutines on one event loop.  An action is the code from one *)
(* await to the next.  Every start() makes a client of its own; where it    *)
(* fails after the client has connected, run_forever goes on to the next   *)
(* one and the receive loop it leaves behind still hands over messages.     *)
(***************************************************************************)
EXTENDS Naturals, FiniteSets

CONSTANTS
    Tasks,                  \* names of tasks, free again when a task is over
    TaskSessions,           \* sessions the coordinator sends work for
    Clients,                \* names of clients, free again when the loop is down
    MaxConcurrentTasks      \* max_concurrent_tasks of the agent

ASSUME ConcurrencyAssumption == MaxConcurrentTasks \in Nat \ {0}
ASSUME NamesAssumption ==
    /\ {"down", "reading"} \cap TaskSessions = {}
    /\ {"stop", "final"} \cap Clients = {}

VARIABLES
    task,           \* each task's state
    taskSession,    \* the session it works for
    sessionTasks,   \* _session_tasks: the tasks known for each session
    awaited,        \* the cancelled tasks each caller gathers
    strays,         \* history: the tasks received over a client forsaken by then
    client,         \* _client: the newest client
    loop,           \* each client's receive loop: down, reading, or handling
                    \* the dissolution of a session
    forsaken,       \* clients run_forever left without their loop being down
    serve,          \* where run_forever is suspended
    stopper,        \* where a call of stop() from outside is suspended
    stopping,       \* the _stopping event
    ack             \* the _registration_ack future

work == <<task, taskSession, sessionTasks, awaited, strays>>
socket == <<client, loop, forsaken>>
control == <<serve, stopper, stopping, ack>>
agentVars == <<work, socket, control>>

Callers == Clients \cup {"stop", "final"}
Untold == {"queued", "running"}     \* at work, and not told to stop

AgentTasksTypeOK ==
    /\ task \in [Tasks -> {"free", "cancelled"} \cup Untold]
    /\ taskSession \in [Tasks -> TaskSessions]
    /\ sessionTasks \in [TaskSessions -> SUBSET Tasks]
    /\ awaited \in [Callers -> SUBSET Tasks]
    /\ strays \subseteq Tasks
    /\ client \in Clients
    /\ loop \in [Clients -> {"down", "reading"} \cup TaskSessions]
    /\ forsaken \subseteq Clients
    /\ serve \in {"idle", "connecting", "registering", "serving", "backoff",
                  "leaving", "gathering", "stopped"}
    /\ stopper \in {"none", "gathering", "done"}
    /\ stopping \in BOOLEAN
    /\ ack \in {"none", "pending", "resolved", "failed"}

AgentTasksInit ==
    /\ task = [t \in Tasks |-> "free"]
    /\ taskSession \in {[t \in Tasks |-> s] : s \in TaskSessions}
    /\ sessionTasks = [s \in TaskSessions |-> {}]
    /\ awaited = [k \in Callers |-> {}] /\ strays = {}
    /\ client \in Clients /\ loop = [c \in Clients |-> "down"] /\ forsaken = {}
    /\ serve = "idle" /\ stopper = "none" /\ stopping = FALSE /\ ack = "none"

-----------------------------------------------------------------------------
(* run_forever *)

\* start() makes a client before anything that may fail.
NewClient ==
    /\ serve' = "connecting"
    /\ client' \in {c \in Clients : loop[c] = "down"}
    /\ forsaken' = forsaken \ {client'}
    /\ UNCHANGED loop

Retry == serve' = IF stopping THEN "leaving" ELSE "backoff"

\* What run_forever turns away from before the client's loop has ended.
Forsake == forsaken' = forsaken \cup {client} /\ UNCHANGED <<client, loop>>

RunForever ==
    /\ serve = "idle"
    /\ NewClient
    /\ stopping' = FALSE
    /\ UNCHANGED <<work, stopper, ack>>

\* The client is connected and its receive loop runs; _register makes a new
\* future, sends REGISTER and waits, or raises somewhere on the way.
Start ==
    /\ serve = "connecting"
    /\ loop' = [loop EXCEPT ![client] = "reading"]
    /\ \/ serve' = "registering" /\ ack' = "pending" /\ UNCHANGED forsaken
       \/ Retry /\ ack' \in {ack, "pending"} /\ forsaken' = forsaken \cup {client}
    /\ UNCHANGED <<work, client, stopper, stopping>>

\* No token, or no connection.
StartFails ==
    /\ serve = "connecting"
    /\ Retry
    /\ UNCHANGED <<work, socket, stopper, stopping, ack>>

\* The answer is there, or registration_timeout is over.  An answer that was
\* no registration's payload raises, and the hook it is given to may.
AwaitRegistrationAck ==
    /\ serve = "registering"
    /\ ack' = "none"
    /\ \/ ack # "failed" /\ serve' = "serving" /\ UNCHANGED socket
       \/ ack \in {"resolved", "failed"} /\ Retry /\ Forsake
    /\ UNCHANGED <<work, stopper, stopping>>

ConnectionDropped ==
    /\ serve = "serving" /\ loop[client] = "down"
    /\ Retry
    /\ UNCHANGED <<work, socket, stopper, stopping, ack>>

\* A slip: when the delay is over the agent connects again, stopped or not.
BackoffIgnoresStop ==
    /\ serve = "backoff"
    /\ NewClient
    /\ UNCHANGED <<work, stopper, stopping, ack>>

\* The delay is over, or the event that ends it early is set.
Backoff ==
    /\ serve = "backoff"
    /\ \/ stopping /\ serve' = "leaving" /\ UNCHANGED socket
       \/ ~stopping /\ NewClient
    /\ UNCHANGED <<work, stopper, stopping, ack>>

\* The task run_forever runs in is cancelled (a managed agent's is).
CancelRunForever ==
    /\ \/ serve \in {"connecting", "backoff"} /\ UNCHANGED <<socket, ack>>
       \/ serve = "registering" /\ Forsake /\ ack' = "none"
       \/ serve = "serving" /\ Forsake /\ UNCHANGED ack
    /\ serve' = "leaving"
    /\ UNCHANGED <<work, stopper, stopping>>

-----------------------------------------------------------------------------
(* Cancellation *)

\* A slip: the tasks are cancelled, but not taken from the table and awaited.
CancelWithoutWaiting(caller, sessions) ==
    /\ task' = [t \in Tasks |->
          IF t \in UNION {sessionTasks[s] : s \in sessions} THEN "cancelled" ELSE task[t]]
    /\ UNCHANGED <<sessionTasks, awaited, taskSession, strays>>

\* _cancel_session_tasks: the tasks known for the sessions are taken from the
\* table and cancelled; the caller waits until they are over.
CancelSessionTasks(caller, sessions) ==
    LET known == UNION {sessionTasks[s] : s \in sessions}
    IN  /\ sessionTasks' =
              [s \in TaskSessions |-> IF s \in sessions THEN {} ELSE sessionTasks[s]]
        /\ task' = [t \in Tasks |-> IF t \in known THEN "cancelled" ELSE task[t]]
        /\ awaited' = [awaited EXCEPT ![caller] = known]
        /\ UNCHANGED <<taskSession, strays>>

\* The newest client's listen task is cancelled, with what it waits for, and
\* its socket closed; an older client's is not.
Disconnected ==
    /\ loop' = [loop EXCEPT ![client] = "down"]
    /\ UNCHANGED <<client, forsaken>>

StopCalled ==
    /\ stopper = "none" /\ serve # "idle"
    /\ stopper' = "gathering" /\ stopping' = TRUE
    /\ CancelSessionTasks("stop", TaskSessions)
    /\ UNCHANGED <<socket, serve, ack>>

StopReturns ==
    /\ stopper = "gathering" /\ awaited["stop"] = {}
    /\ stopper' = "done"
    /\ Disconnected
    /\ UNCHANGED <<work, serve, stopping, ack>>

\* A slip: run_forever leaves without a stop of its own.
LeaveAtOnce ==
    /\ serve = "leaving"
    /\ serve' = "gathering" /\ stopping' = TRUE
    /\ UNCHANGED <<work, socket, stopper, ack>>

\* run_forever ends with a stop() of its own, whoever called for it.
Leave ==
    /\ serve = "leaving"
    /\ serve' = "gathering" /\ stopping' = TRUE
    /\ CancelSessionTasks("final", TaskSessions)
    /\ UNCHANGED <<socket, stopper, ack>>

Left ==
    /\ serve = "gathering" /\ awaited["final"] = {}
    /\ serve' = "stopped"
    /\ Disconnected
    /\ UNCHANGED <<work, stopper, stopping, ack>>

-----------------------------------------------------------------------------
(* The receive loop of a client *)

\* The connection is lost, and what came over it has been read.
LoopEnds(c) ==
    /\ loop[c] = "reading"
    /\ loop' = [loop EXCEPT ![c] = "down"]
    /\ UNCHANGED <<work, client, forsaken, control>>

\* REGISTERED: an answer nobody waits for is dropped; one that is no
\* registration's payload becomes the future's exception.
HandleRegistered(c) ==
    /\ loop[c] = "reading" /\ ack = "pending"
    /\ ack' \in {"resolved", "failed"}
    /\ UNCHANGED <<work, socket, serve, stopper, stopping>>

\* INTENT and EXECUTE: a task of the session does the work.
Spawn(c, t, s) ==
    /\ loop[c] = "reading"
    /\ task[t] = "free"
    /\ task' = [task EXCEPT ![t] = "queued"]
    /\ taskSession' = [taskSession EXCEPT ![t] = s]
    /\ sessionTasks' = [sessionTasks EXCEPT ![s] = @ \cup {t}]
    /\ strays' = IF c \in forsaken THEN strays \cup {t} ELSE strays
    /\ UNCHANGED <<awaited, socket, control>>

\* DISSOLVE: the loop itself waits for the cancelled tasks.
Dissolve(c, s) ==
    /\ loop[c] = "reading"
    /\ loop' = [loop EXCEPT ![c] = s]
    /\ CancelSessionTasks(c, {s})
    /\ UNCHANGED <<client, forsaken, control>>

HandleDissolve(c) ==
    /\ loop[c] \in TaskSessions /\ awaited[c] = {}
    /\ loop' = [loop EXCEPT ![c] = "reading"]
    /\ UNCHANGED <<work, client, forsaken, control>>

-----------------------------------------------------------------------------
(* Tasks *)

EnterSemaphore(t) ==
    /\ task[t] = "queued"
    /\ Cardinality({u \in Tasks : task[u] = "running"}) < MaxConcurrentTasks
    /\ task' = [task EXCEPT ![t] = "running"]
    /\ UNCHANGED <<taskSession, sessionTasks, awaited, strays, socket, control>>

Discard(t) == [sessionTasks EXCEPT ![taskSession[t]] = @ \ {t}]

\* A task is over: it answered, failed, or let go when it was cancelled.
TaskEnds(t) ==
    /\ task[t] \in {"running", "cancelled"}
    /\ task' = [task EXCEPT ![t] = "free"]
    /\ sessionTasks' = Discard(t)
    /\ awaited' = [k \in Callers |-> awaited[k] \ {t}]
    /\ strays' = strays \ {t}
    /\ UNCHANGED <<taskSession, socket, control>>

-----------------------------------------------------------------------------

Serving == \/ RunForever \/ Start \/ StartFails \/ AwaitRegistrationAck
           \/ ConnectionDropped \/ Backoff \/ Leave \/ Left

AgentTasksNext ==
    \/ Serving \/ CancelRunForever \/ StopCalled \/ StopReturns
    \/ \E c \in Clients :
          \/ LoopEnds(c) \/ HandleRegistered(c) \/ HandleDissolve(c)
          \/ \E s \in TaskSessions : Dissolve(c, s)
          \/ \E t \in Tasks, s \in TaskSessions : Spawn(c, t, s)
    \/ \E t \in Tasks : EnterSemaphore(t) \/ TaskEnds(t)

AgentTasksSpec == AgentTasksInit /\ [][AgentTasksNext]_agentVars

\* The event loop resumes what can go on: connecting and registering have
\* their timeouts, and a task lets go once it is cancelled.
AgentTasksFairness ==
    /\ WF_agentVars(Serving)
    /\ WF_agentVars(StopReturns)
    /\ \A t \in Tasks : WF_agentVars(task[t] = "cancelled" /\ TaskEnds(t))

AgentTasksFairSpec == AgentTasksSpec /\ AgentTasksFairness

-----------------------------------------------------------------------------
(* Properties *)

\* When the agent has handled the dissolution of a session, none of its work
\* for the session goes on, queued work and work received before included;
\* some that was cancelled may still let go, while another call waits for it.
\* A client that was forsaken can bring new work meanwhile (_on_message,
\* _cancel_session_tasks).
DissolvedIsQuiet ==
    [][\A c \in Clients \ forsaken :
          loop[c] \in TaskSessions /\ loop'[c] = "reading" =>
              \A t \in Tasks :
                  task[t] # "free" /\ taskSession[t] = loop[c] =>
                      t \in strays \/ \E k \in Callers : t \in awaited[k]]_agentVars

\* Work nobody has cancelled can be cancelled: it is in the table, over
\* reconnections and the end of other tasks of its session (_spawn).
WorkIsTracked ==
    \A t \in Tasks : task[t] \in Untold => t \in sessionTasks[taskSession[t]]

\* Once run_forever has returned no work goes on that was not cancelled, what
\* arrived while stop() was waiting included, but for what a client brought
\* that run_forever had left to itself: it was cancelled there, or the
\* registration over that client failed.
StoppedIsQuiet ==
    serve = "stopped" => \A t \in Tasks : task[t] \in Untold => t \in strays

\* A stop() called when the agent is not just connecting ends run_forever.
StopEnds ==
    stopper = "gathering" /\ serve \notin {"idle", "connecting"} ~> serve = "stopped"

\* What the code says of itself and does not do; see the README.

\* A stopped agent has no connection over which it takes up work ("Stop the
\* agent and cancel any work still in flight").
StoppedIsDeaf == serve = "stopped" => \A c \in Clients : loop[c] = "down"
=============================================================================
