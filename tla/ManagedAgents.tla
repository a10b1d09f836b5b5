--------------------------- MODULE ManagedAgents ---------------------------
(***************************************************************************)
(* The agents the coordinator runs itself: managed agents and MCP bridges. *)
(* Their life is the same, a row in the database with a status and a task  *)
(* of the event loop in a table (_managed_tasks, _mcp_bridge_tasks), and so *)
(* is the way admin requests, the coordinator's start and its stop work on  *)
(* the two.  A hosted agent here is one or the other.                       *)
(*                                                                         *)
(* A request calls the database in a thread and the runtime on the loop;   *)
(* between its steps other requests run.  The command line writes rows from *)
(* a process of its own.                                                    *)
(***************************************************************************)
EXTENDS Naturals

CONSTANTS
    Hosted,         \* managed agents and MCP bridges
    ServerTasks,    \* names of tasks that serve them, free again once unused
    AdminRequests,  \* admin requests that may be under way at once
    NoTask          \* no task, and no agent

ASSUME NoTaskAssumption == NoTask \notin ServerTasks \cup Hosted

VARIABLES
    row,            \* the status of each agent's row
    table,          \* its task, in the runtime's table
    server,         \* the state of each task
    serves,         \* the agent it serves, while it does
    request,        \* the requests under way
    phase,          \* of the coordinator's process
    left,           \* the agents start() or stop() has still to see to
    closing,        \* the task stop() waits for
    raced           \* history: requests for the agent overlapped, or its row
                    \* was changed by the command line

tasks == <<table, server, serves>>
life == <<phase, left, closing>>
hostVars == <<row, tasks, request, life, raced>>

\* A draft and a disabled agent differ in nothing that is done with them.
Rows == {"absent", "inactive", "active"}
Idle == [pc |-> "free"]
HostRequests ==
    {Idle} \cup [pc : {"start"}, agent : Hosted]
           \cup [pc : {"stopping"}, agent : Hosted, waits : ServerTasks \cup {NoTask},
                 to : {"inactive", "absent"}]

HostedTypeOK ==
    /\ row \in [Hosted -> Rows]
    /\ table \in [Hosted -> ServerTasks \cup {NoTask}]
    /\ server \in [ServerTasks -> {"free", "running", "cancelled", "over"}]
    /\ serves \in [ServerTasks -> Hosted \cup {NoTask}]
    /\ request \in [AdminRequests -> HostRequests]
    /\ phase \in {"down", "starting", "up", "draining", "closing", "closed"}
    /\ left \subseteq Hosted
    /\ closing \in ServerTasks \cup {NoTask}
    /\ raced \in [Hosted -> BOOLEAN]

NothingRuns ==
    /\ table' = [a \in Hosted |-> NoTask]
    /\ server' = [k \in ServerTasks |-> "free"]
    /\ serves' = [k \in ServerTasks |-> NoTask]
    /\ request' = [q \in AdminRequests |-> Idle]
    /\ left' = {} /\ closing' = NoTask

HostedInit ==
    /\ row = [a \in Hosted |-> "absent"]
    /\ table = [a \in Hosted |-> NoTask]
    /\ server = [k \in ServerTasks |-> "free"]
    /\ serves = [k \in ServerTasks |-> NoTask]
    /\ request = [q \in AdminRequests |-> Idle]
    /\ phase = "down" /\ left = {} /\ closing = NoTask
    /\ raced = [a \in Hosted |-> FALSE]

-----------------------------------------------------------------------------
(* The runtime: steps of the event loop *)

Running(a) == table[a] # NoTask /\ server[table[a]] = "running"

\* A task that is not used any more serves nobody.
ServesWhileUsed ==
    serves' = [k \in ServerTasks |-> IF server'[k] = "free" THEN NoTask ELSE serves[k]]

\* Task k is the agent's; one that was done gives it way.
NewTask(a, k) ==
    /\ server[k] = "free"
    /\ table' = [table EXCEPT ![a] = k]
    /\ server' = [j \in ServerTasks |->
          IF j = k THEN "running"
          ELSE IF j = table[a] /\ server[j] = "over" THEN "free" ELSE server[j]]
    /\ serves' = [j \in ServerTasks |->
          IF j = k THEN a ELSE IF server'[j] = "free" THEN NoTask ELSE serves[j]]

\* A slip: a task is started whether or not one runs.
StartAnother(a) ==
    IF row[a] = "absent"
    THEN UNCHANGED tasks
    ELSE \E k \in ServerTasks : NewTask(a, k)

\* start_managed_agent, start_mcp_bridge: unless its task runs or its row is
\* gone, whatever the status of the row.
StartAgent(a) ==
    IF Running(a) \/ row[a] = "absent"
    THEN UNCHANGED tasks
    ELSE \E k \in ServerTasks : NewTask(a, k)

\* stop_managed_agent, stop_mcp_bridge: the entry leaves the table, and a
\* task that runs is cancelled and awaited.
StopAgent(a) ==
    /\ table' = [table EXCEPT ![a] = NoTask]
    /\ server' = [k \in ServerTasks |->
          IF k # table[a] THEN server[k]
          ELSE IF server[k] = "running" THEN "cancelled" ELSE "free"]
    /\ ServesWhileUsed

Awaits(a) == IF Running(a) THEN table[a] ELSE NoTask

\* A server returns or crashes: its task is done, and stays in the table.
ServerEnds(k) ==
    /\ server[k] = "running"
    /\ server' = [server EXCEPT ![k] = "over"]
    /\ UNCHANGED <<row, table, serves, request, life, raced>>

\* A cancelled server has let go; whoever waits for it goes on.
ServerLetsGo(k) ==
    /\ server[k] = "cancelled"
    /\ server' = [server EXCEPT ![k] = "free"]
    /\ ServesWhileUsed
    /\ request' = [q \in AdminRequests |->
          IF request[q].pc = "stopping" /\ request[q].waits = k
          THEN [request[q] EXCEPT !.waits = NoTask] ELSE request[q]]
    /\ closing' = IF closing = k THEN NoTask ELSE closing
    /\ UNCHANGED <<row, table, phase, left, raced>>

-----------------------------------------------------------------------------
(* Rows *)

InsertRow(a, to) == row[a] = "absent" /\ row' = [row EXCEPT ![a] = to]

\* Transactions that find no row leave it at that.
SetRow(a, to) == row' = [row EXCEPT ![a] = IF @ = "absent" THEN @ ELSE to]

DeleteRow(a) == row' = [row EXCEPT ![a] = "absent"]

-----------------------------------------------------------------------------
(* Admin requests *)

Busy(a) == \E q \in AdminRequests : request[q] # Idle /\ request[q].agent = a

\* A request is accepted, and what it finds under way is remembered.
Begins(q, a) ==
    /\ phase = "up"
    /\ request[q] = Idle
    /\ raced' = [raced EXCEPT ![a] = @ \/ Busy(a)]

Create(q, a, activate) ==
    /\ Begins(q, a)
    /\ InsertRow(a, IF activate THEN "active" ELSE "inactive")
    /\ request' = [request EXCEPT ![q] =
                      IF activate THEN [pc |-> "start", agent |-> a] ELSE Idle]
    /\ UNCHANGED <<tasks, life>>

Activate(q, a) ==
    /\ Begins(q, a)
    /\ row[a] # "absent"
    /\ SetRow(a, "active")
    /\ request' = [request EXCEPT ![q] = [pc |-> "start", agent |-> a]]
    /\ UNCHANGED <<tasks, life>>

StartRequested(q) ==
    /\ request[q].pc = "start"
    /\ StartAgent(request[q].agent)
    /\ request' = [request EXCEPT ![q] = Idle]
    /\ UNCHANGED <<row, life, raced>>

\* A slip: the row is written and its server left alone.
DisableRowOnly(q, a, to) ==
    /\ Begins(q, a)
    /\ request' = [request EXCEPT ![q] =
          [pc |-> "stopping", agent |-> a, waits |-> NoTask, to |-> to]]
    /\ UNCHANGED <<row, tasks, life>>

\* Disable or delete: the server is stopped first.
DisableOrDelete(q, a, to) ==
    /\ Begins(q, a)
    /\ StopAgent(a)
    /\ request' = [request EXCEPT ![q] =
          [pc |-> "stopping", agent |-> a, waits |-> Awaits(a), to |-> to]]
    /\ UNCHANGED <<row, life>>

\* Then the row is changed, if there is one (the request fails if not).
Store(q) ==
    /\ request[q].pc = "stopping" /\ request[q].waits = NoTask
    /\ IF request[q].to = "absent" THEN DeleteRow(request[q].agent)
       ELSE SetRow(request[q].agent, request[q].to)
    /\ request' = [request EXCEPT ![q] = Idle]
    /\ UNCHANGED <<tasks, life, raced>>

\* The command line creates, activates, disables and deletes rows only.
CommandLine(a, to) ==
    /\ row[a] # to
    /\ \/ InsertRow(a, to)
       \/ row[a] # "absent" /\ to # "absent" /\ SetRow(a, to)
       \/ to = "absent" /\ DeleteRow(a)
    /\ raced' = [raced EXCEPT ![a] = TRUE]
    /\ UNCHANGED <<tasks, request, life>>

-----------------------------------------------------------------------------
(* The process *)

\* start() lists the active agents and starts each of them.
ListActive ==
    /\ phase = "down"
    /\ phase' = "starting"
    /\ left' = {a \in Hosted : row[a] = "active"}
    /\ raced' = [a \in Hosted |-> FALSE]
    /\ UNCHANGED <<row, tasks, request, closing>>

StartListed(a) ==
    /\ phase = "starting" /\ a \in left
    /\ StartAgent(a)
    /\ left' = left \ {a}
    /\ UNCHANGED <<row, request, phase, closing, raced>>

\* The admin API is served from here on.
Started ==
    /\ phase = "starting" /\ left = {}
    /\ phase' = "up"
    /\ UNCHANGED <<row, tasks, request, left, closing, raced>>

\* A signal: no new request is accepted.
Signal ==
    /\ phase = "up"
    /\ phase' = "draining"
    /\ UNCHANGED <<row, tasks, request, left, closing, raced>>

\* A slip: stop() does not wait for the requests under way.
CloseAtOnce ==
    /\ phase = "draining"
    /\ phase' = "closing"
    /\ left' = {a \in Hosted : table[a] # NoTask}
    /\ UNCHANGED <<row, tasks, request, closing, raced>>

\* Once the admin API is down stop() takes the agents in the table ...
Close ==
    /\ phase = "draining"
    /\ \A q \in AdminRequests : request[q] = Idle
    /\ phase' = "closing"
    /\ left' = {a \in Hosted : table[a] # NoTask}
    /\ UNCHANGED <<row, tasks, request, closing, raced>>

\* ... and stops one after the other.
CloseNext(a) ==
    /\ phase = "closing" /\ a \in left /\ closing = NoTask
    /\ closing' = Awaits(a)
    /\ StopAgent(a)
    /\ left' = left \ {a}
    /\ UNCHANGED <<row, request, phase, raced>>

Closed ==
    /\ phase = "closing" /\ left = {} /\ closing = NoTask
    /\ phase' = "closed"
    /\ UNCHANGED <<row, tasks, request, left, closing, raced>>

\* The process ends, or is killed at any point: only the rows are left.
ProcessEnds ==
    /\ phase # "down"
    /\ phase' = "down"
    /\ NothingRuns
    /\ UNCHANGED <<row, raced>>

-----------------------------------------------------------------------------

AdminRequest ==
    \E q \in AdminRequests :
        \/ StartRequested(q)
        \/ Store(q)
        \/ \E a \in Hosted :
              \/ \E activate \in BOOLEAN : Create(q, a, activate)
              \/ Activate(q, a)
              \/ \E to \in {"inactive", "absent"} : DisableOrDelete(q, a, to)

HostedNext ==
    \/ AdminRequest
    \/ \E k \in ServerTasks : ServerEnds(k) \/ ServerLetsGo(k)
    \/ \E a \in Hosted :
          \/ \E to \in Rows : CommandLine(a, to)
          \/ StartListed(a)
          \/ CloseNext(a)
    \/ ListActive \/ Started \/ Signal \/ Close \/ Closed \/ ProcessEnds

HostedSpec == HostedInit /\ [][HostedNext]_hostVars

-----------------------------------------------------------------------------
(* Properties *)

\* Every server that runs is the one the table has for its agent, so an agent
\* never has two and each can be stopped, whatever requests overlap (start_*,
\* stop_*).
ServedFromTable ==
    \A k \in ServerTasks : server[k] = "running" => table[serves[k]] = k

\* An agent with no request under way has a server, one that may have ended by
\* itself, exactly if its row says it is active, unless its requests
\* overlapped or the command line changed the row.
StatusAgrees ==
    \A a \in Hosted :
        phase \in {"up", "draining"} /\ ~Busy(a) /\ ~raced[a] =>
            (table[a] # NoTask <=> row[a] = "active")

\* After stop() no server is left, and none is still letting go (stop,
\* _stop_all_managed_agents, _stop_all_mcp_bridges).
ClosedIsQuiet ==
    phase = "closed" => \A k \in ServerTasks : server[k] = "free"
=============================================================================
