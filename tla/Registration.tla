---------------------------- MODULE Registration ----------------------------
(***************************************************************************)
(* Who is on the bus, and on which connection: the enrolment records, the  *)
(* capability registry, the table that says where an agent is addressed,   *)
(* and the WebSocket connections all of this hangs on.                      *)
(*                                                                         *)
(* Handlers run on one event loop, so an action is a whole handler.  The    *)
(* exception is the admission of an agent: its record is read from the     *)
(* database, which threads of the admin API and processes of the command   *)
(* line write at the same time, so the read and its use are two actions     *)
(* between which only the database may change.                              *)
(***************************************************************************)
EXTENDS Naturals

CONSTANTS
    AgentIds,       \* identifiers an agent may claim
    Conns,          \* names of connections, free again once handled (id(ws))
    Enrolled,       \* those an administrator may enrol
    Subjects,       \* subjects a credential may carry
    Nobody,         \* no subject, no connection
    RequireAuth     \* a connection must present a credential

ASSUME EnrolledAssumption == Enrolled \subseteq AgentIds
ASSUME NobodyAssumption == Nobody \notin Conns \cup Subjects
ASSUME AuthAssumption == RequireAuth \in BOOLEAN

VARIABLES
    records,        \* the enrolment of each agent: status and bound subject
    challenges,     \* agents with a challenge not answered yet
    registry,       \* how each agent is registered
    online,         \* agents the registry takes for connected
    agentPeers,     \* the connection each agent is addressed on
    conn,           \* the state of each connection
    identity,       \* the subject each connection authenticated as
    admitting,      \* the registration being decided, with the record read
    route           \* history: how an agent came by its entry of agentPeers

memory == <<challenges, registry, online, agentPeers, route>>
wires == <<conn, identity>>
regVars == <<records, memory, wires, admitting>>

\* A rejected agent and a revoked one are treated alike: "out".
Statuses == {"absent", "pending", "approved", "out"}
Modes == {"ephemeral", "persistent"}
Records == [status : Statuses, subject : Subjects \cup {Nobody}]
NoRecord == [status |-> "absent", subject |-> Nobody]
Admissions == [conn : Conns, agent : AgentIds, mode : Modes, record : Records]
NoAdmission == [agent |-> Nobody]

RegistrationTypeOK ==
    /\ records \in [AgentIds -> Records]
    /\ challenges \subseteq AgentIds
    /\ registry \in [AgentIds -> Modes \cup {"absent"}]
    /\ online \subseteq AgentIds
    /\ agentPeers \in [AgentIds -> Conns \cup {Nobody}]
    /\ conn \in [Conns -> {"closed", "open", "lost"}]
    /\ identity \in [Conns -> Subjects \cup {Nobody}]
    /\ admitting \in Admissions \cup {NoAdmission}
    /\ route \in [AgentIds -> {"none", "registered", "challenged", "stray"}]

\* The coordinator starts with the approved agents known and not connected.
Loaded(rs) ==
    [a \in AgentIds |-> IF rs[a].status = "approved" THEN "persistent" ELSE "absent"]

RegistrationInit ==
    /\ records = [a \in AgentIds |-> NoRecord]
    /\ challenges = {}
    /\ registry = Loaded(records)
    /\ online = {}
    /\ agentPeers = [a \in AgentIds |-> Nobody]
    /\ conn = [c \in Conns |-> "closed"]
    /\ identity = [c \in Conns |-> Nobody]
    /\ admitting = NoAdmission
    /\ route = [a \in AgentIds |-> "none"]

\* No handler is between its read of a record and its use.
LoopFree == admitting = NoAdmission

-----------------------------------------------------------------------------
(* Connections *)

\* A peer connects.  A credential, if it carries one, was verified.
Connect(c, who) ==
    /\ LoopFree
    /\ conn[c] = "closed"
    /\ RequireAuth => who # Nobody
    /\ conn' = [conn EXCEPT ![c] = "open"]
    /\ identity' = [identity EXCEPT ![c] = who]
    /\ UNCHANGED <<records, memory, admitting>>

\* The socket closes; what it had received is still read.
LoseConnection(c) ==
    /\ conn[c] = "open"
    /\ conn' = [conn EXCEPT ![c] = "lost"]
    /\ UNCHANGED <<records, memory, identity, admitting>>

\* Slips: the agents of the subject are taken for those of the connection; the
\* agent is taken from the registry and not from the table of addresses.
MappedBySubject(c) ==
    {a \in AgentIds : agentPeers[a] # Nobody /\ identity[agentPeers[a]] = identity[c]}

Mapped(c) == {a \in AgentIds : agentPeers[a] = c}

\* The registry forgets an ephemeral agent and keeps a persistent one, offline.
RegistryDisconnect(a) ==
    /\ registry' = [registry EXCEPT ![a] = IF @ = "ephemeral" THEN "absent" ELSE @]
    /\ online' = online \ {a}

HandleDisconnectKeepsAddress(c) ==
    /\ LoopFree
    /\ conn[c] = "lost"
    /\ conn' = [conn EXCEPT ![c] = "closed"]
    /\ identity' = [identity EXCEPT ![c] = Nobody]
    /\ \/ Mapped(c) = {} /\ UNCHANGED <<registry, online>>
       \/ \E a \in Mapped(c) : RegistryDisconnect(a)
    /\ UNCHANGED <<records, challenges, agentPeers, route, admitting>>

\* The read loop ends: the first agent found on the connection goes.
HandleDisconnect(c) ==
    /\ LoopFree
    /\ conn[c] = "lost"
    /\ conn' = [conn EXCEPT ![c] = "closed"]
    /\ identity' = [identity EXCEPT ![c] = Nobody]
    /\ \/ /\ Mapped(c) = {}
          /\ UNCHANGED memory
       \/ \E a \in Mapped(c) :
             /\ RegistryDisconnect(a)
             /\ agentPeers' = [agentPeers EXCEPT ![a] = Nobody]
             /\ route' = [b \in AgentIds |->
                            IF b = a THEN "none"
                            ELSE IF b \in Mapped(c) THEN "stray" ELSE route[b]]
             /\ UNCHANGED challenges
    /\ UNCHANGED <<records, admitting>>

-----------------------------------------------------------------------------
(* Registration *)

\* Slips: the bound subject is not looked at, revocation is looked at for
\* persistent agents only.
EntitledWhenAuthenticated(who, bound) == RequireAuth => who # Nobody

\* Whether a subject may register an agent bound to `bound` (or to nobody).
EntitledToRegister(who, bound) ==
    /\ RequireAuth => who # Nobody
    /\ bound # Nobody => who = bound

AdmittedEphemeral(r) ==
    /\ r.mode = "persistent" => r.record.status \in {"absent", "approved"}
    /\ EntitledToRegister(identity[r.conn], r.record.subject)

Admitted(r) ==
    /\ r.record.status # "out"
    /\ r.mode = "persistent" => r.record.status \in {"absent", "approved"}
    /\ EntitledToRegister(identity[r.conn], r.record.subject)

\* A REGISTER arrives and the record of the agent it names is read.  One that
\* is refused for it changes nothing.
ReadRecord(c, a, mode) ==
    LET request == [conn |-> c, agent |-> a, mode |-> mode, record |-> records[a]] IN
    /\ LoopFree
    /\ conn[c] # "closed"
    /\ Admitted(request)
    /\ admitting' = request
    /\ UNCHANGED <<records, memory, wires>>

\* The first authenticated registration binds the record, as it is by now.
BindSubject(r) ==
    IF /\ r.record # NoRecord /\ r.record.subject = Nobody
       /\ records[r.agent].status # "absent" /\ records[r.agent].subject = Nobody
    THEN records' = [records EXCEPT ![r.agent].subject = identity[r.conn]]
    ELSE UNCHANGED records

MarkOnline(a) == online' = online \cup {a}

\* The agent is mapped to the connection and gets an executor.
Addressed(a, c, how) ==
    /\ MarkOnline(a)
    /\ agentPeers' = [agentPeers EXCEPT ![a] = c]
    /\ route' = [route EXCEPT ![a] = how]

RegisterAgent ==
    /\ ~LoopFree
    /\ BindSubject(admitting)
    /\ registry' = [registry EXCEPT ![admitting.agent] = admitting.mode]
    /\ Addressed(admitting.agent, admitting.conn, "registered")
    /\ admitting' = NoAdmission
    /\ UNCHANGED <<challenges, wires>>

-----------------------------------------------------------------------------
(* Challenge and response *)

RequestChallenge(a) ==
    /\ LoopFree
    /\ records[a].status = "approved"
    /\ challenges' = challenges \cup {a}
    /\ UNCHANGED <<records, registry, online, agentPeers, route,
                   wires, admitting>>

\* The challenge is used up, whatever comes of it.  `signed`: the signature
\* matches the key of a record that is still there, whatever its status.
VerifyChallenge(a, signed) ==
    /\ a \in challenges
    /\ challenges' = challenges \ {a}
    /\ signed => records[a].status # "absent"

AuthenticatePersistentAgent(a, c, signed) ==
    /\ LoopFree
    /\ conn[c] # "closed"
    /\ VerifyChallenge(a, signed)
    /\ IF signed /\ registry[a] # "absent"
       THEN Addressed(a, c, "challenged")
       ELSE UNCHANGED <<online, agentPeers, route>>
    /\ UNCHANGED <<records, registry, wires, admitting>>

-----------------------------------------------------------------------------
(* Administration: transactions on the records, from any thread or process *)

Enrol(a, status) ==
    /\ records[a].status = "absent"
    /\ records' = [records EXCEPT ![a] = [status |-> status, subject |-> Nobody]]
    /\ UNCHANGED <<memory, wires, admitting>>

SetStatus(a, from, to) ==
    /\ records[a].status \in from
    /\ records' = [records EXCEPT ![a].status = to]
    /\ UNCHANGED <<memory, wires, admitting>>

Approve(a) == SetStatus(a, {"pending"}, "approved")
RejectOrRevoke(a) == SetStatus(a, Statuses \ {"absent"}, "out")

DeleteRecord(a) ==
    /\ records[a].status # "absent"
    /\ records' = [records EXCEPT ![a] = NoRecord]
    /\ UNCHANGED <<memory, wires, admitting>>

\* The coordinator stops or crashes and starts again: its memory is gone and
\* so are the connections.
Restart ==
    /\ challenges' = {}
    /\ registry' = Loaded(records)
    /\ online' = {}
    /\ agentPeers' = [a \in AgentIds |-> Nobody]
    /\ conn' = [c \in Conns |-> "closed"]
    /\ identity' = [c \in Conns |-> Nobody]
    /\ admitting' = NoAdmission
    /\ route' = [a \in AgentIds |-> "none"]
    /\ UNCHANGED records

-----------------------------------------------------------------------------

PeerStep ==
    \E c \in Conns :
        \/ \E who \in Subjects \cup {Nobody} : Connect(c, who)
        \/ LoseConnection(c)
        \/ HandleDisconnect(c)
        \/ \E a \in AgentIds :
              \/ \E mode \in Modes : ReadRecord(c, a, mode)
              \/ \E signed \in BOOLEAN : AuthenticatePersistentAgent(a, c, signed)

\* What the admin API and the command line both offer; the latter asks nobody.
AdminTransaction(a) == Approve(a) \/ RejectOrRevoke(a) \/ DeleteRecord(a)

AdminStep ==
    \E a \in Enrolled :
        \/ \E status \in {"pending", "approved"} : Enrol(a, status)
        \/ AdminTransaction(a)
        \/ RequestChallenge(a)

RegistrationNext == PeerStep \/ AdminStep \/ RegisterAgent \/ Restart

RegistrationSpec == RegistrationInit /\ [][RegistrationNext]_regVars

-----------------------------------------------------------------------------
(* Properties *)

\* An agent that has an address is registered and counted as online, and its
\* address is a connection whose end is still to be handled.  The exception
\* the code makes is an agent left behind on a connection that several agents
\* had registered on (handle_disconnect removes the first it finds).
RouteIsLive ==
    \A a \in AgentIds :
        route[a] \in {"registered", "challenged"} =>
            /\ agentPeers[a] # Nobody /\ conn[agentPeers[a]] # "closed"
            /\ a \in online
            /\ registry[a] # "absent"

\* An agent loses its address only with the connection it is addressed on: the
\* end of its former connection, handled after it registered on a new one,
\* leaves it on the bus (handle_disconnect, register_agent).
ReconnectionSurvives ==
    [][\A a \in AgentIds :
          agentPeers[a] # Nobody /\ agentPeers'[a] = Nobody =>
              conn'[agentPeers[a]] = "closed"]_regVars

\* Where an agent registered, its messages go to the subject it is bound to,
\* whoever else claims its name, before or after (_admit, bind_subject).
BoundRoute ==
    \A a \in AgentIds :
        route[a] = "registered" /\ records[a].subject # Nobody =>
            identity[agentPeers[a]] = records[a].subject

\* An agent that was rejected or revoked and is not connected stays out, also
\* as an ephemeral agent, unless its record was read before that and it is
\* being admitted, or it still holds a challenge.
RevokedStaysOut ==
    [][\A a \in AgentIds :
          /\ records[a].status = "out"
          /\ a \notin online
          /\ a \notin challenges
          /\ admitting.agent = a => admitting.record.status = "out"
          => a \notin online']_regVars
=============================================================================
