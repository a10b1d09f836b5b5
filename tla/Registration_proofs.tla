------------------------- MODULE Registration_proofs -------------------------
(***************************************************************************)
(* What is proved about connections, registrations and addresses, for any  *)
(* agents, connections and subjects, with and without authentication.  All  *)
(* of it rests on what stays true between the read of an enrolment record   *)
(* and its use (AdmissionOK): the connection is not handled as closed in     *)
(* between, and the record's subject may go but does not change.            *)
(***************************************************************************)
EXTENDS Registration, TLAPS

Underway == ~LoopFree

-----------------------------------------------------------------------------
(* Types *)

LEMMA AdmissionForms == RegistrationTypeOK /\ Underway => admitting \in Admissions
BY DEF RegistrationTypeOK, Underway, LoopFree

LEMMA LoadedForms ==
  ASSUME NEW rs \in [AgentIds -> Records]
  PROVE  Loaded(rs) \in [AgentIds -> Modes \cup {"absent"}]
BY DEF Loaded, Modes

(* Every table of the coordinator and of the database keeps its form.      *)
THEOREM RegistrationTypeCorrect == RegistrationSpec => []RegistrationTypeOK
<1>1. RegistrationInit => RegistrationTypeOK
  <2> SUFFICES ASSUME RegistrationInit PROVE RegistrationTypeOK
    OBVIOUS
  <2>1. NoRecord \in Records
    BY DEF NoRecord, Records, Statuses
  <2>2. records \in [AgentIds -> Records]
    BY <2>1 DEF RegistrationInit
  <2>3. registry \in [AgentIds -> Modes \cup {"absent"}]
    BY <2>2, LoadedForms DEF RegistrationInit
  <2> QED BY <2>2, <2>3 DEF RegistrationInit, RegistrationTypeOK
<1>2. RegistrationTypeOK /\ [RegistrationNext]_regVars => RegistrationTypeOK'
  <2> SUFFICES ASSUME RegistrationTypeOK, [RegistrationNext]_regVars
               PROVE  RegistrationTypeOK'
    OBVIOUS
  <2> USE DEF RegistrationTypeOK
  <2>1. ASSUME NEW c \in Conns, NEW who \in Subjects \cup {Nobody}, Connect(c, who)
        PROVE  RegistrationTypeOK'
    BY <2>1 DEF Connect, memory
  <2>2. ASSUME NEW c \in Conns, LoseConnection(c) PROVE RegistrationTypeOK'
    BY <2>2 DEF LoseConnection, memory
  <2>3. ASSUME NEW c \in Conns, HandleDisconnect(c) PROVE RegistrationTypeOK'
    BY <2>3 DEF HandleDisconnect, RegistryDisconnect, Mapped, memory
  <2>4. ASSUME NEW c \in Conns, NEW a \in AgentIds, NEW mode \in Modes, ReadRecord(c, a, mode)
        PROVE  RegistrationTypeOK'
    BY <2>4 DEF ReadRecord, memory, wires, Admissions
  <2>5. ASSUME NEW c \in Conns, NEW a \in AgentIds, NEW signed \in BOOLEAN,
               AuthenticatePersistentAgent(a, c, signed)
        PROVE  RegistrationTypeOK'
    BY <2>5 DEF AuthenticatePersistentAgent, VerifyChallenge, Addressed, MarkOnline, wires
  <2>6. CASE AdminStep
    <3>1. records' \in [AgentIds -> Records]
      <4>1. NoRecord \in Records /\ Enrolled \subseteq AgentIds
        BY EnrolledAssumption DEF NoRecord, Records, Statuses
      <4>2. ASSUME NEW a \in Enrolled, NEW status \in {"pending", "approved"}, Enrol(a, status)
            PROVE  records' \in [AgentIds -> Records]
        BY <4>1, <4>2 DEF Enrol, Records, Statuses
      <4>3. ASSUME NEW a \in Enrolled, NEW from, NEW to \in Statuses, SetStatus(a, from, to)
            PROVE  records' \in [AgentIds -> Records]
        BY <4>1, <4>3 DEF SetStatus, Records
      <4>4. ASSUME NEW a \in Enrolled, DeleteRecord(a) \/ RequestChallenge(a)
            PROVE  records' \in [AgentIds -> Records]
        BY <4>1, <4>4 DEF DeleteRecord, RequestChallenge
      <4>5. "approved" \in Statuses /\ "out" \in Statuses
        BY DEF Statuses
      <4> QED
        BY <2>6, <4>2, <4>3, <4>4, <4>5 DEF AdminStep, AdminTransaction, Approve, RejectOrRevoke
    <3>2. /\ challenges' \subseteq AgentIds
          /\ UNCHANGED <<registry, online, agentPeers, route, conn, identity, admitting>>
      BY <2>6, EnrolledAssumption
         DEF AdminStep, AdminTransaction, Enrol, SetStatus, Approve, RejectOrRevoke,
             DeleteRecord, RequestChallenge, memory, wires
    <3> QED BY <3>1, <3>2
  <2>7. CASE RegisterAgent
    <3> PICK r \in Admissions : r = admitting
      BY <2>7, AdmissionForms DEF RegisterAgent, Underway
    <3>1. r.agent \in AgentIds /\ r.conn \in Conns /\ r.mode \in Modes
      BY DEF Admissions
    <3>2. records' \in [AgentIds -> Records]
      BY <2>7, <3>1 DEF RegisterAgent, BindSubject, Records
    <3>3. registry' \in [AgentIds -> Modes \cup {"absent"}]
      BY <2>7, <3>1 DEF RegisterAgent
    <3>4. /\ online' \subseteq AgentIds
          /\ agentPeers' \in [AgentIds -> Conns \cup {Nobody}]
          /\ route' \in [AgentIds -> {"none", "registered", "challenged", "stray"}]
      BY <2>7, <3>1 DEF RegisterAgent, Addressed, MarkOnline
    <3> QED BY <2>7, <3>2, <3>3, <3>4 DEF RegisterAgent, wires
  <2>8. CASE Restart
    BY <2>8, LoadedForms DEF Restart
  <2>9. CASE UNCHANGED regVars
    BY <2>9 DEF regVars, memory, wires
  <2> QED
    BY <2>1, <2>2, <2>3, <2>4, <2>5, <2>6, <2>7, <2>8, <2>9
       DEF RegistrationNext, PeerStep, AdminStep
<1> QED BY <1>1, <1>2, PTL DEF RegistrationSpec

-----------------------------------------------------------------------------
(* Addresses *)

(* A record that was read belongs to a connection still served; it was not *)
(* out, its subject was the connection's, and since then the record may    *)
(* have lost its subject but has not got another.                           *)
AdmissionOK ==
    Underway =>
        /\ conn[admitting.conn] # "closed"
        /\ admitting.record.status # "out"
        /\ admitting.record.subject # Nobody =>
              identity[admitting.conn] = admitting.record.subject
        /\ records[admitting.agent].subject \in {Nobody, admitting.record.subject}

(* The three together are inductive: an address that leads nowhere could   *)
(* come to lead to another subject's connection.                            *)
RoutesOK == AdmissionOK /\ RouteIsLive /\ BoundRoute

(* Where the loop is at work on nothing, only the routes matter.           *)
LEMMA PeersKeepRoutes ==
  ASSUME RegistrationTypeOK, RoutesOK, NEW c \in Conns,
         \/ \E who \in Subjects \cup {Nobody} : Connect(c, who)
         \/ LoseConnection(c)
         \/ HandleDisconnect(c)
  PROVE  RoutesOK'
<1> USE DEF RegistrationTypeOK
<1>1. CASE \E who \in Subjects \cup {Nobody} : Connect(c, who)
  BY <1>1 DEF Connect, LoopFree, Underway, memory, RoutesOK, AdmissionOK, RouteIsLive,
              BoundRoute
<1>2. CASE LoseConnection(c)
  <2>1. AdmissionOK'
    BY <1>2, AdmissionForms
       DEF LoseConnection, LoopFree, Underway, memory, RoutesOK, AdmissionOK, Admissions
  <2>2. RouteIsLive' /\ BoundRoute'
    BY <1>2 DEF LoseConnection, memory, RoutesOK, RouteIsLive, BoundRoute
  <2> QED BY <2>1, <2>2 DEF RoutesOK
<1>3. CASE HandleDisconnect(c)
  <2>1. AdmissionOK'
    BY <1>3 DEF HandleDisconnect, LoopFree, Underway, AdmissionOK
  <2>2. ASSUME NEW b \in AgentIds, route'[b] \in {"registered", "challenged"}
        PROVE  /\ route'[b] = route[b] /\ agentPeers[b] # c
               /\ agentPeers'[b] = agentPeers[b]
               /\ registry'[b] = registry[b]
               /\ b \in online => b \in online'
    <3>1. CASE Mapped(c) = {}
      BY <1>3, <2>2, <3>1 DEF HandleDisconnect, Mapped, memory
    <3>2. ASSUME NEW a \in Mapped(c), RegistryDisconnect(a),
                 agentPeers' = [agentPeers EXCEPT ![a] = Nobody],
                 route' = [d \in AgentIds |->
                             IF d = a THEN "none"
                             ELSE IF d \in Mapped(c) THEN "stray" ELSE route[d]]
          PROVE  /\ route'[b] = route[b] /\ agentPeers[b] # c
                 /\ agentPeers'[b] = agentPeers[b]
                 /\ registry'[b] = registry[b]
                 /\ b \in online => b \in online'
      BY <2>2, <3>2 DEF Mapped, RegistryDisconnect
    <3> QED BY <1>3, <3>1, <3>2 DEF HandleDisconnect
  <2>3. /\ \A d \in Conns \ {c} : conn'[d] = conn[d] /\ identity'[d] = identity[d]
        /\ records' = records
    BY <1>3 DEF HandleDisconnect
  <2>4. RouteIsLive'
    BY <2>2, <2>3 DEF RoutesOK, RouteIsLive
  <2>5. BoundRoute'
    BY <2>2, <2>3 DEF RoutesOK, RouteIsLive, BoundRoute
  <2> QED BY <2>1, <2>4, <2>5 DEF RoutesOK
<1> QED BY <1>1, <1>2, <1>3

(* A registration gives an agent the address its record allows.            *)
LEMMA AdmissionKeepsRoutes ==
  ASSUME RegistrationTypeOK, RoutesOK,
         \/ \E c \in Conns, a \in AgentIds, mode \in Modes : ReadRecord(c, a, mode)
         \/ \E c \in Conns, a \in AgentIds, signed \in BOOLEAN :
               AuthenticatePersistentAgent(a, c, signed)
         \/ RegisterAgent
  PROVE  RoutesOK'
<1> USE DEF RegistrationTypeOK
<1>1. ASSUME NEW c \in Conns, NEW a \in AgentIds, NEW mode \in Modes, ReadRecord(c, a, mode)
      PROVE  RoutesOK'
  <2>1. AdmissionOK'
    BY <1>1 DEF ReadRecord, Admitted, EntitledToRegister, AdmissionOK, wires
  <2>2. RouteIsLive' /\ BoundRoute'
    BY <1>1 DEF ReadRecord, memory, wires, RoutesOK, RouteIsLive, BoundRoute
  <2> QED BY <2>1, <2>2 DEF RoutesOK
<1>2. ASSUME NEW c \in Conns, NEW a \in AgentIds, NEW signed \in BOOLEAN,
             AuthenticatePersistentAgent(a, c, signed)
      PROVE  RoutesOK'
  <2>1. AdmissionOK'
    BY <1>2 DEF AuthenticatePersistentAgent, LoopFree, Underway, AdmissionOK
  <2>2. CASE signed /\ registry[a] # "absent"
    BY <1>2, <2>1, <2>2, NobodyAssumption
       DEF AuthenticatePersistentAgent, Addressed, MarkOnline, wires, RoutesOK, RouteIsLive,
           BoundRoute
  <2>3. CASE ~(signed /\ registry[a] # "absent")
    BY <1>2, <2>1, <2>3
       DEF AuthenticatePersistentAgent, wires, RoutesOK, RouteIsLive, BoundRoute
  <2> QED BY <2>2, <2>3
<1>3. CASE RegisterAgent
  <2> DEFINE r == admitting
  <2> PICK a \in AgentIds, c \in Conns : a = admitting.agent /\ c = admitting.conn
    BY <1>3, AdmissionForms DEF RegisterAgent, Underway, Admissions
  <2>1. r \in Admissions /\ r.mode \in Modes /\ "absent" \notin Modes
    BY <1>3, AdmissionForms DEF RegisterAgent, Underway, Admissions, Modes
  <2>2. /\ conn[c] # "closed"
        /\ r.record.subject # Nobody => identity[c] = r.record.subject
        /\ records[a].subject \in {Nobody, r.record.subject}
    BY <1>3 DEF RegisterAgent, Underway, RoutesOK, AdmissionOK
  <2>3. AdmissionOK'
    BY <1>3 DEF RegisterAgent, AdmissionOK, Underway, LoopFree
  <2>4. RouteIsLive'
    BY <1>3, <2>1, <2>2, NobodyAssumption
       DEF RegisterAgent, Addressed, MarkOnline, wires, RoutesOK, RouteIsLive
  <2>5. /\ records'[a].subject # Nobody => identity[c] = records'[a].subject
        /\ \A b \in AgentIds \ {a} : records'[b] = records[b]
    BY <1>3, <2>2 DEF RegisterAgent, BindSubject, Records
  <2>6. BoundRoute'
    BY <1>3, <2>5 DEF RegisterAgent, Addressed, wires, RoutesOK, BoundRoute
  <2> QED BY <2>3, <2>4, <2>6 DEF RoutesOK
<1> QED BY <1>1, <1>2, <1>3

(* Administration changes a record's status, or loses its subject.         *)
LEMMA AdministrationKeepsRoutes ==
  ASSUME RegistrationTypeOK, RoutesOK, AdminStep PROVE RoutesOK'
<1> USE DEF RegistrationTypeOK
<1>1. \A a \in AgentIds : records'[a].subject \in {Nobody, records[a].subject}
  BY EnrolledAssumption
     DEF AdminStep, AdminTransaction, Enrol, SetStatus, Approve, RejectOrRevoke, DeleteRecord,
         RequestChallenge, NoRecord, Records
<1>2. UNCHANGED <<registry, online, agentPeers, route, conn, identity, admitting>>
  BY DEF AdminStep, AdminTransaction, Enrol, SetStatus, Approve, RejectOrRevoke, DeleteRecord,
         RequestChallenge, memory, wires
<1>3. AdmissionOK'
  <2> SUFFICES ASSUME Underway' PROVE AdmissionOK'
    BY DEF AdmissionOK
  <2>1. Underway /\ admitting.agent \in AgentIds
    BY <1>2, AdmissionForms DEF Underway, LoopFree, Admissions
  <2> QED BY <1>1, <1>2, <2>1 DEF RoutesOK, AdmissionOK
<1>4. RouteIsLive' /\ BoundRoute'
  BY <1>1, <1>2 DEF RoutesOK, RouteIsLive, BoundRoute
<1> QED BY <1>3, <1>4 DEF RoutesOK

THEOREM RoutesInvariant == RegistrationSpec => []RoutesOK
<1>1. RegistrationInit => RoutesOK
  BY DEF RegistrationInit, RoutesOK, AdmissionOK, Underway, LoopFree, RouteIsLive, BoundRoute
<1>2. RegistrationTypeOK /\ RoutesOK /\ [RegistrationNext]_regVars => RoutesOK'
  <2> SUFFICES ASSUME RegistrationTypeOK, RoutesOK, [RegistrationNext]_regVars
               PROVE  RoutesOK'
    OBVIOUS
  <2>1. CASE PeerStep
    BY <2>1, PeersKeepRoutes, AdmissionKeepsRoutes DEF PeerStep
  <2>2. CASE AdminStep
    BY <2>2, AdministrationKeepsRoutes
  <2>3. CASE RegisterAgent
    BY <2>3, AdmissionKeepsRoutes
  <2>4. CASE Restart
    BY <2>4 DEF Restart, RoutesOK, AdmissionOK, Underway, LoopFree, RouteIsLive, BoundRoute
  <2>5. CASE UNCHANGED regVars
    BY <2>5 DEF regVars, memory, wires, RoutesOK, AdmissionOK, Underway, LoopFree,
                RouteIsLive, BoundRoute
  <2> QED BY <2>1, <2>2, <2>3, <2>4, <2>5 DEF RegistrationNext
<1> QED BY <1>1, <1>2, RegistrationTypeCorrect, PTL DEF RegistrationSpec

(* Whoever is addressed is registered, counted online, and addressed on a  *)
(* connection whose end was not handled, whatever is lost, handled late or  *)
(* registered twice (handle_disconnect, register_agent).                    *)
THEOREM RouteAlwaysLive == RegistrationSpec => []RouteIsLive
BY RoutesInvariant, PTL DEF RoutesOK

(* Messages for a bound agent go to its subject's connection (_admit,      *)
(* bind_subject).                                                           *)
THEOREM RouteAlwaysBound == RegistrationSpec => []BoundRoute
BY RoutesInvariant, PTL DEF RoutesOK

-----------------------------------------------------------------------------
(* Steps *)

(* Only the end of the connection it is addressed on takes an agent's      *)
(* address away (handle_disconnect).                                        *)
THEOREM ReconnectionAlwaysSurvives == RegistrationSpec => ReconnectionSurvives
<1>1. RegistrationTypeOK /\ [RegistrationNext]_regVars =>
         [\A a \in AgentIds :
             agentPeers[a] # Nobody /\ agentPeers'[a] = Nobody =>
                conn'[agentPeers[a]] = "closed"]_regVars
  <2> SUFFICES ASSUME RegistrationTypeOK, RegistrationNext, NEW a \in AgentIds,
                      agentPeers[a] # Nobody, agentPeers'[a] = Nobody
               PROVE  conn'[agentPeers[a]] = "closed"
    OBVIOUS
  <2> USE DEF RegistrationTypeOK
  <2>1. ASSUME NEW c \in Conns, HandleDisconnect(c) PROVE conn'[agentPeers[a]] = "closed"
    <3>1. a \in Mapped(c)
      BY <2>1 DEF HandleDisconnect, memory
    <3> QED BY <2>1, <3>1 DEF HandleDisconnect, Mapped
  <2>2. ASSUME NEW c \in Conns, NEW b \in AgentIds, NEW signed \in BOOLEAN,
               AuthenticatePersistentAgent(b, c, signed)
        PROVE  FALSE
    BY <2>2, NobodyAssumption DEF AuthenticatePersistentAgent, Addressed
  <2>3. CASE RegisterAgent
    <3>1. admitting.conn \in Conns
      BY <2>3, AdmissionForms DEF RegisterAgent, Underway, Admissions
    <3> QED BY <2>3, <3>1, NobodyAssumption DEF RegisterAgent, Addressed
  <2>4. CASE Restart
    BY <2>4 DEF Restart
  <2>5. ASSUME NEW c \in Conns,
               \/ \E who \in Subjects \cup {Nobody} : Connect(c, who)
               \/ LoseConnection(c)
               \/ \E b \in AgentIds, mode \in Modes : ReadRecord(c, b, mode)
        PROVE  FALSE
    BY <2>5 DEF Connect, LoseConnection, ReadRecord, memory
  <2>6. CASE AdminStep
    BY <2>6 DEF AdminStep, AdminTransaction, Enrol, SetStatus, Approve, RejectOrRevoke,
                DeleteRecord, RequestChallenge, memory
  <2> QED BY <2>1, <2>2, <2>3, <2>4, <2>5, <2>6 DEF RegistrationNext, PeerStep
<1> QED BY <1>1, RegistrationTypeCorrect, PTL DEF RegistrationSpec, ReconnectionSurvives

(* A revoked agent comes back only by a record read before, or by a        *)
(* challenge it holds (_admit, verify_challenge).                           *)
THEOREM RevokedAlwaysStaysOut == RegistrationSpec => RevokedStaysOut
<1>1. RegistrationTypeOK /\ RoutesOK /\ [RegistrationNext]_regVars =>
         [\A a \in AgentIds :
             /\ records[a].status = "out"
             /\ a \notin online
             /\ a \notin challenges
             /\ admitting.agent = a => admitting.record.status = "out"
             => a \notin online']_regVars
  <2> SUFFICES ASSUME RegistrationTypeOK, RoutesOK, RegistrationNext, NEW a \in AgentIds,
                      a \notin online, a \notin challenges,
                      admitting.agent = a => admitting.record.status = "out"
               PROVE  a \notin online'
    OBVIOUS
  <2>1. ASSUME NEW c \in Conns, NEW b \in AgentIds, NEW signed \in BOOLEAN,
               AuthenticatePersistentAgent(b, c, signed)
        PROVE  a \notin online'
    BY <2>1 DEF AuthenticatePersistentAgent, VerifyChallenge, Addressed, MarkOnline
  <2>2. CASE RegisterAgent
    <3>1. admitting.record.status # "out"
      BY <2>2 DEF RegisterAgent, Underway, RoutesOK, AdmissionOK
    <3> QED BY <2>2, <3>1 DEF RegisterAgent, Addressed, MarkOnline
  <2>3. ASSUME NEW c \in Conns,
               \/ \E who \in Subjects \cup {Nobody} : Connect(c, who)
               \/ LoseConnection(c)
               \/ HandleDisconnect(c)
               \/ \E b \in AgentIds, mode \in Modes : ReadRecord(c, b, mode)
        PROVE  a \notin online'
    BY <2>3 DEF Connect, LoseConnection, HandleDisconnect, RegistryDisconnect, ReadRecord,
                memory
  <2>4. CASE AdminStep
    BY <2>4 DEF AdminStep, AdminTransaction, Enrol, SetStatus, Approve, RejectOrRevoke,
                DeleteRecord, RequestChallenge, memory
  <2>5. CASE Restart
    BY <2>5 DEF Restart
  <2> QED BY <2>1, <2>2, <2>3, <2>4, <2>5 DEF RegistrationNext, PeerStep
<1> QED
  BY <1>1, RegistrationTypeCorrect, RoutesInvariant, PTL DEF RegistrationSpec, RevokedStaysOut
=============================================================================
