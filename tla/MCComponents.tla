--------------------------- MODULE MCComponents ---------------------------
(***************************************************************************)
(* Small instances of the components that share no state, explored one at  *)
(* a time in one run: `part` says which, and the others stay where they     *)
(* start.  Nothing an instance does depends on another's variables, so this *)
(* visits every state each of them can be in.                               *)
(***************************************************************************)
EXTENDS Registration, AgentTasks, ManagedAgents, McpBridge, MCMemory,
        MCAuthority, MCGovernance, Tenancy

VARIABLE part

Parts == {"registration", "agent", "hosted", "bridge", "memory", "catalogue",
          "authority", "governance", "tenancy"}

-----------------------------------------------------------------------------

\* A part that is not explored has one initial state.
ComponentsInit ==
    /\ part \in Parts
    /\ RegistrationInit /\ AgentTasksInit /\ HostedInit /\ BridgeInit /\ MemoryInit
    /\ CatalogueInit /\ AuthorityInit /\ GovernanceInit /\ TenancyInit
    /\ part # "agent" =>
          taskSession = CHOOSE f \in [Tasks -> TaskSessions] : TRUE
    /\ part # "agent" => client = CHOOSE c \in Clients : TRUE
    /\ part # "bridge" => offered = {}
    /\ part # "catalogue" => cataloguing
    /\ part # "authority" => enforced /\ claims = {} /\ ceiling = {}

Explore ==
    \/ part = "registration" /\ RegistrationNext
       /\ UNCHANGED <<agentVars, hostVars, bridgeVars, memoryVars, catalogueVars,
                      authorityVars, governanceVars, tenancyVars>>
    \/ part = "agent" /\ AgentTasksNext
       /\ UNCHANGED <<regVars, hostVars, bridgeVars, memoryVars, catalogueVars,
                      authorityVars, governanceVars, tenancyVars>>
    \/ part = "hosted" /\ HostedNext
       /\ UNCHANGED <<regVars, agentVars, bridgeVars, memoryVars, catalogueVars,
                      authorityVars, governanceVars, tenancyVars>>
    \/ part = "bridge" /\ BridgeNext
       /\ UNCHANGED <<regVars, agentVars, hostVars, memoryVars, catalogueVars,
                      authorityVars, governanceVars, tenancyVars>>
    \/ part = "memory" /\ MemoryNext
       /\ UNCHANGED <<regVars, agentVars, hostVars, bridgeVars, catalogueVars,
                      authorityVars, governanceVars, tenancyVars>>
    \/ part = "catalogue" /\ CatalogueStep
       /\ UNCHANGED <<regVars, agentVars, hostVars, bridgeVars, memoryVars,
                      authorityVars, governanceVars, tenancyVars>>
    \/ part = "authority" /\ AuthorityNext
       /\ UNCHANGED <<regVars, agentVars, hostVars, bridgeVars, memoryVars,
                      catalogueVars, governanceVars, tenancyVars>>
    \/ part = "governance" /\ GovernanceNext
       /\ UNCHANGED <<regVars, agentVars, hostVars, bridgeVars, memoryVars,
                      catalogueVars, authorityVars, tenancyVars>>
    \/ part = "tenancy" /\ TenancyNext
       /\ UNCHANGED <<regVars, agentVars, hostVars, bridgeVars, memoryVars,
                      catalogueVars, authorityVars, governanceVars>>

ComponentsNext == Explore /\ UNCHANGED part

componentVars == <<part, regVars, agentVars, hostVars, bridgeVars, memoryVars,
                   catalogueVars, authorityVars, governanceVars, tenancyVars>>

ComponentsSpec == ComponentsInit /\ [][ComponentsNext]_componentVars

ComponentsTypeOK ==
    /\ RegistrationTypeOK /\ AgentTasksTypeOK /\ HostedTypeOK /\ BridgeTypeOK
    /\ MemoryTypeOK /\ CatalogueTypeOK /\ AuthorityTypeOK /\ GovernanceTypeOK
    /\ TenancyTypeOK
=============================================================================
