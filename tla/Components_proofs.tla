------------------------- MODULE Components_proofs -------------------------
(***************************************************************************)
(* The components that share no state, put side by side as the run of       *)
(* MCComponents does: the whole implements the specification of each part,  *)
(* so whatever is proved of a part by itself holds of it there, for every   *)
(* value of every part's constants.                                         *)
(***************************************************************************)
EXTENDS MCComponents, Registration_proofs, Agents_proofs, SessionMemory_proofs,
        Authority_proofs, Administration_proofs

(* A step of the whole is a step of one part, and stutters in the others.  *)
LEMMA PartSteps ==
  ASSUME [ComponentsNext]_componentVars
  PROVE  /\ [RegistrationNext]_regVars /\ [AgentTasksNext]_agentVars
         /\ [HostedNext]_hostVars /\ [BridgeNext]_bridgeVars
         /\ [MemoryNext]_memoryVars /\ [CatalogueStep]_catalogueVars
         /\ [AuthorityNext]_authorityVars /\ [GovernanceNext]_governanceVars
         /\ [TenancyNext]_tenancyVars
<1>1. CASE ComponentsNext
  BY <1>1 DEF ComponentsNext, Explore
<1>2. CASE UNCHANGED componentVars
  BY <1>2 DEF componentVars
<1> QED BY <1>1, <1>2

(* The components side by side: each one's part of every behaviour is a    *)
(* behaviour its own specification allows.                                 *)
THEOREM PartsImplemented ==
  ComponentsSpec =>
    /\ RegistrationSpec /\ AgentTasksSpec /\ HostedSpec /\ BridgeSpec /\ MemorySpec
    /\ CatalogueSpec /\ AuthoritySpec /\ GovernanceSpec /\ TenancySpec
<1>1. ComponentsInit =>
        /\ RegistrationInit /\ AgentTasksInit /\ HostedInit /\ BridgeInit /\ MemoryInit
        /\ CatalogueInit /\ AuthorityInit /\ GovernanceInit /\ TenancyInit
  BY DEF ComponentsInit
<1>2. [ComponentsNext]_componentVars =>
         /\ [RegistrationNext]_regVars /\ [AgentTasksNext]_agentVars
         /\ [HostedNext]_hostVars /\ [BridgeNext]_bridgeVars
         /\ [MemoryNext]_memoryVars /\ [CatalogueStep]_catalogueVars
         /\ [AuthorityNext]_authorityVars /\ [GovernanceNext]_governanceVars
         /\ [TenancyNext]_tenancyVars
  BY PartSteps
<1> QED
  BY <1>1, <1>2, PTL
     DEF ComponentsSpec, RegistrationSpec, AgentTasksSpec, HostedSpec, BridgeSpec,
         MemorySpec, CatalogueSpec, AuthoritySpec, GovernanceSpec, TenancySpec

(* Every variable of every component keeps its type.                       *)
THEOREM ComponentsTypeCorrect == ComponentsSpec => []ComponentsTypeOK
<1>1. ComponentsSpec => [](MemoryTypeOK /\ WaitingInv)
  BY PartsImplemented, MemoryTypeCorrect
<1> QED
  BY <1>1, PartsImplemented, RegistrationTypeCorrect, AgentTypeCorrect, HostedTypeCorrect,
     BridgeTypeCorrect, CatalogueTypeCorrect, AuthorityTypeCorrect,
     GovernanceTypeCorrect, TenancyTypeCorrect, PTL DEF ComponentsTypeOK
=============================================================================
