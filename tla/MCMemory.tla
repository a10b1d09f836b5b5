------------------------------ MODULE MCMemory ------------------------------
(* A small instance of SessionMemory for TLC.                              *)
EXTENDS SessionMemory

CONSTANTS a1, a2

\* a2 is an identifier like "crm.reader" where a1 is "crm".
MCAgentPattern ==
    [a \in MemoryAgents |-> IF a = a1 THEN {<<"own", a1>>, <<"own", a2>>} ELSE {<<"own", a>>}]
MCAbilityPattern == [c \in Abilities |-> {<<"shared", c>>}]
=============================================================================
