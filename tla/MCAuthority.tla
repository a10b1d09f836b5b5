----------------------------- MODULE MCAuthority -----------------------------
(* A small instance of Authority for TLC.                                  *)
EXTENDS Authority

CONSTANTS all, read

\* "payments:*" and "payments:read".
MCCovering == {<<s, s>> : s \in Scopes} \cup {<<all, read>>}

\* Bindings come and go by Rebind, the catalogue is left out.
MCAuthorityInit == AuthorityInit /\ CatalogueInit /\ cataloguing
MCAuthorityNext == AuthorityNext /\ UNCHANGED catalogueVars
mcAuthorityVars == <<authorityVars, catalogueVars>>

MCAuthoritySpec == MCAuthorityInit /\ [][MCAuthorityNext]_mcAuthorityVars
=============================================================================
