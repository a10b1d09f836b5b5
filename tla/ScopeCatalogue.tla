--------------------------- MODULE ScopeCatalogue ---------------------------
(***************************************************************************)
(* The vocabulary of scopes (core/scopes.py) and who holds which of it     *)
(* (core/persistence/scope_repository.py): the catalogue, the bindings an  *)
(* administrator authored for an agent's capability, and what agents asked *)
(* for that the catalogue did not have.  All are rows, written by threads  *)
(* of the admin API, by the command line and by registrations.              *)
(***************************************************************************)
EXTENDS Naturals

CONSTANTS
    Scopes,
    Covering        \* pairs of a scope and one that holding it permits

ASSUME CoveringAssumption ==
    /\ Covering \subseteq Scopes \X Scopes
    /\ \A s \in Scopes : <<s, s>> \in Covering
    /\ \A r, s, t \in Scopes :
          <<r, s>> \in Covering /\ <<s, t>> \in Covering => <<r, t>> \in Covering

VARIABLES
    cataloguing,    \* AGBUS_SCOPE_CATALOGUE_ENFORCED
    catalogue,      \* the names the coordinator recognises
    bindings,       \* the scopes bound to one capability
    binding,        \* a bind() under way, with the scope it found recognised
    excused,        \* history: names uncovered under a binding, see Remove
    requests        \* names asked for and not catalogued

catalogueVars == <<cataloguing, catalogue, bindings, binding, excused, requests>>

NotBinding == [scope |-> "none"]

CatalogueTypeOK ==
    /\ cataloguing \in BOOLEAN
    /\ {catalogue, bindings, excused, requests} \subseteq SUBSET Scopes
    /\ binding \in {NotBinding} \cup [scope : Scopes]

-----------------------------------------------------------------------------
(* core/scopes.py *)

Covers(granted, requested) == <<granted, requested>> \in Covering

CoveredByAny(granted, s) == \E g \in granted : Covers(g, s)

CatalogueInit ==
    /\ cataloguing \in BOOLEAN
    /\ catalogue = {} /\ bindings = {} /\ binding = NotBinding
    /\ excused = {} /\ requests = {}

-----------------------------------------------------------------------------
(* Administration *)

AddScope(s) ==
    /\ s \notin catalogue
    /\ catalogue' = catalogue \cup {s}
    /\ UNCHANGED <<cataloguing, bindings, binding, excused, requests>>

\* What a removal of s leaves bound and uncovered.
Uncovered(s) == {t \in bindings \ {s} : ~CoveredByAny(catalogue \ {s}, t)}

\* Slip: the name goes, the bindings that granted it stay.
RemoveName(s) ==
    /\ s \in catalogue
    /\ catalogue' = catalogue \ {s}
    /\ excused' = excused \cup Uncovered(s)
    /\ UNCHANGED <<cataloguing, bindings, binding, requests>>

\* The bindings of exactly this name go with it.  Those a wildcard covered
\* stay, and nothing may recognise them any more.
RemoveScope(s) ==
    /\ s \in catalogue
    /\ catalogue' = catalogue \ {s}
    /\ bindings' = bindings \ {s}
    /\ excused' = excused \cup Uncovered(s)
    /\ UNCHANGED <<cataloguing, binding, requests>>

\* bind() reads the catalogue and closes that transaction ...
BeginBind(s) ==
    /\ binding = NotBinding
    /\ CoveredByAny(catalogue, s)
    /\ binding' = [scope |-> s]
    /\ UNCHANGED <<cataloguing, catalogue, bindings, excused, requests>>

\* ... and writes in another.
FinishBind ==
    /\ binding # NotBinding
    /\ bindings' = bindings \cup {binding.scope}
    /\ excused' = IF CoveredByAny(catalogue, binding.scope) THEN excused
                  ELSE excused \cup {binding.scope}
    /\ binding' = NotBinding
    /\ UNCHANGED <<cataloguing, catalogue, requests>>

\* unbind, unbind_agent: of one scope or of all.
UnbindAll(removed) ==
    /\ removed \cap bindings # {}
    /\ bindings' = bindings \ removed
    /\ UNCHANGED <<cataloguing, catalogue, binding, excused, requests>>

ClearRequest(s) ==
    /\ s \in requests
    /\ requests' = requests \ {s}
    /\ UNCHANGED <<cataloguing, catalogue, bindings, binding, excused>>

-----------------------------------------------------------------------------
(* Registrations *)

\* ScopePolicy.resolve
Unrecognised(declared) == {s \in declared : ~CoveredByAny(catalogue, s)}

\* Of what an agent declares, names not recognised are added to the catalogue
\* or recorded as asked for.  Nothing is granted.
ResolveScopes(declared) ==
    /\ IF cataloguing
       THEN requests' = requests \cup Unrecognised(declared) /\ UNCHANGED catalogue
       ELSE catalogue' = catalogue \cup Unrecognised(declared) /\ UNCHANGED requests
    /\ UNCHANGED <<cataloguing, bindings, binding, excused>>

-----------------------------------------------------------------------------

CatalogueStep ==
    \/ \E s \in Scopes :
          AddScope(s) \/ RemoveScope(s) \/ BeginBind(s) \/ ClearRequest(s)
    \/ FinishBind
    \/ \E declared \in SUBSET Scopes : ResolveScopes(declared) \/ UnbindAll(declared)

CatalogueSpec == CatalogueInit /\ [][CatalogueStep]_catalogueVars

-----------------------------------------------------------------------------
(* Properties *)

\* A binding is to a name the catalogue recognises, unless a wildcard was
\* removed above it or a removal came between the two halves of bind().
BindingsCatalogued ==
    \A s \in bindings : CoveredByAny(catalogue, s) \/ s \in excused
=============================================================================
