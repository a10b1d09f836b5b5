----------------------------- MODULE Governance -----------------------------
(***************************************************************************)
(* One evaluation of an intention by the IBAC engine (core/ibac/engine.py): *)
(* the invariants over derived facts, the grounded rules, the model that   *)
(* reads the rules' prose, and the combination of the three.  The rules    *)
(* are rows an administrator changes at any time, also between the two     *)
(* reads of an evaluation and while the model is asked.                     *)
(*                                                                         *)
(* What a rule's words and filters say of the request is part of the rule: *)
(* strings are not modelled.                                                *)
(***************************************************************************)
EXTENDS Naturals

CONSTANTS
    Ranks,          \* priorities, each held by one enabled rule or none
    RuleShapes      \* the rules an administrator may write

Decisions == {"deny", "human", "scoped", "allow"}
Permitted == {"scoped", "allow"}        \* permits_execution

\* point: the rule is for this evaluation point.  words: no keywords and
\* patterns, one that matches the intent's text, or only others.  filtered: an
\* agent, scope, domain or max_agents condition hits.
Rules == [point : BOOLEAN, action : {"deny", "allow"}, human : BOOLEAN,
          words : {"none", "hit", "miss"}, filtered : BOOLEAN]
NoRule == [point |-> FALSE]

ASSUME RanksAssumption == Ranks \subseteq Nat
ASSUME ShapesAssumption == RuleShapes \subseteq Rules

\* breach: an impersonated sender, or restricted material leaving the tenant.
\* refused: an in-memory policy denies.  text: the request has intent text.
Requests == [breach : BOOLEAN, refused : BOOLEAN, text : BOOLEAN]

VARIABLES
    rules,          \* the enabled rule of each priority
    point,          \* where the evaluation is
    asked,          \* the request
    grounded,       \* the outcome of the grounded layer
    verdict,        \* what became of the semantic layer
    decision,
    readable,       \* history: the grounded layer could read the rules
    unwritten    \* history: priorities not written since the evaluation began

governanceVars == <<rules, point, asked, grounded, verdict, decision, readable, unwritten>>

Verdicts == Decisions \cup {"pending", "no rules", "failed"}

GovernanceTypeOK ==
    /\ rules \in [Ranks -> RuleShapes \cup {NoRule}]
    /\ point \in {"idle", "grounded", "asking", "decided"}
    /\ asked \in Requests
    /\ {grounded, decision} \subseteq Decisions
    /\ verdict \in Verdicts
    /\ readable \in BOOLEAN
    /\ unwritten \subseteq Ranks

GovernanceInit ==
    /\ rules = [i \in Ranks |-> NoRule]
    /\ point = "idle" /\ verdict = "pending"
    /\ asked = [breach |-> FALSE, refused |-> FALSE, text |-> FALSE]
    /\ grounded = "allow" /\ decision = "deny"
    /\ readable = TRUE /\ unwritten = {}

-----------------------------------------------------------------------------
(* The layers *)

Invariants(req) == IF req.breach THEN "deny" ELSE "allow"

\* _evaluate_rule.  A rule that asks for a person does not deny by its words,
\* and flags every intent if it has no words.
Denies(r, req) ==
    /\ r.point /\ r.action = "deny"
    /\ r.filtered \/ (r.words = "hit" /\ req.text /\ ~r.human)

Flags(r, req) ==
    /\ r.point /\ r.human /\ req.text
    /\ r.words \in {"none", "hit"}

Speaks(r, req) == r # NoRule /\ (Denies(r, req) \/ Flags(r, req))

\* evaluate: policies, then the rules by priority.  The first outcome counts.
Grounded(rs, req) ==
    LET speaking == {i \in DOMAIN rs : Speaks(rs[i], req)}
        first == CHOOSE i \in speaking : \A j \in speaking : i <= j
    IN  IF req.refused THEN "deny"
        ELSE IF speaking = {} THEN "allow"
        ELSE IF Denies(rs[first], req) THEN "deny" ELSE "human"

Applicable == {i \in Ranks : rules[i] # NoRule /\ rules[i].point}

\* _evaluate_semantic: an answer that asks for a person on the side is one
\* that asks for a person, and anything but an answer denies.
Semantic(v) ==
    IF v \in Decisions THEN v ELSE IF v = "no rules" THEN "allow" ELSE "deny"

Strictness == [deny |-> 1, human |-> 2, scoped |-> 3, allow |-> 4]

\* Slip: unless there is a breach the model's answer decides.
ModelDecides(layers) == IF layers[1] = "deny" THEN "deny" ELSE layers[3]

\* _combine: the strictest.
Combine(layers) ==
    LET i == CHOOSE i \in DOMAIN layers :
                 \A j \in DOMAIN layers : Strictness[layers[i]] <= Strictness[layers[j]]
    IN  layers[i]

-----------------------------------------------------------------------------

\* add, update, delete: a rule is written, enabled or not.
WriteRule(i, r) ==
    /\ rules[i] # r
    /\ rules' = [rules EXCEPT ![i] = r]
    /\ unwritten' = unwritten \ {i}
    /\ UNCHANGED <<point, asked, grounded, verdict, decision, readable>>

\* An administrator's request is one such transaction.
AdministerRules == \E i \in Ranks, r \in RuleShapes \cup {NoRule} : WriteRule(i, r)

\* The grounded layer takes rules it cannot read for none: it drops out.
Evaluate(req, read) ==
    /\ point \in {"idle", "decided"}
    /\ point' = "grounded" /\ asked' = req /\ verdict' = "pending"
    /\ grounded' = IF read THEN Grounded(rules, req) ELSE Grounded(<<>>, req)
    /\ readable' = read /\ unwritten' = Ranks
    /\ decision' = "deny"
    /\ UNCHANGED rules

Decide(v) ==
    /\ verdict' = v /\ point' = "decided"
    /\ decision' = Combine(<<Invariants(asked), grounded, Semantic(v)>>)

\* The semantic layer reads the rules again; there may be no model to ask.
LoadRules ==
    /\ point = "grounded"
    /\ IF Applicable = {}
       THEN Decide("no rules")
       ELSE \/ point' = "asking" /\ UNCHANGED <<verdict, decision>>
            \/ Decide("failed")
    /\ UNCHANGED <<rules, asked, grounded, readable, unwritten>>

LoadFails ==
    /\ point = "grounded"
    /\ Decide("failed")
    /\ UNCHANGED <<rules, asked, grounded, readable, unwritten>>

\* The model answers, or the call or its answer is of no use.
ModelAnswers(v) ==
    /\ point = "asking"
    /\ Decide(v)
    /\ UNCHANGED <<rules, asked, grounded, readable, unwritten>>

GovernanceNext ==
    \/ AdministerRules
    \/ \E req \in Requests, read \in BOOLEAN : Evaluate(req, read)
    \/ LoadRules \/ LoadFails
    \/ \E v \in Decisions \cup {"failed"} : ModelAnswers(v)

GovernanceSpec == GovernanceInit /\ [][GovernanceNext]_governanceVars

-----------------------------------------------------------------------------
(* Properties *)

\* An intention is let through only if no layer stood in its way: no breach, no
\* policy, no failure to read the rules or to get an answer in the semantic
\* layer, and, where a rule that was there throughout is for this point at all,
\* with the model's consent; such a rule speaks against the intention only if
\* the grounded layer dropped out, which is not what the code says (see
\* UnreadableDenies).  A rule of higher priority and a rule written meanwhile do
\* not change that.
AllowedIsClear ==
    point = "decided" /\ decision \in Permitted =>
        /\ ~asked.breach /\ ~asked.refused
        /\ verdict \notin {"failed", "pending"}
        /\ \A i \in unwritten :
              rules[i] # NoRule /\ rules[i].point =>
                  /\ verdict \in Permitted
                  /\ Speaks(rules[i], asked) => ~readable

\* What the code says of itself and does not do; see the README.

\* An evaluation that could not read the rules denies ("an unreadable rule store
\* [...] denies"), above all if one of them speaks against the intention.
UnreadableDenies ==
    point = "decided" /\ ~readable /\ (\E i \in unwritten : Speaks(rules[i], asked)) =>
        decision \notin Permitted
=============================================================================
