---------------------------- MODULE MCGovernance ----------------------------
(* A small instance of Governance for TLC.                                 *)
EXTENDS Governance

Rule(p, action, h, w, f) ==
    [point |-> p, action |-> action, human |-> h, words |-> w, filtered |-> f]
MCRules == {Rule(TRUE, "deny", FALSE, "hit", FALSE), Rule(TRUE, "deny", TRUE, "none", FALSE),
            Rule(TRUE, "deny", TRUE, "miss", TRUE), Rule(TRUE, "allow", FALSE, "none", TRUE),
            Rule(FALSE, "deny", FALSE, "hit", TRUE)}
=============================================================================
