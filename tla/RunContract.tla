---------------------------- MODULE RunContract ----------------------------
(***************************************************************************)
(* What the run of a graph promises the session it is a part of.  It is    *)
(* put to the gate once, and goes through it only while the session is     *)
(* open; nothing is sent to an agent before the gate, after a refusal, or  *)
(* once the run is over.  It reports at most once, whatever happens to the *)
(* session meanwhile, and a report of success says that the agents of all  *)
(* steps that can be run have answered.  Execution implements this.        *)
(***************************************************************************)
EXTENDS Naturals

CONSTANT Workers    \* agents that can run steps

VARIABLES
  live,       \* the session is there
  stepsOf,    \* agents with a step in the graph
  run,        \* "gate", "running", "reported" or "lost"
  report,     \* the status reported
  dispatched, \* EXECUTEs sent, or tried
  answered    \* agents with an answer among the results

vars == <<live, stepsOf, run, report, dispatched, answered>>

Init == /\ live = TRUE /\ stepsOf \subseteq Workers
        /\ run = "gate" /\ report = "none"
        /\ dispatched = 0 /\ answered = {}

Refuse == /\ run = "gate"
          /\ run' = "reported" /\ report' = "denied"
          /\ UNCHANGED <<live, stepsOf, dispatched, answered>>

Start == /\ run = "gate" /\ live
         /\ run' = "running"
         /\ UNCHANGED <<live, stepsOf, report, dispatched, answered>>

(* The handler ends with an exception, and there is no report.             *)
Lose == /\ run = "running" \/ (run = "gate" /\ ~live)
        /\ run' = "lost"
        /\ UNCHANGED <<live, stepsOf, report, dispatched, answered>>

Send == /\ run = "running"
        /\ dispatched' = dispatched + 1
        /\ UNCHANGED <<live, stepsOf, run, report, answered>>

(* An agent's result is kept.                                              *)
Answer == /\ run = "running"
          /\ \E a \in stepsOf : answered' = answered \cup {a}
          /\ UNCHANGED <<live, stepsOf, run, report, dispatched>>

(* A result is refused for good, or all are dropped for a new run.         *)
Drop == /\ run = "running"
        /\ answered' \in {{}} \cup {answered \ {a} : a \in answered}
        /\ UNCHANGED <<live, stepsOf, run, report, dispatched>>

Report == /\ run = "running"
          /\ run' = "reported"
          /\ report' \in {"partial_failure", "error"} \cup
                         (IF stepsOf \subseteq answered THEN {"success"} ELSE {})
          /\ UNCHANGED <<live, stepsOf, dispatched, answered>>

Leave == /\ live /\ live' = FALSE
         /\ UNCHANGED <<stepsOf, run, report, dispatched, answered>>

Next == Refuse \/ Start \/ Lose \/ Send \/ Answer \/ Drop \/ Report \/ Leave

Spec == Init /\ [][Next]_vars
=============================================================================
