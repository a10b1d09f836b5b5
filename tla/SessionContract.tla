-------------------------- MODULE SessionContract --------------------------
(***************************************************************************)
(* What a session promises those outside it.  While it is open the         *)
(* requester is addressed until it is told that the session is dissolved;  *)
(* it gets at most one answer, and none after that.  A session ends once,  *)
(* only after the requester is no longer addressed, and is recorded in the *)
(* archive at most once, as it ends.  Session implements this.             *)
(***************************************************************************)
EXTENDS Integers

VARIABLES
  stage,      \* "none", "open" or "dissolved"
  mapped,     \* the requester is still addressed
  completes,  \* answers (COMPLETE) the requester was sent
  dissolves,  \* farewells (DISSOLVE) the requester was sent
  recorded    \* records of the session in the archive

vars == <<stage, mapped, completes, dissolves, recorded>>

Init == /\ stage = "none" /\ mapped = FALSE
        /\ completes = 0 /\ dissolves = 0 /\ recorded = 0

Open == /\ stage = "none"
        /\ stage' = "open" /\ mapped' = TRUE
        /\ UNCHANGED <<completes, dissolves, recorded>>

Answer == /\ stage = "open" /\ mapped /\ completes = 0
          /\ completes' = 1
          /\ UNCHANGED <<stage, mapped, dissolves, recorded>>

(* The farewell is lost when the requester's connection is.                *)
Farewell == /\ stage = "open" /\ mapped
            /\ mapped' = FALSE
            /\ dissolves' \in {0, 1}
            /\ UNCHANGED <<stage, completes, recorded>>

End == /\ stage = "open" /\ ~mapped
       /\ stage' = "dissolved"
       /\ recorded' \in {0, 1}
       /\ UNCHANGED <<mapped, completes, dissolves>>

Next == Open \/ Answer \/ Farewell \/ End

Spec == Init /\ [][Next]_vars
=============================================================================
