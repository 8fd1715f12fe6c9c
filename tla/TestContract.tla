---------------------------- MODULE TestContract ----------------------------
(***************************************************************************)
(* What a test of the suite promises the Tester and the next test: it may  *)
(* use the bed as it likes, but a test that is reported as passed hands    *)
(* the bed over clean, the verdict is only ever taken back, and once the   *)
(* test is over the bed gets no dirtier.                                   *)
(***************************************************************************)
VARIABLES
  stage,   \* "running", "cleaning" or "over"
  result,  \* "pass" or "fail"
  dirty    \* is anything of the test left on the bed?

contractVars == <<stage, result, dirty>>

ContractInit == stage = "running" /\ result = "fail" /\ dirty = FALSE

Use ==
  /\ stage = "running" /\ dirty' \in BOOLEAN
  /\ UNCHANGED <<stage, result>>

\* The call that ends the body may be one that dirties the bed.
Leave ==
  /\ stage = "running" /\ stage' = "cleaning"
  /\ result' \in {"pass", "fail"} /\ dirty' \in BOOLEAN

Clean ==
  /\ stage = "cleaning" /\ dirty' \in BOOLEAN
  /\ result' \in {result, "fail"} /\ UNCHANGED stage

Close ==
  /\ stage = "cleaning" /\ stage' = "over"
  /\ result = "pass" => ~dirty
  /\ UNCHANGED <<result, dirty>>

Abort ==
  /\ stage # "over" /\ stage' = "over"
  /\ result' = "fail" /\ UNCHANGED dirty

Settle ==
  /\ stage = "over" /\ dirty /\ ~dirty'
  /\ UNCHANGED <<stage, result>>

ContractNext == Use \/ Leave \/ Clean \/ Close \/ Abort \/ Settle

ContractSpec == ContractInit /\ [][ContractNext]_contractVars
=============================================================================
