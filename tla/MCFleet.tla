------------------------------ MODULE MCFleet ------------------------------
(* Instances of the fleet for TLC. *)
EXTENDS FleetRefinement

EachMay(verdicts) == [t \in Task |-> verdicts]
PassOrFail  == EachMay({"pass", "fail"})
FailOrError == [t \in Task |-> IF t = 1 THEN {"fail"} ELSE {"pass", "error"}]
Passing     == EachMay({"pass"})

FirstTask   == {1}
============================================================================
