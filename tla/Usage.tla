------------------------------- MODULE Usage -------------------------------
(***************************************************************************)
(* The tokens a provider bills (nh-core wire.rs, wire/retry.rs): counters, *)
(* and how far they can be trusted once several calls are added up.        *)
(***************************************************************************)
EXTENDS Integers

CONSTANT MaxCount   \* u64::MAX

None == [evidence |-> "none"]
Unmetered == [prompt |-> 0, completion |-> 0, cached |-> -1, evidence |-> "unknown"]
Reported(usage) == usage.evidence # "unknown"

CombinedEvidence(a, b) == IF a = b THEN a ELSE "partial"

\* checked_add_assign; what does not fit the counters overflows
Fits(a, b) ==
  Reported(a) /\ Reported(b) =>
    /\ a.prompt + b.prompt <= MaxCount /\ a.completion + b.completion <= MaxCount
    /\ a.cached >= 0 /\ b.cached >= 0 => a.cached + b.cached <= MaxCount

Added(a, b) ==
  LET sum == IF Reported(a) /\ Reported(b)
             THEN [prompt |-> a.prompt + b.prompt, completion |-> a.completion + b.completion,
                   cached |-> IF a.cached >= 0 /\ b.cached >= 0 THEN a.cached + b.cached ELSE -1]
             ELSE LET kept == IF Reported(a) THEN a ELSE IF Reported(b) THEN b ELSE Unmetered
                  IN [prompt |-> kept.prompt, completion |-> kept.completion, cached |-> kept.cached]
  IN [prompt |-> sum.prompt, completion |-> sum.completion, cached |-> sum.cached,
      evidence |-> CombinedEvidence(a.evidence, b.evidence)]

MarkUnreported(usage) ==
  IF usage.evidence = "measured" THEN [usage EXCEPT !.evidence = "partial"] ELSE usage

\* merge_usage and combine_usage, with "overflow" where they refuse
Overflow == [evidence |-> "overflow"]
Merge(total, next) ==
  IF total = None THEN next ELSE IF Fits(total, next) THEN Added(total, next) ELSE Overflow

Combine(first, second) ==
  IF second # None THEN Merge(first, second)
  ELSE IF first = None THEN None ELSE MarkUnreported(first)
=============================================================================
