---------------------------- MODULE ProviderCall ----------------------------
(***************************************************************************)
(* One provider call: run_with_retry around an attempt, its clock, the     *)
(* delay before the next attempt, and what the attempts together billed.   *)
(* Times are seconds; a usage counter holds at most MaxCount.              *)
(***************************************************************************)
EXTENDS Usage

CONSTANTS
  AttemptTimes,   \* bound: how long an attempt or an overslept delay takes
  Reports         \* bound: the usage objects a provider sends

\* What the wire clients make of a usage object: counters, or that there were none
Usages == [prompt : Nat, completion : Nat, cached : Nat \cup {-1},
           evidence : {"measured", "partial"}] \cup {Unmetered}

ASSUME ProviderAssumption == AttemptTimes \subseteq Nat /\ Reports \subseteq Usages

VARIABLES
  rtAt,           \* attempting, waiting or done
  rtClock,        \* seconds since the call began
  rtAttempts,     \* attempts begun
  rtTimeout,      \* the timeout of this attempt
  rtStats,        \* retries, rate_limited
  rtSalvaged,     \* salvaged_usage
  rtOverflowed,   \* usage_overflowed
  rtUnreported,   \* saw_unreported_usage
  rtDelay,        \* the delay being slept
  rtLast,         \* the last failure
  rtBilled,       \* ghost: what the attempts reported, summed
  rtStarted,      \* ghost: when this attempt began
  rtResult        \* the answer or the error, with its usage

retryVars == <<rtAt, rtClock, rtAttempts, rtTimeout, rtStats, rtSalvaged, rtOverflowed,
               rtUnreported, rtDelay, rtLast, rtBilled, rtStarted, rtResult>>

\* RetryPolicy::DEFAULT and REQUEST_TIMEOUT
MaxAttempts == 4
Base == 2
MaxDelay == 20
TotalBudget == 45
RequestTimeout == 600

NoResult == [ok |-> "none"]

----------------------------------------------------------------------------
(* What is retried, and when.                                              *)

Retryable(outcome) == outcome \in {"network", "rate_limited", "unavailable"}

Lesser(a, b) == IF a < b THEN a ELSE b
Greater(a, b) == IF a > b THEN a ELSE b

\* The jitter takes the delay anywhere between half of it and all of it
Backoffs(index) ==
  LET computed == Lesser(Base * 2 ^ index, MaxDelay) IN {computed \div 2, computed}

\* next_delay; retryAfter -1 is no Retry-After
MUT_DelaysWithoutFloor(index, retryAfter, elapsed) ==
  IF index >= MaxAttempts - 1 THEN {}
  ELSE {d \in {Lesser(IF retryAfter < 0 THEN b ELSE retryAfter, b) : b \in Backoffs(index)} :
          elapsed + d < TotalBudget}
Delays(index, retryAfter, elapsed) ==
  IF index >= MaxAttempts - 1 THEN {}
  ELSE {d \in {Greater(retryAfter, b) : b \in Backoffs(index)} : elapsed + d < TotalBudget}

ProviderInit ==
  /\ rtAt = "attempting" /\ rtClock = 0
  /\ rtAttempts = 1 /\ rtTimeout = RequestTimeout
  /\ rtStats = [retries |-> 0, rateLimited |-> 0]
  /\ rtSalvaged = None /\ rtOverflowed = FALSE /\ rtUnreported = FALSE
  /\ rtDelay = 0 /\ rtLast = [outcome |-> "none", due |-> 0]
  /\ rtBilled = [prompt |-> 0, completion |-> 0, metered |-> FALSE, measured |-> TRUE]
  /\ rtStarted = 0
  /\ rtResult = NoResult

\* The sum of what the provider said, whatever the code makes of it
Bill(usage) ==
  LET metered == usage # None /\ usage # Unmetered IN
  rtBilled' = [prompt     |-> rtBilled.prompt + IF metered THEN usage.prompt ELSE 0,
               completion |-> rtBilled.completion + IF metered THEN usage.completion ELSE 0,
               metered    |-> rtBilled.metered \/ metered,
               measured   |-> rtBilled.measured /\ usage.evidence = "measured"]

Answered(ok, usage) == [ok |-> ok, usage |-> IF usage = Overflow THEN None ELSE usage]

\* The attempt is answered within its timeout
Takes == rtClock' \in {rtClock + t : t \in {s \in AttemptTimes : s < rtTimeout}}

MUT_SucceedWithoutUnknown(usage) ==
  rtResult' = Answered("yes", IF rtOverflowed THEN None ELSE Combine(rtSalvaged, usage))
\* A retry nobody metered makes the whole call partial; combine_success_usage
SuccessUsage(usage) ==
  LET salvaged == IF rtUnreported /\ rtSalvaged = None THEN Unmetered ELSE rtSalvaged
  IN rtResult' = Answered("yes", IF rtOverflowed THEN None ELSE Combine(salvaged, usage))

Succeed ==
  /\ rtAt = "attempting" /\ Takes
  /\ \E usage \in Reports \cup {None} :
       /\ Bill(usage)
       /\ SuccessUsage(usage)
  /\ rtAt' = "done"
  /\ UNCHANGED <<rtAttempts, rtTimeout, rtStats, rtSalvaged, rtOverflowed, rtUnreported,
                 rtDelay, rtLast, rtStarted>>

\* The accounting of a failed attempt
Salvage(usage) ==
  LET marked == IF usage # None /\ rtUnreported THEN MarkUnreported(usage) ELSE usage
      total  == IF usage # None THEN Merge(rtSalvaged, marked)
                ELSE IF rtSalvaged # None THEN MarkUnreported(rtSalvaged) ELSE None
  IN IF rtOverflowed THEN UNCHANGED <<rtSalvaged, rtOverflowed, rtUnreported>>
     ELSE /\ rtOverflowed' = (total = Overflow)
          /\ rtSalvaged' = IF total = Overflow THEN rtSalvaged ELSE total
          /\ rtUnreported' = (rtUnreported \/ usage = None)

\* Only a status that may be retried, or a body that does not parse, has its usage read
MayReport(outcome) == outcome \in {"rate_limited", "unavailable", "unreadable_answer"}

\* next_delay decides by the clock after the attempt
Fail(outcome) ==
  /\ rtAt = "attempting"
  /\ IF outcome = "timeout" THEN rtClock' = rtClock + rtTimeout ELSE Takes
  /\ \E usage \in (IF MayReport(outcome) THEN Reports ELSE {}) \cup {None},
        retryAfter \in IF outcome \in {"rate_limited", "unavailable"} THEN {-1, 30} ELSE {-1} :
       /\ Bill(usage)
       /\ Salvage(usage)
       /\ rtStats' = IF outcome = "rate_limited" THEN [rtStats EXCEPT !.rateLimited = @ + 1] ELSE rtStats
       /\ rtLast' = [outcome |-> outcome, due |-> rtClock' + retryAfter]
       /\ LET delays == IF Retryable(outcome)
                        THEN Delays(rtAttempts - 1, retryAfter, rtClock') ELSE {}
          IN \/ /\ rtDelay' \in delays /\ rtAt' = "waiting"
                /\ UNCHANGED rtResult
             \/ /\ delays = {} /\ rtAt' = "done"
                /\ rtResult' = Answered("no", IF rtOverflowed' THEN None ELSE rtSalvaged')
                /\ UNCHANGED rtDelay
  /\ UNCHANGED <<rtAttempts, rtTimeout, rtStarted>>

\* A sleep may take longer than it was asked to; an empty window makes no attempt
Wake ==
  /\ rtAt = "waiting"
  /\ \E late \in AttemptTimes : rtClock' = rtClock + rtDelay + late
  /\ IF rtClock' < TotalBudget
     THEN /\ rtAt' = "attempting" /\ rtAttempts' = rtAttempts + 1
          /\ rtTimeout' = TotalBudget - rtClock' /\ rtStarted' = rtClock'
          /\ rtStats' = [rtStats EXCEPT !.retries = @ + 1]
          /\ UNCHANGED rtResult
     ELSE /\ rtAt' = "done"
          /\ rtResult' = Answered("no", IF rtOverflowed THEN None ELSE rtSalvaged)
          /\ UNCHANGED <<rtAttempts, rtTimeout, rtStats, rtStarted>>
  /\ UNCHANGED <<rtSalvaged, rtOverflowed, rtUnreported, rtDelay, rtLast, rtBilled>>

ProviderNext ==
  \/ Succeed \/ Wake
  \/ \E outcome \in {"timeout", "network", "rate_limited", "unavailable", "rejected",
                     "unreadable_answer", "cut_answer"} : Fail(outcome)

ProviderSpec == ProviderInit /\ [][ProviderNext]_retryVars

----------------------------------------------------------------------------
(* Properties.                                                             *)

(* An attempt after the first begins inside the retry window, is stopped   *)
(* when the window ends, and follows a failure that cannot have been       *)
(* billed in full, no earlier than the provider asked for.                 *)
RetryObeysPolicy ==
  /\ rtAttempts <= MaxAttempts
  /\ rtAttempts > 1 =>
       /\ rtStarted + rtTimeout = TotalBudget /\ rtTimeout > 0
       /\ rtAt = "attempting" => Retryable(rtLast.outcome) /\ rtStarted >= rtLast.due

(* What the call says it cost is what its attempts reported: the exact sum *)
(* of the counters, measured only when every attempt was, and nothing at   *)
(* all rather than a number when they do not fit.                          *)
UsageIsHonest ==
  rtAt = "done" /\ rtResult.usage # None =>
    LET usage == rtResult.usage IN
      /\ usage.prompt = rtBilled.prompt /\ usage.completion = rtBilled.completion
      /\ Reported(usage) <=> rtBilled.metered
      /\ usage.evidence = "measured" <=> rtBilled.measured
============================================================================
