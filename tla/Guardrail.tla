------------------------------ MODULE Guardrail ------------------------------
(***************************************************************************)
(* The guardrail package: how one telemetry sample turns into a status, and *)
(* how the statuses of all the rules of a rollout are combined.            *)
(*                                                                         *)
(* A rule is identified by its name, as the failure counters of a rollout  *)
(* are (GuardrailFailures is keyed by rule.Name).  A sample is what the    *)
(* query followed by Compare tells about the rule: the value satisfies the *)
(* threshold, violates it, or there is no usable value (query error, empty *)
(* or multiple series, NaN, infinity, no queryer configured).              *)
(***************************************************************************)
EXTENDS Integers

CONSTANTS
    Rules,                \* names of guardrail rules
    ConsecutiveFailures   \* Rule.ConsecutiveFailures, 0 when not given

ASSUME GuardrailAssumption == ConsecutiveFailures \in [Rules -> Nat]

Samples  == {"SATISFIED", "VIOLATED", "NO_VALUE"}
Statuses == {"HEALTHY", "UNHEALTHY", "UNKNOWN"}

requiredFailures(rule) ==
    IF ConsecutiveFailures[rule] = 0 THEN 1 ELSE ConsecutiveFailures[rule]

\* Mutant: a good sample takes one failure back instead of resetting.
FailuresAfterDecrement(sample, previousFailures) ==
    CASE sample = "SATISFIED" -> previousFailures - 1
      [] sample = "NO_VALUE"  -> previousFailures
      [] sample = "VIOLATED"  -> previousFailures + 1

\* The counter after one evaluation: reset by a good sample, kept when there
\* is no value, incremented by a violation.
FailuresAfter(sample, previousFailures) ==
    CASE sample = "SATISFIED" -> 0
      [] sample = "NO_VALUE"  -> previousFailures
      [] sample = "VIOLATED"  -> previousFailures + 1

\* Mutant: one violation too many is tolerated.
StatusAfterStrict(rule, sample, previousFailures) ==
    CASE sample = "NO_VALUE"  -> "UNKNOWN"
      [] sample = "SATISFIED" -> "HEALTHY"
      [] sample = "VIOLATED"  ->
            IF previousFailures + 1 > requiredFailures(rule)
            THEN "UNHEALTHY" ELSE "HEALTHY"

\* A violation below the consecutive-failure threshold still reads HEALTHY.
StatusAfter(rule, sample, previousFailures) ==
    CASE sample = "NO_VALUE"  -> "UNKNOWN"
      [] sample = "SATISFIED" -> "HEALTHY"
      [] sample = "VIOLATED"  ->
            IF previousFailures + 1 >= requiredFailures(rule)
            THEN "UNHEALTHY" ELSE "HEALTHY"

\* Mutant: one healthy rule hides the others that have no value.
AggregateStatusAnyHealthy(statuses) ==
    IF "UNHEALTHY" \in statuses THEN "UNHEALTHY"
    ELSE IF "HEALTHY" \in statuses THEN "HEALTHY" ELSE "UNKNOWN"

AggregateStatus(statuses) ==
    IF "UNHEALTHY" \in statuses THEN "UNHEALTHY"
    ELSE IF "UNKNOWN" \in statuses THEN "UNKNOWN" ELSE "HEALTHY"
=============================================================================
