--------------------------- MODULE MCRolloutService ---------------------------
(* Values of the constants of RolloutService for TLC. *)
EXTENDS RolloutService

CONSTANTS a1   \* the agent whose bucket is in the first stage

MCBucketOf == [k \in Configs \X Versions \X Agents |-> IF k[3] = a1 THEN 100 ELSE 9000]
MCStagePlan == <<[percentage |-> 50, minimumDuration |-> 0],
                 [percentage |-> 100, minimumDuration |-> 1]>>
MCConsecutiveFailures == [rule \in Rules |-> 2]
MCOneService  == {{}, Services}
MCGuardrails   == {{}, Rules}
=============================================================================
