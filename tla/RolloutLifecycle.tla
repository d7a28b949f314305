--------------------------- MODULE RolloutLifecycle ---------------------------
(***************************************************************************)
(* What the rollout engine promises, without agents, acknowledgements,     *)
(* timers or telemetry.  A rollout of a config passes its stages one at a  *)
(* time and ends in exactly one of two ways: the candidate has become the  *)
(* stable version, or it is withdrawn and the stable version is left as it *)
(* was.  At most one rollout of a config is under way.                     *)
(***************************************************************************)
EXTENDS Integers

CONSTANTS Configs, Versions, NoVersion, RolloutIds, StageCount

VARIABLES
    status,      \* of a rollout: none, staged, withdrawing, done or withdrawn
    step,        \* the stage a rollout has reached
    subject,     \* the config and candidate of a rollout that has begun
    stable       \* the stable version of each config

lifecycleVars == <<status, step, subject, stable>>

UnderWay(r) == status[r] \in {"staged", "withdrawing"}

Begin(r, c, v) ==
    /\ status[r] = "none"
    /\ \A q \in RolloutIds : UnderWay(q) => subject[q].config # c
    /\ stable[c] \notin {NoVersion, v}
    /\ status' = [status EXCEPT ![r] = "staged"]
    /\ step' = [step EXCEPT ![r] = 1]
    /\ subject' = [subject EXCEPT ![r] = [config |-> c, candidate |-> v]]
    /\ UNCHANGED stable

NextStage(r) ==
    /\ status[r] = "staged"
    /\ step[r] < StageCount
    /\ step' = [step EXCEPT ![r] = step[r] + 1]
    /\ UNCHANGED <<status, subject, stable>>

Complete(r) ==
    /\ status[r] = "staged"
    /\ step[r] = StageCount
    /\ status' = [status EXCEPT ![r] = "done"]
    /\ stable' = [stable EXCEPT ![subject[r].config] = subject[r].candidate]
    /\ UNCHANGED <<step, subject>>

Withdraw(r) ==
    /\ status[r] = "staged"
    /\ status' = [status EXCEPT ![r] = "withdrawing"]
    /\ UNCHANGED <<step, subject, stable>>

Withdrawn(r) ==
    /\ status[r] = "withdrawing"
    /\ status' = [status EXCEPT ![r] = "withdrawn"]
    /\ UNCHANGED <<step, subject, stable>>

\* An operator may publish a stable version at any time.
Publish(c, v) ==
    /\ stable' = [stable EXCEPT ![c] = v]
    /\ UNCHANGED <<status, step, subject>>

Move(r) == NextStage(r) \/ Complete(r) \/ Withdraw(r) \/ Withdrawn(r)

LifecycleInit ==
    /\ status = [r \in RolloutIds |-> "none"]
    /\ step = [r \in RolloutIds |-> 0]
    /\ subject = [r \in RolloutIds |-> NoVersion]
    /\ stable = [c \in Configs |-> NoVersion]

LifecycleNext ==
    \/ \E r \in RolloutIds :
          \/ \E c \in Configs, v \in Versions : Begin(r, c, v)
          \/ Move(r)
    \/ \E c \in Configs, v \in Versions : Publish(c, v)

LifecycleSafety == LifecycleInit /\ [][LifecycleNext]_lifecycleVars

\* A rollout that is under way keeps moving until it ends.
LifecycleSpec ==
    LifecycleSafety /\ \A r \in RolloutIds : WF_lifecycleVars(Move(r))
=============================================================================
