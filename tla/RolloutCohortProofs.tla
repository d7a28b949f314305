------------------------- MODULE RolloutCohortProofs -------------------------
(***************************************************************************)
(* Cohorts of later stages, and of a rollback, contain the cohorts before  *)
(* them, as far as their agents keep their registration.                   *)
(*                                                                         *)
(* Nesting by itself does not say why an agent that was chosen once will   *)
(* be chosen again.  The invariant adds it: an agent of a cohort passes    *)
(* the rollout's service filter for good, and its bucket lies below the    *)
(* percentage of the stage, which the plan only raises.                    *)
(***************************************************************************)
EXTENDS RolloutSafetyProofs

Bucket(ro, a) == BucketOf[<<ro.config, ro.candidate, a>>]

\* The agents that BuildStageTargets chooses.
Chosen(ro, i) ==
    {a \in filterAgents(ro.services) : Eligible(Bucket(ro, a), StagePlan[i].percentage)}

\* An agent that keeps its registration and is in the cohort of a stage would be
\* chosen for that stage again.
StationaryChosen ==
    \A r \in RolloutIds, i \in StageIndexes :
        Exists(r) /\ i <= rollouts[r].index =>
            targets[r][i].agents \ RoamingAgents \subseteq Chosen(rollouts[r], i)

LEMMA PendingRowsAgents ==
    ASSUME NEW S, NEW v, NEW n
    PROVE  PendingRows(S, v, n).agents = S
BY DEF PendingRows, NoTargets

LEMMA BuildStageTargetsAgents ==
    ASSUME NEW ro, NEW i, NEW n
    PROVE  BuildStageTargets(ro, i, n).agents = Chosen(ro, i)
BY PendingRowsAgents DEF BuildStageTargets, Chosen, Bucket

\* A bucket below one percentage of the plan is below every later one.
LEMMA EligibleGrows ==
    ASSUME NEW ro \in Rollout, NEW a \in Agents,
           NEW i \in StageIndexes, NEW j \in StageIndexes, i <= j,
           Eligible(Bucket(ro, a), StagePlan[i].percentage)
    PROVE  Eligible(Bucket(ro, a), StagePlan[j].percentage)
<1>1. <<ro.config, ro.candidate, a>> \in Configs \X Versions \X Agents
  BY DEF Rollout
<1>2. Bucket(ro, a) \in 0..(BucketCount - 1)
  BY <1>1, NameAssumption DEF Bucket
<1>3. StagePlan[i].percentage \in 1..100 /\ StagePlan[j].percentage \in 1..100
  BY PlanAssumption DEF ValidateStagePlan
<1>4. i = j \/ StagePlan[i].percentage < StagePlan[j].percentage
  <2>1. i = j \/ i < j
    BY DEF StageIndexes
  <2> QED
    BY <2>1, PlanAssumption DEF ValidateStagePlan
<1>5. \A b \in 0..(BucketCount - 1), m, n \in 1..100 :
         m < n /\ Eligible(b, m) => Eligible(b, n)
  BY DEF Eligible, BucketCount
<1> QED
  BY <1>2, <1>3, <1>4, <1>5

LEMMA ChosenGrows ==
    ASSUME NEW ro \in Rollout, NEW i \in StageIndexes, NEW j \in StageIndexes, i <= j
    PROVE  Chosen(ro, i) \subseteq Chosen(ro, j)
BY EligibleGrows DEF Chosen, filterAgents

\* Register leaves a stationary agent under the service it has.
LEMMA StationaryStays ==
    ASSUME TypeOK, [Next]_vars, NEW a \in Agents \ RoamingAgents, agentService[a] # Elsewhere
    PROVE  agentService'[a] = agentService[a]
<1>1. ASSUME NEW b \in Agents, NEW service \in Services \cup {Elsewhere}, Register(b, service)
      PROVE  agentService'[a] = agentService[a]
  BY <1>1 DEF Register, TypeOK
<1>2. ASSUME NEW r \in RolloutIds, NEW tg, advance(r, tg)
      PROVE  agentService'[a] = agentService[a]
  BY <1>2 DEF advance
<1> QED
  BY <1>1, <1>2 DEF Next, vars, CreateRollout, Acknowledge, reconcileRollout,
     SetStableVersion, TelemetryChanges, Tick

\* Whom BuildStageTargets would choose for the rollout a step leaves behind,
\* before the step and after it.
LEMMA ChosenStays ==
    ASSUME TypeOK, [Next]_vars, NEW r \in RolloutIds, NEW i
    PROVE  Chosen(rollouts'[r], i) \ RoamingAgents \subseteq Chosen(rollouts[r], i)'
<1>1. SUFFICES ASSUME NEW a \in Chosen(rollouts'[r], i) \ RoamingAgents
               PROVE  a \in Chosen(rollouts[r], i)'
  OBVIOUS
<1>2. a \in Agents \ RoamingAgents /\ agentService[a] # Elsewhere
  BY DEF Chosen, filterAgents
<1>3. agentService'[a] = agentService[a]
  BY <1>2, StationaryStays
<1> QED
  BY <1>2, <1>3 DEF Chosen, Bucket, filterAgents

-----------------------------------------------------------------------------
(* The steps *)

\* It is enough to look at the cohorts a step leaves with the eyes of the
\* registry as it was before the step.
LEMMA ChosenBefore ==
    ASSUME TypeOK, [Next]_vars,
           \A r \in RolloutIds, i \in StageIndexes :
              Exists(r)' /\ i <= rollouts'[r].index =>
                 targets'[r][i].agents \ RoamingAgents \subseteq Chosen(rollouts'[r], i)
    PROVE  StationaryChosen'
<1> SUFFICES ASSUME NEW r \in RolloutIds, NEW i \in StageIndexes, Exists(r)',
                    i <= rollouts'[r].index
             PROVE  targets'[r][i].agents \ RoamingAgents \subseteq Chosen(rollouts[r], i)'
  BY DEF StationaryChosen
<1> QED
  BY ChosenStays

LEMMA CreationNests ==
    ASSUME TypeOK, StationaryChosen, StationaryCohortsNested, [Next]_vars,
           NEW p \in RolloutIds, NEW ro \in Rollout, Creation(p, ro)
    PROVE  StationaryChosen' /\ StationaryCohortsNested'
<1>1. /\ rollouts'[p] = ro /\ ro.index = 1 /\ ro.stage = 1
      /\ targets'[p][1] = BuildStageTargets(ro, 1, nextRevision)
      /\ \A r \in RolloutIds \ {p} : rollouts'[r] = rollouts[r] /\ targets'[r] = targets[r]
  BY StageFacts DEF Creation, TypeOK
<1>2. ASSUME NEW r \in RolloutIds, NEW i \in StageIndexes, Exists(r)',
             i <= rollouts'[r].index
      PROVE  targets'[r][i].agents \ RoamingAgents \subseteq Chosen(rollouts'[r], i)
  <2>1. CASE r = p
    <3>1. i = 1
      BY <1>1, <1>2, <2>1 DEF StageIndexes
    <3> QED
      BY <1>1, <2>1, <3>1, BuildStageTargetsAgents
  <2>2. CASE r # p
    BY <1>1, <1>2, <2>2 DEF StationaryChosen, Exists
  <2> QED
    BY <2>1, <2>2
<1>3. StationaryChosen'
  BY <1>2, ChosenBefore
<1>4. StationaryCohortsNested'
  <2> SUFFICES ASSUME NEW r \in RolloutIds, NEW i \in StageIds, NEW s \in StageIds,
                      Activated(r, s)', i <= rollouts'[r].index, i < s
               PROVE  targets'[r][i].agents \ RoamingAgents \subseteq targets'[r][s].agents
    BY DEF StationaryCohortsNested
  <2>1. CASE r = p
    BY <1>1, <2>1 DEF Activated, StageIds
  <2>2. CASE r # p
    BY <1>1, <2>2 DEF StationaryCohortsNested, Activated, Exists
  <2> QED
    BY <2>1, <2>2
<1> QED
  BY <1>3, <1>4

\* The cohorts after a visit: the old ones, and the one that was written.
LEMMA VisitCohorts ==
    ASSUME TypeOK, StageConsistent, NEW p \in RolloutIds, NEW new \in Rollout,
           NEW tg \in TargetStore, Visit(p, new, tg)
    PROVE  /\ \A i \in StageIds :
                 i <= rollouts[p].index \/ (i = rollouts[p].stage)
                    => targets'[p][i].agents = targets[p][i].agents
           /\ MovedOn(p, new, tg) =>
                 targets'[p][new.index].agents = Chosen(new, new.index)
           /\ Withdrawn(p, new, tg) =>
                 targets'[p][Verification].agents = targets[p][rollouts[p].index].agents
<1>1. /\ Exists(p) /\ ~Terminal(rollouts[p].state) /\ rollouts[p] \in Rollout
  BY DEF Visit, Active, Exists, TypeOK
<1>2. /\ rollouts[p].index \in StageIndexes /\ rollouts[p].stage \in StageIds
      /\ rollouts[p].index \in StageIds
  BY <1>1, StageFacts DEF Rollout
<1>3. \A i \in StageIds : tg[p][i].agents = targets[p][i].agents
  BY DEF Visit, AcksAdded
<1>4. CASE Completed(p, new, tg) \/ Stayed(p, new, tg)
  <2>1. targets' = tg /\ ~MovedOn(p, new, tg) /\ ~Withdrawn(p, new, tg)
    BY <1>1, <1>2, <1>4 DEF Completed, Stayed, MovedOn, Withdrawn, StageIndexes
  <2> QED
    BY <1>3, <2>1
<1>5. CASE MovedOn(p, new, tg)
  <2>1. new.index \in StageIds /\ ~Withdrawn(p, new, tg)
    BY <1>5, StageFacts DEF MovedOn, Withdrawn
  <2>2. rollouts[p].stage = rollouts[p].index
    BY <1>1, <1>5 DEF StageConsistent, MovedOn, Terminal
  <2>3. \A i \in StageIds :
           targets'[p][i] = IF i = new.index
                            THEN BuildStageTargets(new, new.index, nextRevision)
                            ELSE tg[p][i]
    BY <1>5, <2>1 DEF MovedOn, TargetStore
  <2>4. new.index = rollouts[p].index + 1
    BY <1>5 DEF MovedOn
  <2> QED
    BY <1>2, <1>3, <2>1, <2>2, <2>3, <2>4, BuildStageTargetsAgents DEF StageIndexes, StageIds
<1>6. CASE Withdrawn(p, new, tg)
  <2>1. ~MovedOn(p, new, tg) /\ rollouts[p].stage # Verification
    BY <1>6 DEF MovedOn, Withdrawn
  <2>2. rollouts[p].stage = rollouts[p].index
    BY <1>1, <2>1 DEF StageConsistent
  <2>3. \A i \in StageIds :
           targets'[p][i] =
              IF i = Verification
              THEN VerificationTargets(new, tg[p][rollouts[p].stage], nextRevision)
              ELSE tg[p][i]
    BY <1>6, StageFacts DEF Withdrawn, TargetStore
  <2>4. targets'[p][Verification].agents = targets[p][rollouts[p].index].agents
    BY <1>2, <1>3, <2>2, <2>3, StageFacts, PendingRowsAgents DEF VerificationTargets
  <2> QED
    BY <1>2, <1>3, <2>1, <2>2, <2>3, <2>4 DEF StageIndexes, Verification
<1> QED
  BY <1>4, <1>5, <1>6 DEF Visit

LEMMA VisitNests ==
    ASSUME TypeOK, StageConsistent, StationaryChosen, StationaryCohortsNested, [Next]_vars,
           NEW p \in RolloutIds, NEW new \in Rollout, NEW tg \in TargetStore,
           Visit(p, new, tg)
    PROVE  StationaryChosen' /\ StationaryCohortsNested'
<1>1. /\ Exists(p) /\ ~Terminal(rollouts[p].state) /\ rollouts[p] \in Rollout
      /\ rollouts'[p] = new /\ SameSubject(new, rollouts[p])
  BY DEF Visit, Active, Exists, TypeOK
<1>2. \A r \in RolloutIds \ {p} : rollouts'[r] = rollouts[r] /\ targets'[r] = targets[r]
  BY OthersUntouched
<1> DEFINE k == rollouts[p].index
<1>3. k \in StageIndexes /\ k \in StageIds /\ new.index \in StageIndexes
  BY <1>1, StageFacts DEF Rollout
<1>4. \A i \in StageIds : i <= k \/ i = rollouts[p].stage
                            => targets'[p][i].agents = targets[p][i].agents
  BY VisitCohorts
<1>5. \A i \in StageIndexes : Chosen(new, i) = Chosen(rollouts[p], i)
  BY <1>1 DEF Chosen, Bucket, SameSubject
<1>6. \/ MovedOn(p, new, tg) /\ new.index = k + 1 /\ new.stage = k + 1
      \/ ~MovedOn(p, new, tg) /\ new.index = k
  BY DEF Visit, Completed, MovedOn, Stayed, Withdrawn
\* Each cohort, old or new, against what BuildStageTargets would choose.
<1>7. ASSUME NEW r \in RolloutIds, NEW i \in StageIndexes, Exists(r)',
             i <= rollouts'[r].index
      PROVE  targets'[r][i].agents \ RoamingAgents \subseteq Chosen(rollouts'[r], i)
  <2>1. CASE r # p
    BY <1>2, <1>7, <2>1 DEF StationaryChosen, Exists
  <2>2. CASE r = p /\ i <= k
    <3>1. targets'[p][i].agents = targets[p][i].agents
      BY <1>4, <2>2, StageFacts
    <3>2. targets[p][i].agents \ RoamingAgents \subseteq Chosen(rollouts[p], i)
      BY <1>1, <2>2 DEF StationaryChosen
    <3> QED
      BY <1>1, <1>5, <2>2, <3>1, <3>2
  <2>3. CASE r = p /\ ~(i <= k)
    <3>1. MovedOn(p, new, tg) /\ i = new.index
      BY <1>1, <1>3, <1>6, <1>7, <2>3 DEF StageIndexes
    <3> QED
      BY <1>1, <2>3, <3>1, VisitCohorts
  <2> QED
    BY <2>1, <2>2, <2>3
<1>8. StationaryChosen'
  BY <1>7, ChosenBefore
<1>9. StationaryCohortsNested'
  <2> SUFFICES ASSUME NEW r \in RolloutIds, NEW i \in StageIds, NEW s \in StageIds,
                      Activated(r, s)', i <= rollouts'[r].index, i < s
               PROVE  targets'[r][i].agents \ RoamingAgents \subseteq targets'[r][s].agents
    BY DEF StationaryCohortsNested
  <2>1. CASE r # p
    BY <1>2, <2>1 DEF StationaryCohortsNested, Activated, Exists
  <2>2. CASE r = p /\ (s <= k \/ s = rollouts[p].stage)
    <3>1. i <= k
      BY <1>1, <1>3, <1>6, <2>2, StageFacts
      DEF StageIndexes, StageIds, StageConsistent, MovedOn, Terminal
    <3>2. /\ targets'[p][i].agents = targets[p][i].agents
          /\ targets'[p][s].agents = targets[p][s].agents
      BY <1>4, <2>2, <3>1
    <3> QED
      BY <1>1, <2>2, <3>1, <3>2 DEF StationaryCohortsNested, Activated
  <2>3. CASE r = p /\ ~(s <= k \/ s = rollouts[p].stage)
    <3>1. CASE MovedOn(p, new, tg)
      <4>1. s = new.index /\ i <= k /\ i \in StageIndexes
        BY <1>1, <1>3, <1>6, <2>3, <3>1 DEF Activated, StageIds, StageIndexes
      <4>2. targets'[p][i].agents \ RoamingAgents \subseteq Chosen(new, i)
        BY <1>1, <1>7, <2>3, <4>1 DEF Activated
      <4>3. Chosen(new, i) \subseteq Chosen(new, s)
        BY <1>3, <4>1, ChosenGrows DEF StageIds
      <4> QED
        BY <2>3, <3>1, <4>1, <4>2, <4>3, VisitCohorts
    <3>2. CASE ~MovedOn(p, new, tg)
      <4>1. i <= k /\ s = new.stage /\ s # rollouts[p].stage
        BY <1>1, <1>6, <2>3, <3>2 DEF Activated
      <4>2. Withdrawn(p, new, tg) /\ s = Verification
        BY <3>2, <4>1 DEF Visit, Completed, Stayed, Withdrawn
      <4>3. targets'[p][s].agents = targets[p][k].agents
        BY <4>2, VisitCohorts
      <4>4. targets'[p][i].agents = targets[p][i].agents
        BY <1>4, <4>1
      <4>5. i = k \/ i < k
        BY <1>3, <4>1 DEF StageIds
      <4>6. targets[p][i].agents \ RoamingAgents \subseteq targets[p][k].agents
        BY <1>1, <1>3, <4>1, <4>5 DEF StationaryCohortsNested, Activated, StageIds
      <4> QED
        BY <2>3, <4>3, <4>4, <4>6
    <3> QED
      BY <3>1, <3>2
  <2> QED
    BY <2>1, <2>2, <2>3
<1> QED
  BY <1>8, <1>9

\* An agent that keeps its registration and was ever given the candidate is in
\* the cohort of every later stage, and among those a rollback asks
\* (BuildStageTargets hashes into nested ranges, and
\* activateRollbackVerification copies the last cohort).
THEOREM CohortsNested == Spec => []StationaryCohortsNested
<1>1. Init => StationaryChosen /\ StationaryCohortsNested
  BY DEF Init, StationaryChosen, StationaryCohortsNested, Activated, Exists
<1>2. TypeOK /\ StageConsistent /\ StationaryChosen /\ StationaryCohortsNested /\ [Next]_vars
        => StationaryChosen' /\ StationaryCohortsNested'
  <2> SUFFICES ASSUME TypeOK, StageConsistent, StationaryChosen, StationaryCohortsNested,
                      [Next]_vars
               PROVE  StationaryChosen' /\ StationaryCohortsNested'
    OBVIOUS
  <2>1. ASSUME \A r \in RolloutIds :
                  /\ Exists(r)' = Exists(r)
                  /\ Exists(r) => /\ rollouts'[r].index = rollouts[r].index
                                  /\ rollouts'[r].stage = rollouts[r].stage
                                  /\ SameSubject(rollouts'[r], rollouts[r]),
               targets' = targets
        PROVE  StationaryChosen' /\ StationaryCohortsNested'
    <3>1. ASSUME NEW r \in RolloutIds, NEW i \in StageIndexes, Exists(r)',
                 i <= rollouts'[r].index
          PROVE  targets'[r][i].agents \ RoamingAgents \subseteq Chosen(rollouts'[r], i)
      <4>1. Exists(r) /\ Chosen(rollouts'[r], i) = Chosen(rollouts[r], i)
        BY <2>1, <3>1 DEF Chosen, Bucket, SameSubject
      <4> QED
        BY <2>1, <3>1, <4>1 DEF StationaryChosen
    <3>2. StationaryChosen'
      BY <3>1, ChosenBefore
    <3>3. StationaryCohortsNested'
      BY <2>1 DEF StationaryCohortsNested, Activated
    <3> QED
      BY <3>2, <3>3
  <2>2. CASE Tick
    BY <2>1, <2>2, TickFacts DEF OnlyOlder
  <2>3. CASE UNCHANGED <<rollouts, targets, nextRevision>>
    BY <2>1, <2>3 DEF Exists, SameSubject
  <2> QED
    BY <2>2, <2>3, StepCases, CreationNests, VisitNests
<1> QED
  BY <1>1, <1>2, TypeCorrect, StageConsistentAlways, PTL DEF Spec
=============================================================================
