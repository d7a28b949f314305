------------------------- MODULE RolloutSafetyProofs -------------------------
(***************************************************************************)
(* The safety invariants and action properties of the rollout engine, for  *)
(* every value of the constants.  RolloutServiceProofs says what one visit *)
(* to a rollout does; here each property is shown to survive every kind of *)
(* visit, a creation and the passage of time.                              *)
(***************************************************************************)
EXTENDS RolloutServiceProofs

-----------------------------------------------------------------------------
(* What a step may do *)

\* tg is the target store with some acknowledgements counted in the current
\* stage of r.
AcksAdded(r, tg) ==
    /\ tg \in TargetStore
    /\ \A q \in RolloutIds, s \in StageIds :
          /\ tg[q][s].agents   = targets[q][s].agents
          /\ tg[q][s].version  = targets[q][s].version
          /\ tg[q][s].revision = targets[q][s].revision
          /\ targets[q][s].acked \subseteq tg[q][s].acked
          /\ q # r \/ s # rollouts[r].stage => tg[q][s] = targets[q][s]

\* A visit to r that leaves new in the rollouts table, case by case.
Completed(r, new, tg) ==
    /\ rollouts[r].state # "ROLLING_BACK"
    /\ CoverageReached(tg[r][rollouts[r].stage])
    /\ rollouts[r].index = Len(StagePlan)
    /\ new.state = "COMPLETED"
    /\ new.index = rollouts[r].index
    /\ new.stage = rollouts[r].stage
    /\ targets' = tg
    /\ nextRevision' = nextRevision

MovedOn(r, new, tg) ==
    /\ rollouts[r].state # "ROLLING_BACK"
    /\ CoverageReached(tg[r][rollouts[r].stage])
    /\ new.state = "DEPLOYING"
    /\ new.index = rollouts[r].index + 1
    /\ new.index \in StageIndexes
    /\ new.stage = new.index
    /\ targets' = [tg EXCEPT ![r][new.index] =
                      BuildStageTargets(new, new.index, nextRevision)]
    /\ nextRevision' = nextRevision + 1

Stayed(r, new, tg) ==
    /\ \/ new.state = rollouts[r].state
       \/ rollouts[r].state # "ROLLING_BACK" /\ new.state \in {"PAUSED", "ROLLING_BACK"}
       \/ /\ rollouts[r].state = "ROLLING_BACK"
          /\ rollouts[r].stage = Verification
          /\ new.state = "ROLLED_BACK"
    /\ new.index = rollouts[r].index
    /\ new.stage = rollouts[r].stage
    /\ targets' = tg
    /\ nextRevision' = nextRevision

Withdrawn(r, new, tg) ==
    /\ rollouts[r].state = "ROLLING_BACK"
    /\ rollouts[r].stage # Verification
    /\ new.state \in {"ROLLING_BACK", "ROLLED_BACK"}
    /\ new.index = rollouts[r].index
    /\ new.stage = Verification
    /\ targets' = [tg EXCEPT ![r][Verification] =
                      VerificationTargets(new, tg[r][rollouts[r].stage], nextRevision)]
    /\ nextRevision' = nextRevision + 1

\* What identifies a rollout never changes.
SameSubject(new, old) ==
    /\ new.config = old.config
    /\ new.candidate = old.candidate
    /\ new.services = old.services

Visit(r, new, tg) ==
    /\ Active(r)
    /\ AcksAdded(r, tg)
    /\ rollouts' = [rollouts EXCEPT ![r] = new]
    /\ SameSubject(new, rollouts[r])
    /\ \/ Completed(r, new, tg)
       \/ MovedOn(r, new, tg)
       \/ Stayed(r, new, tg)
       \/ Withdrawn(r, new, tg)

LEMMA VisitCases ==
    ASSUME TypeOK, NEW r \in RolloutIds, Active(r), NEW tg, AcksAdded(r, tg),
           advance(r, tg)
    PROVE  \E new \in Rollout : Visit(r, new, tg)
<1> DEFINE old == rollouts[r]
<1>1. old \in Rollout
  BY DEF TypeOK, Active, Exists
<1>2. tg \in TargetStore
  BY DEF AcksAdded
<1>3. PICK f \in [Rules -> Nat] :
         LET ro == [rollouts[r] EXCEPT !.failures = f]
         IN  \/ Completes(r, ro, tg)
             \/ MovesOn(r, ro, tg)
             \/ ChangesState(r, ro, tg)
             \/ Stays(r, ro, tg)
             \/ StartsVerification(r, tg)
             \/ Finishes(r, tg)
  BY <1>2, AdvanceCases
<1> DEFINE ro == [old EXCEPT !.failures = f]
<1>4. ro \in Rollout
  BY <1>1 DEF Rollout
<1>5. /\ ro.config = old.config /\ ro.candidate = old.candidate /\ ro.services = old.services
      /\ ro.state = old.state /\ ro.index = old.index /\ ro.stage = old.stage
  BY <1>1 DEF Rollout
<1>a. CASE Completes(r, ro, tg)
  <2> DEFINE new == [ro EXCEPT !.state = "COMPLETED"]
  <2>1. new \in Rollout
    BY <1>4 DEF Rollout, States
  <2>2. SameSubject(new, old) /\ Completed(r, new, tg)
    BY <1>4, <1>5, <1>a DEF Rollout, SameSubject, Completed, Completes, completeRollout
  <2>3. rollouts' = [rollouts EXCEPT ![r] = new]
    BY <1>a DEF Completes, completeRollout
  <2>4. QED
    BY <2>1, <2>2, <2>3 DEF Visit
<1>b. CASE MovesOn(r, ro, tg)
  <2> DEFINE new == NextStage(ro)
  <2>1. ro.index + 1 \in StageIndexes
    BY <1>4, <1>5, <1>b, StageFacts DEF MovesOn, Rollout, StageIndexes
  <2>2. new \in Rollout
    BY <1>4, <2>1, StageFacts, RestageType DEF NextStage, States
  <2>3. /\ new.config = ro.config /\ new.candidate = ro.candidate
        /\ new.services = ro.services /\ new.state = "DEPLOYING"
        /\ new.index = ro.index + 1 /\ new.stage = ro.index + 1
    BY <1>4 DEF NextStage, Rollout
  <2>4. rollouts' = [rollouts EXCEPT ![r] = new]
    BY <1>b DEF MovesOn, activateNextStage
  <2>5. SameSubject(new, old)
    BY <1>5, <2>3 DEF SameSubject
  <2>6. activateStage(r, new, new.index, tg)
    BY <1>b, <2>3 DEF MovesOn, activateNextStage
  <2>7. MovedOn(r, new, tg)
    BY <1>5, <1>b, <2>1, <2>3, <2>6 DEF MovedOn, MovesOn, activateStage
  <2>8. QED
    BY <2>2, <2>4, <2>5, <2>7 DEF Visit
<1>c. CASE ChangesState(r, ro, tg)
  <2>1. PICK next \in {"PAUSED", "ROLLING_BACK"} : transition(r, ro, next, tg)
    BY <1>c DEF ChangesState
  <2> DEFINE new == [ro EXCEPT !.state = next]
  <2>2. new \in Rollout
    BY <1>4 DEF Rollout, States
  <2>3. SameSubject(new, old) /\ Stayed(r, new, tg)
    BY <1>4, <1>5, <1>c, <2>1 DEF Rollout, SameSubject, Stayed, ChangesState, transition
  <2>4. rollouts' = [rollouts EXCEPT ![r] = new]
    BY <2>1 DEF transition
  <2>5. QED
    BY <2>2, <2>3, <2>4 DEF Visit
<1>d. CASE Stays(r, ro, tg)
  <2>1. SameSubject(ro, old) /\ Stayed(r, ro, tg)
    BY <1>5, <1>d DEF SameSubject, Stayed, Stays
  <2>2. rollouts' = [rollouts EXCEPT ![r] = ro]
    BY <1>d DEF Stays
  <2>3. QED
    BY <1>4, <2>1, <2>2 DEF Visit
<1>e. CASE StartsVerification(r, tg)
  <2> DEFINE asked == [old EXCEPT !.stage = Verification, !.stageAge = 0]
             none  == [asked EXCEPT !.state = "ROLLED_BACK", !.rollbackStatus = "VERIFIED"]
             rows  == tg[r][old.stage]
  <2>1. asked \in Rollout
    BY <1>1, StageFacts, RestageType DEF States
  <2>2. none \in Rollout
    BY <2>1 DEF Rollout, States
  <2>3. /\ SameSubject(asked, old) /\ asked.state = old.state
        /\ asked.index = old.index /\ asked.stage = Verification
        /\ asked.stable = old.stable
    BY <1>1 DEF Rollout, SameSubject
  <2>4. /\ SameSubject(none, old) /\ none.state = "ROLLED_BACK"
        /\ none.index = old.index /\ none.stage = Verification
        /\ none.stable = old.stable
    BY <2>1, <2>3 DEF Rollout, SameSubject
  <2>5. VerificationTargets(none, rows, nextRevision)
          = VerificationTargets(asked, rows, nextRevision)
    BY <2>3, <2>4 DEF VerificationTargets
  <2>6. activateRollbackVerification(r, tg)
    BY <1>e DEF StartsVerification
  <2>7. /\ targets' = [tg EXCEPT ![r][Verification] =
                          VerificationTargets(asked, rows, nextRevision)]
        /\ nextRevision' = nextRevision + 1
    BY <2>6 DEF activateRollbackVerification
  <2>8. \/ rollouts' = [rollouts EXCEPT ![r] = asked]
        \/ rollouts' = [rollouts EXCEPT ![r] = none]
    BY <2>6 DEF activateRollbackVerification, finishRollback
  <2>9. Withdrawn(r, asked, tg) /\ Withdrawn(r, none, tg)
    BY <1>e, <2>3, <2>4, <2>5, <2>7 DEF Withdrawn, StartsVerification
  <2>10. QED
    BY <2>1, <2>2, <2>3, <2>4, <2>8, <2>9 DEF Visit
<1>f. CASE Finishes(r, tg)
  <2> DEFINE outcome == RollbackOutcome(old, tg[r][Verification])
             new == [old EXCEPT !.state = "ROLLED_BACK", !.rollbackStatus = outcome]
  <2>1. outcome \in {"VERIFIED", "PARTIAL"}
    BY <1>f DEF Finishes, RollbackOutcome
  <2>2. new \in Rollout
    BY <1>1, <2>1 DEF Rollout, States
  <2>3. SameSubject(new, old) /\ Stayed(r, new, tg)
    BY <1>1, <1>f DEF Rollout, SameSubject, Stayed, Finishes
  <2>4. rollouts' = [rollouts EXCEPT ![r] = new]
    BY <1>f DEF Finishes, finishRollback
  <2>5. QED
    BY <2>2, <2>3, <2>4 DEF Visit
<1>6. QED
  BY <1>3, <1>a, <1>b, <1>c, <1>d, <1>e, <1>f

\* Counting an acknowledgement adds to the current stage of r and nothing else.
LEMMA ApplyAckAdds ==
    ASSUME TypeOK, NEW r \in RolloutIds, Exists(r), NEW ack, ack.agent \in Agents
    PROVE  AcksAdded(r, ApplyAck(r, ack))
<1>1. rollouts[r].stage \in StageIds
  BY DEF TypeOK, Exists, Rollout
<1>2. ApplyAck(r, ack) \in TargetStore
  BY ApplyAckType
<1> DEFINE rows == targets[r][rollouts[r].stage]
<1>3. rows \in StageTargets
  BY <1>1 DEF TypeOK
<1>4. CASE ~Counts(r, ack)
  BY <1>2, <1>4 DEF ApplyAck, AcksAdded
<1>5. CASE Counts(r, ack)
  <2> DEFINE new == [rows EXCEPT !.acked = @ \cup {ack.agent}]
             tg  == ApplyAck(r, ack)
  <2>1. /\ new.agents = rows.agents /\ new.version = rows.version
        /\ new.revision = rows.revision /\ rows.acked \subseteq new.acked
    BY <1>3 DEF StageTargets
  <2>2. tg = [targets EXCEPT ![r][rollouts[r].stage] = new]
    BY <1>1, <1>5 DEF ApplyAck, TypeOK
  <2>3. \A q \in RolloutIds, s \in StageIds :
           tg[q][s] = IF q = r /\ s = rollouts[r].stage THEN new ELSE targets[q][s]
    BY <1>1, <2>2 DEF TypeOK
  <2>4. QED
    BY <1>2, <2>1, <2>3 DEF AcksAdded
<1>6. QED
  BY <1>4, <1>5

Creation(r, ro) ==
    /\ ~Exists(r)
    /\ ~activeRolloutExists(ro.config)
    /\ ro.state = "DEPLOYING" /\ ro.index = 1 /\ ro.stage = 1
    /\ rollouts' = [rollouts EXCEPT ![r] = ro]
    /\ targets' = [targets EXCEPT ![r][1] = BuildStageTargets(ro, 1, nextRevision)]
    /\ nextRevision' = nextRevision + 1

\* Every step creates a rollout, visits one, lets time pass, or touches neither
\* the rollouts nor their targets.
LEMMA StepCases ==
    ASSUME TypeOK, [Next]_vars
    PROVE  \/ \E r \in RolloutIds, ro \in Rollout : Creation(r, ro)
           \/ \E r \in RolloutIds, new \in Rollout, tg \in TargetStore : Visit(r, new, tg)
           \/ Tick
           \/ UNCHANGED <<rollouts, targets, nextRevision>>
<1>1. ASSUME NEW r \in RolloutIds, NEW c \in Configs, NEW v \in Versions,
             NEW services \in ServiceChoices, NEW rules \in GuardrailChoices,
             CreateRollout(r, c, v, services, rules)
      PROVE  \E ro \in Rollout : Creation(r, ro)
  <2> DEFINE ro == NewRollout(c, v, services, rules)
  <2>1. stable[c] \in Versions
    BY <1>1 DEF TypeOK, CreateRollout
  <2>2. ro \in Rollout
    BY <2>1, StageFacts, NameAssumption, DurationAssumption DEF NewRollout, Rollout, States
  <2>3. ro.config = c /\ ro.state = "DEPLOYING" /\ ro.index = 1 /\ ro.stage = 1
    BY DEF NewRollout
  <2>4. Creation(r, ro)
    BY <1>1, <2>3 DEF Creation, CreateRollout, activateStage
  <2>5. QED
    BY <2>2, <2>4
<1>2. ASSUME NEW r \in RolloutIds, NEW ack \in Acks, Acknowledge(r, ack)
      PROVE  \E new \in Rollout, tg \in TargetStore : Visit(r, new, tg)
  <2>1. Active(r) /\ advance(r, ApplyAck(r, ack))
    BY <1>2 DEF Acknowledge
  <2>2. AcksAdded(r, ApplyAck(r, ack)) /\ ApplyAck(r, ack) \in TargetStore
    BY <2>1, ApplyAckAdds, ApplyAckType DEF Active, Acks
  <2>3. QED
    BY <2>1, <2>2, VisitCases
<1>3. ASSUME NEW r \in RolloutIds, reconcileRollout(r)
      PROVE  \E new \in Rollout, tg \in TargetStore : Visit(r, new, tg)
  <2>1. AcksAdded(r, targets) /\ targets \in TargetStore
    BY DEF AcksAdded, TypeOK, TargetStore
  <2>2. QED
    BY <1>3, <2>1, VisitCases DEF reconcileRollout
<1>4. QED
  BY <1>1, <1>2, <1>3
  DEF Next, vars, SetStableVersion, Register, TelemetryChanges

OnlyOlder(new, old) ==
    /\ SameSubject(new, old)
    /\ new.state = old.state /\ new.index = old.index /\ new.stage = old.stage
    /\ new.stable = old.stable
    /\ new.guardrails = old.guardrails /\ new.failures = old.failures
    /\ new.rollbackStatus = old.rollbackStatus

\* Time passing changes the ages of rollouts only.
LEMMA TickFacts ==
    ASSUME TypeOK, Tick
    PROVE  /\ UNCHANGED <<targets, nextRevision>>
           /\ \A r \in RolloutIds :
                /\ Exists(r)' = Exists(r)
                /\ Exists(r) => OnlyOlder(rollouts'[r], rollouts[r])
                /\ ~Active(r) => rollouts'[r] = rollouts[r]
<1>1. UNCHANGED <<targets, nextRevision>>
  BY DEF Tick
<1>2. SUFFICES ASSUME NEW r \in RolloutIds
      PROVE  /\ Exists(r)' = Exists(r)
             /\ Exists(r) => OnlyOlder(rollouts'[r], rollouts[r])
             /\ ~Active(r) => rollouts'[r] = rollouts[r]
  BY <1>1
<1>3. CASE ~Active(r)
  <2>1. rollouts'[r] = rollouts[r]
    BY <1>3 DEF Tick
  <2>2. QED
    BY <1>3, <2>1 DEF Exists, OnlyOlder, SameSubject
<1>4. CASE Active(r)
  <2> DEFINE old == rollouts[r]
             new == [old EXCEPT !.age = Older(@), !.stageAge = Older(@)]
  <2>1. old \in Rollout
    BY <1>4 DEF TypeOK, Active, Exists
  <2>2. rollouts'[r] = new
    BY <1>4 DEF Tick
  <2>3. OnlyOlder(new, old)
    BY <2>1 DEF Rollout, OnlyOlder, SameSubject
  <2>4. \A n \in 0..Horizon : Older(n) \in 0..Horizon
    BY DurationAssumption DEF Older
  <2>5. new \in Rollout
    BY <2>1, <2>4 DEF Rollout
  <2>6. Exists(r)' /\ Exists(r)
    BY <1>4, <2>2, <2>5, NoRolloutAssumption DEF Active, Exists
  <2>7. QED
    BY <1>4, <2>2, <2>3, <2>6
<1>5. QED
  BY <1>3, <1>4

-----------------------------------------------------------------------------
(* One unfinished rollout per config *)

\* However requests, acknowledgements and reconciliations interleave, a config
\* never has two unfinished rollouts (the conflict check of the store's
\* CreateRollout).
THEOREM OneActive == Spec => []OneActiveRollout
<1>1. Init => OneActiveRollout
  BY DEF Init, OneActiveRollout, Active, Exists
<1>2. TypeOK /\ OneActiveRollout /\ [Next]_vars => OneActiveRollout'
  <2> SUFFICES ASSUME TypeOK, OneActiveRollout, [Next]_vars,
                      NEW r \in RolloutIds, NEW q \in RolloutIds,
                      Active(r)', Active(q)',
                      rollouts'[r].config = rollouts'[q].config
               PROVE  r = q
    BY DEF OneActiveRollout
  <2>1. ASSUME NEW p \in RolloutIds, NEW ro \in Rollout, Creation(p, ro)
        PROVE  r = q
    <3>1. rollouts'[p] = ro /\ \A x \in RolloutIds \ {p} : rollouts'[x] = rollouts[x]
      BY <2>1 DEF Creation, TypeOK
    <3>2. \A x \in RolloutIds \ {p} : Active(x)' => Active(x)
      BY <3>1 DEF Active, Exists
    <3>3. \A x \in RolloutIds : Active(x) => rollouts[x].config # ro.config
      BY <2>1 DEF Creation, activeRolloutExists
    <3>4. QED
      BY <3>1, <3>2, <3>3 DEF OneActiveRollout
  <2>2. ASSUME NEW p \in RolloutIds, NEW new \in Rollout, NEW tg \in TargetStore,
               Visit(p, new, tg)
        PROVE  r = q
    <3>1. /\ rollouts'[p] = new /\ Active(p) /\ new.config = rollouts[p].config
          /\ \A x \in RolloutIds \ {p} : rollouts'[x] = rollouts[x]
      BY <2>2 DEF Visit, SameSubject, TypeOK
    <3>2. \A x \in RolloutIds \ {p} : Active(x)' => Active(x)
      BY <3>1 DEF Active, Exists
    <3>3. QED
      BY <3>1, <3>2 DEF OneActiveRollout
  <2>3. CASE Tick
    <3>1. \A x \in RolloutIds : Active(x)' => Active(x) /\ rollouts'[x].config = rollouts[x].config
      BY <2>3, TickFacts DEF Active, OnlyOlder, SameSubject
    <3>2. QED
      BY <3>1 DEF OneActiveRollout
  <2>4. CASE UNCHANGED <<rollouts, targets, nextRevision>>
    BY <2>4 DEF OneActiveRollout, Active, Exists
  <2>5. QED
    BY <2>1, <2>2, <2>3, <2>4, StepCases
<1>3. QED
  BY <1>1, <1>2, TypeCorrect, PTL DEF Spec

-----------------------------------------------------------------------------
(* Stages are passed in order, each with coverage *)

\* The stage a rollout stands in is the one its index names, until the
\* rollback asks the last cohort again; EVALUATING and PROMOTING are never
\* stored, and only the last stage completes.
StageConsistent ==
    \A r \in RolloutIds : Exists(r) =>
        LET ro == rollouts[r]
        IN  /\ ro.state \in {"DEPLOYING", "PAUSED", "COMPLETED", "ROLLING_BACK", "ROLLED_BACK"}
            /\ \/ ro.stage = ro.index
               \/ ro.stage = Verification /\ ro.state \in {"ROLLING_BACK", "ROLLED_BACK"}
            /\ ro.state = "COMPLETED" => ro.index = Len(StagePlan)

LEMMA StageConsistentStep ==
    ASSUME TypeOK, StageConsistent, [Next]_vars
    PROVE  StageConsistent'
<1> DEFINE Consistent(ro) ==
             /\ ro.state \in {"DEPLOYING", "PAUSED", "COMPLETED", "ROLLING_BACK", "ROLLED_BACK"}
             /\ \/ ro.stage = ro.index
                \/ ro.stage = Verification /\ ro.state \in {"ROLLING_BACK", "ROLLED_BACK"}
             /\ ro.state = "COMPLETED" => ro.index = Len(StagePlan)
<1>1. \A r \in RolloutIds : Exists(r) => Consistent(rollouts[r])
  BY DEF StageConsistent
<1>2. SUFFICES ASSUME NEW r \in RolloutIds, Exists(r)'
               PROVE  Consistent(rollouts'[r])
  BY DEF StageConsistent
<1>3. ASSUME NEW p \in RolloutIds, NEW ro \in Rollout, Creation(p, ro)
      PROVE  Consistent(rollouts'[r])
  BY <1>1, <1>2, <1>3 DEF Creation, TypeOK, Exists
<1>4. ASSUME NEW p \in RolloutIds, NEW new \in Rollout, NEW tg \in TargetStore,
             Visit(p, new, tg)
      PROVE  Consistent(rollouts'[r])
  <2>1. /\ Active(p) /\ rollouts'[p] = new
        /\ p # r => rollouts'[r] = rollouts[r]
    BY <1>4 DEF Visit, TypeOK
  <2>2. Consistent(rollouts[p]) /\ ~Terminal(rollouts[p].state)
    BY <1>1, <2>1 DEF Active
  <2>3. Consistent(new)
    <3>1. CASE Completed(p, new, tg)
      BY <2>2, <3>1 DEF Completed, Terminal
    <3>2. CASE MovedOn(p, new, tg)
      BY <3>2 DEF MovedOn
    <3>3. CASE Stayed(p, new, tg)
      BY <2>2, <3>3 DEF Stayed, Terminal
    <3>4. CASE Withdrawn(p, new, tg)
      BY <3>4 DEF Withdrawn
    <3>5. QED
      BY <1>4, <3>1, <3>2, <3>3, <3>4 DEF Visit
  <2>4. QED
    BY <1>1, <1>2, <2>1, <2>3 DEF Exists
<1>5. CASE Tick
  BY <1>1, <1>2, <1>5, TickFacts DEF OnlyOlder
<1>6. CASE UNCHANGED <<rollouts, targets, nextRevision>>
  BY <1>1, <1>2, <1>6 DEF Exists
<1>7. QED
  BY <1>3, <1>4, <1>5, <1>6, StepCases

LEMMA StageConsistentAlways == Spec => []StageConsistent
<1>1. Init => StageConsistent
  BY DEF Init, StageConsistent, Exists
<1>2. QED
  BY <1>1, StageConsistentStep, TypeCorrect, PTL DEF Spec

\* A visit changes the rows of the rollout it visits only.
LEMMA OthersUntouched ==
    ASSUME TypeOK, NEW p \in RolloutIds, NEW new \in Rollout, NEW tg \in TargetStore,
           Visit(p, new, tg), NEW r \in RolloutIds, r # p
    PROVE  targets'[r] = targets[r] /\ rollouts'[r] = rollouts[r]
<1>1. rollouts'[r] = rollouts[r]
  BY DEF Visit, TypeOK
<1>2. \A s \in StageIds : tg[r][s] = targets[r][s]
  BY DEF Visit, AcksAdded
<1>3. tg[r] = targets[r]
  BY <1>2 DEF TypeOK, TargetStore
<1>4. targets'[r] = tg[r]
  BY DEF Visit, Completed, MovedOn, Stayed, Withdrawn, TargetStore
<1>5. QED
  BY <1>1, <1>3, <1>4

\* A visit leaves alone the rows of the stages before the current one.
LEMMA EarlierUntouched ==
    ASSUME TypeOK, StageConsistent, NEW p \in RolloutIds, NEW new \in Rollout,
           NEW tg \in TargetStore, Visit(p, new, tg),
           NEW i \in StageIndexes, i < rollouts[p].index
    PROVE  targets'[p][i] = targets[p][i]
<1>1. rollouts[p] \in Rollout /\ Exists(p)
  BY DEF Visit, Active, Exists, TypeOK
<1>2. rollouts[p].index \in StageIndexes /\ i \in StageIds /\ i # Verification
  BY <1>1, StageFacts DEF Rollout
<1>3. rollouts[p].stage \in {rollouts[p].index, Verification}
  BY <1>1 DEF StageConsistent
<1>4. i # rollouts[p].stage /\ i # rollouts[p].index + 1
  BY <1>2, <1>3, StageFacts DEF StageIndexes
<1>5. tg[p][i] = targets[p][i]
  BY <1>2, <1>4 DEF Visit, AcksAdded
<1>6. targets'[p][i] = tg[p][i]
  BY <1>2, <1>4 DEF Visit, Completed, MovedOn, Stayed, Withdrawn, TargetStore
<1>7. QED
  BY <1>5, <1>6

\* A rollout stands in a stage, or has completed, only if each stage before it
\* ended with acknowledgement coverage (EvaluateStageProgress and promote),
\* whatever the guardrails, timeouts and late acknowledgements did.
THEOREM EarlierCovered == Spec => []EarlierStagesCovered
<1>1. Init => EarlierStagesCovered
  BY DEF Init, EarlierStagesCovered, Exists
<1>2. TypeOK /\ StageConsistent /\ EarlierStagesCovered /\ [Next]_vars => EarlierStagesCovered'
  <2> SUFFICES ASSUME TypeOK, StageConsistent, EarlierStagesCovered, [Next]_vars,
                      NEW r \in RolloutIds, Exists(r)',
                      NEW i \in StageIndexes,
                      i < rollouts'[r].index \/ rollouts'[r].state = "COMPLETED"
               PROVE  CoverageReached(targets'[r][i])
    BY DEF EarlierStagesCovered, CoverageReached, Coverage
  <2>0. i \in StageIds /\ i \in Nat
    BY StageFacts DEF StageIndexes
  <2>1. ASSUME NEW p \in RolloutIds, NEW ro \in Rollout, Creation(p, ro)
        PROVE  CoverageReached(targets'[r][i])
    <3>1. r # p
      BY <2>0, <2>1 DEF Creation, TypeOK, StageIndexes
    <3>2. rollouts'[r] = rollouts[r] /\ targets'[r] = targets[r]
      BY <2>1, <3>1 DEF Creation, TypeOK
    <3>3. QED
      BY <3>2 DEF EarlierStagesCovered, Exists
  <2>2. ASSUME NEW p \in RolloutIds, NEW new \in Rollout, NEW tg \in TargetStore,
               Visit(p, new, tg)
        PROVE  CoverageReached(targets'[r][i])
    <3>1. CASE r # p
      <4>1. rollouts'[r] = rollouts[r] /\ targets'[r] = targets[r]
        BY <2>2, <3>1, OthersUntouched
      <4>2. QED
        BY <4>1 DEF EarlierStagesCovered, Exists
    <3>2. CASE r = p
      <4>1. /\ Exists(p) /\ ~Terminal(rollouts[p].state)
            /\ rollouts[p] \in Rollout /\ rollouts'[p] = new
        BY <2>2 DEF Visit, Active, Exists, TypeOK
      <4>2. rollouts[p].index \in StageIndexes /\ rollouts[p].index \in Nat
        BY <4>1 DEF Rollout, StageIndexes
      <4>3. CASE i < rollouts[p].index
        <5>1. targets'[p][i] = targets[p][i]
          BY <2>2, <4>3, EarlierUntouched
        <5>2. QED
          BY <3>2, <4>1, <4>3, <5>1 DEF EarlierStagesCovered
      <4>4. CASE ~(i < rollouts[p].index)
        <5>1. Completed(p, new, tg) \/ MovedOn(p, new, tg)
          <6>1. ~Withdrawn(p, new, tg)
            BY <3>2, <4>1, <4>4 DEF Withdrawn
          <6>2. ~Stayed(p, new, tg)
            BY <3>2, <4>1, <4>4 DEF Stayed, Terminal
          <6>3. QED
            BY <2>2, <6>1, <6>2 DEF Visit
        <5>2. i = rollouts[p].index
          BY <2>0, <3>2, <4>1, <4>2, <4>4, <5>1, StageFacts
          DEF Completed, MovedOn, StageIndexes
        <5>3. rollouts[p].stage = rollouts[p].index
          BY <4>1, <5>1 DEF StageConsistent, Completed, MovedOn, Terminal
        <5>4. CoverageReached(tg[p][i])
          BY <5>1, <5>2, <5>3 DEF Completed, MovedOn
        <5>5. targets'[p][i] = tg[p][i]
          BY <2>0, <4>2, <5>1, <5>2 DEF Completed, MovedOn, TargetStore
        <5>6. QED
          BY <3>2, <5>4, <5>5
      <4>5. QED
        BY <4>3, <4>4
    <3>3. QED
      BY <3>1, <3>2
  <2>3. CASE Tick
    <3>1. /\ Exists(r) /\ targets' = targets /\ rollouts'[r].index = rollouts[r].index
          /\ rollouts'[r].state = rollouts[r].state
      BY <2>3, TickFacts DEF OnlyOlder
    <3>2. QED
      BY <3>1 DEF EarlierStagesCovered
  <2>4. CASE UNCHANGED <<rollouts, targets, nextRevision>>
    BY <2>4 DEF EarlierStagesCovered, Exists
  <2>5. QED
    BY <2>1, <2>2, <2>3, <2>4, StepCases
<1>3. QED
  BY <1>1, <1>2, TypeCorrect, StageConsistentAlways, PTL DEF Spec

-----------------------------------------------------------------------------
(* Finished rollouts and activated cohorts *)

LEMMA FinishedStep ==
    ASSUME TypeOK, [Next]_vars, NEW r \in RolloutIds, Exists(r), Terminal(rollouts[r].state)
    PROVE  rollouts'[r] = rollouts[r] /\ targets'[r] = targets[r]
<1>1. ASSUME NEW p \in RolloutIds, NEW ro \in Rollout, Creation(p, ro)
      PROVE  rollouts'[r] = rollouts[r] /\ targets'[r] = targets[r]
  <2>1. r # p
    BY <1>1 DEF Creation
  <2>2. QED
    BY <1>1, <2>1 DEF Creation, TypeOK
<1>2. ASSUME NEW p \in RolloutIds, NEW new \in Rollout, NEW tg \in TargetStore,
             Visit(p, new, tg)
      PROVE  rollouts'[r] = rollouts[r] /\ targets'[r] = targets[r]
  <2>1. r # p
    BY <1>2 DEF Visit, Active
  <2>2. QED
    BY <1>2, <2>1, OthersUntouched
<1>3. CASE Tick
  BY <1>3, TickFacts DEF Active
<1>4. CASE UNCHANGED <<rollouts, targets, nextRevision>>
  BY <1>4
<1>5. QED
  BY <1>1, <1>2, <1>3, <1>4, StepCases

\* Nothing changes a finished rollout or its targets: Acknowledge refuses it and
\* ListActiveRollouts does not return it.
THEOREM FinishedIsFinal == Spec => TerminalIsFinal
<1>1. TypeOK /\ [Next]_vars =>
         \A r \in RolloutIds :
            Exists(r) /\ Terminal(rollouts[r].state) =>
               rollouts'[r] = rollouts[r] /\ targets'[r] = targets[r]
  BY FinishedStep
<1>2. QED
  BY <1>1, TypeCorrect, PTL DEF Spec, TerminalIsFinal

\* An activated stage keeps its cohort, its expected version and its revision,
\* and loses no counted acknowledgement (activateStage and
\* activateRollbackVerification write only stages not yet activated).
THEOREM CohortsFrozen == Spec => FrozenCohorts
<1> DEFINE Kept(old, new) ==
             /\ new.agents = old.agents
             /\ new.version = old.version
             /\ new.revision = old.revision
             /\ old.acked \subseteq new.acked
           Frozen == \A r \in RolloutIds, s \in StageIds :
                        Activated(r, s) => Kept(targets[r][s], targets'[r][s])
<1>1. TypeOK /\ StageConsistent /\ [Next]_vars => Frozen
  <2> SUFFICES ASSUME TypeOK, StageConsistent, [Next]_vars,
                      NEW r \in RolloutIds, NEW s \in StageIds, Activated(r, s)
               PROVE  Kept(targets[r][s], targets'[r][s])
    OBVIOUS
  <2>1. ASSUME NEW p \in RolloutIds, NEW ro \in Rollout, Creation(p, ro)
        PROVE  targets'[r][s] = targets[r][s]
    <3>1. r # p
      BY <2>1 DEF Creation, Activated
    <3>2. QED
      BY <2>1, <3>1 DEF Creation, TypeOK
  <2>2. ASSUME NEW p \in RolloutIds, NEW new \in Rollout, NEW tg \in TargetStore,
               Visit(p, new, tg)
        PROVE  Kept(targets[r][s], targets'[r][s])
    <3>1. CASE r # p
      <4>1. targets'[r][s] = targets[r][s]
        BY <2>2, <3>1, OthersUntouched
      <4>2. QED
        BY <4>1
    <3>2. CASE r = p
      <4>1. Kept(targets[p][s], tg[p][s])
        BY <2>2 DEF Visit, AcksAdded
      <4>2. /\ Exists(p) /\ ~Terminal(rollouts[p].state) /\ rollouts[p] \in Rollout
        BY <2>2 DEF Visit, Active, Exists, TypeOK
      <4>3. rollouts[p].index \in StageIndexes
        BY <4>2 DEF Rollout
      <4>4. MovedOn(p, new, tg) => s # new.index
        BY <3>2, <4>2, <4>3 DEF MovedOn, StageConsistent, Terminal, Activated, StageIndexes, StageIds
      <4>5. Withdrawn(p, new, tg) => s # Verification
        BY <3>2, <4>3 DEF Withdrawn, Activated, StageIndexes, Verification
      <4>6. targets'[p][s] = tg[p][s]
        <5>1. CASE targets' = tg
          BY <5>1
        <5>2. CASE MovedOn(p, new, tg)
          BY <4>4, <5>2 DEF MovedOn, TargetStore
        <5>3. CASE Withdrawn(p, new, tg)
          BY <4>5, <5>3 DEF Withdrawn, TargetStore
        <5>4. QED
          BY <2>2, <5>1, <5>2, <5>3 DEF Visit, Completed, Stayed
      <4>7. QED
        BY <3>2, <4>1, <4>6
    <3>3. QED
      BY <3>1, <3>2
  <2>3. CASE Tick
    BY <2>3, TickFacts
  <2>4. CASE UNCHANGED <<rollouts, targets, nextRevision>>
    BY <2>4
  <2>5. QED
    BY <2>1, <2>2, <2>3, <2>4, StepCases
<1>2. QED
  BY <1>1, TypeCorrect, StageConsistentAlways, PTL DEF Spec, FrozenCohorts

-----------------------------------------------------------------------------
(* Revisions name activations *)

\* Every cohort stands under a revision already drawn from the sequence.
RevisionsDrawn ==
    \A r \in RolloutIds, s \in StageIds :
        targets[r][s].agents # {} => targets[r][s].revision < nextRevision

\* A step writes at most one cohort, under the revision it draws.
WritesCohort(p, u, rows) ==
    /\ rows.agents # {} => rows.revision = nextRevision
    /\ \A r \in RolloutIds, s \in StageIds :
          IF r = p /\ s = u
          THEN targets'[r][s] = rows
          ELSE /\ targets'[r][s].agents = targets[r][s].agents
               /\ targets'[r][s].revision = targets[r][s].revision
    /\ nextRevision' = nextRevision + 1

KeepsCohorts ==
    /\ \A r \in RolloutIds, s \in StageIds :
          /\ targets'[r][s].agents = targets[r][s].agents
          /\ targets'[r][s].revision = targets[r][s].revision
    /\ nextRevision' = nextRevision

LEMMA CohortWrites ==
    ASSUME TypeOK, [Next]_vars
    PROVE  \/ KeepsCohorts
           \/ \E p \in RolloutIds, u \in StageIds, rows \in StageTargets :
                 WritesCohort(p, u, rows)
<1>1. ASSUME NEW p \in RolloutIds, NEW u \in StageIds, NEW rows \in StageTargets,
             NEW tg \in TargetStore,
             rows.agents # {} => rows.revision = nextRevision,
             \A q \in RolloutIds, s \in StageIds :
                 /\ tg[q][s].agents = targets[q][s].agents
                 /\ tg[q][s].revision = targets[q][s].revision,
             targets' = [tg EXCEPT ![p][u] = rows],
             nextRevision' = nextRevision + 1
      PROVE  WritesCohort(p, u, rows)
  <2>1. \A r \in RolloutIds, s \in StageIds :
           targets'[r][s] = IF r = p /\ s = u THEN rows ELSE tg[r][s]
    BY <1>1 DEF TargetStore
  <2>2. QED
    BY <1>1, <2>1 DEF WritesCohort
<1>2. nextRevision \in Nat
  BY DEF TypeOK
<1>3. \A S \in SUBSET Agents, v \in Versions :
         /\ PendingRows(S, v, nextRevision) \in StageTargets
         /\ PendingRows(S, v, nextRevision).agents # {} =>
               PendingRows(S, v, nextRevision).revision = nextRevision
  BY <1>2, PendingRowsType DEF PendingRows, NoTargets
<1>4. ASSUME NEW p \in RolloutIds, NEW ro \in Rollout, Creation(p, ro)
      PROVE  \E u \in StageIds, rows \in StageTargets : WritesCohort(p, u, rows)
  <2> DEFINE rows == BuildStageTargets(ro, 1, nextRevision)
  <2>1. rows \in StageTargets /\ (rows.agents # {} => rows.revision = nextRevision)
    BY <1>3 DEF BuildStageTargets, filterAgents, Rollout
  <2>2. targets \in TargetStore
    BY DEF TypeOK, TargetStore
  <2>3. WritesCohort(p, 1, rows)
    BY <1>1, <1>4, <2>1, <2>2, StageFacts DEF Creation
  <2>4. QED
    BY <2>1, <2>3, StageFacts
<1>5. ASSUME NEW p \in RolloutIds, NEW new \in Rollout, NEW tg \in TargetStore,
             Visit(p, new, tg)
      PROVE  \/ KeepsCohorts
             \/ \E u \in StageIds, rows \in StageTargets : WritesCohort(p, u, rows)
  <2>1. \A q \in RolloutIds, s \in StageIds :
           /\ tg[q][s].agents = targets[q][s].agents
           /\ tg[q][s].revision = targets[q][s].revision
    BY <1>5 DEF Visit, AcksAdded
  <2>2. CASE Completed(p, new, tg) \/ Stayed(p, new, tg)
    BY <2>1, <2>2 DEF Completed, Stayed, KeepsCohorts
  <2>3. CASE MovedOn(p, new, tg)
    <3> DEFINE rows == BuildStageTargets(new, new.index, nextRevision)
    <3>1. rows \in StageTargets /\ (rows.agents # {} => rows.revision = nextRevision)
      BY <1>3 DEF BuildStageTargets, filterAgents, Rollout
    <3>2. new.index \in StageIds
      BY <2>3, StageFacts DEF MovedOn
    <3>3. WritesCohort(p, new.index, rows)
      BY <1>1, <2>1, <2>3, <3>1, <3>2 DEF MovedOn
    <3>4. QED
      BY <3>1, <3>2, <3>3
  <2>4. CASE Withdrawn(p, new, tg)
    <3> DEFINE asked == tg[p][rollouts[p].stage]
               rows  == VerificationTargets(new, asked, nextRevision)
    <3>1. asked.agents \in SUBSET Agents /\ new.stable \in Versions
      BY <1>5 DEF Visit, Active, Exists, TypeOK, Rollout, TargetStore, StageTargets
    <3>2. rows \in StageTargets /\ (rows.agents # {} => rows.revision = nextRevision)
      BY <1>3, <3>1 DEF VerificationTargets
    <3>3. WritesCohort(p, Verification, rows)
      BY <1>1, <2>1, <2>4, <3>2, StageFacts DEF Withdrawn
    <3>4. QED
      BY <3>2, <3>3, StageFacts
  <2>5. QED
    BY <1>5, <2>2, <2>3, <2>4 DEF Visit
<1>6. CASE Tick
  BY <1>6, TickFacts DEF KeepsCohorts
<1>7. CASE UNCHANGED <<rollouts, targets, nextRevision>>
  BY <1>7 DEF KeepsCohorts
<1>8. QED
  BY <1>4, <1>5, <1>6, <1>7, StepCases

\* No two activations share a snapshot revision (NextSnapshotRevision is drawn
\* once per activation), so an acknowledgement names one activation.
THEOREM RevisionsNameActivations == Spec => []RevisionsDistinct
<1>1. Init => RevisionsDrawn /\ RevisionsDistinct
  BY DEF Init, RevisionsDrawn, RevisionsDistinct, NoTargets
<1>2. TypeOK /\ RevisionsDrawn /\ RevisionsDistinct /\ [Next]_vars
        => RevisionsDrawn' /\ RevisionsDistinct'
  <2> SUFFICES ASSUME TypeOK, RevisionsDrawn, RevisionsDistinct, [Next]_vars
               PROVE  RevisionsDrawn' /\ RevisionsDistinct'
    OBVIOUS
  <2>1. /\ nextRevision \in Nat
        /\ \A r \in RolloutIds, s \in StageIds : targets[r][s].revision \in Nat
    BY DEF TypeOK, StageTargets
  <2>2. CASE KeepsCohorts
    <3>1. RevisionsDrawn'
      BY <2>2 DEF KeepsCohorts, RevisionsDrawn
    <3>2. RevisionsDistinct'
      BY <2>2 DEF KeepsCohorts, RevisionsDistinct
    <3>3. QED
      BY <3>1, <3>2
  <2>3. ASSUME NEW p \in RolloutIds, NEW u \in StageIds, NEW rows \in StageTargets,
               WritesCohort(p, u, rows)
        PROVE  RevisionsDrawn' /\ RevisionsDistinct'
    <3>1. \A r \in RolloutIds, s \in StageIds :
             targets'[r][s].agents # {} =>
                IF r = p /\ s = u
                THEN targets'[r][s].revision = nextRevision
                ELSE /\ targets'[r][s].revision = targets[r][s].revision
                     /\ targets[r][s].agents # {}
                     /\ targets[r][s].revision < nextRevision
      BY <2>3 DEF WritesCohort, RevisionsDrawn
    <3>2. nextRevision' = nextRevision + 1
      BY <2>3 DEF WritesCohort
    <3>3. RevisionsDrawn'
      BY <2>1, <3>1, <3>2 DEF RevisionsDrawn
    <3>4. RevisionsDistinct'
      <4> SUFFICES ASSUME NEW r \in RolloutIds, NEW q \in RolloutIds,
                          NEW s \in StageIds, NEW w \in StageIds,
                          targets'[r][s].agents # {}, targets'[q][w].agents # {},
                          targets'[r][s].revision = targets'[q][w].revision
                   PROVE  r = q /\ s = w
        BY DEF RevisionsDistinct
      <4>1. CASE r = p /\ s = u
        BY <2>1, <3>1, <4>1
      <4>2. CASE q = p /\ w = u
        BY <2>1, <3>1, <4>2
      <4>3. CASE ~(r = p /\ s = u) /\ ~(q = p /\ w = u)
        BY <3>1, <4>3 DEF RevisionsDistinct
      <4>4. QED
        BY <4>1, <4>2, <4>3
    <3>5. QED
      BY <3>3, <3>4
  <2>4. QED
    BY <2>2, <2>3, CohortWrites
<1>3. QED
  BY <1>1, <1>2, TypeCorrect, PTL DEF Spec
=============================================================================
