------------------------- MODULE RolloutWritesProofs -------------------------
(***************************************************************************)
(* What survives when the engine's writes are separate statements and a    *)
(* handler may be cut short between any two of them.                       *)
(*                                                                         *)
(* The theorems are about one replica; with several of them the properties *)
(* do not hold (CountedAcksKept is refuted for two).  The invariant says   *)
(* of the statements still to come that each of them, whenever it is       *)
(* issued, fits the rows that are there then: they follow a script.        *)
(***************************************************************************)
EXTENDS RolloutWrites, RolloutSafetyProofs

Statements ==
    [op : {"insert", "update"}, r : RolloutIds, ro : Rollout]
        \cup [op : {"stable"}, c : Configs, v : Versions]
        \cup [op : {"replace"}, r : RolloutIds, s : StageIds, t : StageTargets]
        \cup [op : {"target"}, r : RolloutIds, s : StageIds, a : Agents, t : StageTargets]
        \cup [op : {"revision"}]

RolloutStore == [RolloutIds -> Rollout \cup {NoRollout}]

-----------------------------------------------------------------------------
(* Rows that fit together *)

\* The version that the rows of stage s of a rollout expect.
Expected(ro, s) == IF s = Verification THEN ro.stable ELSE ro.candidate

SameTerms(new, old) ==
    /\ new.config = old.config
    /\ new.candidate = old.candidate
    /\ new.stable = old.stable

\* A rollout fits the rows of its stages: acknowledgements were counted in stages
\* that it has reached only, and the stages it has left are covered.
Sound(ro, rows) ==
    /\ ro.state \in {"DEPLOYING", "PAUSED", "COMPLETED", "ROLLING_BACK", "ROLLED_BACK"}
    /\ \/ ro.stage = ro.index
       \/ ro.stage = Verification /\ ro.state \in {"ROLLING_BACK", "ROLLED_BACK"}
    /\ ro.state = "COMPLETED" => ro.index = Len(StagePlan)
    /\ \A s \in StageIds : rows[s].acked # {} => s <= ro.index \/ s = ro.stage
    /\ \A i \in StageIndexes :
          i < ro.index \/ ro.state = "COMPLETED" => CoverageReached(rows[i])

RowsFit(ros, tgs) ==
    \A r \in RolloutIds :
        /\ ros[r] # NoRollout => Sound(ros[r], tgs[r])
        /\ \A s \in StageIds :
              /\ ros[r] = NoRollout => tgs[r][s].acked = {} /\ tgs[r][s].agents = {}
              /\ tgs[r][s].agents # {} => tgs[r][s].version = Expected(ros[r], s)

\* A config that has a rollout has a stable version.
Based(ros, st) ==
    \A r \in RolloutIds : ros[r] # NoRollout => st[ros[r].config] \in Versions

\* At most one unfinished rollout per config.
Unfinished(ros, c) ==
    {q \in RolloutIds : ros[q] # NoRollout /\ ~Terminal(ros[q].state) /\ ros[q].config = c}

OneRunning(ros) == \A c \in Configs : \A r, q \in Unfinished(ros, c) : r = q

-----------------------------------------------------------------------------
(* Statements that follow a script *)

\* The statements that a handler of rollout r may issue, given the rows tg, the
\* rollout ro and a bound m: it updates the rollout up to stage m, and inserts
\* rows from stage m on; a completion (m beyond all stages) inserts none.
Script(tg, r, ro, m) ==
    {w \in Statements :
        \/ w.op = "revision"
        \/ w.op = "stable" /\ w.c = ro.config /\ w.v = ro.candidate
        \/ /\ w.op = "update" /\ w.r = r
           /\ SameTerms(w.ro, ro)
           /\ Sound(w.ro, tg[r])
           /\ w.ro.index <= m
           /\ w.ro.state = "COMPLETED" => m > Verification
        \/ /\ w.op = "target" /\ w.r = r /\ w.s >= m
           /\ tg[r][w.s].acked = {}
           /\ w.t.version = Expected(ro, w.s)}

\* A completion comes after the publication of the candidate.
Announced(ws, ro, st) ==
    \A i \in DOMAIN ws :
        ws[i].op = "update" /\ ws[i].ro.state = "COMPLETED" =>
            \/ st[ro.config] = ro.candidate
            \/ \E j \in 1..(i - 1) : ws[j].op = "stable"

\* A rollout never goes back: not to an earlier stage, not out of a rollback, not
\* out of a state that is final.
Follows(new, old) ==
    /\ \A s \in StageIds : s <= old.index => s <= new.index
    /\ old.stage = Verification => new.stage = Verification
    /\ old.state = "ROLLING_BACK" => new.state \in {"ROLLING_BACK", "ROLLED_BACK"}
    /\ Terminal(old.state) => new.state = old.state

UpdatesFollow(ws, ro) ==
    \A i \in DOMAIN ws : ws[i].op = "update" => Follows(ws[i].ro, ro)

\* Each update follows the rollout ro and the updates before it.
Ordered(ws, ro) ==
    /\ UpdatesFollow(ws, ro)
    /\ \A i, j \in DOMAIN ws :
          i < j /\ ws[i].op = "update" /\ ws[j].op = "update" => Follows(ws[j].ro, ws[i].ro)

Within(ro, m) == ro.index <= m /\ (ro.state = "COMPLETED" => m > Verification)

RunningAs(ws, ros, tgs, st, r, m) ==
    /\ ros[r] # NoRollout
    /\ Within(ros[r], m)
    /\ ws \in Seq(Script(tgs, r, ros[r], m))
    /\ Announced(ws, ros[r], st)
    /\ Ordered(ws, ros[r])

Running(ws, ros, tgs, st) ==
    \E r \in RolloutIds, m \in Nat : RunningAs(ws, ros, tgs, st, r, m)

\* A counted acknowledgement is saved before anything else.
Counting(ws, ros, tgs, st) ==
    \E r \in RolloutIds, t \in StageTargets, rest \in Seq(Statements) :
        LET s == ros[r].stage
        IN  /\ ws = <<replaceTargets(r, s, t)>> \o rest
            /\ ros[r] # NoRollout /\ ros[r].state # "COMPLETED"
            /\ t.agents = tgs[r][s].agents
            /\ t.version = tgs[r][s].version
            /\ tgs[r][s].acked \subseteq t.acked
            /\ Running(rest, ros, [tgs EXCEPT ![r][s] = t], st)

Creating(ws, ros, tgs, st) ==
    \E r \in RolloutIds, ro \in Rollout, rest \in Seq(Statements) :
        /\ ws = <<insertRollout(r, ro)>> \o rest
        /\ ros[r] = NoRollout
        /\ ro.state = "DEPLOYING" /\ ro.index = 1 /\ ro.stage = 1
        /\ ro.stable = st[ro.config]
        /\ rest \in Seq(Script(tgs, r, ro, 1))
        /\ Announced(rest, ro, st)
        /\ Ordered(rest, ro)

Scripted(ws, ros, tgs, st) ==
    \/ ws = <<>>
    \/ Running(ws, ros, tgs, st)
    \/ Counting(ws, ros, tgs, st)
    \/ Creating(ws, ros, tgs, st)

\* The invariant of the engine's writes.
WriteInv ==
    /\ TypeOK
    /\ RowsFit(rollouts, targets)
    /\ OneRunning(rollouts)
    /\ Based(rollouts, stable)
    /\ pending = [p \in Replicas |-> pending[p]]
    /\ \A p \in Replicas : Scripted(pending[p], rollouts, targets, stable)

-----------------------------------------------------------------------------
(* Facts about statements *)

LEMMA StatementFacts ==
    ASSUME NEW w \in Statements
    PROVE  /\ w.op \in {"insert", "update", "stable", "replace", "target", "revision"}
           /\ w.op \in {"insert", "update"} => w.r \in RolloutIds /\ w.ro \in Rollout
           /\ w.op = "stable" => w.c \in Configs /\ w.v \in Versions
           /\ w.op = "target" => /\ w.r \in RolloutIds /\ w.s \in StageIds
                                 /\ w.a \in Agents /\ w.t \in StageTargets
BY DEF Statements

LEMMA StatementTypes ==
    /\ \A r \in RolloutIds, ro \in Rollout :
          insertRollout(r, ro) \in Statements /\ updateRollout(r, ro) \in Statements
    /\ \A c \in Configs, v \in Versions : saveStable(c, v) \in Statements
    /\ \A r \in RolloutIds, s \in StageIds, t \in StageTargets :
          /\ replaceTargets(r, s, t) \in Statements
          /\ \A a \in Agents : insertTarget(r, s, a, t) \in Statements
    /\ nextSnapshotRevision \in Statements
BY DEF Statements, insertRollout, updateRollout, saveStable, replaceTargets, insertTarget,
       nextSnapshotRevision

LEMMA ScriptMonotone ==
    ASSUME NEW S, NEW T, S \subseteq T, NEW ws \in Seq(S)
    PROVE  ws \in Seq(T)
OBVIOUS

LEMMA Concatenation ==
    ASSUME NEW S, NEW a \in Seq(S), NEW b \in Seq(S)
    PROVE  /\ a \o b \in Seq(S)
           /\ DOMAIN (a \o b) = 1..(Len(a) + Len(b))
           /\ \A i \in 1..Len(a) : (a \o b)[i] = a[i]
           /\ \A i \in 1..Len(b) : (a \o b)[Len(a) + i] = b[i]
OBVIOUS

\* The rows of one stage: a revision, then one insert per agent.
LEMMA SaveScript ==
    ASSUME NEW tg \in TargetStore, NEW r \in RolloutIds, NEW ro \in Rollout, NEW terms,
           NEW m \in Nat, NEW s \in StageIds, s >= m, tg[r][s].acked = {},
           NEW t \in StageTargets, t.agents # {} => t.version = Expected(terms, s)
    PROVE  /\ SaveStageTargets(r, s, ro, t) \in Seq(Script(tg, r, terms, m))
           /\ \A i \in DOMAIN SaveStageTargets(r, s, ro, t) :
                 SaveStageTargets(r, s, ro, t)[i].op # "update"
<1> DEFINE rows    == RowOrder[<<ro.config, ro.candidate, t.agents>>]
           inserts == [i \in 1..Len(rows) |-> insertTarget(r, s, rows[i], t)]
           S       == Script(tg, r, terms, m)
<1>1. ro.config \in Configs /\ ro.candidate \in Versions /\ t.agents \in SUBSET Agents
  BY DEF Rollout, StageTargets
<1>2. rows \in Seq(t.agents)
  BY <1>1, RowOrderAssumption
<1>3. \A a \in t.agents : insertTarget(r, s, a, t) \in S
  BY <1>1, StatementTypes DEF Script, insertTarget
<1>4. nextSnapshotRevision \in S
  BY StatementTypes DEF Script, nextSnapshotRevision
<1> HIDE DEF S, rows
<1>5. inserts \in Seq(S)
  BY <1>2, <1>3
<1>6. \A i \in 1..Len(rows) : inserts[i].op = "target"
  BY DEF insertTarget
<1>7. SaveStageTargets(r, s, ro, t) = <<nextSnapshotRevision>> \o inserts
  BY DEF SaveStageTargets, rows
<1>8. nextSnapshotRevision.op = "revision"
  BY DEF nextSnapshotRevision
<1>9. Len(rows) \in Nat /\ Len(inserts) = Len(rows)
  BY <1>2
<1> HIDE DEF inserts
<1>10. <<nextSnapshotRevision>> \o inserts \in Seq(S)
  BY <1>4, <1>5
<1>11. \A i \in DOMAIN (<<nextSnapshotRevision>> \o inserts) :
          (<<nextSnapshotRevision>> \o inserts)[i].op # "update"
  BY <1>5, <1>6, <1>8, <1>9
<1> QED
  BY <1>7, <1>10, <1>11 DEF S

-----------------------------------------------------------------------------
(* What a handler is about to write *)

\* Counting acknowledgements in the current stage leaves a rollout sound.
LEMMA SoundWithAcks ==
    ASSUME TypeOK, RowsFit(rollouts, targets), NEW r \in RolloutIds, Active(r),
           NEW tg, AcksAdded(r, tg)
    PROVE  Sound(rollouts[r], tg[r])
<1> DEFINE old == rollouts[r]
<1>1. Sound(old, targets[r]) /\ old \in Rollout /\ ~Terminal(old.state)
  BY DEF RowsFit, Active, Exists, TypeOK
<1>2. \A s \in StageIds : s # old.stage => tg[r][s] = targets[r][s]
  BY DEF AcksAdded
<1>3. \A s \in StageIds : tg[r][s].acked # {} => s <= old.index \/ s = old.stage
  BY <1>1, <1>2 DEF Sound
<1>4. \A i \in StageIndexes : i < old.index => i \in StageIds /\ i # old.stage
  BY <1>1, StageFacts DEF Sound, Rollout, StageIndexes, Verification
<1>5. \A i \in StageIndexes : i < old.index \/ old.state = "COMPLETED"
                                 => CoverageReached(tg[r][i])
  BY <1>1, <1>2, <1>4 DEF Sound, Terminal
<1> QED
  BY <1>1, <1>3, <1>5 DEF Sound

LEMMA SoundInStage ==
    ASSUME NEW old, NEW new, NEW rows, Sound(old, rows),
           new.index = old.index, new.stage = old.stage,
           \/ old.stage = old.index /\ new.state \in {"DEPLOYING", "PAUSED"}
           \/ new.state \in {"ROLLING_BACK", "ROLLED_BACK"}
    PROVE  Sound(new, rows)
<1>1. new.state \in {"DEPLOYING", "PAUSED", "ROLLING_BACK", "ROLLED_BACK"}
  OBVIOUS
<1>2. \/ new.stage = new.index
      \/ new.stage = Verification /\ new.state \in {"ROLLING_BACK", "ROLLED_BACK"}
  BY DEF Sound
<1>3. \A s \in StageIds : rows[s].acked # {} => s <= new.index \/ s = new.stage
  BY DEF Sound
<1>4. \A i \in StageIndexes : i < new.index \/ new.state = "COMPLETED"
                                 => CoverageReached(rows[i])
  BY <1>1 DEF Sound
<1> QED
  BY <1>1, <1>2, <1>3, <1>4 DEF Sound

LEMMA SoundWithdrawn ==
    ASSUME NEW old, NEW new, NEW rows, Sound(old, rows), old.stage = old.index,
           new.index = old.index, new.stage = Verification,
           new.state \in {"ROLLING_BACK", "ROLLED_BACK"}
    PROVE  Sound(new, rows)
<1>1. \A s \in StageIds : rows[s].acked # {} => s <= new.index \/ s = new.stage
  BY DEF Sound, StageIds
<1>2. \A i \in StageIndexes : i < new.index \/ new.state = "COMPLETED"
                                 => CoverageReached(rows[i])
  BY DEF Sound
<1> QED
  BY <1>1, <1>2 DEF Sound

LEMMA UpdateScripted ==
    ASSUME NEW tg, NEW r \in RolloutIds, NEW old, NEW m \in Nat, NEW ro \in Rollout,
           SameTerms(ro, old), Sound(ro, tg[r]), Within(ro, m)
    PROVE  updateRollout(r, ro) \in Script(tg, r, old, m)
BY StatementTypes DEF Script, updateRollout, Within

\* A list without a completion needs no announcement.
LEMMA NothingToAnnounce ==
    ASSUME NEW ws, NEW ro, NEW st,
           \A i \in DOMAIN ws : ws[i].op = "update" => ws[i].ro.state # "COMPLETED"
    PROVE  Announced(ws, ro, st)
BY DEF Announced

\* What advanceWrites has to be.
Scripting(ws, tg, r) ==
    \E m \in Nat : /\ Within(rollouts[r], m)
                   /\ ws \in Seq(Script(tg, r, rollouts[r], m))
                   /\ Announced(ws, rollouts[r], stable)

LEMMA VerificationScript ==
    ASSUME TypeOK, NEW r \in RolloutIds, Exists(r), rollouts[r].state = "ROLLING_BACK",
           NEW tg \in TargetStore, Sound(rollouts[r], tg[r])
    PROVE  Scripting(rollbackWrites(r, tg[r][rollouts[r].stage]), tg, r)
<1> DEFINE old == rollouts[r]
           t   == tg[r][old.stage]
           S   == Script(tg, r, old, Verification)
<1>1. old \in Rollout /\ old.index \in StageIndexes /\ old.stage \in StageIds
  BY DEF TypeOK, Exists, Rollout
<1>2. t \in StageTargets
  BY <1>1 DEF TargetStore
<1>3. Verification \in Nat /\ Within(old, Verification)
  BY <1>1, StageFacts DEF Within, StageIndexes, Verification
<1>4. SUFFICES /\ rollbackWrites(r, t) \in Seq(S)
               /\ \A i \in DOMAIN rollbackWrites(r, t) :
                     rollbackWrites(r, t)[i].op = "update" =>
                        rollbackWrites(r, t)[i].ro.state # "COMPLETED"
  BY <1>3, NothingToAnnounce DEF Scripting
<1>5. CASE old.stage # Verification
  <2> DEFINE ro   == [old EXCEPT !.stage = Verification, !.stageAge = 0]
             done == RolledBack(ro, "VERIFIED")
             rows == VerificationTargets(ro, t, 0)
             save == SaveStageTargets(r, Verification, ro, rows)
             u    == <<updateRollout(r, ro)>>
             e    == IF t.agents = {} THEN <<updateRollout(r, done)>> ELSE <<>>
  <2>1. ro \in Rollout
    BY <1>1, StageFacts, RestageType DEF States
  <2>2. done \in Rollout
    BY <2>1 DEF Rollout, States, RolledBack
  <2>3. /\ SameTerms(ro, old) /\ ro.state = "ROLLING_BACK"
        /\ ro.index = old.index /\ ro.stage = Verification
    BY <1>1 DEF Rollout, SameTerms
  <2>4. /\ SameTerms(done, old) /\ done.state = "ROLLED_BACK"
        /\ done.index = old.index /\ done.stage = Verification
    BY <2>1, <2>3 DEF Rollout, SameTerms, RolledBack
  <2>5. old.stage = old.index
    BY <1>5 DEF Sound
  <2> HIDE DEF ro, done
  <2>6. /\ Sound(ro, tg[r]) /\ Sound(done, tg[r])
        /\ Within(ro, Verification) /\ Within(done, Verification)
    BY <1>3, <2>3, <2>4, <2>5, SoundWithdrawn DEF Within
  <2>7. updateRollout(r, ro) \in S /\ updateRollout(r, done) \in S
    BY <1>3, <2>1, <2>2, <2>3, <2>4, <2>6, UpdateScripted
  <2>8. tg[r][Verification].acked = {}
    BY <1>1, <1>5, StageFacts DEF Sound, StageIndexes, Verification
  <2>9. rows \in StageTargets
    BY <1>2, <2>1, VerificationTargetsType
  <2>10. rows.agents # {} => rows.version = Expected(old, Verification)
    BY <2>3 DEF VerificationTargets, PendingRows, NoTargets, Expected, SameTerms
  <2> HIDE DEF rows
  <2>11. /\ save \in Seq(S)
         /\ \A i \in DOMAIN save : save[i].op # "update"
    BY <1>3, <2>1, <2>8, <2>9, <2>10, StageFacts, SaveScript
  <2>12. rollbackWrites(r, t) = save \o u \o e
    BY <1>5 DEF rollbackWrites, verificationWrites, rows, ro, done
  <2>13. /\ updateRollout(r, ro).ro.state # "COMPLETED"
         /\ updateRollout(r, done).ro.state # "COMPLETED"
    BY <2>3, <2>4 DEF updateRollout
  <2> HIDE DEF save, S
  <2>14. /\ u \in Seq(S) /\ e \in Seq(S)
         /\ \A i \in DOMAIN u : u[i].ro.state # "COMPLETED"
         /\ \A i \in DOMAIN e : e[i].ro.state # "COMPLETED"
    BY <2>7, <2>13
  <2> HIDE DEF u, e
  <2>15. save \o u \o e \in Seq(S)
    BY <2>11, <2>14
  <2>16. \A i \in DOMAIN (save \o u \o e) :
            (save \o u \o e)[i].op = "update" => (save \o u \o e)[i].ro.state # "COMPLETED"
    BY <2>11, <2>14
  <2> QED
    BY <2>12, <2>15, <2>16
<1>6. CASE old.stage = Verification
  <2> DEFINE outcome == RollbackOutcome(old, t)
             done    == RolledBack(old, outcome)
  <2>1. CASE outcome = "NONE"
    BY <1>6, <2>1 DEF rollbackWrites
  <2>2. CASE outcome # "NONE"
    <3>1. outcome \in {"VERIFIED", "PARTIAL"}
      BY <2>2 DEF RollbackOutcome
    <3>2. /\ done \in Rollout /\ SameTerms(done, old) /\ done.state = "ROLLED_BACK"
          /\ done.index = old.index /\ done.stage = old.stage
      BY <1>1, <3>1 DEF Rollout, States, SameTerms, RolledBack
    <3>3. rollbackWrites(r, t) = <<updateRollout(r, done)>>
      BY <1>6, <2>2 DEF rollbackWrites
    <3> HIDE DEF done
    <3>4. Sound(done, tg[r]) /\ Within(done, Verification)
      BY <1>3, <3>2, SoundInStage DEF Within
    <3>5. updateRollout(r, done) \in S /\ updateRollout(r, done).ro.state # "COMPLETED"
      BY <1>3, <3>2, <3>4, UpdateScripted DEF updateRollout
    <3> QED
      BY <3>3, <3>5
  <2> QED
    BY <2>1, <2>2
<1> QED
  BY <1>5, <1>6

LEMMA DecisionKinds ==
    ASSUME NEW ro, NEW t
    PROVE  evaluateStageDecision(ro, t) \in {"PROMOTE", "ROLLBACK", "PAUSE", "WAIT"}
<1>1. GuardrailStatus(ro) \in {"HEALTHY", "UNHEALTHY", "UNKNOWN"}
  BY DEF GuardrailStatus, AggregateStatus
<1> QED
  BY <1>1 DEF evaluateStageDecision, EvaluateStageProgress

\* The last stage is over: publish, then finish.
LEMMA CompleteScript ==
    ASSUME NEW tg \in TargetStore, NEW r \in RolloutIds, NEW old, NEW ro \in Rollout,
           SameTerms(ro, old), Sound(ro, tg[r]), ro.state \in {"DEPLOYING", "PAUSED"},
           ro.index = Len(StagePlan), CoverageReached(tg[r][ro.index])
    PROVE  completeWrites(r, ro) \in Seq(Script(tg, r, old, Verification + 1))
<1> DEFINE done == [ro EXCEPT !.state = "COMPLETED"]
           S    == Script(tg, r, old, Verification + 1)
<1>1. /\ done \in Rollout /\ SameTerms(done, old) /\ done.state = "COMPLETED"
      /\ done.index = ro.index /\ done.stage = ro.stage
  BY DEF Rollout, States, SameTerms
<1>2. completeWrites(r, ro) =
         <<saveStable(ro.config, ro.candidate), updateRollout(r, done)>>
  BY DEF completeWrites
<1> HIDE DEF done
<1>3. ro.stage = ro.index /\ Verification + 1 \in Nat /\ done.index <= Verification + 1
      /\ Verification + 1 > Verification
  BY <1>1, StageFacts DEF Sound, Verification
<1>4. \A i \in StageIndexes : CoverageReached(tg[r][i])
  <2>1. \A i \in StageIndexes : i < ro.index \/ i = ro.index
    BY StageFacts DEF StageIndexes
  <2> QED
    BY <2>1 DEF Sound
<1>5. \A s \in StageIds : tg[r][s].acked # {} => s <= done.index \/ s = done.stage
  BY <1>1 DEF Sound
<1>6. Sound(done, tg[r])
  BY <1>1, <1>3, <1>4, <1>5 DEF Sound
<1>7. updateRollout(r, done) \in S
  BY <1>1, <1>3, <1>6, UpdateScripted DEF Within
<1>8. saveStable(ro.config, ro.candidate) \in S
  BY StatementTypes DEF Script, saveStable, SameTerms, Rollout
<1> QED
  BY <1>2, <1>7, <1>8

\* The stage is over: move the rollout on, then write the next cohort.
LEMMA MoveOnScript ==
    ASSUME NEW tg \in TargetStore, NEW r \in RolloutIds, NEW old, NEW ro \in Rollout,
           SameTerms(ro, old), Sound(ro, tg[r]), ro.state \in {"DEPLOYING", "PAUSED"},
           ro.index # Len(StagePlan), CoverageReached(tg[r][ro.index])
    PROVE  /\ promoteWrites(r, ro) \in Seq(Script(tg, r, old, ro.index + 1))
           /\ \A i \in DOMAIN promoteWrites(r, ro) :
                 promoteWrites(r, ro)[i].op = "update" =>
                    promoteWrites(r, ro)[i].ro.state # "COMPLETED"
<1> DEFINE next == NextStage(ro)
           m    == ro.index + 1
           S    == Script(tg, r, old, m)
           rows == BuildStageTargets(next, next.index, 0)
           save == SaveStageTargets(r, next.index, next, rows)
           u    == <<updateRollout(r, next)>>
<1>1. m \in StageIndexes /\ m \in StageIds /\ m \in Nat /\ ro.index \in Nat
  BY StageFacts DEF Rollout, StageIndexes, StageIds, Verification
<1>2. next \in Rollout
  BY <1>1, RestageType DEF NextStage, States
<1>3. /\ SameTerms(next, old) /\ next.state = "DEPLOYING"
      /\ next.index = m /\ next.stage = m
  BY DEF NextStage, Rollout, SameTerms
<1>4. promoteWrites(r, ro) = u \o save
  BY DEF promoteWrites
<1> HIDE DEF next
<1>5. ro.stage = ro.index
  BY DEF Sound
<1>6. \A s \in StageIds : tg[r][s].acked # {} => s <= next.index
  BY <1>1, <1>3, <1>5 DEF Sound, StageIds
<1>7. \A i \in StageIndexes : i < next.index => CoverageReached(tg[r][i])
  <2>1. \A i \in StageIndexes : i < next.index => i < ro.index \/ i = ro.index
    BY <1>1, <1>3 DEF StageIndexes
  <2> QED
    BY <2>1 DEF Sound
<1>8. Sound(next, tg[r])
  BY <1>3, <1>6, <1>7 DEF Sound
<1>9. updateRollout(r, next) \in S /\ updateRollout(r, next).ro.state # "COMPLETED"
  <2>1. Within(next, m)
    BY <1>1, <1>3 DEF Within
  <2> HIDE DEF m
  <2> QED
    BY <1>1, <1>2, <1>3, <1>8, <2>1, UpdateScripted DEF updateRollout
<1>10. tg[r][m].acked = {}
  BY <1>1, <1>5 DEF Sound, StageIds
<1>11. rows \in StageTargets
  BY <1>1, <1>2, <1>3, BuildStageTargetsType
<1>12. rows.agents # {} => rows.version = Expected(old, m)
  BY <1>1, <1>3, StageFacts
  DEF BuildStageTargets, PendingRows, NoTargets, Expected, SameTerms
<1> HIDE DEF rows
<1>13. save \in Seq(S) /\ \A i \in DOMAIN save : save[i].op # "update"
  <2>1. m >= m
    BY <1>1
  <2> HIDE DEF m
  <2> QED
    BY <1>1, <1>2, <1>3, <1>10, <1>11, <1>12, <2>1, SaveScript
<1>14. u \in Seq(S) /\ \A i \in DOMAIN u : u[i].ro.state # "COMPLETED"
  <2> HIDE DEF S
  <2> QED
    BY <1>9
<1> HIDE DEF u, save, S
<1>15. u \o save \in Seq(S)
  BY <1>13, <1>14
<1>16. \A i \in DOMAIN (u \o save) :
          (u \o save)[i].op = "update" => (u \o save)[i].ro.state # "COMPLETED"
  BY <1>13, <1>14
<1> QED
  BY <1>4, <1>15, <1>16 DEF S

LEMMA DecideScript ==
    ASSUME TypeOK, NEW r \in RolloutIds, Active(r), rollouts[r].state # "ROLLING_BACK",
           NEW tg \in TargetStore, Sound(rollouts[r], tg[r])
    PROVE  Scripting(decideWrites(r, tg[r][rollouts[r].stage]), tg, r)
<1> DEFINE old      == rollouts[r]
           t        == tg[r][old.stage]
           decision == evaluateStageDecision(old, t)
           ro       == evaluateGuardrails(old, t)
           sampled  == IF Consults(old, t) THEN <<updateRollout(r, ro)>> ELSE <<>>
           tail     == CASE decision = "PROMOTE"  -> promoteWrites(r, ro)
                         [] decision = "ROLLBACK" ->
                               <<updateRollout(r, [ro EXCEPT !.state = "ROLLING_BACK"])>>
                         [] decision = "PAUSE"    ->
                               IF ro.state = "PAUSED" THEN <<>>
                               ELSE <<updateRollout(r, [ro EXCEPT !.state = "PAUSED"])>>
                         [] decision = "WAIT"     -> <<>>
<1>0. decideWrites(r, t) = sampled \o tail
  BY DEF decideWrites
<1>1. old \in Rollout /\ old.state \in {"DEPLOYING", "PAUSED"} /\ old.stage = old.index
  BY DEF TypeOK, Active, Exists, Terminal, Sound
<1>2. t \in StageTargets
  BY <1>1 DEF Rollout, TargetStore
<1>3. PICK f \in [Rules -> Nat] : ro = [old EXCEPT !.failures = f]
  BY <1>1, <1>2, EvaluateGuardrailsType
<1>4. /\ ro \in Rollout /\ SameTerms(ro, old) /\ ro.state = old.state
      /\ ro.index = old.index /\ ro.stage = old.stage
  BY <1>1, <1>3 DEF Rollout, SameTerms
<1>5. decision \in {"PROMOTE", "ROLLBACK", "PAUSE", "WAIT"}
  BY DecisionKinds
<1>6. decision = "PROMOTE" => CoverageReached(t)
  BY PromoteNeedsCoverage
<1> HIDE DEF ro, decision
<1>7. Sound(ro, tg[r])
  BY <1>1, <1>4, SoundInStage
<1>8. \A m \in Nat : ro.index <= m =>
         /\ sampled \in Seq(Script(tg, r, old, m))
         /\ Len(sampled) \in Nat
         /\ \A i \in DOMAIN sampled : sampled[i].ro.state # "COMPLETED"
  <2> SUFFICES ASSUME NEW m \in Nat, ro.index <= m
               PROVE  /\ sampled \in Seq(Script(tg, r, old, m))
                      /\ Len(sampled) \in Nat
                      /\ \A i \in DOMAIN sampled : sampled[i].ro.state # "COMPLETED"
    OBVIOUS
  <2>1. /\ updateRollout(r, ro) \in Script(tg, r, old, m)
        /\ updateRollout(r, ro).ro.state # "COMPLETED"
    BY <1>1, <1>4, <1>7, UpdateScripted DEF Within, updateRollout
  <2>2. CASE Consults(old, t)
    <3>1. sampled = <<updateRollout(r, ro)>>
      BY <2>2
    <3> HIDE DEF sampled
    <3> QED
      BY <2>1, <3>1
  <2>3. CASE ~Consults(old, t)
    <3>1. sampled = <<>>
      BY <2>3
    <3> HIDE DEF sampled
    <3> QED
      BY <3>1
  <2> QED
    BY <2>2, <2>3
<1>9. \A m \in Nat : old.index <= m => Within(old, m)
  BY <1>1 DEF Within
<1> HIDE DEF sampled
<1>10. ASSUME NEW m \in Nat, old.index <= m, tail \in Seq(Script(tg, r, old, m)),
              \A i \in DOMAIN tail : tail[i].op = "update" => tail[i].ro.state # "COMPLETED"
       PROVE  Scripting(decideWrites(r, t), tg, r)
  <2>1. /\ sampled \in Seq(Script(tg, r, old, m))
        /\ \A i \in DOMAIN sampled : sampled[i].ro.state # "COMPLETED"
    BY <1>4, <1>8, <1>10
  <2> HIDE DEF tail
  <2>2. sampled \o tail \in Seq(Script(tg, r, old, m))
    BY <1>10, <2>1
  <2>3. \A i \in DOMAIN (sampled \o tail) :
           (sampled \o tail)[i].op = "update" => (sampled \o tail)[i].ro.state # "COMPLETED"
    BY <1>10, <2>1
  <2> QED
    BY <1>0, <1>9, <1>10, <2>2, <2>3, NothingToAnnounce DEF Scripting
<1>11. Verification \in Nat /\ old.index <= Verification /\ old.index \in Nat
  BY <1>1, StageFacts DEF Rollout, StageIndexes, Verification
<1>12. \A s \in {"ROLLING_BACK", "PAUSED"} :
          LET u == updateRollout(r, [ro EXCEPT !.state = s])
          IN  u \in Script(tg, r, old, Verification) /\ u.ro.state # "COMPLETED"
  <2> SUFFICES ASSUME NEW s \in {"ROLLING_BACK", "PAUSED"}
               PROVE  LET u == updateRollout(r, [ro EXCEPT !.state = s])
                      IN  u \in Script(tg, r, old, Verification) /\ u.ro.state # "COMPLETED"
    OBVIOUS
  <2> DEFINE new == [ro EXCEPT !.state = s]
  <2>1. /\ new \in Rollout /\ SameTerms(new, old) /\ new.state = s
        /\ new.index = ro.index /\ new.stage = ro.stage
    BY <1>4 DEF Rollout, States, SameTerms
  <2> HIDE DEF new
  <2>2. Sound(new, tg[r]) /\ Within(new, Verification)
    BY <1>1, <1>4, <1>7, <1>11, <2>1, SoundInStage DEF Within
  <2>3. updateRollout(r, new) \in Script(tg, r, old, Verification)
    BY <1>11, <2>1, <2>2, UpdateScripted
  <2> QED
    BY <2>1, <2>3 DEF updateRollout, new
<1>13. CASE decision = "ROLLBACK"
  <2>1. tail = <<updateRollout(r, [ro EXCEPT !.state = "ROLLING_BACK"])>>
    BY <1>13
  <2> HIDE DEF tail
  <2> QED
    BY <1>10, <1>11, <1>12, <2>1
<1>14. CASE decision = "PAUSE"
  <2>1. tail = <<>> \/ tail = <<updateRollout(r, [ro EXCEPT !.state = "PAUSED"])>>
    BY <1>14
  <2> HIDE DEF tail
  <2>2. CASE tail = <<>>
    BY <1>10, <1>11, <2>2
  <2>3. CASE tail = <<updateRollout(r, [ro EXCEPT !.state = "PAUSED"])>>
    BY <1>10, <1>11, <1>12, <2>3
  <2> QED
    BY <2>1, <2>2, <2>3
<1>15. CASE decision = "WAIT"
  <2>1. tail = <<>>
    BY <1>15
  <2> HIDE DEF tail
  <2> QED
    BY <1>10, <1>11, <2>1
<1>16. CASE decision = "PROMOTE" /\ ro.index # Len(StagePlan)
  <2>1. tail = promoteWrites(r, ro)
    BY <1>16
  <2> HIDE DEF tail
  <2>2. CoverageReached(tg[r][ro.index])
    BY <1>1, <1>4, <1>6, <1>16
  <2>3. /\ tail \in Seq(Script(tg, r, old, ro.index + 1))
        /\ \A i \in DOMAIN tail : tail[i].op = "update" => tail[i].ro.state # "COMPLETED"
    BY <1>1, <1>4, <1>7, <1>16, <2>1, <2>2, MoveOnScript
  <2>4. ro.index + 1 \in Nat /\ old.index <= ro.index + 1
    BY <1>4, <1>11
  <2> QED
    BY <1>10, <2>3, <2>4
<1>17. CASE decision = "PROMOTE" /\ ro.index = Len(StagePlan)
  <2> DEFINE m    == Verification + 1
             done == [ro EXCEPT !.state = "COMPLETED"]
  <2>1. tail = completeWrites(r, ro)
    BY <1>17 DEF promoteWrites
  <2>2. tail = <<saveStable(ro.config, ro.candidate), updateRollout(r, done)>>
    BY <2>1 DEF completeWrites
  <2> HIDE DEF tail, done
  <2>3. CoverageReached(tg[r][ro.index])
    BY <1>1, <1>4, <1>6, <1>17
  <2>4. tail \in Seq(Script(tg, r, old, m))
    BY <1>1, <1>4, <1>7, <1>17, <2>1, <2>3, CompleteScript
  <2>5. m \in Nat /\ ro.index <= m /\ old.index <= m
    BY <1>4, <1>11
  <2> HIDE DEF m
  <2>6. sampled \in Seq(Script(tg, r, old, m)) /\ Len(sampled) \in Nat
        /\ \A i \in DOMAIN sampled : sampled[i].ro.state # "COMPLETED"
    BY <1>8, <2>5
  <2>7. sampled \o tail \in Seq(Script(tg, r, old, m))
    BY <2>4, <2>6
  <2>8. Len(tail) = 2 /\ tail[1].op = "stable"
    BY <2>2 DEF saveStable
  <2>9. Announced(sampled \o tail, old, stable)
    <3> SUFFICES ASSUME NEW i \in DOMAIN (sampled \o tail),
                        (sampled \o tail)[i].op = "update",
                        (sampled \o tail)[i].ro.state = "COMPLETED"
                 PROVE  \E j \in 1..(i - 1) : (sampled \o tail)[j].op = "stable"
      BY DEF Announced
    <3>1. i \in 1..(Len(sampled) + 2)
      BY <2>4, <2>6, <2>8, Concatenation
    <3>2. (sampled \o tail)[Len(sampled) + 1] = tail[1]
      BY <2>4, <2>6, <2>8, Concatenation
    <3>3. i = Len(sampled) + 2
      <4>1. CASE i <= Len(sampled)
        <5>1. (sampled \o tail)[i] = sampled[i] /\ i \in DOMAIN sampled
          BY <2>4, <2>6, <3>1, <4>1
        <5> QED
          BY <2>6, <5>1
      <4>2. CASE i = Len(sampled) + 1
        BY <2>8, <3>2, <4>2
      <4> QED
        BY <2>6, <3>1, <4>1, <4>2
    <3>4. Len(sampled) + 1 \in 1..(i - 1)
      BY <2>6, <3>3
    <3> QED
      BY <2>8, <3>2, <3>4
  <2> QED
    BY <1>0, <1>9, <2>5, <2>7, <2>9 DEF Scripting
<1> QED
  BY <1>5, <1>13, <1>14, <1>15, <1>16, <1>17

\* Whatever rows it has read, a handler writes what the script allows.
LEMMA AdvanceScript ==
    ASSUME TypeOK, RowsFit(rollouts, targets), NEW r \in RolloutIds, Active(r),
           NEW tg, AcksAdded(r, tg)
    PROVE  Scripting(advanceWrites(r, tg[r][rollouts[r].stage]), tg, r)
<1>1. Sound(rollouts[r], tg[r]) /\ tg \in TargetStore /\ Exists(r)
  BY SoundWithAcks DEF AcksAdded, Active
<1> QED
  BY <1>1, VerificationScript, DecideScript DEF advanceWrites

-----------------------------------------------------------------------------
(* The order of updates *)

LEMMA OrderedNone ==
    ASSUME NEW ws, NEW ro, \A i \in DOMAIN ws : ws[i].op # "update"
    PROVE  Ordered(ws, ro)
BY DEF Ordered, UpdatesFollow

LEMMA OrderedOne ==
    ASSUME NEW r, NEW new, NEW ro, Follows(new, ro)
    PROVE  Ordered(<<updateRollout(r, new)>>, ro)
<1> DEFINE u  == updateRollout(r, new)
           ws == <<u>>
<1>1. u.ro = new
  BY DEF updateRollout
<1> HIDE DEF u
<1>2. DOMAIN ws = {1} /\ ws[1] = u
  OBVIOUS
<1> HIDE DEF ws
<1>3. \A i, j \in DOMAIN ws : ~(i < j)
  BY <1>2
<1>4. Ordered(ws, ro)
  BY <1>1, <1>2, <1>3 DEF Ordered, UpdatesFollow
<1> QED
  BY <1>4 DEF ws, u

LEMMA OrderedConcatenation ==
    ASSUME NEW S, NEW a \in Seq(S), NEW b \in Seq(S), NEW ro, Ordered(a, ro), Ordered(b, ro),
           \A i \in DOMAIN a : a[i].op = "update" => UpdatesFollow(b, a[i].ro)
    PROVE  Ordered(a \o b, ro)
<1> DEFINE ws == a \o b
<1>1. /\ Len(a) \in Nat /\ Len(b) \in Nat
      /\ DOMAIN a = 1..Len(a) /\ DOMAIN b = 1..Len(b) /\ DOMAIN ws = 1..(Len(a) + Len(b))
      /\ \A i \in 1..Len(a) : ws[i] = a[i]
      /\ \A i \in 1..Len(b) : ws[Len(a) + i] = b[i]
  BY Concatenation
<1> HIDE DEF ws
<1>2. \A i \in DOMAIN ws :
         \/ i \in DOMAIN a /\ ws[i] = a[i]
         \/ i > Len(a) /\ i - Len(a) \in DOMAIN b /\ ws[i] = b[i - Len(a)]
  <2> SUFFICES ASSUME NEW i \in DOMAIN ws, ~(i \in DOMAIN a)
               PROVE  i > Len(a) /\ i - Len(a) \in DOMAIN b /\ ws[i] = b[i - Len(a)]
    BY <1>1
  <2>1. i \in Int /\ i > Len(a) /\ i - Len(a) \in 1..Len(b) /\ Len(a) + (i - Len(a)) = i
    BY <1>1
  <2> QED
    BY <1>1, <2>1
<1>3. UpdatesFollow(ws, ro)
  BY <1>2 DEF Ordered, UpdatesFollow
<1>4. ASSUME NEW i \in DOMAIN ws, NEW j \in DOMAIN ws, i < j,
             ws[i].op = "update", ws[j].op = "update"
      PROVE  Follows(ws[j].ro, ws[i].ro)
  <2>1. CASE i \in DOMAIN a /\ ws[i] = a[i] /\ j \in DOMAIN a /\ ws[j] = a[j]
    BY <1>4, <2>1 DEF Ordered
  <2>2. CASE /\ i \in DOMAIN a /\ ws[i] = a[i]
             /\ j - Len(a) \in DOMAIN b /\ ws[j] = b[j - Len(a)]
    BY <1>4, <2>2 DEF UpdatesFollow
  <2>3. CASE /\ i > Len(a) /\ i - Len(a) \in DOMAIN b /\ ws[i] = b[i - Len(a)]
             /\ j - Len(a) \in DOMAIN b /\ ws[j] = b[j - Len(a)]
    <3>1. i - Len(a) < j - Len(a)
      BY <1>1, <1>4
    <3> QED
      BY <1>4, <2>3, <3>1 DEF Ordered
  <2>4. CASE i > Len(a) /\ j \in DOMAIN a
    BY <1>1, <1>4, <2>4
  <2> QED
    BY <1>2, <2>1, <2>2, <2>3, <2>4
<1>5. Ordered(ws, ro)
  BY <1>3, <1>4 DEF Ordered
<1> QED
  BY <1>5 DEF ws

\* The rows of a stage update nothing.
LEMMA SaveOrdered ==
    ASSUME NEW r \in RolloutIds, NEW ro \in Rollout, NEW s \in StageIds, NEW t \in StageTargets
    PROVE  /\ SaveStageTargets(r, s, ro, t) \in Seq(Statements)
           /\ \A i \in DOMAIN SaveStageTargets(r, s, ro, t) :
                 SaveStageTargets(r, s, ro, t)[i].op # "update"
<1> DEFINE tg    == [q \in RolloutIds |-> [u \in StageIds |-> NoTargets]]
           terms == [stable |-> t.version, candidate |-> t.version]
           S     == Script(tg, r, terms, 0)
           save  == SaveStageTargets(r, s, ro, t)
<1>1. tg \in TargetStore /\ tg[r][s].acked = {}
  BY DEF TargetStore, StageTargets, NoTargets
<1>2. t.version = Expected(terms, s) /\ s >= 0 /\ 0 \in Nat
  BY DEF Expected, StageIds
<1> HIDE DEF tg, terms
<1>3. save \in Seq(S) /\ \A i \in DOMAIN save : save[i].op # "update"
  BY <1>1, <1>2, SaveScript
<1>4. S \subseteq Statements
  BY DEF Script
<1> HIDE DEF S, save
<1>5. save \in Seq(Statements)
  BY <1>3, <1>4, ScriptMonotone
<1> QED
  BY <1>3, <1>5 DEF save

LEMMA VerificationOrdered ==
    ASSUME TypeOK, NEW r \in RolloutIds, Exists(r), rollouts[r].state = "ROLLING_BACK",
           NEW t \in StageTargets
    PROVE  Ordered(rollbackWrites(r, t), rollouts[r])
<1> DEFINE old == rollouts[r]
<1>1. old \in Rollout
  BY DEF TypeOK, Exists
<1>2. CASE old.stage # Verification
  <2> DEFINE ro   == [old EXCEPT !.stage = Verification, !.stageAge = 0]
             done == RolledBack(ro, "VERIFIED")
             rows == VerificationTargets(ro, t, 0)
             save == SaveStageTargets(r, Verification, ro, rows)
             u    == <<updateRollout(r, ro)>>
             e    == IF t.agents = {} THEN <<updateRollout(r, done)>> ELSE <<>>
  <2>1. ro \in Rollout
    BY <1>1, StageFacts, RestageType DEF States
  <2>2. done \in Rollout
    BY <2>1 DEF Rollout, States, RolledBack
  <2>3. /\ ro.state = "ROLLING_BACK" /\ ro.index = old.index /\ ro.stage = Verification
        /\ done.state = "ROLLED_BACK" /\ done.index = old.index /\ done.stage = Verification
    BY <1>1, <2>1 DEF Rollout, RolledBack
  <2>4. rollbackWrites(r, t) = (save \o u) \o e
    BY <1>2 DEF rollbackWrites, verificationWrites
  <2>5. rows \in StageTargets
    BY <2>1, VerificationTargetsType
  <2> HIDE DEF ro, done, rows
  <2>6. Follows(ro, old) /\ Follows(done, old) /\ Follows(done, ro)
    BY <2>3 DEF Follows, Terminal
  <2>7. save \in Seq(Statements) /\ \A i \in DOMAIN save : save[i].op # "update"
    BY <2>1, <2>5, StageFacts, SaveOrdered
  <2>8. /\ updateRollout(r, ro) \in Statements /\ updateRollout(r, done) \in Statements
        /\ updateRollout(r, ro).ro = ro /\ updateRollout(r, done).ro = done
    BY <2>1, <2>2, StatementTypes DEF updateRollout
  <2>9. u \in Seq(Statements) /\ e \in Seq(Statements) /\ Ordered(u, old)
        /\ \A i \in DOMAIN u : u[i].ro = ro
    BY <2>6, <2>8, OrderedOne
  <2>10. Ordered(e, old) /\ UpdatesFollow(e, ro)
    <3>1. CASE t.agents = {}
      <4>1. Ordered(<<updateRollout(r, done)>>, old) /\ Ordered(<<updateRollout(r, done)>>, ro)
        BY <2>6, OrderedOne
      <4> QED
        BY <3>1, <4>1 DEF Ordered
    <3>2. CASE t.agents # {}
      <4>1. e = <<>>
        BY <3>2
      <4> QED
        BY <4>1 DEF Ordered, UpdatesFollow
    <3> QED
      BY <3>1, <3>2
  <2> HIDE DEF save, u, e
  <2>11. save \o u \in Seq(Statements) /\ Ordered(save \o u, old)
    BY <2>7, <2>9, OrderedNone, OrderedConcatenation
  <2>12. \A i \in DOMAIN (save \o u) : (save \o u)[i].op = "update" => (save \o u)[i].ro = ro
    BY <2>7, <2>9
  <2>13. Ordered((save \o u) \o e, old)
    BY <2>9, <2>10, <2>11, <2>12, OrderedConcatenation
  <2> QED
    BY <2>4, <2>13
<1>3. CASE old.stage = Verification
  <2> DEFINE outcome == RollbackOutcome(old, t)
             done    == RolledBack(old, outcome)
  <2>1. CASE outcome = "NONE"
    BY <1>3, <2>1, OrderedNone DEF rollbackWrites
  <2>2. CASE outcome # "NONE"
    <3>1. done.state = "ROLLED_BACK" /\ done.index = old.index /\ done.stage = old.stage
      BY <1>1 DEF Rollout, RolledBack
    <3>2. rollbackWrites(r, t) = <<updateRollout(r, done)>>
      BY <1>3, <2>2 DEF rollbackWrites
    <3> HIDE DEF done
    <3>3. Follows(done, old)
      BY <3>1 DEF Follows, Terminal
    <3> QED
      BY <3>2, <3>3, OrderedOne
  <2> QED
    BY <2>1, <2>2
<1> QED
  BY <1>2, <1>3

LEMMA PromoteOrdered ==
    ASSUME NEW r \in RolloutIds, NEW ro \in Rollout, ro.state \in {"DEPLOYING", "PAUSED"},
           ro.stage = ro.index
    PROVE  promoteWrites(r, ro) \in Seq(Statements) /\ Ordered(promoteWrites(r, ro), ro)
<1>1. CASE ro.index = Len(StagePlan)
  <2> DEFINE done == [ro EXCEPT !.state = "COMPLETED"]
             st   == saveStable(ro.config, ro.candidate)
  <2>1. done \in Rollout /\ done.index = ro.index /\ done.stage = ro.stage
    BY DEF Rollout, States
  <2>2. promoteWrites(r, ro) = <<st>> \o <<updateRollout(r, done)>>
    BY <1>1 DEF promoteWrites, completeWrites
  <2> HIDE DEF done
  <2>3. Follows(done, ro)
    BY <2>1 DEF Follows, Terminal
  <2>4. st \in Statements /\ st.op = "stable" /\ updateRollout(r, done) \in Statements
    BY <2>1, StatementTypes DEF Rollout, saveStable
  <2> HIDE DEF st
  <2> DEFINE a == <<st>>
             b == <<updateRollout(r, done)>>
  <2>5. a \in Seq(Statements) /\ \A i \in DOMAIN a : a[i].op # "update"
    BY <2>4
  <2>6. b \in Seq(Statements) /\ Ordered(b, ro)
    BY <2>3, <2>4, OrderedOne
  <2> HIDE DEF a, b
  <2>7. a \o b \in Seq(Statements) /\ Ordered(a \o b, ro)
    BY <2>5, <2>6, OrderedNone, OrderedConcatenation
  <2> QED
    BY <2>2, <2>7 DEF a, b
<1>2. CASE ro.index # Len(StagePlan)
  <2> DEFINE next == NextStage(ro)
             rows == BuildStageTargets(next, next.index, 0)
             save == SaveStageTargets(r, next.index, next, rows)
             u    == <<updateRollout(r, next)>>
  <2>1. /\ ro.index + 1 \in StageIndexes /\ ro.index + 1 \in StageIds /\ ro.index \in Nat
        /\ ro.stage # Verification
    BY <1>2, StageFacts DEF Rollout, StageIndexes, StageIds, Verification
  <2>2. next \in Rollout
    BY <2>1, RestageType DEF NextStage, States
  <2>3. next.index = ro.index + 1 /\ next.state = "DEPLOYING"
    BY DEF NextStage, Rollout
  <2>4. promoteWrites(r, ro) = u \o save
    BY <1>2 DEF promoteWrites
  <2> HIDE DEF next
  <2>5. Follows(next, ro)
    <3>1. \A s \in StageIds : s <= ro.index => s <= next.index
      BY <2>1, <2>3 DEF StageIds
    <3> QED
      BY <2>1, <3>1 DEF Follows, Terminal
  <2>6. rows \in StageTargets
    BY <2>1, <2>2, <2>3, BuildStageTargetsType
  <2> HIDE DEF rows
  <2>7. save \in Seq(Statements) /\ \A i \in DOMAIN save : save[i].op # "update"
    BY <2>1, <2>2, <2>3, <2>6, SaveOrdered
  <2>8. u \in Seq(Statements) /\ Ordered(u, ro)
    BY <2>2, <2>5, StatementTypes, OrderedOne
  <2> HIDE DEF u, save
  <2>9. \A x : Ordered(save, x) /\ UpdatesFollow(save, x)
    BY <2>7, OrderedNone DEF Ordered
  <2> QED
    BY <2>4, <2>7, <2>8, <2>9, OrderedConcatenation, Concatenation
<1> QED
  BY <1>1, <1>2

\* To follow a rollout is to follow one that differs in its counters only.
LEMMA FollowsSame ==
    ASSUME NEW old, NEW ro, ro.state = old.state, ro.index = old.index, ro.stage = old.stage
    PROVE  /\ Follows(ro, old)
           /\ \A ws : Ordered(ws, ro) => Ordered(ws, old)
<1>1. Follows(ro, old)
  BY DEF Follows
<1>2. \A x : Follows(x, ro) => Follows(x, old)
  BY DEF Follows
<1> QED
  BY <1>1, <1>2 DEF Ordered, UpdatesFollow

LEMMA DecideOrdered ==
    ASSUME TypeOK, NEW r \in RolloutIds, Active(r), rollouts[r].state # "ROLLING_BACK",
           NEW rows, Sound(rollouts[r], rows), NEW t \in StageTargets
    PROVE  Ordered(decideWrites(r, t), rollouts[r])
<1> DEFINE old      == rollouts[r]
           decision == evaluateStageDecision(old, t)
           ro       == evaluateGuardrails(old, t)
           sampled  == IF Consults(old, t) THEN <<updateRollout(r, ro)>> ELSE <<>>
           tail     == CASE decision = "PROMOTE"  -> promoteWrites(r, ro)
                         [] decision = "ROLLBACK" ->
                               <<updateRollout(r, [ro EXCEPT !.state = "ROLLING_BACK"])>>
                         [] decision = "PAUSE"    ->
                               IF ro.state = "PAUSED" THEN <<>>
                               ELSE <<updateRollout(r, [ro EXCEPT !.state = "PAUSED"])>>
                         [] decision = "WAIT"     -> <<>>
<1>0. decideWrites(r, t) = sampled \o tail
  BY DEF decideWrites
<1>1. old \in Rollout /\ old.state \in {"DEPLOYING", "PAUSED"} /\ old.stage = old.index
  BY DEF TypeOK, Active, Exists, Terminal, Sound
<1>2. PICK f \in [Rules -> Nat] : ro = [old EXCEPT !.failures = f]
  BY <1>1, EvaluateGuardrailsType
<1>3. /\ ro \in Rollout /\ ro.state = old.state
      /\ ro.index = old.index /\ ro.stage = old.stage
  BY <1>1, <1>2 DEF Rollout
<1>4. decision \in {"PROMOTE", "ROLLBACK", "PAUSE", "WAIT"}
  BY DecisionKinds
<1> HIDE DEF ro, decision
<1>5. \A x \in {"ROLLING_BACK", "PAUSED"} :
         LET ws == <<updateRollout(r, [ro EXCEPT !.state = x])>>
         IN  ws \in Seq(Statements) /\ Ordered(ws, ro)
  <2> SUFFICES ASSUME NEW x \in {"ROLLING_BACK", "PAUSED"}
               PROVE  LET ws == <<updateRollout(r, [ro EXCEPT !.state = x])>>
                      IN  ws \in Seq(Statements) /\ Ordered(ws, ro)
    OBVIOUS
  <2> DEFINE new == [ro EXCEPT !.state = x]
  <2>1. new \in Rollout /\ new.index = ro.index /\ new.stage = ro.stage
    BY <1>3 DEF Rollout, States
  <2>2. Follows(new, ro)
    BY <1>1, <1>3, <2>1 DEF Follows, Terminal
  <2>3. updateRollout(r, new) \in Statements
    BY <2>1, StatementTypes
  <2>4. Ordered(<<updateRollout(r, new)>>, ro)
    BY <2>2, OrderedOne
  <2> QED
    BY <2>3, <2>4
<1>6. <<>> \in Seq(Statements) /\ Ordered(<<>>, ro)
  BY OrderedNone
<1>7. tail \in Seq(Statements) /\ Ordered(tail, ro)
  <2>1. CASE decision = "PROMOTE"
    BY <1>1, <1>3, <2>1, PromoteOrdered
  <2>2. CASE decision = "ROLLBACK"
    BY <1>5, <2>2
  <2>3. CASE decision = "PAUSE"
    BY <1>5, <1>6, <2>3
  <2>4. CASE decision = "WAIT"
    BY <1>6, <2>4
  <2> QED
    BY <1>4, <2>1, <2>2, <2>3, <2>4
<1> HIDE DEF tail
<1>8. CASE Consults(old, t)
  <2> DEFINE u == <<updateRollout(r, ro)>>
  <2>1. sampled = u
    BY <1>8
  <2>2. u \in Seq(Statements) /\ \A i \in DOMAIN u : u[i].ro = ro
    BY <1>3, StatementTypes DEF updateRollout
  <2>3. Ordered(u, old) /\ Ordered(tail, old)
    BY <1>3, <1>7, FollowsSame, OrderedOne
  <2> HIDE DEF u
  <2>4. Ordered(u \o tail, old)
    BY <1>7, <2>2, <2>3, OrderedConcatenation DEF Ordered
  <2> QED
    BY <1>0, <2>1, <2>4
<1>9. CASE ~Consults(old, t)
  <2>1. sampled = <<>>
    BY <1>9
  <2>2. <<>> \o tail = tail
    BY <1>7
  <2> QED
    BY <1>0, <1>3, <1>7, <2>1, <2>2, FollowsSame
<1> QED
  BY <1>8, <1>9

\* The updates of a handler never take a rollout back.
LEMMA AdvanceOrdered ==
    ASSUME TypeOK, RowsFit(rollouts, targets), NEW r \in RolloutIds, Active(r),
           NEW t \in StageTargets
    PROVE  Ordered(advanceWrites(r, t), rollouts[r])
<1>1. Sound(rollouts[r], targets[r]) /\ Exists(r)
  BY DEF RowsFit, Active, Exists
<1> QED
  BY <1>1, VerificationOrdered, DecideOrdered DEF advanceWrites

-----------------------------------------------------------------------------
(* Issuing a statement *)

StableStore == [Configs -> Versions \cup {NoVersion}]

\* What the engine never takes back: a rollout and its terms, the agents of a
\* cohort, a counted acknowledgement.  It completes what is published, and a
\* rollout starts from what is stable.
Keeps(ros, tgs, st, ros2, tgs2) ==
    \A q \in RolloutIds :
        /\ ros[q] # NoRollout =>
              /\ ros2[q] # NoRollout
              /\ SameTerms(ros2[q], ros[q])
              /\ Follows(ros2[q], ros[q])
              /\ ros[q].state # "COMPLETED" /\ ros2[q].state = "COMPLETED"
                    => st[ros[q].config] = ros[q].candidate
        /\ ros[q] = NoRollout /\ ros2[q] # NoRollout => ros2[q].stable = st[ros2[q].config]
        /\ \A s \in StageIds :
              /\ tgs[q][s].agents \subseteq tgs2[q][s].agents
              /\ tgs[q][s].acked \subseteq tgs2[q][s].acked

LEMMA StampedScript ==
    ASSUME NEW tg, NEW r, NEW ro, NEW m, NEW ws \in Seq(Script(tg, r, ro, m)), NEW n \in Nat
    PROVE  /\ Stamped(ws, n) \in Seq(Script(tg, r, ro, m))
           /\ DOMAIN Stamped(ws, n) = DOMAIN ws
           /\ \A i \in DOMAIN ws :
                 /\ Stamped(ws, n)[i].op = ws[i].op
                 /\ ws[i].op # "target" => Stamped(ws, n)[i] = ws[i]
<1> DEFINE S        == Script(tg, r, ro, m)
           stamp(w) == IF w.op = "target" THEN [w EXCEPT !.t.revision = n] ELSE w
<1>1. \A w \in S : stamp(w) \in S /\ stamp(w).op = w.op
  <2> SUFFICES ASSUME NEW w \in S, w.op = "target"
               PROVE  [w EXCEPT !.t.revision = n] \in S /\ [w EXCEPT !.t.revision = n].op = w.op
    OBVIOUS
  <2> DEFINE t   == [w.t EXCEPT !.revision = n]
             new == [w EXCEPT !.t = t]
  <2>1. w \in [op : {"target"}, r : RolloutIds, s : StageIds, a : Agents, t : StageTargets]
    BY DEF Script, Statements
  <2>2. t \in StageTargets /\ t.version = w.t.version
    BY <2>1 DEF StageTargets
  <2>3. [w EXCEPT !.t.revision = n] = new
    BY <2>1
  <2> HIDE DEF t
  <2>4. /\ new \in [op : {"target"}, r : RolloutIds, s : StageIds, a : Agents, t : StageTargets]
        /\ new.op = "target" /\ new.r = w.r /\ new.s = w.s /\ new.t = t
    BY <2>1, <2>2
  <2> HIDE DEF new
  <2>5. new \in Statements
    BY <2>4 DEF Statements
  <2>6. w.r = r /\ w.s >= m /\ tg[r][w.s].acked = {} /\ w.t.version = Expected(ro, w.s)
    BY DEF Script
  <2>7. new \in S
    BY <2>2, <2>4, <2>5, <2>6 DEF Script
  <2> QED
    BY <2>3, <2>4, <2>7
<1>2. Stamped(ws, n) = [i \in DOMAIN ws |-> stamp(ws[i])]
  BY DEF Stamped
<1> HIDE DEF S
<1>3. [i \in DOMAIN ws |-> stamp(ws[i])] \in Seq(S)
  <2>1. DOMAIN ws = 1..Len(ws) /\ Len(ws) \in Nat /\ \A i \in DOMAIN ws : ws[i] \in S
    BY DEF S
  <2>2. \A i \in DOMAIN ws : stamp(ws[i]) \in S
    BY <1>1, <2>1
  <2> HIDE DEF stamp
  <2> QED
    BY <2>1, <2>2
<1>4. \A i \in DOMAIN ws : stamp(ws[i]).op = ws[i].op
  BY <1>1 DEF S
<1> QED
  BY <1>2, <1>3, <1>4 DEF S

\* Announcements survive the step that was first in the list.
LEMMA AnnouncedTail ==
    ASSUME NEW S, NEW ws \in Seq(S), ws # <<>>, NEW ro, NEW st, NEW st2,
           Announced(ws, ro, st),
           st[ro.config] = ro.candidate \/ Head(ws).op = "stable"
              => st2[ro.config] = ro.candidate
    PROVE  Announced(Tail(ws), ro, st2)
<1> SUFFICES ASSUME NEW i \in DOMAIN Tail(ws), Tail(ws)[i].op = "update",
                    Tail(ws)[i].ro.state = "COMPLETED", st2[ro.config] # ro.candidate
             PROVE  \E j \in 1..(i - 1) : Tail(ws)[j].op = "stable"
  BY DEF Announced
<1>1. /\ Len(ws) \in Nat \ {0} /\ DOMAIN Tail(ws) = 1..(Len(ws) - 1)
      /\ \A k \in 1..(Len(ws) - 1) : Tail(ws)[k] = ws[k + 1]
      /\ Head(ws) = ws[1] /\ DOMAIN ws = 1..Len(ws)
  OBVIOUS
<1>2. i + 1 \in DOMAIN ws /\ ws[i + 1] = Tail(ws)[i]
  BY <1>1
<1>3. PICK j \in 1..((i + 1) - 1) : ws[j].op = "stable"
  BY <1>2 DEF Announced
<1>4. j # 1
  BY <1>1, <1>3
<1>5. j - 1 \in 1..(i - 1) /\ Tail(ws)[j - 1] = ws[j]
  BY <1>1, <1>3, <1>4
<1> QED
  BY <1>3, <1>5

LEMMA OrderedTail ==
    ASSUME NEW S, NEW ws \in Seq(S), ws # <<>>, NEW ro, Ordered(ws, ro)
    PROVE  /\ Ordered(Tail(ws), ro)
           /\ Head(ws).op = "update" =>
                 Follows(Head(ws).ro, ro) /\ Ordered(Tail(ws), Head(ws).ro)
<1>1. /\ Len(ws) \in Nat \ {0} /\ DOMAIN Tail(ws) = 1..(Len(ws) - 1)
      /\ \A k \in 1..(Len(ws) - 1) : Tail(ws)[k] = ws[k + 1]
      /\ Head(ws) = ws[1] /\ DOMAIN ws = 1..Len(ws)
  OBVIOUS
<1>2. \A k \in DOMAIN Tail(ws) : k \in Int /\ k + 1 \in DOMAIN ws /\ Tail(ws)[k] = ws[k + 1]
                                 /\ 1 < k + 1
  BY <1>1
<1>3. \A i, j \in DOMAIN Tail(ws) : i < j => i + 1 < j + 1
  BY <1>2
<1>4. 1 \in DOMAIN ws
  BY <1>1
<1>5. \A i, j \in DOMAIN Tail(ws) :
         i < j /\ Tail(ws)[i].op = "update" /\ Tail(ws)[j].op = "update"
            => Follows(Tail(ws)[j].ro, Tail(ws)[i].ro)
  BY <1>2, <1>3 DEF Ordered
<1>6. Ordered(Tail(ws), ro)
  BY <1>2, <1>5 DEF Ordered, UpdatesFollow
<1>7. ASSUME Head(ws).op = "update"
      PROVE  Follows(Head(ws).ro, ro) /\ Ordered(Tail(ws), Head(ws).ro)
  BY <1>1, <1>2, <1>4, <1>5, <1>7 DEF Ordered, UpdatesFollow
<1> QED
  BY <1>6, <1>7

\* A list whose rows got their revision updates as it did.
LEMMA StampedShape ==
    ASSUME NEW ws \in Seq(Statements), NEW n \in Nat
    PROVE  /\ DOMAIN Stamped(ws, n) = DOMAIN ws
           /\ \A i \in DOMAIN ws :
                 /\ Stamped(ws, n)[i].op = ws[i].op
                 /\ ws[i].op # "target" => Stamped(ws, n)[i] = ws[i]
<1>1. \A w \in Statements : w.op = "target" => [w EXCEPT !.t.revision = n].op = w.op
  BY DEF Statements
<1> QED
  BY <1>1 DEF Stamped

LEMMA AnnouncedStamped ==
    ASSUME NEW ws \in Seq(Statements), NEW n \in Nat, NEW ro, NEW st, Announced(ws, ro, st)
    PROVE  Announced(Stamped(ws, n), ro, st)
<1> SUFFICES ASSUME NEW i \in DOMAIN ws, Stamped(ws, n)[i].op = "update",
                    Stamped(ws, n)[i].ro.state = "COMPLETED", st[ro.config] # ro.candidate
             PROVE  \E j \in 1..(i - 1) : Stamped(ws, n)[j].op = "stable"
  BY StampedShape DEF Announced
<1>1. ws[i].op = "update" /\ ws[i].ro.state = "COMPLETED"
  BY StampedShape
<1>2. PICK j \in 1..(i - 1) : ws[j].op = "stable"
  BY <1>1 DEF Announced
<1>3. j \in DOMAIN ws
  OBVIOUS
<1> QED
  BY <1>2, <1>3, StampedShape

LEMMA OrderedStamped ==
    ASSUME NEW ws \in Seq(Statements), NEW n \in Nat, NEW ro, Ordered(ws, ro)
    PROVE  Ordered(Stamped(ws, n), ro)
<1> DEFINE new == Stamped(ws, n)
<1>1. /\ DOMAIN new = DOMAIN ws
      /\ \A i \in DOMAIN ws : new[i].op = "update" => ws[i].op = "update" /\ new[i] = ws[i]
  BY StampedShape
<1> HIDE DEF new
<1>2. Ordered(new, ro)
  BY <1>1 DEF Ordered, UpdatesFollow
<1> QED
  BY <1>2 DEF new

\* Only the terms of the rollout matter to the script.
LEMMA ScriptTerms ==
    ASSUME NEW tg, NEW r, NEW old, NEW new, NEW m, SameTerms(new, old)
    PROVE  Script(tg, r, new, m) = Script(tg, r, old, m)
<1>1. \A s : Expected(new, s) = Expected(old, s)
  BY DEF Expected, SameTerms
<1>2. \A ro : SameTerms(ro, new) <=> SameTerms(ro, old)
  BY DEF SameTerms
<1>3. new.config = old.config /\ new.candidate = old.candidate
  BY DEF SameTerms
<1>4. \A w \in Statements : w \in Script(tg, r, new, m) <=> w \in Script(tg, r, old, m)
  BY <1>1, <1>2, <1>3 DEF Script
<1>5. Script(tg, r, new, m) \subseteq Statements /\ Script(tg, r, old, m) \subseteq Statements
  BY DEF Script
<1> QED
  BY <1>4, <1>5

\* A row inserted at stage s leaves the other rows alone, and takes back no
\* acknowledgement where there is none.
LEMMA TargetInserted ==
    ASSUME NEW tgs \in TargetStore, NEW w \in Statements, w.op = "target",
           tgs[w.r][w.s].acked = {}
    PROVE  /\ TargetsAfter(w, tgs) \in TargetStore
           /\ \A q \in RolloutIds, s \in StageIds :
                 IF q = w.r /\ s = w.s
                 THEN /\ TargetsAfter(w, tgs)[q][s].agents = tgs[q][s].agents \cup {w.a}
                      /\ TargetsAfter(w, tgs)[q][s].acked = {}
                      /\ TargetsAfter(w, tgs)[q][s].version = w.t.version
                 ELSE TargetsAfter(w, tgs)[q][s] = tgs[q][s]
<1> DEFINE old == tgs[w.r][w.s]
           new == [agents |-> old.agents \cup {w.a}, acked |-> old.acked \ {w.a},
                   version |-> w.t.version, revision |-> w.t.revision]
<1>1. w.r \in RolloutIds /\ w.s \in StageIds /\ w.a \in Agents /\ w.t \in StageTargets
  BY StatementFacts
<1>2. new \in StageTargets
  BY <1>1 DEF TargetStore, StageTargets
<1>3. TargetsAfter(w, tgs) = [tgs EXCEPT ![w.r][w.s] = new]
  BY DEF TargetsAfter
<1>4. /\ new.agents = old.agents \cup {w.a} /\ new.acked = {}
      /\ new.version = w.t.version
  OBVIOUS
<1> HIDE DEF new
<1>5. TargetsAfter(w, tgs) \in TargetStore
  BY <1>1, <1>2, <1>3 DEF TargetStore
<1>6. \A q \in RolloutIds, s \in StageIds :
         TargetsAfter(w, tgs)[q][s] = IF q = w.r /\ s = w.s THEN new ELSE tgs[q][s]
  BY <1>1, <1>3 DEF TargetStore
<1> QED
  BY <1>4, <1>5, <1>6

\* A rollout stays sound, and so does what the script says of its updates.
LEMMA SoundAfterInsert ==
    ASSUME NEW tgs \in TargetStore, NEW w \in Statements, w.op = "target",
           tgs[w.r][w.s].acked = {}, NEW m \in Nat, w.s >= m,
           NEW ro \in Rollout, Within(ro, m), Sound(ro, tgs[w.r])
    PROVE  Sound(ro, TargetsAfter(w, tgs)[w.r])
<1> DEFINE rows == tgs[w.r]
           new  == TargetsAfter(w, tgs)[w.r]
<1>1. w.r \in RolloutIds /\ w.s \in StageIds
  BY StatementFacts
<1>2. /\ \A s \in StageIds : s # w.s => new[s] = rows[s]
      /\ new[w.s].acked = {}
  BY <1>1, TargetInserted
<1>3. ro.state # "COMPLETED"
  BY <1>1, StageFacts DEF Within, StageIds, Verification
<1>4. \A i \in StageIndexes : i < ro.index => i \in StageIds /\ i # w.s
  BY <1>1, StageFacts DEF Within, StageIds, StageIndexes, Rollout
<1> HIDE DEF new
<1>5. \A s \in StageIds : new[s].acked # {} => s <= ro.index \/ s = ro.stage
  BY <1>2 DEF Sound
<1>6. \A i \in StageIndexes : i < ro.index => CoverageReached(new[i])
  BY <1>2, <1>4 DEF Sound
<1> QED
  BY <1>3, <1>5, <1>6 DEF Sound, new

LEMMA ScriptAfterInsert ==
    ASSUME NEW tgs \in TargetStore, NEW r \in RolloutIds, NEW ro, NEW m \in Nat,
           NEW w \in Script(tgs, r, ro, m), w.op = "target"
    PROVE  Script(tgs, r, ro, m) \subseteq Script(TargetsAfter(w, tgs), r, ro, m)
<1> DEFINE new == TargetsAfter(w, tgs)
<1>1. /\ w \in Statements /\ w.r = r /\ w.s >= m /\ tgs[r][w.s].acked = {}
  BY DEF Script
<1> SUFFICES ASSUME NEW x \in Script(tgs, r, ro, m)
             PROVE  x \in Script(new, r, ro, m)
  OBVIOUS
<1>2. x \in Statements
  BY DEF Script
<1>3. CASE x.op = "update"
  <2>1. /\ x.ro \in Rollout /\ x.r = r /\ SameTerms(x.ro, ro) /\ Sound(x.ro, tgs[r])
        /\ x.ro.index <= m /\ (x.ro.state = "COMPLETED" => m > Verification)
    BY <1>2, <1>3, StatementFacts DEF Script
  <2>2. Sound(x.ro, new[r])
    BY <1>1, <2>1, SoundAfterInsert DEF Within
  <2> HIDE DEF new
  <2> QED
    BY <1>2, <1>3, <2>1, <2>2 DEF Script
<1>4. CASE x.op = "target"
  <2>1. /\ x.r = r /\ x.s \in StageIds /\ x.s >= m /\ tgs[r][x.s].acked = {}
        /\ x.t.version = Expected(ro, x.s)
    BY <1>2, <1>4, StatementFacts DEF Script
  <2>2. new[r][x.s].acked = {}
    BY <1>1, <2>1, TargetInserted
  <2> HIDE DEF new
  <2> QED
    BY <1>2, <1>4, <2>1, <2>2 DEF Script
<1>5. CASE x.op \notin {"update", "target"}
  BY <1>2, <1>5 DEF Script
<1> QED
  BY <1>3, <1>4, <1>5

\* The rows, typed and fitting together.
Fits(ros, tgs, st) ==
    /\ ros \in RolloutStore
    /\ tgs \in TargetStore
    /\ st \in StableStore
    /\ RowsFit(ros, tgs)
    /\ OneRunning(ros)
    /\ Based(ros, st)

\* The first of a list of statements, and the rest.
LEMMA FirstStatement ==
    ASSUME NEW S, NEW ws \in Seq(S), ws # <<>>
    PROVE  /\ Head(ws) \in S
           /\ Head(ws) = ws[1]
           /\ 1 \in DOMAIN ws
           /\ Tail(ws) \in Seq(S)
OBVIOUS

LEMMA UpdateIssued ==
    ASSUME NEW ros, NEW tgs, NEW st, Fits(ros, tgs, st), NEW r \in RolloutIds, NEW m \in Nat,
           NEW ws, RunningAs(ws, ros, tgs, st, r, m), ws # <<>>, Head(ws).op = "update"
    PROVE  LET ros2 == RolloutsAfter(Head(ws), ros)
           IN  /\ Fits(ros2, tgs, st)
               /\ RunningAs(Tail(ws), ros2, tgs, st, r, m)
               /\ Keeps(ros, tgs, st, ros2, tgs)
<1> DEFINE w    == Head(ws)
           old  == ros[r]
           new  == w.ro
           ros2 == RolloutsAfter(w, ros)
<1>1. /\ ws \in Seq(Script(tgs, r, old, m)) /\ old # NoRollout /\ Within(old, m)
      /\ Announced(ws, old, st) /\ Ordered(ws, old)
  BY DEF RunningAs
<1>2. /\ w \in Script(tgs, r, old, m) /\ w = ws[1] /\ 1 \in DOMAIN ws
      /\ Tail(ws) \in Seq(Script(tgs, r, old, m))
  <2> DEFINE S == Script(tgs, r, old, m)
  <2> HIDE DEF S
  <2>1. ws \in Seq(S)
    BY <1>1 DEF S
  <2>2. /\ Head(ws) \in S /\ Head(ws) = ws[1] /\ 1 \in DOMAIN ws /\ Tail(ws) \in Seq(S)
    BY <2>1, FirstStatement
  <2> QED
    BY <2>2 DEF S
<1>3. /\ w.r = r /\ new \in Rollout /\ SameTerms(new, old) /\ Sound(new, tgs[r])
      /\ Within(new, m)
  BY <1>2, StatementFacts DEF Script, Within
<1>4. /\ ros \in RolloutStore /\ tgs \in TargetStore /\ st \in StableStore
      /\ RowsFit(ros, tgs) /\ OneRunning(ros) /\ new # NoRollout
  BY <1>3, NoRolloutAssumption DEF Fits
<1>5. ros2 = [ros EXCEPT ![r] = new]
  BY <1>3 DEF RolloutsAfter
<1>6. /\ ros2 \in RolloutStore /\ ros2[r] = new
      /\ \A q \in RolloutIds : q # r => ros2[q] = ros[q]
  BY <1>3, <1>4, <1>5 DEF RolloutStore
<1>7. new.state = "COMPLETED" => st[old.config] = old.candidate
  BY <1>1, <1>2 DEF Announced
<1>8. Announced(Tail(ws), old, st) /\ Follows(new, old) /\ Ordered(Tail(ws), new)
  <2> DEFINE S == Script(tgs, r, old, m)
  <2>1. ws \in Seq(S)
    BY <1>1
  <2>2. w.op # "stable"
    OBVIOUS
  <2> HIDE DEF S
  <2> QED
    BY <1>1, <2>1, <2>2, AnnouncedTail, OrderedTail
<1> HIDE DEF ros2, new, w
<1>9. \A s \in StageIds : Expected(new, s) = Expected(old, s)
  BY <1>3 DEF Expected, SameTerms
<1>10. RowsFit(ros2, tgs)
  <2> SUFFICES ASSUME NEW q \in RolloutIds
               PROVE  /\ ros2[q] # NoRollout => Sound(ros2[q], tgs[q])
                      /\ \A s \in StageIds :
                            /\ ros2[q] = NoRollout => tgs[q][s].acked = {} /\ tgs[q][s].agents = {}
                            /\ tgs[q][s].agents # {} => tgs[q][s].version = Expected(ros2[q], s)
    BY DEF RowsFit
  <2>1. CASE q = r
    BY <1>3, <1>4, <1>6, <1>9, <2>1 DEF RowsFit
  <2>2. CASE q # r
    BY <1>4, <1>6, <2>2 DEF RowsFit
  <2> QED
    BY <2>1, <2>2
<1>11. Announced(Tail(ws), new, st)
  BY <1>3, <1>8 DEF Announced, SameTerms
<1>12. Tail(ws) \in Seq(Script(tgs, r, new, m))
  BY <1>2, <1>3, ScriptTerms
<1>13. RunningAs(Tail(ws), ros2, tgs, st, r, m)
  BY <1>3, <1>4, <1>6, <1>8, <1>11, <1>12 DEF RunningAs
<1>14. Keeps(ros, tgs, st, ros2, tgs)
  <2>1. ros[r] # NoRollout /\ ros2[r] # NoRollout
    BY <1>1, <1>4, <1>6
  <2>2. \A q \in RolloutIds :
           ros[q] # NoRollout => SameTerms(ros2[q], ros[q]) /\ Follows(ros2[q], ros[q])
    BY <1>3, <1>6, <1>8 DEF SameTerms, Follows
  <2> QED
    BY <1>6, <1>7, <2>1, <2>2 DEF Keeps
<1>15. OneRunning(ros2)
  <2>1. /\ old # NoRollout /\ new.config = old.config
        /\ ~Terminal(new.state) => ~Terminal(old.state)
    BY <1>1, <1>3, <1>8 DEF SameTerms, Follows, Terminal
  <2>2. \A c \in Configs : Unfinished(ros2, c) \subseteq Unfinished(ros, c)
    BY <1>6, <2>1 DEF Unfinished
  <2> QED
    BY <1>4, <2>2 DEF OneRunning
<1>16. Based(ros2, st)
  BY <1>1, <1>3, <1>6 DEF Fits, Based, SameTerms
<1> QED
  BY <1>4, <1>6, <1>10, <1>13, <1>14, <1>15, <1>16 DEF Fits, ros2, w

LEMMA StableIssued ==
    ASSUME NEW ros, NEW tgs, NEW st, Fits(ros, tgs, st), NEW r \in RolloutIds, NEW m \in Nat,
           NEW ws, RunningAs(ws, ros, tgs, st, r, m), ws # <<>>, Head(ws).op = "stable"
    PROVE  /\ Fits(ros, tgs, StableAfter(Head(ws), st))
           /\ RunningAs(Tail(ws), ros, tgs, StableAfter(Head(ws), st), r, m)
<1> DEFINE w   == Head(ws)
           old == ros[r]
           S   == Script(tgs, r, old, m)
           st2 == StableAfter(w, st)
<1>1. /\ ws \in Seq(S) /\ old # NoRollout /\ Within(old, m) /\ Announced(ws, old, st)
      /\ Ordered(ws, old)
  BY DEF RunningAs
<1>2. w \in S /\ Tail(ws) \in Seq(S)
  <2> HIDE DEF S
  <2> QED
    BY <1>1, FirstStatement
<1>3. w.c = old.config /\ w.v = old.candidate /\ w.c \in Configs /\ w.v \in Versions
  BY <1>2, StatementFacts DEF Script
<1>4. st2 = [st EXCEPT ![old.config] = old.candidate]
  BY <1>3 DEF StableAfter
<1>5. st2 \in StableStore /\ st2[old.config] = old.candidate
  BY <1>3, <1>4 DEF Fits, StableStore
<1> HIDE DEF st2, S
<1>6. Announced(Tail(ws), old, st2) /\ Ordered(Tail(ws), old)
  BY <1>1, <1>5, AnnouncedTail, OrderedTail
<1>7. Based(ros, st2)
  <2>1. \A c \in Configs : st2[c] = IF c = old.config THEN old.candidate ELSE st[c]
    BY <1>4 DEF Fits, StableStore
  <2>2. \A q \in RolloutIds : ros[q] # NoRollout => ros[q].config \in Configs
    BY DEF Fits, RolloutStore, Rollout
  <2> QED
    BY <1>3, <2>1, <2>2 DEF Fits, Based
<1> QED
  BY <1>1, <1>2, <1>5, <1>6, <1>7 DEF Fits, RunningAs, st2, S

LEMMA RevisionIssued ==
    ASSUME NEW ros, NEW tgs, NEW st, NEW r \in RolloutIds, NEW m \in Nat, NEW n \in Nat,
           NEW ws, RunningAs(ws, ros, tgs, st, r, m), ws # <<>>, Head(ws).op = "revision"
    PROVE  RunningAs(Stamped(Tail(ws), n), ros, tgs, st, r, m)
<1> DEFINE old == ros[r]
           S   == Script(tgs, r, old, m)
<1>1. /\ ws \in Seq(S) /\ old # NoRollout /\ Within(old, m) /\ Announced(ws, old, st)
      /\ Ordered(ws, old)
  BY DEF RunningAs
<1>2. S \subseteq Statements
  BY DEF Script
<1>3. /\ Tail(ws) \in Seq(S) /\ Tail(ws) \in Seq(Statements)
      /\ Announced(Tail(ws), old, st) /\ Ordered(Tail(ws), old)
  <2> HIDE DEF S
  <2>1. Tail(ws) \in Seq(S)
    BY <1>1, FirstStatement
  <2>2. Tail(ws) \in Seq(Statements)
    BY <1>2, <2>1, ScriptMonotone
  <2>3. Announced(Tail(ws), old, st) /\ Ordered(Tail(ws), old)
    BY <1>1, AnnouncedTail, OrderedTail
  <2> QED
    BY <2>1, <2>2, <2>3
<1>4. Stamped(Tail(ws), n) \in Seq(S)
  BY <1>3, StampedScript
<1>5. Announced(Stamped(Tail(ws), n), old, st) /\ Ordered(Stamped(Tail(ws), n), old)
  BY <1>3, AnnouncedStamped, OrderedStamped
<1> QED
  BY <1>1, <1>4, <1>5 DEF RunningAs

LEMMA TargetIssued ==
    ASSUME NEW ros, NEW tgs, NEW st, Fits(ros, tgs, st), NEW r \in RolloutIds, NEW m \in Nat,
           NEW ws, RunningAs(ws, ros, tgs, st, r, m), ws # <<>>, Head(ws).op = "target"
    PROVE  LET tgs2 == TargetsAfter(Head(ws), tgs)
           IN  /\ Fits(ros, tgs2, st)
               /\ RunningAs(Tail(ws), ros, tgs2, st, r, m)
               /\ Keeps(ros, tgs, st, ros, tgs2)
<1> DEFINE w    == Head(ws)
           old  == ros[r]
           S    == Script(tgs, r, old, m)
           tgs2 == TargetsAfter(w, tgs)
           S2   == Script(tgs2, r, old, m)
<1>1. /\ ws \in Seq(S) /\ old # NoRollout /\ Within(old, m) /\ Announced(ws, old, st)
      /\ Ordered(ws, old) /\ OneRunning(ros)
      /\ tgs \in TargetStore /\ RowsFit(ros, tgs) /\ ros \in RolloutStore
  BY DEF RunningAs, Fits
<1>2. /\ w \in S /\ Tail(ws) \in Seq(S) /\ Announced(Tail(ws), old, st)
      /\ Ordered(Tail(ws), old)
  <2> HIDE DEF S
  <2>1. w \in S /\ Tail(ws) \in Seq(S)
    BY <1>1, FirstStatement
  <2>2. Announced(Tail(ws), old, st) /\ Ordered(Tail(ws), old)
    BY <1>1, AnnouncedTail, OrderedTail
  <2> QED
    BY <2>1, <2>2
<1>3. /\ w \in Statements /\ w.r = r /\ w.s \in StageIds /\ w.s >= m
      /\ tgs[r][w.s].acked = {} /\ w.t.version = Expected(old, w.s)
  BY <1>2, StatementFacts DEF Script
<1>4. /\ tgs2 \in TargetStore
      /\ \A q \in RolloutIds, s \in StageIds :
            IF q = r /\ s = w.s
            THEN /\ tgs2[q][s].agents = tgs[q][s].agents \cup {w.a}
                 /\ tgs2[q][s].acked = {}
                 /\ tgs2[q][s].version = w.t.version
            ELSE tgs2[q][s] = tgs[q][s]
  BY <1>1, <1>3, TargetInserted
<1>5. S \subseteq S2
  BY <1>1, <1>2, ScriptAfterInsert
<1>6. old \in Rollout /\ Sound(old, tgs[r])
  BY <1>1 DEF RolloutStore, RowsFit
<1>7. Sound(old, tgs2[r])
  BY <1>1, <1>3, <1>6, SoundAfterInsert
<1> HIDE DEF tgs2
<1>8. \A q \in RolloutIds : q # r => tgs2[q] = tgs[q]
  BY <1>1, <1>4 DEF TargetStore
<1>9. RowsFit(ros, tgs2)
  <2> SUFFICES ASSUME NEW q \in RolloutIds
               PROVE  /\ ros[q] # NoRollout => Sound(ros[q], tgs2[q])
                      /\ \A s \in StageIds :
                            /\ ros[q] = NoRollout => tgs2[q][s].acked = {} /\ tgs2[q][s].agents = {}
                            /\ tgs2[q][s].agents # {} => tgs2[q][s].version = Expected(ros[q], s)
    BY DEF RowsFit
  <2>1. CASE q = r
    <3>1. \A s \in StageIds :
             tgs2[r][s].agents # {} => tgs2[r][s].version = Expected(old, s)
      BY <1>1, <1>3, <1>4 DEF RowsFit
    <3> QED
      BY <1>1, <1>7, <2>1, <3>1
  <2>2. CASE q # r
    BY <1>1, <1>8, <2>2 DEF RowsFit
  <2> QED
    BY <2>1, <2>2
<1> HIDE DEF S, S2
<1>10. Tail(ws) \in Seq(S2)
  BY <1>2, <1>5, ScriptMonotone
<1>11. RunningAs(Tail(ws), ros, tgs2, st, r, m)
  BY <1>1, <1>2, <1>10 DEF RunningAs, S2
<1>12. Keeps(ros, tgs, st, ros, tgs2)
  BY <1>3, <1>4 DEF Keeps, SameTerms, Follows
<1> QED
  BY <1>4, <1>9, <1>11, <1>12 DEF Fits, tgs2

\* What the next statement of a list leaves: rows that fit, the rest of a script,
\* and everything that the engine keeps.
Issued(ws, rest, ros, tgs, st) ==
    LET w    == Head(ws)
        ros2 == RolloutsAfter(w, ros)
        tgs2 == TargetsAfter(w, tgs)
        st2  == StableAfter(w, st)
    IN  /\ Fits(ros2, tgs2, st2)
        /\ Running(rest, ros2, tgs2, st2)
        /\ Keeps(ros, tgs, st, ros2, tgs2)

\* The rest of the list, which gets its revision when one is drawn.
Rest(ws, n) == IF Head(ws).op = "revision" THEN Stamped(Tail(ws), n) ELSE Tail(ws)

\* An insert finds no unfinished rollout of its config.
Free(w, ros) == w.op = "insert" => Unfinished(ros, w.ro.config) = {}

LEMMA NothingKept ==
    ASSUME NEW ros, NEW tgs, NEW st
    PROVE  Keeps(ros, tgs, st, ros, tgs)
BY DEF Keeps, SameTerms, Follows

LEMMA IssueRunning ==
    ASSUME NEW ros, NEW tgs, NEW st, Fits(ros, tgs, st), NEW n \in Nat,
           NEW ws, Running(ws, ros, tgs, st), ws # <<>>
    PROVE  Issued(ws, Rest(ws, n), ros, tgs, st)
<1> DEFINE w == Head(ws)
<1>1. PICK r \in RolloutIds, m \in Nat : RunningAs(ws, ros, tgs, st, r, m)
  BY DEF Running
<1>2. w.op \in {"update", "stable", "target", "revision"}
  <2> DEFINE S == Script(tgs, r, ros[r], m)
  <2>1. ws \in Seq(S)
    BY <1>1 DEF RunningAs
  <2>2. \A x \in S : x.op \in {"update", "stable", "target", "revision"}
    BY DEF Script
  <2> HIDE DEF S
  <2> QED
    BY <2>1, <2>2, FirstStatement
<1>3. CASE w.op = "update"
  <2>1. /\ TargetsAfter(w, tgs) = tgs /\ StableAfter(w, st) = st
        /\ Rest(ws, n) = Tail(ws)
    BY <1>3 DEF TargetsAfter, StableAfter, Rest
  <2> QED
    BY <1>1, <1>3, <2>1, UpdateIssued DEF Issued, Running
<1>4. CASE w.op = "stable"
  <2>1. /\ TargetsAfter(w, tgs) = tgs /\ RolloutsAfter(w, ros) = ros
        /\ Rest(ws, n) = Tail(ws)
    BY <1>4 DEF TargetsAfter, RolloutsAfter, Rest
  <2> QED
    BY <1>1, <1>4, <2>1, StableIssued, NothingKept DEF Issued, Running
<1>5. CASE w.op = "target"
  <2>1. /\ StableAfter(w, st) = st /\ RolloutsAfter(w, ros) = ros
        /\ Rest(ws, n) = Tail(ws)
    BY <1>5 DEF StableAfter, RolloutsAfter, Rest
  <2> QED
    BY <1>1, <1>5, <2>1, TargetIssued DEF Issued, Running
<1>6. CASE w.op = "revision"
  <2>1. /\ StableAfter(w, st) = st /\ RolloutsAfter(w, ros) = ros
        /\ TargetsAfter(w, tgs) = tgs
        /\ Rest(ws, n) = Stamped(Tail(ws), n)
    BY <1>6 DEF StableAfter, RolloutsAfter, TargetsAfter, Rest
  <2> QED
    BY <1>1, <1>6, <2>1, RevisionIssued, NothingKept DEF Issued, Running
<1> QED
  BY <1>2, <1>3, <1>4, <1>5, <1>6

LEMMA IssueCounted ==
    ASSUME NEW ros, NEW tgs, NEW st, Fits(ros, tgs, st), NEW n \in Nat,
           NEW ws, Counting(ws, ros, tgs, st)
    PROVE  Issued(ws, Rest(ws, n), ros, tgs, st)
<1>1. PICK r \in RolloutIds, t \in StageTargets, rest \in Seq(Statements) :
         LET s == ros[r].stage
         IN  /\ ws = <<replaceTargets(r, s, t)>> \o rest
             /\ ros[r] # NoRollout /\ ros[r].state # "COMPLETED"
             /\ t.agents = tgs[r][s].agents
             /\ t.version = tgs[r][s].version
             /\ tgs[r][s].acked \subseteq t.acked
             /\ Running(rest, ros, [tgs EXCEPT ![r][s] = t], st)
  BY DEF Counting
<1> DEFINE old  == ros[r]
           s    == old.stage
           w    == replaceTargets(r, s, t)
           tgs2 == [tgs EXCEPT ![r][s] = t]
<1>2. Head(ws) = w /\ Tail(ws) = rest
  BY <1>1
<1>3. /\ old \in Rollout /\ s \in StageIds /\ Sound(old, tgs[r])
      /\ tgs \in TargetStore /\ RowsFit(ros, tgs)
  BY <1>1 DEF Fits, RolloutStore, Rollout, RowsFit
<1>4. /\ RolloutsAfter(w, ros) = ros /\ TargetsAfter(w, tgs) = tgs2
      /\ StableAfter(w, st) = st /\ Rest(ws, n) = rest
  BY <1>2 DEF replaceTargets, RolloutsAfter, TargetsAfter, StableAfter, Rest
<1>5. /\ tgs2 \in TargetStore
      /\ tgs2[r][s] = t
      /\ \A u \in StageIds : u # s => tgs2[r][u] = tgs[r][u]
      /\ \A q \in RolloutIds : q # r => tgs2[q] = tgs[q]
  BY <1>3 DEF TargetStore
<1> HIDE DEF tgs2
<1>6. Sound(old, tgs2[r])
  <2>1. \A u \in StageIds : tgs2[r][u].acked # {} => u <= old.index \/ u = old.stage
    BY <1>3, <1>5 DEF Sound
  <2>2. \A i \in StageIndexes : i < old.index => i \in StageIds /\ i # s
    BY <1>3, StageFacts DEF Sound, Rollout, StageIndexes, Verification
  <2>3. \A i \in StageIndexes : i < old.index => CoverageReached(tgs2[r][i])
    BY <1>3, <1>5, <2>2 DEF Sound
  <2> QED
    BY <1>1, <1>3, <2>1, <2>3 DEF Sound
<1>7. RowsFit(ros, tgs2)
  <2> SUFFICES ASSUME NEW q \in RolloutIds
               PROVE  /\ ros[q] # NoRollout => Sound(ros[q], tgs2[q])
                      /\ \A u \in StageIds :
                            /\ ros[q] = NoRollout => tgs2[q][u].acked = {} /\ tgs2[q][u].agents = {}
                            /\ tgs2[q][u].agents # {} => tgs2[q][u].version = Expected(ros[q], u)
    BY DEF RowsFit
  <2>1. CASE q = r
    <3>1. \A u \in StageIds :
             tgs2[r][u].agents # {} => tgs2[r][u].version = Expected(old, u)
      BY <1>1, <1>3, <1>5 DEF RowsFit
    <3> QED
      BY <1>1, <1>6, <2>1, <3>1
  <2>2. CASE q # r
    BY <1>3, <1>5, <2>2 DEF RowsFit
  <2> QED
    BY <2>1, <2>2
<1>8. Keeps(ros, tgs, st, ros, tgs2)
  <2>1. \A q \in RolloutIds, u \in StageIds :
           /\ tgs[q][u].agents \subseteq tgs2[q][u].agents
           /\ tgs[q][u].acked \subseteq tgs2[q][u].acked
    BY <1>1, <1>5
  <2> QED
    BY <2>1 DEF Keeps, SameTerms, Follows
<1>9. Running(rest, ros, tgs2, st)
  BY <1>1 DEF tgs2
<1>10. Fits(ros, tgs2, st)
  BY <1>5, <1>7 DEF Fits
<1> QED
  BY <1>2, <1>4, <1>8, <1>9, <1>10 DEF Issued

\* The rows of a rollout that is not there yet are empty.
LEMMA IssueCreated ==
    ASSUME NEW ros, NEW tgs, NEW st, Fits(ros, tgs, st), NEW n \in Nat,
           NEW ws, Creating(ws, ros, tgs, st), Free(Head(ws), ros)
    PROVE  Issued(ws, Rest(ws, n), ros, tgs, st)
<1>1. PICK r \in RolloutIds, ro \in Rollout, rest \in Seq(Statements) :
         /\ ws = <<insertRollout(r, ro)>> \o rest
         /\ ros[r] = NoRollout
         /\ ro.state = "DEPLOYING" /\ ro.index = 1 /\ ro.stage = 1
         /\ ro.stable = st[ro.config]
         /\ rest \in Seq(Script(tgs, r, ro, 1))
         /\ Announced(rest, ro, st)
         /\ Ordered(rest, ro)
  BY DEF Creating
<1> DEFINE w    == insertRollout(r, ro)
           ros2 == [ros EXCEPT ![r] = ro]
<1>2. Head(ws) = w /\ Tail(ws) = rest
  BY <1>1
<1>3. /\ RolloutsAfter(w, ros) = ros2 /\ TargetsAfter(w, tgs) = tgs
      /\ StableAfter(w, st) = st /\ Rest(ws, n) = rest
  BY <1>2 DEF insertRollout, RolloutsAfter, TargetsAfter, StableAfter, Rest
<1>4. /\ ros2 \in RolloutStore /\ ros2[r] = ro
      /\ \A q \in RolloutIds : q # r => ros2[q] = ros[q]
      /\ ro # NoRollout
  BY NoRolloutAssumption DEF Fits, RolloutStore
<1> HIDE DEF ros2
<1>5. /\ RowsFit(ros, tgs)
      /\ \A s \in StageIds : tgs[r][s].acked = {} /\ tgs[r][s].agents = {}
  BY <1>1 DEF Fits, RowsFit
<1>6. Sound(ro, tgs[r])
  <2>1. \A i \in StageIndexes : ~(i < 1)
    BY DEF StageIndexes
  <2> QED
    BY <1>1, <1>5, <2>1 DEF Sound
<1>7. RowsFit(ros2, tgs)
  BY <1>4, <1>5, <1>6 DEF RowsFit
<1>8. RunningAs(rest, ros2, tgs, st, r, 1)
  BY <1>1, <1>4 DEF RunningAs, Within
<1>9. Keeps(ros, tgs, st, ros2, tgs)
  BY <1>1, <1>4 DEF Keeps, SameTerms, Follows
<1>10. Fits(ros2, tgs, st)
  <2>1. Unfinished(ros, ro.config) = {}
    <3>1. w.op = "insert" /\ w.ro = ro
      BY DEF insertRollout
    <3> HIDE DEF w
    <3> QED
      BY <1>2, <3>1 DEF Free
  <2>2. \A c \in Configs :
           Unfinished(ros2, c) \subseteq IF c = ro.config THEN {r} ELSE Unfinished(ros, c)
    BY <1>4, <2>1 DEF Unfinished
  <2>3. OneRunning(ros2)
    <3>1. \A c \in Configs : \A q, u \in Unfinished(ros, c) : q = u
      BY DEF Fits, OneRunning
    <3> SUFFICES ASSUME NEW c \in Configs, NEW q \in Unfinished(ros2, c),
                        NEW u \in Unfinished(ros2, c)
                 PROVE  q = u
      BY DEF OneRunning
    <3> QED
      BY <2>2, <3>1
  <2>4. Based(ros2, st)
    BY <1>1, <1>4 DEF Fits, Based, Rollout
  <2> QED
    BY <1>1, <1>4, <1>7, <2>3, <2>4 DEF Fits
<1>11. Running(rest, ros2, tgs, st)
  BY <1>8 DEF Running
<1> QED
  BY <1>2, <1>3, <1>9, <1>10, <1>11 DEF Issued

\* The next statement of any handler.
LEMMA IssueStatement ==
    ASSUME NEW ros, NEW tgs, NEW st, Fits(ros, tgs, st), NEW n \in Nat,
           NEW ws, Scripted(ws, ros, tgs, st), ws # <<>>, Free(Head(ws), ros)
    PROVE  Issued(ws, Rest(ws, n), ros, tgs, st)
BY IssueRunning, IssueCounted, IssueCreated DEF Scripted

-----------------------------------------------------------------------------
(* Steps of the control plane *)

OneReplica == \A p, q \in Replicas : p = q

\* What every step keeps.
Kept ==
    /\ WriteInv'
    /\ Keeps(rollouts, targets, stable, rollouts', targets')

LEMMA InvFits ==
    ASSUME WriteInv
    PROVE  Fits(rollouts, targets, stable)
BY DEF WriteInv, TypeOK, Fits, RolloutStore, TargetStore, StableStore

LEMMA UnchangedKept ==
    ASSUME TypeOK, UNCHANGED vars
    PROVE  /\ TypeOK'
           /\ Keeps(rollouts, targets, stable, rollouts', targets')
<1>1. TypeOK'
  BY DEF TypeOK, vars
<1>2. rollouts' = rollouts /\ targets' = targets
  BY DEF vars
<1> QED
  BY <1>1, <1>2, NothingKept

LEMMA StartKept ==
    ASSUME OneReplica, WriteInv, NEW p \in Replicas, NEW ws, Start(p, ws),
           Scripted(ws, rollouts, targets, stable)
    PROVE  Kept
<1>1. /\ UNCHANGED vars /\ UNCHANGED <<rollouts, targets, stable>>
      /\ pending' = [pending EXCEPT ![p] = ws]
  BY DEF Start, vars
<1>2. TypeOK' /\ Keeps(rollouts, targets, stable, rollouts', targets')
  BY <1>1, UnchangedKept DEF WriteInv
<1>3. RowsFit(rollouts', targets') /\ OneRunning(rollouts') /\ Based(rollouts', stable')
  BY <1>1 DEF WriteInv
<1>4. /\ pending' = [q \in Replicas |-> pending'[q]]
      /\ \A q \in Replicas : pending'[q] = ws
  BY <1>1 DEF WriteInv, OneReplica
<1>5. \A q \in Replicas : Scripted(pending'[q], rollouts', targets', stable')
  BY <1>1, <1>4
<1> QED
  BY <1>2, <1>3, <1>4, <1>5 DEF Kept, WriteInv

LEMMA RunningStart ==
    ASSUME NEW r \in RolloutIds, Exists(r), NEW ws, NEW tg, Scripting(ws, tg, r),
           Ordered(ws, rollouts[r])
    PROVE  /\ Running(ws, rollouts, tg, stable)
           /\ ws \in Seq(Statements)
<1>1. PICK m \in Nat : RunningAs(ws, rollouts, tg, stable, r, m)
  BY DEF Scripting, RunningAs, Exists
<1> DEFINE S == Script(tg, r, rollouts[r], m)
<1>2. S \subseteq Statements
  BY DEF Script
<1>3. ws \in Seq(S)
  BY <1>1 DEF RunningAs
<1> HIDE DEF S
<1>4. ws \in Seq(Statements)
  BY <1>2, <1>3, ScriptMonotone
<1> QED
  BY <1>1, <1>4 DEF Running

\* A reconciliation starts with none of its statements counting anything.
LEMMA ReconcileStarts ==
    ASSUME WriteInv, NEW p \in Replicas, NEW r \in RolloutIds, StartReconcile(p, r)
    PROVE  \E ws : Start(p, ws) /\ Running(ws, rollouts, targets, stable)
<1> DEFINE ws == advanceWrites(r, targets[r][rollouts[r].stage])
<1>1. Active(r) /\ Exists(r) /\ Start(p, ws)
  BY DEF StartReconcile, Active
<1>2. AcksAdded(r, targets)
  BY DEF AcksAdded, WriteInv, TypeOK, TargetStore
<1>3. Scripting(ws, targets, r) /\ Ordered(ws, rollouts[r])
  <2>1. targets[r][rollouts[r].stage] \in StageTargets
    BY <1>1 DEF WriteInv, TypeOK, Exists, Rollout
  <2> QED
    BY <1>1, <1>2, <2>1, AdvanceScript, AdvanceOrdered DEF WriteInv
<1> HIDE DEF ws
<1> QED
  BY <1>1, <1>3, RunningStart

LEMMA ReconcileKept ==
    ASSUME OneReplica, WriteInv, NEW p \in Replicas, NEW r \in RolloutIds, StartReconcile(p, r)
    PROVE  Kept
<1>1. PICK ws : Start(p, ws) /\ Running(ws, rollouts, targets, stable)
  BY ReconcileStarts
<1>2. Scripted(ws, rollouts, targets, stable)
  BY <1>1 DEF Scripted
<1> QED
  BY <1>1, <1>2, StartKept

\* An acknowledgement starts with the row it counts, if it counts.
LEMMA AcknowledgeStarts ==
    ASSUME WriteInv, NEW p \in Replicas, NEW r \in RolloutIds, NEW ack,
           ack.agent \in Agents, StartAcknowledge(p, r, ack)
    PROVE  LET s == rollouts[r].stage
               t == ApplyAck(r, ack)[r][s]
           IN  \E ws \in Seq(Statements) :
                  IF Counts(r, ack)
                  THEN /\ Start(p, <<replaceTargets(r, s, t)>> \o ws)
                       /\ Counting(<<replaceTargets(r, s, t)>> \o ws, rollouts, targets, stable)
                       /\ t.acked = targets[r][s].acked \cup {ack.agent}
                  ELSE Start(p, ws) /\ Running(ws, rollouts, targets, stable)
<1> DEFINE s  == rollouts[r].stage
           tg == ApplyAck(r, ack)
           t  == tg[r][s]
           ws == advanceWrites(r, t)
<1>1. Active(r) /\ Exists(r) /\ Start(p, countedWrites(r, ack, t) \o ws)
  BY DEF StartAcknowledge, Active
<1>2. AcksAdded(r, tg)
  BY <1>1, ApplyAckAdds DEF WriteInv
<1>3. Scripting(ws, tg, r) /\ Ordered(ws, rollouts[r])
  <2>1. t \in StageTargets
    BY <1>1, <1>2 DEF AcksAdded, TargetStore, WriteInv, TypeOK, Exists, Rollout
  <2> QED
    BY <1>1, <1>2, <2>1, AdvanceScript, AdvanceOrdered DEF WriteInv
<1> HIDE DEF ws
<1>4. Running(ws, rollouts, tg, stable) /\ ws \in Seq(Statements)
  BY <1>1, <1>3, RunningStart
<1>5. CASE ~Counts(r, ack)
  <2>1. tg = targets /\ countedWrites(r, ack, t) \o ws = ws
    BY <1>4, <1>5 DEF ApplyAck, countedWrites
  <2> QED
    BY <1>1, <1>4, <1>5, <2>1
<1>6. CASE Counts(r, ack)
  <2>1. /\ rollouts[r] \in Rollout /\ s \in StageIds /\ rollouts[r].state # "COMPLETED"
        /\ targets \in TargetStore
    BY <1>1 DEF WriteInv, TypeOK, TargetStore, Active, Exists, Rollout, Terminal
  <2>2. /\ t \in StageTargets /\ t.agents = targets[r][s].agents
        /\ t.version = targets[r][s].version /\ targets[r][s].acked \subseteq t.acked
    BY <1>2, <2>1 DEF AcksAdded, TargetStore
  <2>3. /\ tg = [targets EXCEPT ![r][s] = t]
        /\ t.acked = targets[r][s].acked \cup {ack.agent}
    <3>1. tg = [targets EXCEPT ![r][s] = t]
      BY <1>6, <2>1 DEF ApplyAck, TargetStore
    <3>2. t = [targets[r][s] EXCEPT !.acked = @ \cup {ack.agent}]
      BY <1>6, <2>1 DEF ApplyAck, TargetStore
    <3>3. targets[r][s] \in StageTargets
      BY <2>1 DEF TargetStore
    <3> HIDE DEF t, tg
    <3> QED
      BY <3>1, <3>2, <3>3 DEF StageTargets
  <2>4. countedWrites(r, ack, t) = <<replaceTargets(r, s, t)>>
    BY <1>6 DEF countedWrites
  <2> HIDE DEF t, tg
  <2>5. Counting(<<replaceTargets(r, s, t)>> \o ws, rollouts, targets, stable)
    BY <1>1, <1>4, <2>1, <2>2, <2>3 DEF Counting, Exists
  <2> QED
    BY <1>1, <1>4, <1>6, <2>3, <2>4, <2>5 DEF t, tg
<1> QED
  BY <1>5, <1>6

LEMMA AcknowledgeKept ==
    ASSUME OneReplica, WriteInv, NEW p \in Replicas, NEW r \in RolloutIds, NEW ack,
           ack.agent \in Agents, StartAcknowledge(p, r, ack)
    PROVE  Kept
<1>1. \E ws : Start(p, ws) /\ Scripted(ws, rollouts, targets, stable)
  BY AcknowledgeStarts DEF Scripted
<1> QED
  BY <1>1, StartKept

LEMMA CreateKept ==
    ASSUME OneReplica, WriteInv, NEW p \in Replicas, NEW r \in RolloutIds, NEW c \in Configs,
           NEW v \in Versions, NEW services \in ServiceChoices, NEW rules \in GuardrailChoices,
           StartCreateRollout(p, r, c, v, services, rules)
    PROVE  Kept
<1> DEFINE ro   == NewRollout(c, v, services, rules)
           t    == BuildStageTargets(ro, 1, 0)
           save == SaveStageTargets(r, 1, ro, t)
           S    == Script(targets, r, ro, 1)
<1>1. /\ rollouts[r] = NoRollout /\ stable[c] # NoVersion
      /\ Start(p, <<insertRollout(r, ro)>> \o save)
  BY DEF StartCreateRollout, Exists
<1>2. stable[c] \in Versions /\ targets \in TargetStore
  BY <1>1 DEF WriteInv, TypeOK, TargetStore
<1>3. ro \in Rollout
  BY <1>2, StageFacts, NameAssumption, DurationAssumption, GuardrailAssumption
  DEF NewRollout, Rollout, States, StageIndexes, StageIds
<1>4. /\ ro.state = "DEPLOYING" /\ ro.index = 1 /\ ro.stage = 1
      /\ ro.stable = stable[ro.config]
  BY DEF NewRollout
<1> HIDE DEF ro
<1>5. t \in StageTargets /\ (t.agents # {} => t.version = Expected(ro, 1))
  <2>1. 1 \in StageIndexes /\ 1 # Verification
    BY StageFacts DEF StageIndexes, Verification
  <2>2. t \in StageTargets
    BY <1>3, <2>1, BuildStageTargetsType
  <2> QED
    BY <2>1, <2>2 DEF BuildStageTargets, PendingRows, NoTargets, Expected
<1> HIDE DEF t
<1>6. targets[r][1].acked = {} /\ 1 \in StageIds /\ 1 >= 1 /\ 1 \in Nat
  BY <1>1, StageFacts DEF WriteInv, RowsFit, StageIds, Verification
<1>7. save \in Seq(S) /\ \A i \in DOMAIN save : save[i].op # "update"
  BY <1>2, <1>3, <1>5, <1>6, SaveScript
<1>8. S \subseteq Statements
  BY DEF Script
<1> HIDE DEF save, S
<1>9. save \in Seq(Statements)
  BY <1>7, <1>8, ScriptMonotone
<1>10. Announced(save, ro, stable) /\ Ordered(save, ro)
  BY <1>7, NothingToAnnounce, OrderedNone
<1>11. Creating(<<insertRollout(r, ro)>> \o save, rollouts, targets, stable)
  BY <1>1, <1>3, <1>4, <1>7, <1>9, <1>10 DEF Creating, S
<1>12. Scripted(<<insertRollout(r, ro)>> \o save, rollouts, targets, stable)
  BY <1>11 DEF Scripted
<1> QED
  BY <1>1, <1>12, StartKept DEF save

\* Nothing is left to write, whatever became of the rows.
LEMMA IdleKept ==
    ASSUME TypeOK', RowsFit(rollouts', targets'), OneRunning(rollouts'),
           Based(rollouts', stable'),
           pending' = [q \in Replicas |-> pending'[q]],
           \A q \in Replicas : pending'[q] = <<>>,
           Keeps(rollouts, targets, stable, rollouts', targets')
    PROVE  Kept
BY DEF Kept, WriteInv, Scripted

\* A statement that fails ends its handler, any other one leaves the rest of it.
LEMMA WriteCases ==
    ASSUME WriteInv, NEW p \in Replicas, Write(p)
    PROVE  LET ws   == pending[p]
               w    == Head(ws)
               rest == Rest(ws, nextRevision)
           IN  /\ ws # <<>>
               /\ UNCHANGED <<agentService, telemetry>>
               /\ \/ /\ pending' = [pending EXCEPT ![p] = <<>>]
                     /\ UNCHANGED <<rollouts, targets, stable, nextRevision>>
                  \/ /\ Issued(ws, rest, rollouts, targets, stable)
                     /\ rollouts' = RolloutsAfter(w, rollouts)
                     /\ targets' = TargetsAfter(w, targets)
                     /\ stable' = StableAfter(w, stable)
                     /\ pending' = [pending EXCEPT ![p] = rest]
                     /\ nextRevision' \in {nextRevision, nextRevision + 1}
<1> DEFINE ws   == pending[p]
           w    == Head(ws)
           rest == Rest(ws, nextRevision)
<1>1. /\ ws # <<>> /\ Scripted(ws, rollouts, targets, stable)
      /\ UNCHANGED <<agentService, telemetry>> /\ nextRevision \in Nat
  BY DEF Write, WriteInv, TypeOK
<1>2. ASSUME Free(w, rollouts)
      PROVE  Issued(ws, rest, rollouts, targets, stable)
  BY <1>1, <1>2, InvFits, IssueStatement
<1>3. ~Conflicts(w) => Free(w, rollouts)
  BY DEF Free, Conflicts, OtherActive, Active, Exists, Unfinished
<1>4. pending = [q \in Replicas |-> pending[q]]
  BY DEF WriteInv
<1> QED
  BY <1>1, <1>2, <1>3, <1>4 DEF Write, Rest

LEMMA WriteKept ==
    ASSUME OneReplica, WriteInv, NEW p \in Replicas, Write(p)
    PROVE  Kept
<1> DEFINE ws   == pending[p]
           rest == Rest(ws, nextRevision)
<1>1. TypeOK /\ pending = [q \in Replicas |-> pending[q]] /\ UNCHANGED <<agentService, telemetry>>
  BY WriteCases DEF WriteInv
<1>2. CASE /\ pending' = [pending EXCEPT ![p] = <<>>]
           /\ UNCHANGED <<rollouts, targets, stable, nextRevision>>
  <2>1. UNCHANGED vars
    BY <1>1, <1>2 DEF vars
  <2>2. TypeOK' /\ Keeps(rollouts, targets, stable, rollouts', targets')
    BY <1>1, <2>1, UnchangedKept
  <2>3. RowsFit(rollouts', targets') /\ OneRunning(rollouts') /\ Based(rollouts', stable')
    BY <1>2 DEF WriteInv
  <2>4. /\ pending' = [q \in Replicas |-> pending'[q]]
        /\ \A q \in Replicas : pending'[q] = <<>>
    BY <1>1, <1>2 DEF OneReplica
  <2> QED
    BY <2>2, <2>3, <2>4, IdleKept
<1>3. CASE /\ Issued(ws, rest, rollouts, targets, stable)
           /\ rollouts' = RolloutsAfter(Head(ws), rollouts)
           /\ targets' = TargetsAfter(Head(ws), targets)
           /\ stable' = StableAfter(Head(ws), stable)
           /\ pending' = [pending EXCEPT ![p] = rest]
           /\ nextRevision' \in {nextRevision, nextRevision + 1}
  <2>1. /\ Fits(rollouts', targets', stable')
        /\ Running(rest, rollouts', targets', stable')
        /\ Keeps(rollouts, targets, stable, rollouts', targets')
    BY <1>3 DEF Issued
  <2> HIDE DEF rest
  <2>2. TypeOK'
    BY <1>1, <1>3, <2>1 DEF Fits, TypeOK, RolloutStore, TargetStore, StableStore
  <2>3. RowsFit(rollouts', targets') /\ OneRunning(rollouts') /\ Based(rollouts', stable')
    BY <2>1 DEF Fits
  <2>4. /\ pending' = [q \in Replicas |-> pending'[q]]
        /\ \A q \in Replicas : pending'[q] = rest
    BY <1>1, <1>3 DEF OneReplica
  <2>5. \A q \in Replicas : Scripted(pending'[q], rollouts', targets', stable')
    BY <2>1, <2>4 DEF Scripted
  <2> QED
    BY <2>1, <2>2, <2>3, <2>4, <2>5 DEF Kept, WriteInv
<1> QED
  BY <1>2, <1>3, WriteCases

LEMMA CrashKept ==
    ASSUME OneReplica, WriteInv, NEW p \in Replicas, Crash(p)
    PROVE  Kept
<1>1. /\ UNCHANGED vars /\ UNCHANGED <<rollouts, targets, stable>>
      /\ pending' = [pending EXCEPT ![p] = <<>>]
  BY DEF Crash, vars
<1>2. TypeOK' /\ Keeps(rollouts, targets, stable, rollouts', targets')
  BY <1>1, UnchangedKept DEF WriteInv
<1>3. RowsFit(rollouts', targets') /\ OneRunning(rollouts') /\ Based(rollouts', stable')
  BY <1>1 DEF WriteInv
<1>4. /\ pending' = [q \in Replicas |-> pending'[q]]
      /\ \A q \in Replicas : pending'[q] = <<>>
  BY <1>1 DEF WriteInv, OneReplica
<1> QED
  BY <1>2, <1>3, <1>4, IdleKept

LEMMA OperatorKept ==
    ASSUME WriteInv, NEW c \in Configs, NEW v \in Versions, OperatorSetsStable(c, v)
    PROVE  Kept
<1>1. /\ UNCHANGED <<rollouts, targets, pending>>
      /\ \A q \in Replicas : pending[q] = <<>>
  BY DEF OperatorSetsStable, SetStableVersion
<1>2. TypeOK'
  BY DEF OperatorSetsStable, SetStableVersion, WriteInv, TypeOK
<1>3. /\ RowsFit(rollouts', targets') /\ OneRunning(rollouts')
      /\ Keeps(rollouts, targets, stable, rollouts', targets')
  BY <1>1, NothingKept DEF WriteInv
<1>4. /\ pending' = [q \in Replicas |-> pending'[q]]
      /\ \A q \in Replicas : pending'[q] = <<>>
  BY <1>1 DEF WriteInv
<1>5. Based(rollouts', stable')
  <2>1. stable' = [stable EXCEPT ![c] = v]
    BY DEF OperatorSetsStable, SetStableVersion
  <2> QED
    BY <1>1, <2>1 DEF WriteInv, Based, TypeOK
<1> QED
  BY <1>2, <1>3, <1>4, <1>5, IdleKept

\* Steps that touch neither the rows nor a handler.
LEMMA ElsewhereKept ==
    ASSUME WriteInv, TypeOK', UNCHANGED <<rollouts, targets, stable, pending>>
    PROVE  Kept
<1>1. Keeps(rollouts, targets, stable, rollouts', targets')
  BY NothingKept
<1> QED
  BY <1>1 DEF Kept, WriteInv

LEMMA RegisterKept ==
    ASSUME WriteInv, NEW a \in Agents, NEW service \in Services \cup {Elsewhere},
           Register(a, service), UNCHANGED pending
    PROVE  Kept
<1>1. TypeOK'
  BY DEF Register, WriteInv, TypeOK
<1> QED
  BY <1>1, ElsewhereKept DEF Register

LEMMA TelemetryKept ==
    ASSUME WriteInv, NEW rule \in Rules, NEW sample \in Samples,
           TelemetryChanges(rule, sample), UNCHANGED pending
    PROVE  Kept
<1>1. TypeOK'
  BY DEF TelemetryChanges, WriteInv, TypeOK
<1> QED
  BY <1>1, ElsewhereKept DEF TelemetryChanges

LEMMA StutterKept ==
    ASSUME WriteInv, UNCHANGED writeVars
    PROVE  Kept
<1>1. UNCHANGED vars /\ UNCHANGED <<rollouts, targets, stable, pending>>
  BY DEF writeVars, vars
<1> QED
  BY <1>1, UnchangedKept, ElsewhereKept DEF WriteInv

LEMMA ElapseKept ==
    ASSUME WriteInv, Elapse
    PROVE  Kept
<1>1. Tick /\ TypeOK /\ UNCHANGED pending /\ \A q \in Replicas : pending[q] = <<>>
  BY DEF Elapse, WriteInv
<1>2. TypeOK'
  BY <1>1, TickType
<1>3. /\ targets' = targets
      /\ \A r \in RolloutIds :
            /\ rollouts'[r] # NoRollout <=> rollouts[r] # NoRollout
            /\ rollouts[r] # NoRollout => OnlyOlder(rollouts'[r], rollouts[r])
            /\ rollouts[r] = NoRollout => rollouts'[r] = rollouts[r]
  BY <1>1, TickFacts DEF Exists, Active
<1>4. RowsFit(rollouts', targets')
  <2> SUFFICES ASSUME NEW r \in RolloutIds
               PROVE  /\ rollouts'[r] # NoRollout => Sound(rollouts'[r], targets[r])
                      /\ \A s \in StageIds :
                            /\ rollouts'[r] = NoRollout =>
                                  targets[r][s].acked = {} /\ targets[r][s].agents = {}
                            /\ targets[r][s].agents # {} =>
                                  targets[r][s].version = Expected(rollouts'[r], s)
    BY <1>3 DEF RowsFit
  <2>1. CASE rollouts[r] = NoRollout
    BY <1>3, <2>1 DEF WriteInv, RowsFit
  <2>2. CASE rollouts[r] # NoRollout
    <3>1. Sound(rollouts[r], targets[r]) /\ OnlyOlder(rollouts'[r], rollouts[r])
      BY <1>3, <2>2 DEF WriteInv, RowsFit
    <3>2. Sound(rollouts'[r], targets[r])
      BY <3>1 DEF OnlyOlder, Sound
    <3>3. \A s \in StageIds : Expected(rollouts'[r], s) = Expected(rollouts[r], s)
      BY <3>1 DEF OnlyOlder, SameSubject, Expected
    <3> QED
      BY <1>3, <2>2, <3>2, <3>3 DEF WriteInv, RowsFit
  <2> QED
    BY <2>1, <2>2
<1>5. Keeps(rollouts, targets, stable, rollouts', targets')
  BY <1>3 DEF Keeps, OnlyOlder, SameSubject, SameTerms, Follows
<1>8. Based(rollouts', stable')
  BY <1>1, <1>3 DEF WriteInv, Based, OnlyOlder, SameSubject, Tick
<1>7. OneRunning(rollouts')
  <2>1. \A c \in Configs : Unfinished(rollouts', c) \subseteq Unfinished(rollouts, c)
    BY <1>3 DEF Unfinished, OnlyOlder, SameSubject
  <2> QED
    BY <2>1 DEF WriteInv, OneRunning
<1>6. /\ pending' = [q \in Replicas |-> pending'[q]]
      /\ \A q \in Replicas : pending'[q] = <<>>
  BY <1>1 DEF WriteInv
<1> QED
  BY <1>2, <1>4, <1>5, <1>6, <1>7, <1>8, IdleKept

LEMMA NextKept ==
    ASSUME OneReplica, WriteInv, [WriteNext]_writeVars
    PROVE  Kept
<1>1. ASSUME NEW p \in Replicas, NEW r \in RolloutIds, NEW ack \in Acks,
             StartAcknowledge(p, r, ack)
      PROVE  Kept
  <2>1. ack.agent \in Agents
    BY DEF Acks
  <2> QED
    BY <1>1, <2>1, AcknowledgeKept
<1>2. CASE Environment
  BY <1>2, RegisterKept, TelemetryKept DEF Environment
<1> QED
  BY <1>1, <1>2, CreateKept, ReconcileKept, WriteKept, CrashKept, OperatorKept, ElapseKept,
     StutterKept
  DEF WriteNext

LEMMA InitFits ==
    ASSUME WriteInit
    PROVE  WriteInv
<1>1. /\ rollouts = [r \in RolloutIds |-> NoRollout]
      /\ targets = [r \in RolloutIds |-> [s \in StageIds |-> NoTargets]]
      /\ pending = [p \in Replicas |-> <<>>]
  BY DEF WriteInit, Init
<1>2. NoTargets \in StageTargets
  BY DEF NoTargets, StageTargets
<1>3. TypeOK
  BY <1>2 DEF WriteInit, Init, TypeOK
<1>4. RowsFit(rollouts, targets) /\ OneRunning(rollouts) /\ Based(rollouts, stable)
  BY <1>1 DEF RowsFit, NoTargets, OneRunning, Unfinished, Based
<1>5. /\ pending = [p \in Replicas |-> pending[p]]
      /\ \A p \in Replicas : pending[p] = <<>>
  BY <1>1
<1> QED
  BY <1>3, <1>4, <1>5 DEF WriteInv, Scripted

-----------------------------------------------------------------------------
(* Theorems *)

\* What the rows look like between any two statements of a handler (advanceWrites,
\* CreateRollout), and after a handler was cut short.
THEOREM WritesFit ==
    ASSUME OneReplica
    PROVE  WriteSpec => []WriteInv
<1>1. WriteInit => WriteInv
  BY InitFits
<1>2. WriteInv /\ [WriteNext]_writeVars => WriteInv'
  BY NextKept DEF Kept
<1> QED
  BY <1>1, <1>2, PTL DEF WriteSpec

LEMMA OneActiveInWrites ==
    ASSUME WriteInv
    PROVE  OneActiveRollout
<1> SUFFICES ASSUME NEW r \in RolloutIds, NEW q \in RolloutIds, Active(r), Active(q),
                    rollouts[r].config = rollouts[q].config
             PROVE  r = q
  BY DEF OneActiveRollout
<1>1. rollouts[r].config \in Configs
  BY DEF WriteInv, TypeOK, Active, Exists, Rollout
<1> QED
  BY <1>1 DEF WriteInv, OneRunning, Unfinished, Active, Exists

\* However its handlers are cut short, a config never has two unfinished rollouts:
\* CreateRollout inserts under the unique index, and no update of a handler that
\* was started earlier brings a finished rollout back.
THEOREM OneActiveDespiteCrashes ==
    ASSUME OneReplica
    PROVE  WriteSpec => []OneActiveRollout
<1>1. WriteInv => OneActiveRollout
  BY OneActiveInWrites
<1> QED
  BY <1>1, WritesFit, PTL

\* promote writes the stable version of the config before it writes the rollout as
\* COMPLETED, so that no crash between the two leaves a completed rollout whose
\* candidate is not published.
THEOREM CompletedIsPublished ==
    ASSUME OneReplica
    PROVE  WriteSpec => PublishedBeforeCompleted
<1>1. WriteInv /\ [WriteNext]_writeVars =>
         [\A r \in RolloutIds :
             Exists(r) /\ rollouts[r].state # "COMPLETED"
                       /\ rollouts'[r].state = "COMPLETED"
               => stable[rollouts[r].config] = rollouts[r].candidate]_writeVars
  BY NextKept DEF Kept, Keeps, Exists
<1> QED
  BY <1>1, WritesFit, PTL DEF WriteSpec, PublishedBeforeCompleted

\* The acknowledgements that SaveStageTargets has stored for the current stage are
\* not taken back by any later statement, however handlers are cut short.
THEOREM AcksSurviveCrashes ==
    ASSUME OneReplica
    PROVE  WriteSpec => CountedAcksKept
<1>1. WriteInv /\ [WriteNext]_writeVars =>
         [\A r \in RolloutIds :
             Exists(r) => LET s == rollouts[r].stage
                          IN  targets[r][s].acked \subseteq targets'[r][s].acked]_writeVars
  <2> SUFFICES ASSUME WriteInv, [WriteNext]_writeVars, NEW r \in RolloutIds, Exists(r)
               PROVE  targets[r][rollouts[r].stage].acked
                         \subseteq targets'[r][rollouts[r].stage].acked
    OBVIOUS
  <2>1. rollouts[r].stage \in StageIds
    BY DEF WriteInv, TypeOK, Exists, Rollout
  <2> QED
    BY <2>1, NextKept DEF Kept, Keeps
<1> QED
  BY <1>1, WritesFit, PTL DEF WriteSpec, CountedAcksKept

\* activateNextStage and completeRollout run only after a stage's coverage was
\* stored: a crash between the update of the rollout and the rows of its next
\* stage does not let a rollout skip a stage.
THEOREM CrashesSkipNoStage ==
    ASSUME OneReplica
    PROVE  WriteSpec => []EarlierStagesCovered
<1>1. WriteInv => EarlierStagesCovered
  BY DEF WriteInv, RowsFit, Sound, EarlierStagesCovered, Exists
<1> QED
  BY <1>1, WritesFit, PTL
=============================================================================
