---------------------------- MODULE RolloutWrites ----------------------------
(***************************************************************************)
(* The rollout engine over the Postgres store, one store call at a time.   *)
(*                                                                         *)
(* A handler takes its replica's Service.mu, reads the rows it needs, and  *)
(* then issues writes that are separate database statements: no transaction *)
(* spans them.  Other replicas, operators and the data plane see the rows  *)
(* in between; a crash or a failed statement drops the writes that remain  *)
(* and releases the lock.                                                  *)
(*                                                                         *)
(* RolloutService takes each handler as one step.  Here a handler is a     *)
(* first step that reads and determines its writes, followed by one step   *)
(* per write.  The clock does not advance while a handler runs.  The       *)
(* registered agents and the telemetry are read in the first step too: a   *)
(* handler looks at each of them once, so a registration or a sample that  *)
(* falls between that step and the query could as well have come before.   *)
(*                                                                         *)
(* The rows of one stage are kept as one record.  This is exact for one    *)
(* replica, where the rows of the current stage always share a revision,   *)
(* and for several replicas when a cohort has one agent.                   *)
(***************************************************************************)
EXTENDS RolloutService, SequencesExt

CONSTANTS
    Replicas,         \* control-plane processes, each with a Service.mu
    Reconcilers,      \* the replicas whose reconcile ticker is enabled
    SharedStageIds,   \* TRUE: every request uses the ids of DefaultStagePlan
    RowOrder,         \* of <<config, candidate, cohort>>: the agents in the order of their rows
    MaxCrashes        \* bound on the crashes and failed statements of a run

ASSUME ReplicaAssumption ==
    /\ Reconcilers \subseteq Replicas
    /\ SharedStageIds \in BOOLEAN
    /\ MaxCrashes \in Nat

\* What slices.SortFunc makes of the rows: by bucket, equal buckets in a fixed
\* order (the agent ids).
ASSUME RowOrderAssumption ==
    \A c \in Configs, v \in Versions, cohort \in SUBSET Agents :
        LET rows      == RowOrder[<<c, v, cohort>>]
            bucket(a) == BucketOf[<<c, v, a>>]
        IN  /\ rows \in Seq(cohort)
            /\ cohort = {rows[i] : i \in DOMAIN rows}
            /\ \A i, j \in DOMAIN rows :
                  i < j => rows[i] # rows[j] /\ bucket(rows[i]) <= bucket(rows[j])

VARIABLES
    pending,   \* by replica: the writes its running handler has still to issue
    crashes    \* how many handlers were cut short so far

writeVars == <<vars, pending, crashes>>

-----------------------------------------------------------------------------
(* The store's write statements *)

insertRollout(r, ro) == [op |-> "insert", r |-> r, ro |-> ro]
updateRollout(r, ro) == [op |-> "update", r |-> r, ro |-> ro]
saveStable(c, v)     == [op |-> "stable", c |-> c, v |-> v]
replaceTargets(r, s, t) == [op |-> "replace", r |-> r, s |-> s, t |-> t]
insertTarget(r, s, a, t) == [op |-> "target", r |-> r, s |-> s, a |-> a, t |-> t]
nextSnapshotRevision     == [op |-> "revision"]

\* NextSnapshotRevision and SaveStageTargets: one upsert per row, in the order
\* BuildStageTargets sorts, of rows that get their revision once it is drawn.
SaveStageTargets(r, s, ro, t) ==
    LET rows == RowOrder[<<ro.config, ro.candidate, t.agents>>]
    IN  <<nextSnapshotRevision>>
        \o [i \in 1..Len(rows) |-> insertTarget(r, s, rows[i], t)]

\* Mutant: rows carry the revision of a snapshot without an assignment.
StampedPlain(writes, revision) ==
    [i \in DOMAIN writes |->
        IF writes[i].op = "target" THEN [writes[i] EXCEPT !.t.revision = 1]
        ELSE writes[i]]

Stamped(writes, revision) ==
    [i \in DOMAIN writes |->
        IF writes[i].op = "target" THEN [writes[i] EXCEPT !.t.revision = revision]
        ELSE writes[i]]

\* Mutant: the store has no unique index over unfinished rollouts.
ConflictsById(w) == w.op = "insert" /\ Exists(w.r)

OtherActive(w) == \E q \in RolloutIds \ {w.r} : Active(q) /\ rollouts[q].config = w.ro.config

\* The unique index over unfinished rollouts, which an update meets too when a
\* replica writes back what it read before the rollout ended, and the primary key
\* of rollout_stages, which is the stage id alone.
Conflicts(w) ==
    \/ /\ w.op = "insert"
       /\ \/ Exists(w.r)
          \/ OtherActive(w)
          \/ SharedStageIds /\ \E q \in RolloutIds : Exists(q)
    \/ w.op = "update" /\ ~Terminal(w.ro.state) /\ OtherActive(w)

\* Effect of a statement on the rows it writes.
RolloutsAfter(w, ros) ==
    IF w.op \in {"insert", "update"} THEN [ros EXCEPT ![w.r] = w.ro] ELSE ros

TargetsAfter(w, tgs) ==
    CASE w.op = "replace" -> [tgs EXCEPT ![w.r][w.s] = w.t]
      [] w.op = "target"  -> [tgs EXCEPT ![w.r][w.s] =
                                [agents   |-> @.agents \cup {w.a},
                                 acked    |-> @.acked \ {w.a},
                                 version  |-> w.t.version,
                                 revision |-> w.t.revision]]
      [] OTHER            -> tgs

StableAfter(w, st) == IF w.op = "stable" THEN [st EXCEPT ![w.c] = w.v] ELSE st

-----------------------------------------------------------------------------
(* The writes of each handler, from the rows it has read *)

\* Mutant: the rollout is finished before its candidate is published.
completeWritesUnpublished(r, ro) ==
    <<updateRollout(r, [ro EXCEPT !.state = "COMPLETED"]),
      saveStable(ro.config, ro.candidate)>>

completeWrites(r, ro) ==
    <<saveStable(ro.config, ro.candidate),
      updateRollout(r, [ro EXCEPT !.state = "COMPLETED"])>>

promoteWrites(r, ro) ==
    LET next == NextStage(ro)
    IN  IF ro.index = Len(StagePlan) THEN completeWrites(r, ro)
        ELSE <<updateRollout(r, next)>>
             \o SaveStageTargets(r, next.index, next,
                                 BuildStageTargets(next, next.index, 0))

decideWrites(r, t) ==
    LET old      == rollouts[r]
        decision == evaluateStageDecision(old, t)
        ro       == evaluateGuardrails(old, t)
        sampled  == IF Consults(old, t) THEN <<updateRollout(r, ro)>> ELSE <<>>
    IN  sampled \o
        CASE decision = "PROMOTE"  -> promoteWrites(r, ro)
          [] decision = "ROLLBACK" ->
                <<updateRollout(r, [ro EXCEPT !.state = "ROLLING_BACK"])>>
          [] decision = "PAUSE"    ->
                IF ro.state = "PAUSED" THEN <<>>
                ELSE <<updateRollout(r, [ro EXCEPT !.state = "PAUSED"])>>
          [] decision = "WAIT"     -> <<>>

\* Mutant: the outcome of the rollback is not recorded.
RolledBackSilently(ro, status) == [ro EXCEPT !.state = "ROLLED_BACK"]

RolledBack(ro, status) ==
    [ro EXCEPT !.state = "ROLLED_BACK", !.rollbackStatus = status]

\* SaveStage of the verification stage only makes the row its targets refer to.
verificationWrites(r, t) ==
    LET ro == [rollouts[r] EXCEPT !.stage = Verification, !.stageAge = 0]
    IN  SaveStageTargets(r, Verification, ro, VerificationTargets(ro, t, 0))
        \o <<updateRollout(r, ro)>>
        \o IF t.agents = {} THEN <<updateRollout(r, RolledBack(ro, "VERIFIED"))>>
           ELSE <<>>

rollbackWrites(r, t) ==
    LET ro      == rollouts[r]
        outcome == RollbackOutcome(ro, t)
    IN  IF ro.stage # Verification THEN verificationWrites(r, t)
        ELSE IF outcome # "NONE" THEN <<updateRollout(r, RolledBack(ro, outcome))>>
        ELSE <<>>

advanceWrites(r, t) ==
    IF rollouts[r].state = "ROLLING_BACK" THEN rollbackWrites(r, t)
    ELSE decideWrites(r, t)

-----------------------------------------------------------------------------
(* Handlers: take the lock, read, and start writing *)

Start(p, writes) ==
    /\ pending[p] = <<>>
    /\ pending' = [pending EXCEPT ![p] = writes]
    /\ UNCHANGED <<vars, crashes>>

StartCreateRollout(p, r, c, v, services, rules) ==
    /\ ~Exists(r)
    /\ \A q \in Replicas : \A i \in DOMAIN pending[q] :
          pending[q][i].op = "insert" => pending[q][i].r # r   \* newID is unique
    /\ stable[c] # NoVersion
    /\ stable[c] # v
    /\ LET ro == NewRollout(c, v, services, rules)
       IN  Start(p, <<insertRollout(r, ro)>>
                    \o SaveStageTargets(r, 1, ro, BuildStageTargets(ro, 1, 0)))

\* Mutant: a counted acknowledgement is used but not saved.
countedNotSaved(r, ack, t) == <<>>

countedWrites(r, ack, t) ==
    IF Counts(r, ack) THEN <<replaceTargets(r, rollouts[r].stage, t)>> ELSE <<>>

StartAcknowledge(p, r, ack) ==
    /\ Active(r)
    /\ LET t == ApplyAck(r, ack)[r][rollouts[r].stage]
       IN  Start(p, countedWrites(r, ack, t) \o advanceWrites(r, t))

\* Mutant: the reconciler leaves rollouts that roll back to the acknowledgements.
StartReconcileForward(p, r) ==
    /\ p \in Reconcilers
    /\ Active(r)
    /\ rollouts[r].state # "ROLLING_BACK"
    /\ Start(p, advanceWrites(r, targets[r][rollouts[r].stage]))

StartReconcile(p, r) ==
    /\ p \in Reconcilers
    /\ Active(r)
    /\ Start(p, advanceWrites(r, targets[r][rollouts[r].stage]))

\* The next statement of the handler that runs on p.
Write(p) ==
    /\ pending[p] # <<>>
    /\ LET w == Head(pending[p])
       IN  \/ /\ ~Conflicts(w)
              /\ rollouts' = RolloutsAfter(w, rollouts)
              /\ targets' = TargetsAfter(w, targets)
              /\ stable' = StableAfter(w, stable)
              /\ IF w.op = "revision"
                 THEN /\ pending' = [pending EXCEPT ![p] = Stamped(Tail(@), nextRevision)]
                      /\ nextRevision' = nextRevision + 1
                 ELSE /\ pending' = [pending EXCEPT ![p] = Tail(@)]
                      /\ UNCHANGED nextRevision
           \/ /\ Conflicts(w)   \* ErrConflict ends the handler
              /\ pending' = [pending EXCEPT ![p] = <<>>]
              /\ UNCHANGED <<rollouts, targets, stable, nextRevision>>
    /\ UNCHANGED <<agentService, telemetry, crashes>>

\* The process stops, or a statement fails, before the next write.
Crash(p) ==
    /\ pending[p] # <<>>
    /\ crashes < MaxCrashes
    /\ crashes' = crashes + 1
    /\ pending' = [pending EXCEPT ![p] = <<>>]
    /\ UNCHANGED vars

\* Operators leave the stable version alone while a rollout of the config runs
\* (RolloutService has the interference), so that its changes are the engine's.
OperatorSetsStable(c, v) ==
    /\ \A q \in RolloutIds : Active(q) => rollouts[q].config # c
    /\ \A p \in Replicas : pending[p] = <<>>
    /\ SetStableVersion(c, v)
    /\ UNCHANGED <<pending, crashes>>

Elapse ==
    /\ \A p \in Replicas : pending[p] = <<>>
    /\ Tick
    /\ UNCHANGED <<pending, crashes>>

Environment ==
    /\ \/ \E a \in Agents, service \in Services \cup {Elsewhere} : Register(a, service)
       \/ \E rule \in Rules, sample \in Samples : TelemetryChanges(rule, sample)
    /\ UNCHANGED <<pending, crashes>>

-----------------------------------------------------------------------------
(* Specification *)

WriteInit == Init /\ pending = [p \in Replicas |-> <<>>] /\ crashes = 0

WriteNext ==
    \/ \E p \in Replicas :
          \/ \E r \in RolloutIds, c \in Configs, v \in Versions,
                services \in ServiceChoices, rules \in GuardrailChoices :
                   StartCreateRollout(p, r, c, v, services, rules)
          \/ \E r \in RolloutIds, ack \in Acks : StartAcknowledge(p, r, ack)
          \/ \E r \in RolloutIds : StartReconcile(p, r)
          \/ Write(p)
          \/ Crash(p)
    \/ \E c \in Configs, v \in Versions : OperatorSetsStable(c, v)
    \/ Environment
    \/ Elapse

WriteSpec == WriteInit /\ [][WriteNext]_writeVars

\* A started handler runs on and time passes.  The lock is handed to a waiting
\* reconciler however many acknowledgements compete for it (sync.Mutex does not
\* starve a waiter), and the clock is held back here only while a handler runs:
\* hence strong fairness for both.
WriteFairness ==
    /\ SF_writeVars(Elapse)
    /\ \A p \in Replicas :
          /\ WF_writeVars(Write(p))
          /\ \A r \in RolloutIds : SF_writeVars(StartReconcile(p, r))

FairWriteSpec == WriteSpec /\ WriteFairness

-----------------------------------------------------------------------------
(* Properties *)

TheReplica == CHOOSE p \in Replicas : TRUE

\* The writes that will take effect if the running handler is not cut short.
Coming ==
    LET ws == pending[TheReplica]
    IN  IF ws # <<>> /\ Conflicts(ws[1]) THEN <<>>
        ELSE IF \E i \in DOMAIN ws : ws[i].op = "revision"
             THEN Stamped(ws, nextRevision) ELSE ws

\* The rows once the running handler has issued its writes.
Atomic == INSTANCE RolloutService WITH
    rollouts     <- FoldLeft(LAMBDA ros, w : RolloutsAfter(w, ros), rollouts, Coming),
    targets      <- FoldLeft(LAMBDA tgs, w : TargetsAfter(w, tgs), targets, Coming),
    stable       <- FoldLeft(LAMBDA st, w : StableAfter(w, st), stable, Coming),
    nextRevision <- nextRevision +
                      Cardinality({i \in DOMAIN Coming : Coming[i].op = "revision"})

\* With one replica, and until a handler is cut short, taking each handler as a
\* single step loses nothing: the interleaved writes implement RolloutService.
ImplementsRolloutService ==
    Atomic!Init /\ [][crashes' = 0 => Atomic!Next]_Atomic!vars

\* A rollout is never marked COMPLETED before its candidate is the stable
\* version, wherever its handler is cut short.
PublishedBeforeCompleted ==
    [][\A r \in RolloutIds :
          Exists(r) /\ rollouts[r].state # "COMPLETED"
                    /\ rollouts'[r].state = "COMPLETED"
            => stable[rollouts[r].config] = rollouts[r].candidate]_writeVars

\* A counted acknowledgement of the current stage is never lost.
CountedAcksKept ==
    [][\A r \in RolloutIds :
          Exists(r) => LET s == rollouts[r].stage
                       IN  targets[r][s].acked \subseteq targets'[r][s].acked]_writeVars

\* A crashed or failed handler never leaves a rollout unfinished for good: the
\* next reconciliation picks it up.
FinishDespiteCrashes == RolloutsFinish

\* A rollback that nothing but the engine touched leaves the stable version as
\* it was when the rollout began.
RollbackKeepsStable ==
    [][\A r \in RolloutIds :
          Exists(r) /\ rollouts[r].state # "ROLLED_BACK"
                    /\ rollouts'[r].state = "ROLLED_BACK"
            => stable'[rollouts[r].config] = rollouts[r].stable]_writeVars

\* A rollback is VERIFIED only by coverage of the agents that were given the
\* candidate, if there were any.
VerifiedByCoverage ==
    \A r \in RolloutIds :
        Exists(r) /\ rollouts[r].rollbackStatus = "VERIFIED"
                  /\ (\E i \in StageIndexes : targets[r][i].agents # {})
            => CoverageReached(targets[r][Verification])

\* A valid request is refused only while the config has an unfinished rollout.
RefusedOnlyWhileActive ==
    [][\A p \in Replicas :
          LET w == Head(pending[p])
          IN  pending[p] # <<>> /\ pending'[p] = <<>> /\ crashes' = crashes
                 /\ w.op = "insert" /\ rollouts'[w.r] = NoRollout
              => \E q \in RolloutIds : Active(q) /\ rollouts[q].config = w.ro.config]_writeVars
=============================================================================
