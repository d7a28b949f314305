--------------------------- MODULE SnapshotDelivery ---------------------------
(***************************************************************************)
(* The data plane and the polling agents around the rollout engine.        *)
(*                                                                         *)
(* An agent polls (SyncOnce): the data plane builds its snapshot from      *)
(* reads that are not one transaction (dataplane/dynamic_store.go), so     *)
(* that the engine's writes fall between them; the agent installs the      *)
(* snapshot and acknowledges its items to the control plane one by one.    *)
(* An acknowledgement may be lost, or be handled long after the agent gave *)
(* up waiting and polled again.                                            *)
(*                                                                         *)
(* In RolloutWrites an acknowledgement is any one that names a stage, a    *)
(* version and a revision that exist.  Here the only ones are those that   *)
(* agents send for what they have installed.  How an agent installs a      *)
(* snapshot is the subject of module Agent; here it is one step, which may *)
(* fail, and the values are ones whose encoding validates (Flat in module  *)
(* Agent).                                                                 *)
(*                                                                         *)
(* Polls and acknowledgements carry a credential that ends some time after *)
(* the agent registered.  An agent registers when its process starts and   *)
(* never again, so that it takes a restart to have a new one.              *)
(*                                                                         *)
(* The ETag covers the time a snapshot was generated at, so that the data  *)
(* plane answers every poll with a snapshot, never with 304.               *)
(***************************************************************************)
EXTENDS RolloutWrites

CONSTANTS
    OperatorVersions,   \* the versions that operators make stable
    Expiring            \* bound: the agents whose credential may end

ASSUME OperatorAssumption == OperatorVersions \subseteq Versions /\ Expiring \subseteq Agents
ASSUME IdAssumption == RolloutIds # {}

VARIABLES
    cache,      \* by agent and config, the version it has installed
    sync,       \* by agent, how far its poll has come
    inflight,   \* acknowledgements on their way to the control plane
    live,       \* agents whose credential has not ended
    published   \* by config, every version that was ever its stable version

delivery      == <<cache, sync, inflight>>
deliveryVars  == <<writeVars, delivery, live, published>>

Idle == [step |-> "idle"]

\* The snapshot item of a config: a version and, when the agent takes part in
\* a rollout, the Assignment and the revision.
Plain(version) == [version |-> version, rollout |-> NoRollout, stage |-> 0, revision |-> 1]
Assigned(version, r, s, revision) ==
    [version |-> version, rollout |-> r, stage |-> s, revision |-> revision]

-----------------------------------------------------------------------------
(* Effective version *)

servesCandidate(state) == state \in {"DEPLOYING", "EVALUATING", "PROMOTING", "PAUSED"}

\* Mutant: the stable version is served in a rollback without an assignment.
rollbackUnassigned(r, ro, t, a) == Plain(ro.stable)

rollbackVerificationVersionForAgent(r, ro, t, a) ==
    IF a \in t.agents /\ t.version = ro.stable
    THEN Assigned(ro.stable, r, ro.stage, t.revision) ELSE Plain(ro.stable)

\* Mutant: the rows decide about the assignment, not about the version.
EffectiveVersionForAll(r, ro, t, a) ==
    IF ro.state = "ROLLING_BACK" THEN rollbackVerificationVersionForAgent(r, ro, t, a)
    ELSE IF servesCandidate(ro.state) /\ a \in t.agents
         THEN Assigned(t.version, r, ro.stage, t.revision) ELSE Plain(ro.candidate)

\* t: the rows of the stage that was current when the rollout ro was read.
EffectiveVersionForAgent(r, ro, t, a) ==
    IF ro.state = "ROLLING_BACK" THEN rollbackVerificationVersionForAgent(r, ro, t, a)
    ELSE IF servesCandidate(ro.state) /\ a \in t.agents
         THEN Assigned(t.version, r, ro.stage, t.revision) ELSE Plain(ro.stable)

-----------------------------------------------------------------------------
(* Building a snapshot: GetSnapshot *)

\* The definitions come in a fixed order.
NextConfig(left) == CHOOSE c \in left : TRUE

\* The credential is verified first: without a live one the answer is 401.
Poll(a) ==
    /\ sync[a].step = "idle"
    /\ a \in live
    /\ sync' = [sync EXCEPT ![a] =
                  [step |-> "state", left |-> Configs, items |-> [c \in {} |-> Plain(NoVersion)]]]
    /\ UNCHANGED <<writeVars, published, live, cache, inflight>>

\* The poll after it is done with its next config.
ItemDone(poll, items) ==
    LET left == poll.left \ {NextConfig(poll.left)}
    IN  IF left = {} THEN [step |-> "install", items |-> items]
        ELSE [step |-> "state", left |-> left, items |-> items]

WithItem(poll, item) ==
    LET c == NextConfig(poll.left)
    IN  [d \in DOMAIN poll.items \cup {c} |-> IF d = c THEN item ELSE poll.items[d]]

\* snapshotItem: GetEnvironmentState, and ListVersions, which certainly has the
\* versions of the rollouts that exist now.  A config without a stable version is
\* left out.
ReadState(a) ==
    LET poll == sync[a]
        c    == NextConfig(poll.left)
    IN  /\ poll.step = "state"
        /\ sync' = [sync EXCEPT ![a] =
                      IF stable[c] = NoVersion THEN ItemDone(poll, poll.items)
                      ELSE [step |-> "rollout", left |-> poll.left, items |-> poll.items,
                            base |-> stable[c], listed |-> {r \in RolloutIds : Exists(r)}]]
        /\ UNCHANGED <<writeVars, published, live, cache, inflight>>

WhatMatters(ro) ==
    [state |-> ro.state, stage |-> ro.stage, stable |-> ro.stable, candidate |-> ro.candidate]

\* Mutant: a finished rollout still counts as the active one.
ReadLastRollout(a) ==
    LET poll   == sync[a]
        latest == {r \in RolloutIds : Exists(r) /\ rollouts[r].config = NextConfig(poll.left)}
    IN  /\ poll.step = "rollout"
        /\ \/ /\ latest = {}
              /\ sync' = [sync EXCEPT ![a] = ItemDone(poll, WithItem(poll, Plain(poll.base)))]
           \/ \E r \in latest :
                 sync' = [sync EXCEPT ![a] =
                            [step |-> "targets", left |-> poll.left, items |-> poll.items,
                             rollout |-> r, read |-> WhatMatters(rollouts[r]),
                             listed |-> r \in poll.listed]]
        /\ UNCHANGED <<writeVars, published, live, cache, inflight>>

\* ActiveRollout: GetActiveRollout, then ListStageTargets of the stage it names.
ReadRollout(a) ==
    LET poll   == sync[a]
        active == {r \in RolloutIds : Active(r) /\ rollouts[r].config = NextConfig(poll.left)}
    IN  /\ poll.step = "rollout"
        /\ \/ /\ active = {}
              /\ sync' = [sync EXCEPT ![a] = ItemDone(poll, WithItem(poll, Plain(poll.base)))]
           \/ \E r \in active :
                 sync' = [sync EXCEPT ![a] =
                            [step |-> "targets", left |-> poll.left, items |-> poll.items,
                             rollout |-> r, read |-> WhatMatters(rollouts[r]),
                             listed |-> r \in poll.listed]]
        /\ UNCHANGED <<writeVars, published, live, cache, inflight>>

\* findVersionByID: the version of a rollout that is newer than the list of
\* versions may not be in it, and then the config is left out.
ReadTargets(a) ==
    LET poll == sync[a]
        r    == poll.rollout
        item == EffectiveVersionForAgent(r, poll.read, targets[r][poll.read.stage], a)
    IN  /\ poll.step = "targets"
        /\ \E items \in {WithItem(poll, item)} \cup (IF poll.listed THEN {} ELSE {poll.items}) :
              sync' = [sync EXCEPT ![a] = ItemDone(poll, items)]
        /\ UNCHANGED <<writeVars, published, live, cache, inflight>>

-----------------------------------------------------------------------------
(* The agent: SyncOnce after the fetch *)

\* One revision stands for the whole snapshot.
Revision(items) ==
    IF DOMAIN items = {} THEN 1
    ELSE CHOOSE n \in {items[c].revision : c \in DOMAIN items} :
            \A c \in DOMAIN items : items[c].revision <= n

AssignedConfigs(items) == {c \in DOMAIN items : items[c].rollout # NoRollout}

\* An acknowledgement without an assignment does not reach the rollout engine.
Acknowledging(items, left) ==
    IF left = {} THEN Idle ELSE [step |-> "ack", items |-> items, left |-> left]

\* Mutant: an error of Save is ignored.
InstallUnsaved(a) ==
    /\ sync[a].step = "install"
    /\ sync' = [sync EXCEPT ![a] = Acknowledging(sync[a].items, AssignedConfigs(sync[a].items))]
    /\ UNCHANGED <<writeVars, published, live, cache, inflight>>

\* The snapshot fails validation, or Save fails: SyncOnce ends with an error and
\* the cache keeps what it had.
InstallFails(a) ==
    /\ sync[a].step = "install"
    /\ sync' = [sync EXCEPT ![a] = Idle]
    /\ UNCHANGED <<writeVars, published, live, cache, inflight>>

\* Save keeps all of what it was given.
Install(a) ==
    LET items == sync[a].items
    IN  /\ sync[a].step = "install"
        /\ cache' = [cache EXCEPT ![a] =
              [c \in Configs |-> IF c \in DOMAIN items THEN items[c].version ELSE NoVersion]]
        /\ sync' = [sync EXCEPT ![a] = Acknowledging(items, AssignedConfigs(items))]
        /\ UNCHANGED <<writeVars, published, live, inflight>>

AckMessage(a) ==
    LET items == sync[a].items
        item  == items[NextConfig(sync[a].left)]
    IN  [rollout |-> item.rollout,
         ack     |-> [stage |-> item.stage, agent |-> a, version |-> item.version,
                      revision |-> Revision(items)]]

SendAck(a) ==
    /\ sync[a].step = "ack"
    /\ inflight' = inflight \cup {AckMessage(a)}
    /\ sync' = [sync EXCEPT ![a].step = "waiting"]
    /\ UNCHANGED <<writeVars, published, live, cache>>

Answered(a) ==
    /\ sync[a].step = "waiting"
    /\ AckMessage(a) \notin inflight
    /\ sync' = [sync EXCEPT ![a] =
                  Acknowledging(@.items, @.left \ {NextConfig(@.left)})]
    /\ UNCHANGED <<writeVars, published, live, cache, inflight>>

Awaited(a) == IF sync[a].step = "waiting" THEN {AckMessage(a)} ELSE {}

\* The answer does not come in time, or the agent is restarted: SyncOnce ends
\* and the acknowledgement may still be handled.  The agent waits longer than a
\* handler takes that happens to hold the lock.  A poll that ends before it
\* sends an acknowledgement leaves nothing behind but what it installed, which
\* is the same as a lost acknowledgement, or as no poll at all.
GivesUp(a) ==
    /\ sync[a].step = "waiting"
    /\ \A p \in Replicas : pending[p] = <<>>
    /\ sync' = [sync EXCEPT ![a] = Idle]
    /\ UNCHANGED <<writeVars, published, live, cache, inflight>>

-----------------------------------------------------------------------------
(* The control plane *)

\* agentAcknowledgement verifies the credential and hands the acknowledgement to
\* the rollout engine.
Deliver(p, m) ==
    /\ m \in inflight
    /\ m.ack.agent \in live
    /\ StartAcknowledge(p, m.rollout, m.ack)
    /\ inflight' = inflight \ {m}
    /\ UNCHANGED <<published, live, cache, sync>>

\* The sender's SyncOnce ends with an error.
Failed(m) ==
    /\ inflight' = inflight \ {m}
    /\ sync' = [a \in Agents |-> IF m \in Awaited(a) THEN Idle ELSE sync[a]]
    /\ UNCHANGED <<writeVars, published, live, cache>>

\* The credential has ended, or the rollout is finished.
Refused(m) ==
    m \in inflight /\ (m.ack.agent \notin live \/ ~Active(m.rollout)) /\ Failed(m)

\* The acknowledgement is lost instead of being handled.
Lost(p, m) == m \in inflight /\ pending[p] = <<>> /\ Failed(m)

\* newID: which of the unused ids a rollout gets makes no difference.
FreshId == CHOOSE r \in RolloutIds : ~Exists(r) \/ \A q \in RolloutIds : Exists(q)

\* The process of an agent starts, for the first time or again, and registers.
\* It can stop in the middle of a poll: see GivesUp and InstallFails.
Starts(a) ==
    /\ sync[a].step = "idle"
    /\ \E service \in Services : Register(a, service)
    /\ live' = live \cup {a}
    /\ UNCHANGED <<pending, crashes>>

\* Verify compares ExpiresAt with the clock.
CredentialExpires(a) ==
    /\ a \in Expiring
    /\ live' = live \ {a}
    /\ UNCHANGED <<writeVars, published, delivery>>

\* The engine's steps that no acknowledgement starts.  Telemetry stays what it
\* was at first, any of its values: RolloutService has it change.
Engine ==
    /\ \/ /\ \/ \E p \in Replicas :
                   \/ \E c \in Configs, v \in Versions,
                         services \in ServiceChoices, rules \in GuardrailChoices :
                            StartCreateRollout(p, FreshId, c, v, services, rules)
                   \/ \E r \in RolloutIds : StartReconcile(p, r)
                   \/ Write(p)
             \/ \E c \in Configs, v \in OperatorVersions : OperatorSetsStable(c, v)
          /\ UNCHANGED live
       \/ \E a \in Agents : Starts(a)
    /\ published' = [c \in Configs |-> published[c] \cup ({stable'[c]} \ {NoVersion})]
    /\ UNCHANGED delivery

-----------------------------------------------------------------------------
(* Specification *)

DeliveryInit ==
    /\ WriteInit
    /\ cache = [a \in Agents |-> [c \in Configs |-> NoVersion]]
    /\ sync = [a \in Agents |-> Idle]
    /\ inflight = {}
    /\ live = {}
    /\ published = [c \in Configs |-> {}]

SyncOnce(a) ==
    \/ Poll(a) \/ ReadState(a) \/ ReadRollout(a) \/ ReadTargets(a)
    \/ Install(a) \/ SendAck(a) \/ Answered(a)

DeliveryNext ==
    \/ Engine
    \/ \E a \in Agents : SyncOnce(a) \/ InstallFails(a) \/ GivesUp(a) \/ CredentialExpires(a)
    \/ \E m \in inflight : Refused(m) \/ \E p \in Replicas : Deliver(p, m) \/ Lost(p, m)

DeliverySpec == DeliveryInit /\ [][DeliveryNext]_deliveryVars

\* Agents poll while their credential is live, and wait for no answer for ever; a
\* Save that is tried again and again succeeds at last; started handlers run on.
\* Nothing makes an agent register again.  (Strong fairness: GivesUp is possible
\* between two handlers, however many there are.)
PollingFairness ==
    /\ \A a \in Agents :
          /\ SF_deliveryVars(SyncOnce(a) \/ GivesUp(a))
          /\ SF_deliveryVars(Install(a))
    /\ \A p \in Replicas : WF_deliveryVars(Engine /\ Write(p))

\* The control plane handles an acknowledgement while its sender waits.
Arrives(r, a) ==
    \E m \in inflight \cap Awaited(a) :
        m.rollout = r /\ (Refused(m) \/ \E p \in Replicas : Deliver(p, m))

\* Besides, the reconciler's ticker keeps ticking, and an acknowledgement that is
\* sent again and again is handled at last.
DeliveryFairness ==
    \A r \in RolloutIds :
        /\ \A a \in Agents : SF_deliveryVars(Arrives(r, a))
        /\ \A p \in Replicas : SF_deliveryVars(Engine /\ StartReconcile(p, r))

FairDeliverySpec == DeliverySpec /\ PollingFairness /\ DeliveryFairness

-----------------------------------------------------------------------------
(* Properties *)

\* What an agent runs was the stable version at some time, or is the candidate
\* of a rollout that chose the agent into one of its cohorts: no order of reads
\* and writes shows a candidate to anyone else.
CandidateOnlyInCohort ==
    \A a \in Agents, c \in Configs :
        cache[a][c] \in published[c] \cup {NoVersion}
            \cup {rollouts[r].candidate : r \in {q \in RolloutIds :
                    /\ Exists(q) /\ rollouts[q].config = c
                    /\ \E i \in StageIndexes : a \in targets[q][i].agents}}

\* An agent that the current stage of a rollout counts as acknowledged runs the
\* version that the stage expects, however late its acknowledgement came.
CountedMeansInstalled ==
    \A r \in RolloutIds :
        LET ro == rollouts[r]
            t  == targets[r][ro.stage]
        IN  Active(r) /\ (servesCandidate(ro.state) \/ ro.stage = Verification) =>
                \A a \in t.acked : cache[a][ro.config] = t.version

\* Once a config's stable version stays and no rollout of it runs, every agent
\* whose credential stays live ends up with that version for good.
AgentsConverge ==
    \A a \in Agents, c \in Configs, v \in Versions :
        <>[](stable[c] = v /\ a \in live
                /\ \A r \in RolloutIds : Active(r) => rollouts[r].config # c)
            => <>[](cache[a][c] = v)

\* Acknowledgements alone carry a rollout to its end, although each may be lost
\* or late: where telemetry is there, credentials stay live and the first cohort
\* is not empty, no timeout is needed.
DeliveredToTheEnd ==
    <>[]((\A rule \in Rules : telemetry[rule] # "NO_VALUE")
            /\ \A a \in Agents : agentService[a] # Elsewhere => a \in live) =>
        \A r \in RolloutIds :
            Active(r) /\ targets[r][1].agents # {} ~> ~Active(r)
=============================================================================
