------------------------ MODULE SnapshotDeliveryProofs ------------------------
(***************************************************************************)
(* What an agent can be given, whatever falls between the reads that build *)
(* its snapshot.                                                           *)
(*                                                                         *)
(* A poll reads the stable version, the rollout and the rows of a stage at *)
(* different times.  The invariant says of each thing it has read what is  *)
(* still true of it: a stable version was published, a rollout keeps its   *)
(* terms, an agent stays in its cohort.  These only grow, so that it does  *)
(* not matter what the control plane writes in the meantime.               *)
(*                                                                         *)
(* An acknowledgement says what an agent ran when it was sent.  The second *)
(* invariant says why it is still true when it is counted: as long as the  *)
(* stage is under way, every later poll of the agent finds the same row.   *)
(***************************************************************************)
EXTENDS SnapshotDelivery, RolloutWritesProofs

\* The versions of config c that agent a may run.
Allowed(a, c, ros, tgs, pub) ==
    pub[c] \cup {NoVersion}
        \cup {ros[r].candidate : r \in {q \in RolloutIds :
                /\ ros[q] # NoRollout /\ ros[q].config = c
                /\ \E i \in StageIndexes : a \in tgs[q][i].agents}}

ItemsAllowed(a, items, ros, tgs, pub) ==
    \A c \in DOMAIN items :
        /\ c \in Configs => items[c].version \in Allowed(a, c, ros, tgs, pub)
        /\ items[c].rollout \in RolloutIds \cup {NoRollout}

\* What was read of a rollout still tells its terms.
ReadHolds(r, c, read, ros) ==
    /\ r \in RolloutIds /\ ros[r] # NoRollout /\ ros[r].config = c
    /\ read.stable = ros[r].stable
    /\ read.stage \in StageIds
    /\ servesCandidate(read.state) => read.stage # Verification

\* The poll of agent a, in each of its steps.
PollHolds(a, poll, ros, tgs, pub) ==
    /\ poll.step \in {"idle", "state", "rollout", "targets", "install", "ack", "waiting"}
    /\ poll.step # "idle" => ItemsAllowed(a, poll.items, ros, tgs, pub)
    /\ poll.step = "rollout" =>
          (NextConfig(poll.left) \in Configs => poll.base \in pub[NextConfig(poll.left)])
    /\ poll.step = "targets" => ReadHolds(poll.rollout, NextConfig(poll.left), poll.read, ros)
    /\ poll.step \in {"ack", "waiting"} =>
          /\ poll = [step |-> poll.step, items |-> poll.items, left |-> poll.left]
          /\ poll.left # {} /\ poll.left \subseteq AssignedConfigs(poll.items)

\* Stable versions, those that rollouts return to included, were published.
StablePublished(ros, st, pub) ==
    /\ \A c \in Configs : st[c] \in pub[c] \cup {NoVersion}
    /\ \A r \in RolloutIds : ros[r] # NoRollout => ros[r].stable \in pub[ros[r].config]

CacheAllowed(installed, ros, tgs, pub) ==
    /\ installed = [a \in Agents |-> [c \in Configs |-> installed[a][c]]]
    /\ \A a \in Agents, c \in Configs : installed[a][c] \in Allowed(a, c, ros, tgs, pub)

DeliveryInv ==
    /\ WriteInv
    /\ StablePublished(rollouts, stable, published)
    /\ CacheAllowed(cache, rollouts, targets, published)
    /\ sync = [a \in Agents |-> sync[a]]
    /\ \A a \in Agents : PollHolds(a, sync[a], rollouts, targets, published)
    /\ \A m \in inflight : m.rollout \in RolloutIds /\ m.ack.agent \in Agents

-----------------------------------------------------------------------------
(* What was read stays true *)

Grows(pub, pub2) == \A c \in Configs : pub[c] \subseteq pub2[c]

LEMMA AllowedGrows ==
    ASSUME NEW ros, NEW tgs, NEW st, NEW pub, NEW ros2, NEW tgs2, NEW pub2,
           Keeps(ros, tgs, st, ros2, tgs2), Grows(pub, pub2), NEW a, NEW c \in Configs
    PROVE  Allowed(a, c, ros, tgs, pub) \subseteq Allowed(a, c, ros2, tgs2, pub2)
<1> SUFFICES ASSUME NEW r \in RolloutIds, ros[r] # NoRollout, ros[r].config = c,
                    NEW i \in StageIndexes, a \in tgs[r][i].agents
             PROVE  /\ ros2[r] # NoRollout /\ ros2[r].config = c
                    /\ ros2[r].candidate = ros[r].candidate
                    /\ a \in tgs2[r][i].agents
  BY DEF Allowed, Grows
<1>1. i \in StageIds
  BY StageFacts DEF StageIndexes, StageIds, Verification
<1> QED
  BY <1>1 DEF Keeps, SameTerms

LEMMA PollGrows ==
    ASSUME NEW ros, NEW tgs, NEW st, NEW pub, NEW ros2, NEW tgs2, NEW pub2,
           Keeps(ros, tgs, st, ros2, tgs2), Grows(pub, pub2), NEW a, NEW poll,
           PollHolds(a, poll, ros, tgs, pub)
    PROVE  PollHolds(a, poll, ros2, tgs2, pub2)
<1>1. ItemsAllowed(a, poll.items, ros, tgs, pub) => ItemsAllowed(a, poll.items, ros2, tgs2, pub2)
  BY AllowedGrows DEF ItemsAllowed
<1>2. \A r, c, read : ReadHolds(r, c, read, ros) => ReadHolds(r, c, read, ros2)
  BY DEF ReadHolds, Keeps, SameTerms
<1> QED
  BY <1>1, <1>2 DEF PollHolds, Grows

\* A rollout that begins returns to the version that is stable then.
LEMMA PublishedGrows ==
    ASSUME NEW ros, NEW tgs, NEW st, NEW pub, NEW ros2, NEW tgs2, NEW st2, NEW pub2,
           StablePublished(ros, st, pub), Grows(pub, pub2), Keeps(ros, tgs, st, ros2, tgs2),
           ros \in RolloutStore, ros2 \in RolloutStore,
           \A c \in Configs : st2[c] \in pub2[c] \cup {NoVersion}
    PROVE  StablePublished(ros2, st2, pub2)
<1> SUFFICES ASSUME NEW r \in RolloutIds, ros2[r] # NoRollout
             PROVE  ros2[r].stable \in pub2[ros2[r].config]
  BY DEF StablePublished
<1>1. /\ ros2[r].stable \in Versions /\ ros2[r].config \in Configs
      /\ ros2[r].stable # NoVersion
  BY NameAssumption DEF RolloutStore, Rollout
<1>2. CASE ros[r] = NoRollout
  <2>1. ros2[r].stable = st[ros2[r].config]
    BY <1>2 DEF Keeps
  <2> QED
    BY <1>1, <2>1 DEF StablePublished, Grows
<1>3. CASE ros[r] # NoRollout
  <2>1. ros2[r].stable = ros[r].stable /\ ros2[r].config = ros[r].config
    BY <1>3 DEF Keeps, SameTerms
  <2> QED
    BY <1>1, <1>3, <2>1 DEF StablePublished, Grows
<1> QED
  BY <1>2, <1>3

\* A step of the control plane, as agents and polls see it.
LEMMA ControlPlaneStep ==
    ASSUME DeliveryInv, Kept, Grows(published, published'),
           \A c \in Configs : stable'[c] \in published'[c] \cup {NoVersion},
           UNCHANGED <<cache, sync>>, inflight' \subseteq inflight
    PROVE  DeliveryInv'
<1>1. Keeps(rollouts, targets, stable, rollouts', targets') /\ WriteInv'
  BY DEF Kept
<1>2. rollouts \in RolloutStore /\ rollouts' \in RolloutStore
  BY <1>1 DEF DeliveryInv, WriteInv, TypeOK, RolloutStore
<1>3. StablePublished(rollouts', stable', published')
  BY <1>1, <1>2, PublishedGrows DEF DeliveryInv
<1>4. \A a \in Agents : PollHolds(a, sync[a], rollouts', targets', published')
  BY <1>1, PollGrows DEF DeliveryInv
<1>5. CacheAllowed(cache, rollouts', targets', published')
  <2>1. \A a \in Agents, c \in Configs :
           cache[a][c] \in Allowed(a, c, rollouts', targets', published')
    BY <1>1, AllowedGrows DEF DeliveryInv, CacheAllowed
  <2> QED
    BY <2>1 DEF DeliveryInv, CacheAllowed
<1> QED
  BY <1>1, <1>3, <1>4, <1>5 DEF DeliveryInv

\* A step of agent a.
LEMMA AgentStep ==
    ASSUME DeliveryInv, UNCHANGED <<writeVars, published>>, NEW a \in Agents, NEW poll,
           sync' = [sync EXCEPT ![a] = poll],
           PollHolds(a, poll, rollouts, targets, published),
           CacheAllowed(cache', rollouts, targets, published),
           \A m \in inflight' : m.rollout \in RolloutIds /\ m.ack.agent \in Agents
    PROVE  DeliveryInv'
<1>1. WriteInv' /\ UNCHANGED <<rollouts, targets, stable, published>>
  BY StutterKept DEF DeliveryInv, Kept, writeVars, vars
<1>2. /\ sync' = [b \in Agents |-> sync'[b]]
      /\ sync'[a] = poll
      /\ \A b \in Agents : b # a => sync'[b] = sync[b]
  BY DEF DeliveryInv
<1>3. \A b \in Agents : PollHolds(b, sync'[b], rollouts, targets, published)
  BY <1>2 DEF DeliveryInv
<1> QED
  BY <1>1, <1>2, <1>3 DEF DeliveryInv

-----------------------------------------------------------------------------
(* The steps of a poll *)

LEMMA ItemDoneHolds ==
    ASSUME NEW a, NEW poll, NEW items, NEW ros, NEW tgs, NEW pub,
           ItemsAllowed(a, items, ros, tgs, pub)
    PROVE  PollHolds(a, ItemDone(poll, items), ros, tgs, pub)
BY DEF ItemDone, PollHolds

LEMMA WithItemAllowed ==
    ASSUME NEW a, NEW poll, NEW item, NEW ros, NEW tgs, NEW pub,
           ItemsAllowed(a, poll.items, ros, tgs, pub),
           NextConfig(poll.left) \in Configs =>
              item.version \in Allowed(a, NextConfig(poll.left), ros, tgs, pub),
           item.rollout \in RolloutIds \cup {NoRollout}
    PROVE  ItemsAllowed(a, WithItem(poll, item), ros, tgs, pub)
<1> DEFINE c     == NextConfig(poll.left)
           items == WithItem(poll, item)
<1>1. /\ DOMAIN items = DOMAIN poll.items \cup {c}
      /\ \A d \in DOMAIN items : items[d] = IF d = c THEN item ELSE poll.items[d]
  BY DEF WithItem
<1> HIDE DEF c, items
<1> QED
  BY <1>1 DEF ItemsAllowed, c, items

\* The rest of SyncOnce, after what it has installed.
LEMMA AcknowledgingHolds ==
    ASSUME NEW a, NEW items, NEW left, left \subseteq AssignedConfigs(items),
           NEW ros, NEW tgs, NEW pub, ItemsAllowed(a, items, ros, tgs, pub)
    PROVE  PollHolds(a, Acknowledging(items, left), ros, tgs, pub)
BY DEF Acknowledging, PollHolds, Idle

\* The version that the rows which were found give to the agent.
LEMMA EffectiveAllowed ==
    ASSUME NEW ros, NEW tgs, NEW st, Fits(ros, tgs, st), NEW pub,
           StablePublished(ros, st, pub), NEW a, NEW r, NEW c, NEW read,
           ReadHolds(r, c, read, ros)
    PROVE  LET item == EffectiveVersionForAgent(r, read, tgs[r][read.stage], a)
           IN  /\ item.version \in Allowed(a, c, ros, tgs, pub)
               /\ item.rollout \in RolloutIds \cup {NoRollout}
<1> DEFINE s    == read.stage
           t    == tgs[r][s]
           item == EffectiveVersionForAgent(r, read, t, a)
<1>1. /\ r \in RolloutIds /\ ros[r] # NoRollout /\ ros[r].config = c /\ s \in StageIds
      /\ read.stable = ros[r].stable
      /\ servesCandidate(read.state) => s # Verification
  BY DEF ReadHolds
<1>2. read.stable \in Allowed(a, c, ros, tgs, pub)
  BY <1>1 DEF StablePublished, Allowed
<1>3. CASE read.state # "ROLLING_BACK" /\ servesCandidate(read.state) /\ a \in t.agents
  <2>1. item.version = t.version /\ item.rollout = r
    BY <1>3 DEF EffectiveVersionForAgent, Assigned
  <2>2. s \in StageIndexes
    BY <1>1, <1>3, StageFacts DEF StageIds, StageIndexes, Verification
  <2>3. t.version = ros[r].candidate
    BY <1>1, <1>3 DEF Fits, RowsFit, Expected
  <2>4. t.version \in Allowed(a, c, ros, tgs, pub)
    BY <1>1, <1>3, <2>2, <2>3 DEF Allowed
  <2> QED
    BY <1>1, <2>1, <2>4
<1>4. CASE ~(read.state # "ROLLING_BACK" /\ servesCandidate(read.state) /\ a \in t.agents)
  <2>1. item.version = read.stable /\ item.rollout \in {r, NoRollout}
    BY <1>4 DEF EffectiveVersionForAgent, rollbackVerificationVersionForAgent, Assigned, Plain
  <2> QED
    BY <1>1, <1>2, <2>1
<1> QED
  BY <1>3, <1>4

LEMMA PollStep ==
    ASSUME DeliveryInv, NEW a \in Agents, Poll(a)
    PROVE  DeliveryInv'
<1> DEFINE poll == [step |-> "state", left |-> Configs, items |-> [c \in {} |-> Plain(NoVersion)]]
<1>1. PollHolds(a, poll, rollouts, targets, published)
  BY DEF PollHolds, ItemsAllowed
<1>2. /\ sync' = [sync EXCEPT ![a] = poll]
      /\ UNCHANGED <<writeVars, published>> /\ UNCHANGED <<cache, inflight>>
  BY DEF Poll
<1> HIDE DEF poll
<1> QED
  BY <1>1, <1>2, AgentStep DEF DeliveryInv

LEMMA ReadStateStep ==
    ASSUME DeliveryInv, NEW a \in Agents, ReadState(a)
    PROVE  DeliveryInv'
<1> DEFINE poll == sync[a]
           c    == NextConfig(poll.left)
           read == [step |-> "rollout", left |-> poll.left, items |-> poll.items,
                    base |-> stable[c], listed |-> {r \in RolloutIds : Exists(r)}]
           new  == IF stable[c] = NoVersion THEN ItemDone(poll, poll.items) ELSE read
<1>1. poll.step = "state" /\ ItemsAllowed(a, poll.items, rollouts, targets, published)
  BY DEF ReadState, DeliveryInv, PollHolds
<1>2. PollHolds(a, new, rollouts, targets, published)
  <2>1. CASE stable[c] = NoVersion
    BY <1>1, <2>1, ItemDoneHolds
  <2>2. CASE stable[c] # NoVersion
    <3>1. c \in Configs => stable[c] \in published[c]
      BY <2>2 DEF DeliveryInv, StablePublished
    <3>2. /\ read.step = "rollout" /\ read.left = poll.left /\ read.items = poll.items
          /\ read.base = stable[c]
      OBVIOUS
    <3>3. new = read
      BY <2>2
    <3> HIDE DEF read, new
    <3> QED
      BY <1>1, <3>1, <3>2, <3>3 DEF PollHolds
  <2> QED
    BY <2>1, <2>2
<1>3. /\ sync' = [sync EXCEPT ![a] = new]
      /\ UNCHANGED <<writeVars, published>> /\ UNCHANGED <<cache, inflight>>
  BY DEF ReadState
<1> HIDE DEF new
<1> QED
  BY <1>2, <1>3, AgentStep DEF DeliveryInv

LEMMA ReadRolloutStep ==
    ASSUME DeliveryInv, NEW a \in Agents, ReadRollout(a)
    PROVE  DeliveryInv'
<1> DEFINE poll == sync[a]
           c    == NextConfig(poll.left)
           none == ItemDone(poll, WithItem(poll, Plain(poll.base)))
           read(r) == [step |-> "targets", left |-> poll.left, items |-> poll.items,
                       rollout |-> r, read |-> WhatMatters(rollouts[r]),
                       listed |-> r \in poll.listed]
<1>1. /\ poll.step = "rollout" /\ ItemsAllowed(a, poll.items, rollouts, targets, published)
      /\ c \in Configs => poll.base \in published[c]
  BY DEF ReadRollout, DeliveryInv, PollHolds
<1>2. UNCHANGED <<writeVars, published>> /\ UNCHANGED <<cache, inflight>>
  BY DEF ReadRollout
<1>3. CASE sync' = [sync EXCEPT ![a] = none]
  <2>1. Plain(poll.base).version = poll.base /\ Plain(poll.base).rollout = NoRollout
    BY DEF Plain
  <2>2. ItemsAllowed(a, WithItem(poll, Plain(poll.base)), rollouts, targets, published)
    BY <1>1, <2>1, WithItemAllowed DEF Allowed
  <2>3. PollHolds(a, none, rollouts, targets, published)
    BY <2>2, ItemDoneHolds
  <2> HIDE DEF none
  <2> QED
    BY <1>2, <1>3, <2>3, AgentStep DEF DeliveryInv
<1>4. ASSUME NEW r \in RolloutIds, Active(r), rollouts[r].config = c,
             sync' = [sync EXCEPT ![a] = read(r)]
      PROVE  DeliveryInv'
  <2> DEFINE ro  == rollouts[r]
             new == read(r)
  <2>1. ro # NoRollout /\ ro \in Rollout /\ Sound(ro, targets[r])
    BY <1>4 DEF Active, Exists, DeliveryInv, WriteInv, TypeOK, RowsFit
  <2>2. /\ WhatMatters(ro).stable = ro.stable /\ WhatMatters(ro).stage = ro.stage
        /\ WhatMatters(ro).state = ro.state
    BY DEF WhatMatters
  <2>3. ro.stage \in StageIds /\ (servesCandidate(ro.state) => ro.stage # Verification)
    BY <2>1, StageFacts DEF Sound, Rollout, servesCandidate, StageIndexes, Verification
  <2>4. ReadHolds(r, c, WhatMatters(ro), rollouts)
    BY <1>4, <2>1, <2>2, <2>3 DEF ReadHolds
  <2>5. /\ new.step = "targets" /\ new.left = poll.left /\ new.items = poll.items
        /\ new.rollout = r /\ new.read = WhatMatters(ro)
    OBVIOUS
  <2> HIDE DEF new
  <2>6. PollHolds(a, new, rollouts, targets, published)
    BY <1>1, <2>4, <2>5 DEF PollHolds
  <2>7. sync' = [sync EXCEPT ![a] = new]
    BY <1>4 DEF new
  <2> QED
    BY <1>2, <2>6, <2>7, AgentStep DEF DeliveryInv
<1> QED
  BY <1>3, <1>4 DEF ReadRollout

LEMMA ReadTargetsStep ==
    ASSUME DeliveryInv, NEW a \in Agents, ReadTargets(a)
    PROVE  DeliveryInv'
<1> DEFINE poll == sync[a]
           r    == poll.rollout
           c    == NextConfig(poll.left)
           item == EffectiveVersionForAgent(r, poll.read, targets[r][poll.read.stage], a)
<1>1. /\ poll.step = "targets" /\ ItemsAllowed(a, poll.items, rollouts, targets, published)
      /\ ReadHolds(r, c, poll.read, rollouts)
  BY DEF ReadTargets, DeliveryInv, PollHolds
<1>2. /\ Fits(rollouts, targets, stable) /\ StablePublished(rollouts, stable, published)
  BY InvFits DEF DeliveryInv
<1>3. /\ item.version \in Allowed(a, c, rollouts, targets, published)
      /\ item.rollout \in RolloutIds \cup {NoRollout}
  BY <1>1, <1>2, EffectiveAllowed
<1> HIDE DEF item
<1>4. ItemsAllowed(a, WithItem(poll, item), rollouts, targets, published)
  BY <1>1, <1>3, WithItemAllowed
<1>5. PICK items \in {WithItem(poll, item), poll.items} :
         sync' = [sync EXCEPT ![a] = ItemDone(poll, items)]
  BY DEF ReadTargets, item
<1>6. PollHolds(a, ItemDone(poll, items), rollouts, targets, published)
  BY <1>1, <1>4, ItemDoneHolds
<1>7. UNCHANGED <<writeVars, published>> /\ UNCHANGED <<cache, inflight>>
  BY DEF ReadTargets
<1> QED
  BY <1>5, <1>6, <1>7, AgentStep DEF DeliveryInv

LEMMA InstallStep ==
    ASSUME DeliveryInv, NEW a \in Agents, Install(a)
    PROVE  DeliveryInv'
<1> DEFINE items == sync[a].items
           new   == [c \in Configs |-> IF c \in DOMAIN items THEN items[c].version ELSE NoVersion]
           poll  == Acknowledging(items, AssignedConfigs(items))
<1>1. sync[a].step = "install" /\ ItemsAllowed(a, items, rollouts, targets, published)
  BY DEF Install, DeliveryInv, PollHolds
<1>2. PollHolds(a, poll, rollouts, targets, published)
  BY <1>1, AcknowledgingHolds
<1>3. /\ sync' = [sync EXCEPT ![a] = poll] /\ cache' = [cache EXCEPT ![a] = new]
      /\ UNCHANGED <<writeVars, published>> /\ UNCHANGED inflight
  BY DEF Install
<1>4. /\ new = [c \in Configs |-> new[c]]
      /\ \A c \in Configs : new[c] \in Allowed(a, c, rollouts, targets, published)
  BY <1>1 DEF ItemsAllowed, Allowed
<1> HIDE DEF new, poll, items
<1>5. CacheAllowed(cache', rollouts, targets, published)
  <2>1. \A b \in Agents : cache'[b] = IF b = a THEN new ELSE cache[b]
    BY <1>3 DEF DeliveryInv, CacheAllowed
  <2>2. \A b \in Agents : cache'[b] = [c \in Configs |-> cache'[b][c]]
    BY <1>4, <2>1 DEF DeliveryInv, CacheAllowed
  <2>3. cache' = [b \in Agents |-> [c \in Configs |-> cache'[b][c]]]
    BY <1>3, <2>2 DEF DeliveryInv, CacheAllowed
  <2> QED
    BY <1>4, <2>1, <2>3 DEF DeliveryInv, CacheAllowed
<1> QED
  BY <1>2, <1>3, <1>5, AgentStep DEF DeliveryInv

\* An agent acknowledges only what takes part in a rollout.
LEMMA AckMessageNames ==
    ASSUME DeliveryInv, NEW a \in Agents, sync[a].step \in {"ack", "waiting"}
    PROVE  AckMessage(a).rollout \in RolloutIds /\ AckMessage(a).ack.agent \in Agents
<1> DEFINE items == sync[a].items
           left  == sync[a].left
           c     == NextConfig(left)
<1>1. /\ left # {} /\ left \subseteq AssignedConfigs(items)
      /\ ItemsAllowed(a, items, rollouts, targets, published)
  BY DEF DeliveryInv, PollHolds
<1>2. c \in left
  BY <1>1 DEF NextConfig
<1>3. c \in DOMAIN items /\ items[c].rollout # NoRollout
  BY <1>1, <1>2 DEF AssignedConfigs
<1>4. items[c].rollout \in RolloutIds
  BY <1>1, <1>3 DEF ItemsAllowed
<1> QED
  BY <1>4 DEF AckMessage

LEMMA SendAckStep ==
    ASSUME DeliveryInv, NEW a \in Agents, SendAck(a)
    PROVE  DeliveryInv'
<1> DEFINE old == sync[a]
           new == [old EXCEPT !.step = "waiting"]
<1>1. /\ old.step = "ack" /\ PollHolds(a, old, rollouts, targets, published)
      /\ old = [step |-> old.step, items |-> old.items, left |-> old.left]
  BY DEF SendAck, DeliveryInv, PollHolds
<1>2. /\ sync' = [sync EXCEPT ![a] = new]
      /\ inflight' = inflight \cup {AckMessage(a)}
      /\ UNCHANGED <<writeVars, published>> /\ UNCHANGED cache
  BY DEF SendAck, DeliveryInv
<1>3. /\ new = [step |-> "waiting", items |-> old.items, left |-> old.left]
      /\ new.step = "waiting" /\ new.items = old.items /\ new.left = old.left
  BY <1>1
<1> HIDE DEF new, old
<1>4. PollHolds(a, new, rollouts, targets, published)
  BY <1>1, <1>3 DEF PollHolds
<1>5. \A m \in inflight' : m.rollout \in RolloutIds /\ m.ack.agent \in Agents
  BY <1>1, <1>2, AckMessageNames DEF DeliveryInv, old
<1> QED
  BY <1>2, <1>4, <1>5, AgentStep DEF DeliveryInv

LEMMA AnsweredStep ==
    ASSUME DeliveryInv, NEW a \in Agents, Answered(a)
    PROVE  DeliveryInv'
<1> DEFINE old == sync[a]
           new == Acknowledging(old.items, old.left \ {NextConfig(old.left)})
<1>1. /\ old.left \ {NextConfig(old.left)} \subseteq AssignedConfigs(old.items)
      /\ ItemsAllowed(a, old.items, rollouts, targets, published)
  BY DEF Answered, DeliveryInv, PollHolds
<1>2. PollHolds(a, new, rollouts, targets, published)
  BY <1>1, AcknowledgingHolds
<1>3. /\ sync' = [sync EXCEPT ![a] = new]
      /\ UNCHANGED <<writeVars, published>> /\ UNCHANGED <<cache, inflight>>
  BY DEF Answered
<1> HIDE DEF new
<1> QED
  BY <1>2, <1>3, AgentStep DEF DeliveryInv

LEMMA IdleHolds ==
    ASSUME NEW a, NEW ros, NEW tgs, NEW pub
    PROVE  PollHolds(a, Idle, ros, tgs, pub)
BY DEF PollHolds, Idle

\* A poll that ends early, given up or with a snapshot that was not installed.
LEMMA GivesUpStep ==
    ASSUME DeliveryInv, NEW a \in Agents, GivesUp(a) \/ InstallFails(a)
    PROVE  DeliveryInv'
<1>1. /\ sync' = [sync EXCEPT ![a] = Idle]
      /\ UNCHANGED <<writeVars, published>> /\ UNCHANGED <<cache, inflight>>
  BY DEF GivesUp, InstallFails
<1>2. PollHolds(a, Idle, rollouts, targets, published)
  BY IdleHolds
<1> QED
  BY <1>1, <1>2, AgentStep DEF DeliveryInv

LEMMA FailedStep ==
    ASSUME DeliveryInv, NEW m \in inflight, Failed(m)
    PROVE  DeliveryInv'
<1>1. /\ inflight' \subseteq inflight /\ UNCHANGED <<writeVars, published>> /\ UNCHANGED cache
      /\ sync' = [a \in Agents |-> IF m \in Awaited(a) THEN Idle ELSE sync[a]]
  BY DEF Failed
<1>2. WriteInv' /\ UNCHANGED <<rollouts, targets, stable, published>>
  BY <1>1, StutterKept DEF DeliveryInv, Kept, writeVars, vars
<1>3. \A a \in Agents : PollHolds(a, sync'[a], rollouts, targets, published)
  BY <1>1, IdleHolds DEF DeliveryInv
<1>4. sync' = [a \in Agents |-> sync'[a]]
  BY <1>1
<1> QED
  BY <1>1, <1>2, <1>3, <1>4 DEF DeliveryInv

-----------------------------------------------------------------------------
(* The steps of the control plane *)

LEMMA DeliverStep ==
    ASSUME OneReplica, DeliveryInv, NEW p \in Replicas, NEW m \in inflight, Deliver(p, m)
    PROVE  DeliveryInv'
<1>1. /\ StartAcknowledge(p, m.rollout, m.ack) /\ inflight' \subseteq inflight
      /\ UNCHANGED <<cache, sync>> /\ UNCHANGED published
  BY DEF Deliver
<1>2. m.rollout \in RolloutIds /\ m.ack.agent \in Agents /\ WriteInv
  BY DEF DeliveryInv
<1>3. Kept
  BY <1>1, <1>2, AcknowledgeKept
<1>4. stable' = stable
  BY <1>1 DEF StartAcknowledge, Start, vars
<1>5. /\ Grows(published, published')
      /\ \A c \in Configs : stable'[c] \in published'[c] \cup {NoVersion}
  BY <1>1, <1>4 DEF Grows, DeliveryInv, StablePublished
<1> QED
  BY <1>1, <1>3, <1>5, ControlPlaneStep

LEMMA EngineKept ==
    ASSUME OneReplica, WriteInv, Engine
    PROVE  Kept
<1>1. FreshId \in RolloutIds
  BY IdAssumption DEF FreshId
<1>2. ASSUME NEW p \in Replicas, NEW c \in Configs, NEW v \in Versions,
             NEW services \in ServiceChoices, NEW rules \in GuardrailChoices,
             StartCreateRollout(p, FreshId, c, v, services, rules)
      PROVE  Kept
  BY <1>1, <1>2, CreateKept
<1>3. ASSUME NEW p \in Replicas, NEW r \in RolloutIds, StartReconcile(p, r)
      PROVE  Kept
  BY <1>3, ReconcileKept
<1>4. ASSUME NEW p \in Replicas, Write(p)
      PROVE  Kept
  BY <1>4, WriteKept
<1>5. ASSUME NEW c \in Configs, NEW v \in OperatorVersions, OperatorSetsStable(c, v)
      PROVE  Kept
  BY <1>5, OperatorAssumption, OperatorKept
<1>6. ASSUME NEW a \in Agents, Starts(a)
      PROVE  Kept
  BY <1>6, RegisterKept DEF Starts
<1> QED
  BY <1>2, <1>3, <1>4, <1>5, <1>6 DEF Engine

LEMMA EngineStep ==
    ASSUME OneReplica, DeliveryInv, Engine
    PROVE  DeliveryInv'
<1>1. Kept
  BY EngineKept DEF DeliveryInv
<1>2. /\ published' = [c \in Configs |-> published[c] \cup ({stable'[c]} \ {NoVersion})]
      /\ UNCHANGED <<cache, sync, inflight>>
  BY DEF Engine, delivery
<1>3. /\ Grows(published, published')
      /\ \A c \in Configs : stable'[c] \in published'[c] \cup {NoVersion}
  BY <1>2 DEF Grows
<1> QED
  BY <1>1, <1>2, <1>3, ControlPlaneStep

LEMMA DeliveryStep ==
    ASSUME OneReplica, DeliveryInv, [DeliveryNext]_deliveryVars
    PROVE  DeliveryInv'
<1>1. ASSUME NEW a \in Agents, SyncOnce(a)
      PROVE  DeliveryInv'
  BY <1>1, PollStep, ReadStateStep, ReadRolloutStep, ReadTargetsStep, InstallStep, SendAckStep,
     AnsweredStep
  DEF SyncOnce
<1>2. ASSUME NEW m \in inflight, Refused(m) \/ \E p \in Replicas : Deliver(p, m) \/ Lost(p, m)
      PROVE  DeliveryInv'
  BY <1>2, FailedStep, DeliverStep DEF Refused, Lost
<1>3. CASE UNCHANGED deliveryVars \/ \E a \in Agents : CredentialExpires(a)
  <2>1. WriteInv' /\ UNCHANGED <<rollouts, targets, stable, published, cache, sync, inflight>>
    BY <1>3, StutterKept DEF CredentialExpires, deliveryVars, delivery, DeliveryInv, Kept, writeVars, vars
  <2> QED
    BY <2>1 DEF DeliveryInv
<1> QED
  BY <1>1, <1>2, <1>3, EngineStep, GivesUpStep DEF DeliveryNext

LEMMA DeliveryInitHolds ==
    ASSUME DeliveryInit
    PROVE  DeliveryInv
<1>1. WriteInv
  BY InitFits DEF DeliveryInit
<1>2. StablePublished(rollouts, stable, published)
  BY DEF DeliveryInit, WriteInit, Init, StablePublished
<1>3. CacheAllowed(cache, rollouts, targets, published)
  BY DEF DeliveryInit, CacheAllowed, Allowed
<1>4. /\ sync = [a \in Agents |-> sync[a]]
      /\ \A a \in Agents : PollHolds(a, sync[a], rollouts, targets, published)
  BY IdleHolds DEF DeliveryInit
<1> QED
  BY <1>1, <1>2, <1>3, <1>4 DEF DeliveryInit, DeliveryInv

\* A snapshot is built from reads that are not one transaction (snapshotItem reads
\* the environment state, ActiveRollout the rollout and then its targets): whatever
\* the engine writes in between, an agent is given the candidate of a rollout only
\* if that rollout has the agent in a cohort, and otherwise what was once stable.
THEOREM CandidateStaysInCohort ==
    ASSUME OneReplica
    PROVE  DeliverySpec => []CandidateOnlyInCohort
<1>1. DeliveryInit => DeliveryInv
  BY DeliveryInitHolds
<1>2. DeliveryInv /\ [DeliveryNext]_deliveryVars => DeliveryInv'
  BY DeliveryStep
<1>3. DeliveryInv => CandidateOnlyInCohort
  BY DEF DeliveryInv, CacheAllowed, Allowed, CandidateOnlyInCohort, Exists
<1> QED
  BY <1>1, <1>2, <1>3, PTL DEF DeliverySpec

\* A config has at most one unfinished rollout while its handlers are under way, so
\* that the rollout a poll reads (GetActiveRollout) is the only one it could read.
THEOREM OneActiveForPolls ==
    ASSUME OneReplica
    PROVE  DeliverySpec => []OneActiveRollout
<1>1. DeliveryInit => DeliveryInv
  BY DeliveryInitHolds
<1>2. DeliveryInv /\ [DeliveryNext]_deliveryVars => DeliveryInv'
  BY DeliveryStep
<1>3. DeliveryInv => OneActiveRollout
  BY OneActiveInWrites DEF DeliveryInv
<1> QED
  BY <1>1, <1>2, <1>3, PTL DEF DeliverySpec

-----------------------------------------------------------------------------
(* What a counted acknowledgement means *)

\* A stage that the rollout is in or has been in.
Reached(ro, s) == s <= ro.index \/ (s = Verification /\ ro.stage = Verification)

\* A rollout that is read in this state gives the rows of stage s to their agents.
Serving(state, s) ==
    \/ servesCandidate(state)
    \/ state = "ROLLING_BACK" /\ s = Verification

\* Stage s of rollout r, under way.
Current(ros, r, s) ==
    /\ ros[r] # NoRollout
    /\ ~Terminal(ros[r].state)
    /\ ros[r].stage = s
    /\ servesCandidate(ros[r].state) \/ s = Verification

\* The agent has a row in a stage that was reached.
Given(a, r, s, ros, tgs) ==
    /\ r \in RolloutIds /\ s \in StageIds
    /\ ros[r] # NoRollout
    /\ Reached(ros[r], s)
    /\ a \in tgs[r][s].agents

\* An item with an assignment is what the assigned stage expects.
ItemGiven(a, c, item, ros, tgs) ==
    item.rollout # NoRollout =>
        /\ Given(a, item.rollout, item.stage, ros, tgs)
        /\ ros[item.rollout].config = c
        /\ item.version = Expected(ros[item.rollout], item.stage)

ItemsGiven(a, items, ros, tgs) ==
    \A c \in DOMAIN items : ItemGiven(a, c, items[c], ros, tgs)

PollGiven(a, poll, ros, tgs) ==
    /\ poll.step # "idle" => ItemsGiven(a, poll.items, ros, tgs)
    /\ poll.step = "targets" => Reached(ros[poll.rollout], poll.read.stage)

Has(items, c, v) == c \in DOMAIN items /\ items[c].version = v

\* A poll under way, if any, will install version v for config c, which stage s of
\* rollout r asks for.
Settled(poll, r, s, c, v) ==
    /\ poll.step \in {"state", "rollout", "targets"} /\ c \notin poll.left =>
          Has(poll.items, c, v)
    /\ poll.step = "rollout" /\ c = NextConfig(poll.left) => r \in poll.listed
    /\ poll.step = "targets" /\ c = NextConfig(poll.left) =>
          poll.rollout = r /\ poll.listed /\ poll.read.stage = s /\ Serving(poll.read.state, s)
    /\ poll.step = "install" => Has(poll.items, c, v)

\* The acknowledgements that a handler is about to count.
Counted(ws) ==
    IF ws # <<>> /\ Head(ws).op = "replace"
    THEN {<<a, Head(ws).r, Head(ws).s>> : a \in Head(ws).t.acked} ELSE {}

Tallied(a, r, s, tgs, pend) ==
    \/ a \in tgs[r][s].acked
    \/ \E q \in Replicas : <<a, r, s>> \in Counted(pend[q])

Sent(a, r, s, msgs) ==
    \E m \in msgs : m.rollout = r /\ m.ack.agent = a /\ m.ack.stage = s

Sending(poll, r, s) ==
    /\ poll.step \in {"ack", "waiting"}
    /\ \E c \in AssignedConfigs(poll.items) :
          poll.items[c].rollout = r /\ poll.items[c].stage = s

\* That agent a runs what stage s of rollout r expects was counted, or is said by
\* an acknowledgement that may still be counted.
Claimed(a, r, s, tgs, pend, msgs, poll) ==
    Tallied(a, r, s, tgs, pend) \/ Sent(a, r, s, msgs) \/ Sending(poll, r, s)

\* And it is true, as long as the stage is under way.
Justified(a, r, s, ros, tgs, installed, poll) ==
    /\ Given(a, r, s, ros, tgs)
    /\ Current(ros, r, s) =>
          LET c == ros[r].config
              v == Expected(ros[r], s)
          IN  installed[a][c] = v /\ Settled(poll, r, s, c, v)

CountInv ==
    /\ DeliveryInv
    /\ \A a \in Agents : PollGiven(a, sync[a], rollouts, targets)
    /\ \A a \in Agents, r \in RolloutIds, s \in StageIds :
          Claimed(a, r, s, targets, pending, inflight, sync[a]) =>
              Justified(a, r, s, rollouts, targets, cache, sync[a])

-----------------------------------------------------------------------------
(* What was claimed stays justified *)

LEMMA GivenKept ==
    ASSUME NEW ros, NEW tgs, NEW st, NEW ros2, NEW tgs2, Keeps(ros, tgs, st, ros2, tgs2),
           NEW a, NEW r, NEW s, Given(a, r, s, ros, tgs)
    PROVE  /\ Given(a, r, s, ros2, tgs2)
           /\ ros2[r].config = ros[r].config
           /\ Expected(ros2[r], s) = Expected(ros[r], s)
BY DEF Given, Keeps, Follows, Reached, SameTerms, Expected

\* A stage that a rollout has left does not come back.
LEMMA CurrentBefore ==
    ASSUME NEW ros, NEW tgs, NEW st, NEW ros2, NEW tgs2, NEW st2,
           Fits(ros, tgs, st), Fits(ros2, tgs2, st2), Keeps(ros, tgs, st, ros2, tgs2),
           NEW a, NEW r, NEW s, Given(a, r, s, ros, tgs), Current(ros2, r, s)
    PROVE  Current(ros, r, s)
<1> DEFINE old == ros[r]
           new == ros2[r]
<1>1. /\ r \in RolloutIds /\ s \in StageIds /\ old # NoRollout /\ new # NoRollout
      /\ Reached(old, s) /\ Follows(new, old)
  BY DEF Given, Keeps
<1>2. /\ old \in Rollout /\ new \in Rollout /\ Sound(old, tgs[r]) /\ Sound(new, tgs2[r])
  BY <1>1 DEF Fits, RolloutStore, RowsFit
<1>3. /\ ~Terminal(new.state) /\ new.stage = s
      /\ servesCandidate(new.state) \/ s = Verification
  BY DEF Current
<1>4. /\ old.index \in StageIndexes /\ new.index \in StageIndexes
      /\ old.stage \in StageIds /\ new.stage \in StageIds
  BY <1>2 DEF Rollout
<1> HIDE DEF old, new
<1>5. ~Terminal(old.state)
  BY <1>1, <1>3 DEF Follows
<1>6. CASE s = Verification
  <2>1. old.stage = Verification
    BY <1>1, <1>4, <1>6, StageFacts DEF Reached, StageIndexes, Verification
  <2> QED
    BY <1>1, <1>5, <1>6, <2>1 DEF Current, old
<1>7. CASE s # Verification
  <2>1. s <= old.index /\ s = new.index
    BY <1>1, <1>2, <1>3, <1>7 DEF Reached, Sound
  <2>2. old.index <= new.index
    <3>1. old.index \in StageIds /\ old.index <= old.index
      BY <1>4, StageFacts DEF StageIndexes
    <3> QED
      BY <1>1, <3>1 DEF Follows
  <2>3. old.index = s
    BY <1>4, <2>1, <2>2 DEF StageIndexes
  <2>4. old.stage = s
    BY <1>1, <1>2, <1>3, <1>7, <2>3 DEF Follows, Sound
  <2>5. servesCandidate(old.state)
    BY <1>1, <1>2, <1>3, <1>5, <1>7 DEF Follows, Sound, servesCandidate, Terminal
  <2> QED
    BY <1>1, <1>5, <2>4, <2>5 DEF Current, old
<1> QED
  BY <1>6, <1>7

LEMMA JustifiedKept ==
    ASSUME NEW ros, NEW tgs, NEW st, NEW ros2, NEW tgs2, NEW st2,
           Fits(ros, tgs, st), Fits(ros2, tgs2, st2), Keeps(ros, tgs, st, ros2, tgs2),
           NEW a, NEW r, NEW s, NEW installed, NEW poll,
           Justified(a, r, s, ros, tgs, installed, poll)
    PROVE  Justified(a, r, s, ros2, tgs2, installed, poll)
<1>1. Given(a, r, s, ros, tgs)
  BY DEF Justified
<1>2. /\ Given(a, r, s, ros2, tgs2) /\ ros2[r].config = ros[r].config
      /\ Expected(ros2[r], s) = Expected(ros[r], s)
  BY <1>1, GivenKept
<1>3. Current(ros2, r, s) => Current(ros, r, s)
  BY <1>1, CurrentBefore
<1> QED
  BY <1>2, <1>3 DEF Justified

LEMMA PollGivenKept ==
    ASSUME NEW ros, NEW tgs, NEW st, NEW ros2, NEW tgs2, Keeps(ros, tgs, st, ros2, tgs2),
           NEW a, NEW poll, NEW pub, PollHolds(a, poll, ros, tgs, pub),
           PollGiven(a, poll, ros, tgs)
    PROVE  PollGiven(a, poll, ros2, tgs2)
<1>1. \A c, item : ItemGiven(a, c, item, ros, tgs) => ItemGiven(a, c, item, ros2, tgs2)
  BY GivenKept DEF ItemGiven
<1>2. poll.step = "targets" => Reached(ros2[poll.rollout], poll.read.stage)
  BY DEF PollHolds, ReadHolds, PollGiven, Reached, Keeps, Follows
<1> QED
  BY <1>1, <1>2 DEF PollGiven, ItemsGiven

\* A step of the control plane after which no more is claimed than before.
LEMMA CountKept ==
    ASSUME CountInv, DeliveryInv', Kept, UNCHANGED <<cache, sync>>,
           \A a \in Agents, r \in RolloutIds, s \in StageIds :
              Claimed(a, r, s, targets', pending', inflight', sync[a]) =>
                 Claimed(a, r, s, targets, pending, inflight, sync[a])
    PROVE  CountInv'
<1>1. Keeps(rollouts, targets, stable, rollouts', targets') /\ WriteInv /\ WriteInv'
  BY DEF Kept, CountInv, DeliveryInv
<1>2. Fits(rollouts, targets, stable) /\ Fits(rollouts', targets', stable')
  <2>1. Fits(rollouts, targets, stable)
    BY <1>1, InvFits
  <2>2. Fits(rollouts', targets', stable')
    BY <1>1 DEF WriteInv, TypeOK, Fits, RolloutStore, TargetStore, StableStore
  <2> QED
    BY <2>1, <2>2
<1>3. \A a \in Agents : PollGiven(a, sync[a], rollouts', targets')
  BY <1>1, PollGivenKept DEF CountInv, DeliveryInv
<1>4. ASSUME NEW a \in Agents, NEW r \in RolloutIds, NEW s \in StageIds,
             Claimed(a, r, s, targets', pending', inflight', sync[a])
      PROVE  Justified(a, r, s, rollouts', targets', cache, sync[a])
  <2>1. Justified(a, r, s, rollouts, targets, cache, sync[a])
    BY <1>4 DEF CountInv
  <2> QED
    BY <1>1, <1>2, <2>1, JustifiedKept
<1> QED
  BY <1>3, <1>4 DEF CountInv

-----------------------------------------------------------------------------
(* What the control plane counts *)

LEMMA RunningCountsNothing ==
    ASSUME NEW ros, NEW tgs, NEW st, NEW ws, Running(ws, ros, tgs, st)
    PROVE  Counted(ws) = {}
<1>1. PICK r \in RolloutIds, m \in Nat : RunningAs(ws, ros, tgs, st, r, m)
  BY DEF Running
<1> DEFINE S == Script(tgs, r, ros[r], m)
<1>2. ws \in Seq(S)
  BY <1>1 DEF RunningAs
<1>3. \A w \in S : w.op # "replace"
  BY DEF Script
<1> HIDE DEF S
<1>4. ws # <<>> => Head(ws).op # "replace"
  BY <1>2, <1>3, FirstStatement
<1> QED
  BY <1>4 DEF Counted

LEMMA StartTallies ==
    ASSUME OneReplica, WriteInv, NEW p \in Replicas, NEW ws, Start(p, ws)
    PROVE  targets' = targets /\ \A q \in Replicas : pending'[q] = ws
BY DEF OneReplica, WriteInv, Start, vars

LEMMA ReconcileTallies ==
    ASSUME OneReplica, WriteInv, NEW p \in Replicas, NEW r \in RolloutIds, StartReconcile(p, r),
           NEW a, NEW q, NEW s, Tallied(a, q, s, targets', pending')
    PROVE  Tallied(a, q, s, targets, pending)
<1>1. PICK ws : Start(p, ws) /\ Running(ws, rollouts, targets, stable)
  BY ReconcileStarts
<1>2. /\ targets' = targets /\ \A u \in Replicas : pending'[u] = ws
      /\ Counted(ws) = {}
  BY <1>1, StartTallies, RunningCountsNothing
<1> QED
  BY <1>2 DEF Tallied

LEMMA CreateTallies ==
    ASSUME OneReplica, WriteInv, NEW p \in Replicas, NEW r, NEW c, NEW v, NEW services, NEW rules,
           StartCreateRollout(p, r, c, v, services, rules),
           NEW a, NEW q, NEW s, Tallied(a, q, s, targets', pending')
    PROVE  Tallied(a, q, s, targets, pending)
<1> DEFINE ro   == NewRollout(c, v, services, rules)
           save == SaveStageTargets(r, 1, ro, BuildStageTargets(ro, 1, 0))
           ws   == <<insertRollout(r, ro)>> \o save
<1>1. Start(p, ws)
  BY DEF StartCreateRollout
<1>2. Head(ws) = insertRollout(r, ro)
  BY DEF SaveStageTargets
<1>3. Counted(ws) = {}
  <2> HIDE DEF ws
  <2> QED
    BY <1>2 DEF Counted, insertRollout
<1> HIDE DEF ws
<1>4. targets' = targets /\ \A u \in Replicas : pending'[u] = ws
  BY <1>1, StartTallies
<1> QED
  BY <1>3, <1>4 DEF Tallied

\* Counting is the first thing a handler writes.
LEMMA WriteTallies ==
    ASSUME OneReplica, WriteInv, NEW p \in Replicas, Write(p),
           NEW a, NEW q \in RolloutIds, NEW s \in StageIds,
           Tallied(a, q, s, targets', pending')
    PROVE  Tallied(a, q, s, targets, pending)
<1> DEFINE ws   == pending[p]
           w    == Head(ws)
           rest == Rest(ws, nextRevision)
<1>1. /\ pending = [u \in Replicas |-> pending[u]] /\ targets \in TargetStore /\ ws # <<>>
  BY WriteCases DEF WriteInv, TypeOK, TargetStore
<1>2. CASE /\ pending' = [pending EXCEPT ![p] = <<>>]
           /\ UNCHANGED <<rollouts, targets, stable, nextRevision>>
  <2>1. \A u \in Replicas : pending'[u] = <<>>
    BY <1>1, <1>2 DEF OneReplica
  <2> QED
    BY <1>2, <2>1 DEF Tallied, Counted
<1>3. CASE /\ Issued(ws, rest, rollouts, targets, stable)
           /\ targets' = TargetsAfter(w, targets)
           /\ pending' = [pending EXCEPT ![p] = rest]
  <2>1. Counted(rest) = {}
    BY <1>3, RunningCountsNothing DEF Issued
  <2> HIDE DEF rest
  <2>2. \A u \in Replicas : pending'[u] = rest
    BY <1>1, <1>3 DEF OneReplica
  <2>3. a \in targets'[q][s].acked
    BY <2>1, <2>2 DEF Tallied
  <2>4. CASE w.op = "replace"
    <3>1. targets' = [targets EXCEPT ![w.r][w.s] = w.t]
      BY <1>3, <2>4 DEF TargetsAfter
    <3>2. targets'[q][s] = IF q = w.r /\ s = w.s THEN w.t ELSE targets[q][s]
      BY <1>1, <3>1 DEF TargetStore
    <3>3. a \in targets[q][s].acked \/ (q = w.r /\ s = w.s /\ a \in w.t.acked)
      BY <2>3, <3>2
    <3> QED
      BY <1>1, <2>4, <3>3 DEF Tallied, Counted
  <2>5. CASE w.op = "target"
    <3> DEFINE row == [agents   |-> targets[w.r][w.s].agents \cup {w.a},
                       acked    |-> targets[w.r][w.s].acked \ {w.a},
                       version  |-> w.t.version,
                       revision |-> w.t.revision]
    <3>1. targets' = [targets EXCEPT ![w.r][w.s] = row]
      BY <1>3, <2>5 DEF TargetsAfter
    <3>2. row.acked \subseteq targets[w.r][w.s].acked
      OBVIOUS
    <3> HIDE DEF row
    <3>3. targets'[q][s] = IF q = w.r /\ s = w.s THEN row ELSE targets[q][s]
      BY <1>1, <3>1 DEF TargetStore
    <3> QED
      BY <2>3, <3>2, <3>3 DEF Tallied
  <2>6. CASE w.op \notin {"replace", "target"}
    <3>1. targets' = targets
      BY <1>3, <2>6 DEF TargetsAfter
    <3> QED
      BY <2>3, <3>1 DEF Tallied
  <2> QED
    BY <2>4, <2>5, <2>6
<1> QED
  BY <1>2, <1>3, WriteCases

\* Of the acknowledgements only the one that is handled is counted.
LEMMA DeliverTallies ==
    ASSUME OneReplica, DeliveryInv, NEW p \in Replicas, NEW m \in inflight, Deliver(p, m),
           NEW a, NEW q, NEW s, Tallied(a, q, s, targets', pending')
    PROVE  Tallied(a, q, s, targets, pending) \/ Sent(a, q, s, inflight)
<1> DEFINE r   == m.rollout
           ack == m.ack
           st  == rollouts[r].stage
           t   == ApplyAck(r, ack)[r][st]
<1>1. r \in RolloutIds /\ ack.agent \in Agents /\ WriteInv /\ StartAcknowledge(p, r, ack)
  BY DEF Deliver, DeliveryInv
<1>2. PICK ws \in Seq(Statements) :
         IF Counts(r, ack)
         THEN /\ Start(p, <<replaceTargets(r, st, t)>> \o ws)
              /\ t.acked = targets[r][st].acked \cup {ack.agent}
         ELSE Start(p, ws) /\ Running(ws, rollouts, targets, stable)
  BY <1>1, AcknowledgeStarts
<1> HIDE DEF t
<1>3. CASE ~Counts(r, ack)
  <2>1. /\ targets' = targets /\ \A u \in Replicas : pending'[u] = ws
        /\ Counted(ws) = {}
    BY <1>1, <1>2, <1>3, StartTallies, RunningCountsNothing
  <2> QED
    BY <2>1 DEF Tallied
<1>4. CASE Counts(r, ack)
  <2> DEFINE all == <<replaceTargets(r, st, t)>> \o ws
  <2>1. Head(all) = replaceTargets(r, st, t) /\ all # <<>>
    OBVIOUS
  <2>2. Start(p, all)
    BY <1>2, <1>4
  <2> HIDE DEF all
  <2>3. /\ targets' = targets /\ \A u \in Replicas : pending'[u] = all
    BY <1>1, <2>2, StartTallies
  <2>4. Counted(all) = {<<b, r, st>> : b \in t.acked}
    BY <2>1 DEF Counted, replaceTargets
  <2>5. a \in targets[q][s].acked \/ (q = r /\ s = st /\ a \in t.acked)
    BY <2>3, <2>4 DEF Tallied
  <2>6. CASE a \in targets[q][s].acked
    BY <2>6 DEF Tallied
  <2>7. CASE q = r /\ s = st /\ a = ack.agent
    <3>1. ack.stage = st
      BY <1>4 DEF Counts
    <3> QED
      BY <2>7, <3>1 DEF Sent
  <2> QED
    BY <1>2, <1>4, <2>5, <2>6, <2>7
<1> QED
  BY <1>3, <1>4

LEMMA DeliverCount ==
    ASSUME OneReplica, CountInv, NEW p \in Replicas, NEW m \in inflight, Deliver(p, m)
    PROVE  CountInv'
<1>1. DeliveryInv /\ DeliveryInv'
  BY DeliverStep DEF CountInv
<1>2. m.rollout \in RolloutIds /\ m.ack.agent \in Agents /\ WriteInv
  BY <1>1 DEF DeliveryInv
<1>3. Kept
  BY <1>2, AcknowledgeKept DEF Deliver
<1>4. UNCHANGED <<cache, sync>> /\ inflight' \subseteq inflight
  BY DEF Deliver
<1>5. \A a \in Agents, r \in RolloutIds, s \in StageIds :
         Claimed(a, r, s, targets', pending', inflight', sync[a]) =>
            Claimed(a, r, s, targets, pending, inflight, sync[a])
  BY <1>1, <1>4, DeliverTallies DEF Claimed, Sent
<1> QED
  BY <1>1, <1>3, <1>4, <1>5, CountKept

LEMMA EngineCount ==
    ASSUME OneReplica, CountInv, Engine
    PROVE  CountInv'
<1>1. DeliveryInv /\ DeliveryInv' /\ WriteInv
  BY EngineStep DEF CountInv, DeliveryInv
<1>2. Kept
  BY <1>1, EngineKept
<1>3. UNCHANGED <<cache, sync, inflight>>
  BY DEF Engine, delivery
<1>4. ASSUME NEW a \in Agents, NEW r \in RolloutIds, NEW s \in StageIds,
             Tallied(a, r, s, targets', pending')
      PROVE  Tallied(a, r, s, targets, pending)
  <2>1. ASSUME NEW p \in Replicas, NEW c \in Configs, NEW v \in Versions,
               NEW services \in ServiceChoices, NEW rules \in GuardrailChoices,
               StartCreateRollout(p, FreshId, c, v, services, rules)
        PROVE  Tallied(a, r, s, targets, pending)
    BY <1>1, <1>4, <2>1, CreateTallies
  <2>2. ASSUME NEW p \in Replicas, NEW q \in RolloutIds, StartReconcile(p, q)
        PROVE  Tallied(a, r, s, targets, pending)
    BY <1>1, <1>4, <2>2, ReconcileTallies
  <2>3. ASSUME NEW p \in Replicas, Write(p)
        PROVE  Tallied(a, r, s, targets, pending)
    BY <1>1, <1>4, <2>3, WriteTallies
  <2>4. ASSUME NEW c \in Configs, NEW v \in OperatorVersions, OperatorSetsStable(c, v)
        PROVE  Tallied(a, r, s, targets, pending)
    BY <1>4, <2>4 DEF OperatorSetsStable, SetStableVersion
  <2>5. ASSUME NEW b \in Agents, Starts(b)
        PROVE  Tallied(a, r, s, targets, pending)
    BY <1>4, <2>5 DEF Starts, Register
  <2> QED
    BY <2>1, <2>2, <2>3, <2>4, <2>5 DEF Engine
<1>5. \A a \in Agents, r \in RolloutIds, s \in StageIds :
         Claimed(a, r, s, targets', pending', inflight', sync[a]) =>
            Claimed(a, r, s, targets, pending, inflight, sync[a])
  BY <1>3, <1>4 DEF Claimed
<1> QED
  BY <1>1, <1>2, <1>3, <1>5, CountKept

-----------------------------------------------------------------------------
(* What an agent acknowledges *)

\* A step of agent a: the claims about it are justified afterwards.
LEMMA AgentCount ==
    ASSUME CountInv, DeliveryInv', UNCHANGED writeVars, NEW a \in Agents, NEW poll,
           sync' = [sync EXCEPT ![a] = poll],
           PollGiven(a, poll, rollouts, targets),
           \A b \in Agents : b # a => cache'[b] = cache[b],
           \A b \in Agents, r \in RolloutIds, s \in StageIds :
              b # a /\ Sent(b, r, s, inflight') => Sent(b, r, s, inflight),
           \A r \in RolloutIds, s \in StageIds :
              Claimed(a, r, s, targets, pending, inflight', poll) =>
                 Justified(a, r, s, rollouts, targets, cache', poll)
    PROVE  CountInv'
<1>1. UNCHANGED <<rollouts, targets, stable, pending>>
  BY DEF writeVars, vars
<1>2. sync'[a] = poll /\ \A b \in Agents : b # a => sync'[b] = sync[b]
  BY DEF CountInv, DeliveryInv
<1>3. \A b \in Agents : PollGiven(b, sync'[b], rollouts, targets)
  BY <1>2 DEF CountInv
<1>4. ASSUME NEW b \in Agents, NEW r \in RolloutIds, NEW s \in StageIds,
             Claimed(b, r, s, targets, pending, inflight', sync'[b])
      PROVE  Justified(b, r, s, rollouts, targets, cache', sync'[b])
  <2>1. CASE b = a
    BY <1>2, <1>4, <2>1
  <2>2. CASE b # a
    <3>1. Claimed(b, r, s, targets, pending, inflight, sync[b])
      BY <1>2, <1>4, <2>2 DEF Claimed
    <3>2. Justified(b, r, s, rollouts, targets, cache, sync[b])
      BY <3>1 DEF CountInv
    <3> QED
      BY <1>2, <2>2, <3>2 DEF Justified
  <2> QED
    BY <2>1, <2>2
<1> QED
  BY <1>1, <1>3, <1>4 DEF CountInv

\* If the poll old was going to install what it should, so is the poll new.
StaysSettled(a, old, new, ros, tgs) ==
    \A r \in RolloutIds, s \in StageIds :
        LET c == ros[r].config
            v == Expected(ros[r], s)
        IN  Given(a, r, s, ros, tgs) /\ Current(ros, r, s) /\ Settled(old, r, s, c, v)
               => Settled(new, r, s, c, v)

\* A step that neither installs nor acknowledges anything.
LEMMA ReadCount ==
    ASSUME CountInv, DeliveryInv', UNCHANGED writeVars, UNCHANGED <<cache, inflight>>,
           NEW a \in Agents, NEW poll, sync' = [sync EXCEPT ![a] = poll],
           poll.step \notin {"ack", "waiting"},
           PollGiven(a, poll, rollouts, targets),
           StaysSettled(a, sync[a], poll, rollouts, targets)
    PROVE  CountInv'
<1>1. ASSUME NEW r \in RolloutIds, NEW s \in StageIds,
             Claimed(a, r, s, targets, pending, inflight', poll)
      PROVE  Justified(a, r, s, rollouts, targets, cache', poll)
  <2>1. Claimed(a, r, s, targets, pending, inflight, sync[a])
    BY <1>1 DEF Claimed, Sending
  <2>2. Justified(a, r, s, rollouts, targets, cache, sync[a])
    BY <2>1 DEF CountInv
  <2> QED
    BY <2>2 DEF Justified, StaysSettled
<1> QED
  BY <1>1, AgentCount

LEMMA IdleCount ==
    ASSUME NEW a, NEW r, NEW s, NEW c, NEW v, NEW ros, NEW tgs
    PROVE  /\ Settled(Idle, r, s, c, v)
           /\ PollGiven(a, Idle, ros, tgs)
           /\ ~Sending(Idle, r, s)
BY DEF Idle, Settled, PollGiven, Sending

LEMMA PollCount ==
    ASSUME CountInv, NEW a \in Agents, Poll(a)
    PROVE  CountInv'
<1> DEFINE poll == [step |-> "state", left |-> Configs, items |-> [c \in {} |-> Plain(NoVersion)]]
<1>1. /\ sync' = [sync EXCEPT ![a] = poll]
      /\ UNCHANGED writeVars /\ UNCHANGED <<cache, inflight>>
  BY DEF Poll
<1>2. DeliveryInv'
  BY PollStep DEF CountInv
<1>3. /\ poll.step = "state" /\ poll.left = Configs /\ DOMAIN poll.items = {}
  OBVIOUS
<1> HIDE DEF poll
<1>4. PollGiven(a, poll, rollouts, targets)
  BY <1>3 DEF PollGiven, ItemsGiven
<1>5. \A r \in RolloutIds : rollouts[r] # NoRollout => rollouts[r].config \in Configs
  BY DEF CountInv, DeliveryInv, WriteInv, TypeOK, Rollout
<1>6. StaysSettled(a, sync[a], poll, rollouts, targets)
  BY <1>3, <1>5 DEF StaysSettled, Settled, Current
<1> QED
  BY <1>1, <1>2, <1>3, <1>4, <1>6, ReadCount

LEMMA GivesUpCount ==
    ASSUME CountInv, NEW a \in Agents, GivesUp(a) \/ InstallFails(a)
    PROVE  CountInv'
<1>1. /\ sync' = [sync EXCEPT ![a] = Idle]
      /\ UNCHANGED writeVars /\ UNCHANGED <<cache, inflight>>
  BY DEF GivesUp, InstallFails
<1>2. DeliveryInv'
  BY GivesUpStep DEF CountInv
<1>3. Idle.step \notin {"ack", "waiting"}
  BY DEF Idle
<1>4. PollGiven(a, Idle, rollouts, targets) /\ StaysSettled(a, sync[a], Idle, rollouts, targets)
  BY IdleCount DEF StaysSettled
<1> QED
  BY <1>1, <1>2, <1>3, <1>4, ReadCount

LEMMA FailedCount ==
    ASSUME CountInv, NEW m \in inflight, Failed(m)
    PROVE  CountInv'
<1>1. /\ inflight' \subseteq inflight /\ UNCHANGED writeVars /\ UNCHANGED cache
      /\ sync' = [a \in Agents |-> IF m \in Awaited(a) THEN Idle ELSE sync[a]]
  BY DEF Failed
<1>2. DeliveryInv' /\ UNCHANGED <<rollouts, targets, stable, pending>>
  BY <1>1, FailedStep DEF CountInv, writeVars, vars
<1>3. \A a \in Agents : sync'[a] \in {sync[a], Idle}
  BY <1>1
<1>4. \A a \in Agents : PollGiven(a, sync'[a], rollouts, targets)
  BY <1>3, IdleCount DEF CountInv
<1>5. ASSUME NEW a \in Agents, NEW r \in RolloutIds, NEW s \in StageIds,
             Claimed(a, r, s, targets, pending, inflight', sync'[a])
      PROVE  Justified(a, r, s, rollouts, targets, cache, sync'[a])
  <2>1. Claimed(a, r, s, targets, pending, inflight, sync[a])
    BY <1>1, <1>3, <1>5, IdleCount DEF Claimed, Sent
  <2>2. Justified(a, r, s, rollouts, targets, cache, sync[a])
    BY <2>1 DEF CountInv
  <2> QED
    BY <1>3, <2>2, IdleCount DEF Justified
<1> QED
  BY <1>1, <1>2, <1>4, <1>5 DEF CountInv

LEMMA ItemDoneCount ==
    ASSUME NEW a, NEW poll, NEW items, NEW ros, NEW tgs,
           ItemsGiven(a, items, ros, tgs)
    PROVE  /\ PollGiven(a, ItemDone(poll, items), ros, tgs)
           /\ ItemDone(poll, items).step \notin {"ack", "waiting"}
BY DEF ItemDone, PollGiven

LEMMA ItemDoneSettled ==
    ASSUME NEW poll, NEW items, NEW r, NEW s, NEW c, NEW v,
           c \notin poll.left \ {NextConfig(poll.left)} => Has(items, c, v)
    PROVE  Settled(ItemDone(poll, items), r, s, c, v)
<1> DEFINE left == poll.left \ {NextConfig(poll.left)}
<1> HIDE DEF left
<1>1. CASE left = {}
  <2>1. ItemDone(poll, items) = [step |-> "install", items |-> items]
    BY <1>1 DEF ItemDone, left
  <2> QED
    BY <1>1, <2>1 DEF Settled, left
<1>2. CASE left # {}
  <2>1. ItemDone(poll, items) = [step |-> "state", left |-> left, items |-> items]
    BY <1>2 DEF ItemDone, left
  <2> QED
    BY <2>1 DEF Settled, left
<1> QED
  BY <1>1, <1>2

LEMMA WithItemCount ==
    ASSUME NEW a, NEW poll, NEW item, NEW ros, NEW tgs,
           ItemsGiven(a, poll.items, ros, tgs),
           ItemGiven(a, NextConfig(poll.left), item, ros, tgs)
    PROVE  LET items == WithItem(poll, item)
           IN  /\ ItemsGiven(a, items, ros, tgs)
               /\ Has(items, NextConfig(poll.left), item.version)
               /\ \A c, v : c # NextConfig(poll.left) /\ Has(poll.items, c, v) => Has(items, c, v)
<1> DEFINE c     == NextConfig(poll.left)
           items == WithItem(poll, item)
<1>1. /\ DOMAIN items = DOMAIN poll.items \cup {c}
      /\ \A d \in DOMAIN items : items[d] = IF d = c THEN item ELSE poll.items[d]
  BY DEF WithItem
<1> HIDE DEF c, items
<1> QED
  BY <1>1 DEF Has, ItemsGiven, c, items

\* GetEnvironmentState: a config with a rollout has a stable version.
LEMMA ReadStateCount ==
    ASSUME CountInv, NEW a \in Agents, ReadState(a)
    PROVE  CountInv'
<1> DEFINE poll == sync[a]
           c    == NextConfig(poll.left)
           done == ItemDone(poll, poll.items)
           read == [step |-> "rollout", left |-> poll.left, items |-> poll.items,
                    base |-> stable[c], listed |-> {r \in RolloutIds : Exists(r)}]
<1>1. /\ poll.step = "state" /\ UNCHANGED writeVars /\ UNCHANGED <<cache, inflight>>
      /\ sync' = [sync EXCEPT ![a] = IF stable[c] = NoVersion THEN done ELSE read]
  BY DEF ReadState
<1>2. DeliveryInv'
  BY ReadStateStep DEF CountInv
<1>3. ItemsGiven(a, poll.items, rollouts, targets)
  BY <1>1 DEF CountInv, PollGiven
<1>4. CASE stable[c] = NoVersion
  <2>1. \A r \in RolloutIds : rollouts[r] # NoRollout => rollouts[r].config # c
    BY <1>4, NameAssumption DEF CountInv, DeliveryInv, WriteInv, Based
  <2>2. PollGiven(a, done, rollouts, targets) /\ done.step \notin {"ack", "waiting"}
    BY <1>3, ItemDoneCount
  <2>3. StaysSettled(a, poll, done, rollouts, targets)
    <3> SUFFICES ASSUME NEW r \in RolloutIds, NEW s \in StageIds, NEW v, Current(rollouts, r, s),
                        Settled(poll, r, s, rollouts[r].config, v)
                 PROVE  Settled(done, r, s, rollouts[r].config, v)
      BY DEF StaysSettled
    <3>1. rollouts[r].config \notin poll.left \ {c} => Has(poll.items, rollouts[r].config, v)
      BY <1>1, <2>1 DEF Settled, Current
    <3> QED
      BY <3>1, ItemDoneSettled
  <2>4. sync' = [sync EXCEPT ![a] = done]
    BY <1>1, <1>4
  <2> HIDE DEF done
  <2> QED
    BY <1>1, <1>2, <2>2, <2>3, <2>4, ReadCount
<1>5. CASE stable[c] # NoVersion
  <2>1. /\ read.step = "rollout" /\ read.left = poll.left /\ read.items = poll.items
        /\ read.listed = {r \in RolloutIds : Exists(r)}
    OBVIOUS
  <2>2. sync' = [sync EXCEPT ![a] = read]
    BY <1>1, <1>5
  <2> HIDE DEF read
  <2>3. PollGiven(a, read, rollouts, targets)
    BY <1>3, <2>1 DEF PollGiven
  <2>4. StaysSettled(a, poll, read, rollouts, targets)
    BY <1>1, <2>1 DEF StaysSettled, Settled, Current, Exists
  <2> QED
    BY <1>1, <1>2, <2>1, <2>2, <2>3, <2>4, ReadCount
<1> QED
  BY <1>4, <1>5

\* GetActiveRollout finds the rollout that the agent has acknowledged: its config
\* has no other one under way.
LEMMA ReadRolloutCount ==
    ASSUME CountInv, NEW a \in Agents, ReadRollout(a)
    PROVE  CountInv'
<1> DEFINE poll == sync[a]
           c    == NextConfig(poll.left)
           none == ItemDone(poll, WithItem(poll, Plain(poll.base)))
           read(r) == [step |-> "targets", left |-> poll.left, items |-> poll.items,
                       rollout |-> r, read |-> WhatMatters(rollouts[r]),
                       listed |-> r \in poll.listed]
<1>1. /\ poll.step = "rollout" /\ UNCHANGED writeVars /\ UNCHANGED <<cache, inflight>>
  BY DEF ReadRollout
<1>2. DeliveryInv'
  BY ReadRolloutStep DEF CountInv
<1>3. ItemsGiven(a, poll.items, rollouts, targets)
  BY <1>1 DEF CountInv, PollGiven
<1>4. \A r \in RolloutIds, s \in StageIds :
         Current(rollouts, r, s) =>
            /\ Active(r) /\ rollouts[r].stage = s
            /\ rollouts[r].config \in Configs
            /\ Serving(rollouts[r].state, s)
  BY StageFacts DEF CountInv, DeliveryInv, WriteInv, TypeOK, RowsFit, Sound, Current, Active,
     Exists, Terminal, Rollout, StageIndexes, Verification, servesCandidate,
     Serving
<1>5. ASSUME \A r \in RolloutIds : Active(r) => rollouts[r].config # c,
             sync' = [sync EXCEPT ![a] = none]
      PROVE  CountInv'
  <2> DEFINE items == WithItem(poll, Plain(poll.base))
  <2>1. ItemGiven(a, c, Plain(poll.base), rollouts, targets)
    BY DEF ItemGiven, Plain
  <2>2. /\ ItemsGiven(a, items, rollouts, targets)
        /\ \A d, v : d # c /\ Has(poll.items, d, v) => Has(items, d, v)
    BY <1>3, <2>1, WithItemCount
  <2> HIDE DEF items
  <2>3. PollGiven(a, none, rollouts, targets) /\ none.step \notin {"ack", "waiting"}
    BY <2>2, ItemDoneCount DEF items
  <2>4. StaysSettled(a, poll, none, rollouts, targets)
    <3> SUFFICES ASSUME NEW r \in RolloutIds, NEW s \in StageIds, NEW v, Current(rollouts, r, s),
                        Settled(poll, r, s, rollouts[r].config, v)
                 PROVE  Settled(none, r, s, rollouts[r].config, v)
      BY DEF StaysSettled
    <3>1. rollouts[r].config # c
      BY <1>4, <1>5
    <3>2. rollouts[r].config \notin poll.left \ {c} => Has(items, rollouts[r].config, v)
      BY <1>1, <2>2, <3>1 DEF Settled
    <3> QED
      BY <3>2, ItemDoneSettled DEF items
  <2> HIDE DEF none
  <2> QED
    BY <1>1, <1>2, <1>5, <2>3, <2>4, ReadCount
<1>6. ASSUME NEW q \in RolloutIds, Active(q), rollouts[q].config = c,
             sync' = [sync EXCEPT ![a] = read(q)]
      PROVE  CountInv'
  <2> DEFINE new == read(q)
             ro  == rollouts[q]
  <2>1. /\ new.step = "targets" /\ new.left = poll.left /\ new.items = poll.items
        /\ new.rollout = q /\ new.read.stage = ro.stage /\ new.read.state = ro.state
        /\ new.listed = (q \in poll.listed)
    BY DEF WhatMatters
  <2>2. sync' = [sync EXCEPT ![a] = new]
    BY <1>6
  <2> HIDE DEF new
  <2>3. Reached(ro, ro.stage)
    BY <1>6, StageFacts
    DEF CountInv, DeliveryInv, WriteInv, TypeOK, RowsFit, Sound, Active, Exists, Rollout,
        Reached, StageIndexes
  <2>4. PollGiven(a, new, rollouts, targets)
    BY <1>3, <2>1, <2>3 DEF PollGiven
  <2>5. StaysSettled(a, poll, new, rollouts, targets)
    <3> SUFFICES ASSUME NEW r \in RolloutIds, NEW s \in StageIds, NEW v, Current(rollouts, r, s),
                        Settled(poll, r, s, rollouts[r].config, v)
                 PROVE  Settled(new, r, s, rollouts[r].config, v)
      BY DEF StaysSettled
    <3>1. /\ Active(r) /\ rollouts[r].stage = s /\ rollouts[r].config \in Configs
          /\ Serving(rollouts[r].state, s)
      BY <1>4
    <3>2. rollouts[r].config = c => r = q
      BY <1>6, <3>1 DEF CountInv, DeliveryInv, WriteInv, OneRunning, Unfinished, Active, Exists
    <3> QED
      BY <1>1, <2>1, <3>1, <3>2 DEF Settled
  <2> QED
    BY <1>1, <1>2, <2>1, <2>2, <2>4, <2>5, ReadCount
<1> QED
  BY <1>5, <1>6 DEF ReadRollout

\* What the rows that were found give to the agent is what their stage expects.
LEMMA EffectiveGiven ==
    ASSUME NEW ros, NEW tgs, NEW st, Fits(ros, tgs, st), NEW a, NEW r, NEW c, NEW read,
           ReadHolds(r, c, read, ros), Reached(ros[r], read.stage)
    PROVE  ItemGiven(a, c, EffectiveVersionForAgent(r, read, tgs[r][read.stage], a), ros, tgs)
<1> DEFINE s    == read.stage
           t    == tgs[r][s]
           item == EffectiveVersionForAgent(r, read, t, a)
<1>1. /\ r \in RolloutIds /\ ros[r] # NoRollout /\ ros[r].config = c /\ s \in StageIds
      /\ read.stable = ros[r].stable
  BY DEF ReadHolds
<1>2. t.agents # {} => t.version = Expected(ros[r], s)
  BY <1>1 DEF Fits, RowsFit
<1>3. \/ item.rollout = NoRollout
      \/ item.rollout = r /\ item.stage = s /\ a \in t.agents /\ item.version = t.version
  BY DEF EffectiveVersionForAgent, rollbackVerificationVersionForAgent, Assigned, Plain
<1> HIDE DEF item
<1>4. CASE item.rollout = NoRollout
  BY <1>4 DEF ItemGiven, item
<1>5. CASE item.rollout = r /\ item.stage = s /\ a \in t.agents /\ item.version = t.version
  <2>1. item.version = Expected(ros[r], s)
    BY <1>2, <1>5
  <2> QED
    BY <1>1, <1>5, <2>1 DEF ItemGiven, Given, item
<1> QED
  BY <1>3, <1>4, <1>5

LEMMA ReadTargetsCount ==
    ASSUME CountInv, NEW a \in Agents, ReadTargets(a)
    PROVE  CountInv'
<1> DEFINE poll == sync[a]
           q    == poll.rollout
           c    == NextConfig(poll.left)
           item == EffectiveVersionForAgent(q, poll.read, targets[q][poll.read.stage], a)
           with == WithItem(poll, item)
<1>1. /\ poll.step = "targets" /\ UNCHANGED writeVars /\ UNCHANGED <<cache, inflight>>
  BY DEF ReadTargets
<1>2. DeliveryInv' /\ DeliveryInv
  BY ReadTargetsStep DEF CountInv
<1>3. /\ ItemsGiven(a, poll.items, rollouts, targets)
      /\ Reached(rollouts[q], poll.read.stage)
  BY <1>1 DEF CountInv, PollGiven
<1>4. ReadHolds(q, c, poll.read, rollouts) /\ Fits(rollouts, targets, stable)
  BY <1>1, <1>2, InvFits DEF DeliveryInv, PollHolds
<1>5. ItemGiven(a, c, item, rollouts, targets)
  BY <1>3, <1>4, EffectiveGiven
<1>6. ASSUME Given(a, q, poll.read.stage, rollouts, targets),
             Serving(poll.read.state, poll.read.stage)
      PROVE  item.version = Expected(rollouts[q], poll.read.stage)
  <2> DEFINE read == poll.read
             s    == read.stage
             t    == targets[q][s]
  <2>1. /\ q \in RolloutIds /\ s \in StageIds /\ a \in t.agents
        /\ read.stable = rollouts[q].stable
    BY <1>4, <1>6 DEF ReadHolds, Given
  <2>2. t.version = Expected(rollouts[q], s)
    BY <1>4, <2>1 DEF Fits, RowsFit
  <2>3. CASE servesCandidate(read.state)
    BY <2>1, <2>2, <2>3 DEF EffectiveVersionForAgent, servesCandidate, Assigned
  <2>4. CASE read.state = "ROLLING_BACK" /\ s = Verification
    BY <2>1, <2>4
    DEF EffectiveVersionForAgent, rollbackVerificationVersionForAgent, Assigned, Plain, Expected
  <2> QED
    BY <1>6, <2>3, <2>4 DEF Serving
<1>7. PICK items \in {with} \cup (IF poll.listed THEN {} ELSE {poll.items}) :
         sync' = [sync EXCEPT ![a] = ItemDone(poll, items)]
  BY DEF ReadTargets
<1> HIDE DEF item
<1>8. /\ ItemsGiven(a, with, rollouts, targets)
      /\ Has(with, c, item.version)
      /\ \A d, v : d # c /\ Has(poll.items, d, v) => Has(with, d, v)
  BY <1>3, <1>5, WithItemCount
<1> HIDE DEF with
<1>9. /\ ItemsGiven(a, items, rollouts, targets)
      /\ poll.listed => items = with
      /\ \A d, v : d # c /\ Has(poll.items, d, v) => Has(items, d, v)
  BY <1>3, <1>7, <1>8
<1> DEFINE new == ItemDone(poll, items)
<1>10. PollGiven(a, new, rollouts, targets) /\ new.step \notin {"ack", "waiting"}
  BY <1>9, ItemDoneCount
<1>11. StaysSettled(a, poll, new, rollouts, targets)
  <2> SUFFICES ASSUME NEW r \in RolloutIds, NEW s \in StageIds,
                      Given(a, r, s, rollouts, targets), Current(rollouts, r, s),
                      Settled(poll, r, s, rollouts[r].config, Expected(rollouts[r], s))
               PROVE  Settled(new, r, s, rollouts[r].config, Expected(rollouts[r], s))
    BY DEF StaysSettled
  <2> DEFINE d == rollouts[r].config
             v == Expected(rollouts[r], s)
  <2>1. CASE d = c
    <3>1. /\ q = r /\ poll.listed /\ poll.read.stage = s
          /\ Serving(poll.read.state, s)
      BY <1>1, <2>1 DEF Settled
    <3>2. item.version = v
      BY <1>6, <3>1
    <3>3. Has(items, d, v)
      BY <1>8, <1>9, <2>1, <3>1, <3>2
    <3> QED
      BY <3>3, ItemDoneSettled
  <2>2. CASE d # c
    <3>1. d \notin poll.left \ {c} => Has(items, d, v)
      BY <1>1, <1>9, <2>2 DEF Settled
    <3> QED
      BY <3>1, ItemDoneSettled
  <2> QED
    BY <2>1, <2>2
<1>12. sync' = [sync EXCEPT ![a] = new]
  BY <1>7
<1> HIDE DEF new
<1> QED
  BY <1>1, <1>2, <1>10, <1>11, <1>12, ReadCount

\* The rest of SyncOnce installs nothing more.
LEMMA AcknowledgingCount ==
    ASSUME NEW a, NEW items, NEW left, NEW ros, NEW tgs, ItemsGiven(a, items, ros, tgs)
    PROVE  PollGiven(a, Acknowledging(items, left), ros, tgs)
BY IdleCount DEF Acknowledging, PollGiven

LEMMA AcknowledgingSettled ==
    ASSUME NEW items, NEW left, NEW r, NEW s, NEW c, NEW v
    PROVE  Settled(Acknowledging(items, left), r, s, c, v)
BY IdleCount DEF Acknowledging, Settled

LEMMA AcknowledgingSends ==
    ASSUME NEW items, NEW left, NEW r, NEW s, Sending(Acknowledging(items, left), r, s)
    PROVE  \E c \in AssignedConfigs(items) : items[c].rollout = r /\ items[c].stage = s
BY IdleCount DEF Acknowledging, Sending

LEMMA InstallCount ==
    ASSUME CountInv, NEW a \in Agents, Install(a)
    PROVE  CountInv'
<1> DEFINE old   == sync[a]
           items == old.items
           new   == [c \in Configs |-> IF c \in DOMAIN items THEN items[c].version ELSE NoVersion]
           poll  == Acknowledging(items, AssignedConfigs(items))
<1>1. /\ old.step = "install" /\ UNCHANGED writeVars /\ UNCHANGED inflight
      /\ sync' = [sync EXCEPT ![a] = poll] /\ cache' = [cache EXCEPT ![a] = new]
  BY DEF Install
<1>2. DeliveryInv' /\ DeliveryInv
  BY InstallStep DEF CountInv
<1>3. ItemsGiven(a, items, rollouts, targets)
  BY <1>1 DEF CountInv, PollGiven
<1>4. /\ PollGiven(a, poll, rollouts, targets)
      /\ \A r, s, c, v : Settled(poll, r, s, c, v)
      /\ \A r, s : Sending(poll, r, s) =>
            \E c \in AssignedConfigs(items) : items[c].rollout = r /\ items[c].stage = s
  BY <1>3, AcknowledgingCount, AcknowledgingSettled, AcknowledgingSends
<1>5. \A c \in Configs : \A v : Has(items, c, v) => new[c] = v
  BY DEF Has
<1> HIDE DEF new, poll
<1>6. cache'[a] = new /\ \A b \in Agents : b # a => cache'[b] = cache[b]
  BY <1>1, <1>2 DEF DeliveryInv, CacheAllowed
<1>7. ASSUME NEW r \in RolloutIds, NEW s \in StageIds,
             Claimed(a, r, s, targets, pending, inflight', poll)
      PROVE  Justified(a, r, s, rollouts, targets, cache', poll)
  <2> DEFINE d == rollouts[r].config
             v == Expected(rollouts[r], s)
  <2>1. rollouts[r] # NoRollout => d \in Configs
    BY <1>2 DEF DeliveryInv, WriteInv, TypeOK, Rollout
  <2>2. CASE Sending(poll, r, s)
    <3>1. PICK c \in AssignedConfigs(items) : items[c].rollout = r /\ items[c].stage = s
      BY <1>4, <2>2
    <3>2. /\ Given(a, r, s, rollouts, targets) /\ d = c
          /\ items[c].version = v /\ c \in DOMAIN items
      BY <1>3, <3>1 DEF AssignedConfigs, ItemsGiven, ItemGiven
    <3>3. Has(items, d, v)
      BY <3>2 DEF Has
    <3>4. rollouts[r] # NoRollout
      BY <3>2 DEF Given
    <3> QED
      BY <1>4, <1>5, <1>6, <2>1, <3>2, <3>3, <3>4 DEF Justified
  <2>3. CASE Claimed(a, r, s, targets, pending, inflight, old)
    <3>1. Justified(a, r, s, rollouts, targets, cache, old)
      BY <2>3 DEF CountInv
    <3>2. Current(rollouts, r, s) => Has(items, d, v) /\ d \in Configs
      BY <1>1, <2>1, <3>1 DEF Justified, Settled, Current
    <3> QED
      BY <1>4, <1>5, <1>6, <3>1, <3>2 DEF Justified
  <2> QED
    BY <1>1, <1>7, <2>2, <2>3 DEF Claimed
<1>8. \A b \in Agents, r \in RolloutIds, s \in StageIds :
         b # a /\ Sent(b, r, s, inflight') => Sent(b, r, s, inflight)
  BY <1>1
<1> QED
  BY <1>1, <1>2, <1>4, <1>6, <1>7, <1>8, AgentCount

LEMMA SendAckCount ==
    ASSUME CountInv, NEW a \in Agents, SendAck(a)
    PROVE  CountInv'
<1> DEFINE old   == sync[a]
           items == old.items
           c     == NextConfig(old.left)
           new   == [old EXCEPT !.step = "waiting"]
           m     == AckMessage(a)
<1>1. /\ old.step = "ack" /\ UNCHANGED writeVars /\ UNCHANGED cache
      /\ inflight' = inflight \cup {m}
  BY DEF SendAck
<1>2. DeliveryInv' /\ DeliveryInv
  BY SendAckStep DEF CountInv
<1>3. /\ old = [step |-> old.step, items |-> old.items, left |-> old.left]
      /\ old.left # {} /\ old.left \subseteq AssignedConfigs(items)
  BY <1>1, <1>2 DEF DeliveryInv, PollHolds
<1>4. sync' = [sync EXCEPT ![a] = new] /\ new.step = "waiting" /\ new.items = items
  BY <1>2, <1>3 DEF SendAck, DeliveryInv
<1>5. /\ c \in AssignedConfigs(items)
      /\ m.rollout = items[c].rollout /\ m.ack.stage = items[c].stage /\ m.ack.agent = a
  <2>1. c \in old.left
    BY <1>3 DEF NextConfig
  <2> QED
    BY <1>3, <2>1 DEF AckMessage
<1> HIDE DEF new, m
<1>6. /\ PollGiven(a, new, rollouts, targets)
      /\ \A r, s, d, v : Settled(new, r, s, d, v)
  BY <1>1, <1>4 DEF CountInv, PollGiven, Settled
<1>7. ASSUME NEW r \in RolloutIds, NEW s \in StageIds,
             Claimed(a, r, s, targets, pending, inflight', new)
      PROVE  Justified(a, r, s, rollouts, targets, cache', new)
  <2>1. Claimed(a, r, s, targets, pending, inflight, old)
    BY <1>1, <1>4, <1>5, <1>7 DEF Claimed, Sent, Sending
  <2>2. Justified(a, r, s, rollouts, targets, cache, old)
    BY <2>1 DEF CountInv
  <2> QED
    BY <1>1, <1>6, <2>2 DEF Justified
<1>8. \A b \in Agents, r \in RolloutIds, s \in StageIds :
         b # a /\ Sent(b, r, s, inflight') => Sent(b, r, s, inflight)
  BY <1>1, <1>5 DEF Sent
<1> QED
  BY <1>1, <1>2, <1>4, <1>6, <1>7, <1>8, AgentCount

LEMMA AnsweredCount ==
    ASSUME CountInv, NEW a \in Agents, Answered(a)
    PROVE  CountInv'
<1> DEFINE old   == sync[a]
           items == old.items
           new   == Acknowledging(items, old.left \ {NextConfig(old.left)})
<1>1. /\ old.step = "waiting" /\ UNCHANGED writeVars /\ UNCHANGED <<cache, inflight>>
      /\ sync' = [sync EXCEPT ![a] = new]
  BY DEF Answered
<1>2. DeliveryInv'
  BY AnsweredStep DEF CountInv
<1>3. ItemsGiven(a, items, rollouts, targets)
  BY <1>1 DEF CountInv, PollGiven
<1>4. /\ PollGiven(a, new, rollouts, targets)
      /\ \A r, s, c, v : Settled(new, r, s, c, v)
      /\ \A r, s : Sending(new, r, s) => Sending(old, r, s)
  <2>1. PollGiven(a, new, rollouts, targets) /\ \A r, s, c, v : Settled(new, r, s, c, v)
    BY <1>3, AcknowledgingCount, AcknowledgingSettled
  <2>2. ASSUME NEW r, NEW s, Sending(new, r, s)
        PROVE  Sending(old, r, s)
    <3>1. \E c \in AssignedConfigs(items) : items[c].rollout = r /\ items[c].stage = s
      BY <2>2, AcknowledgingSends
    <3> QED
      BY <1>1, <3>1 DEF Sending
  <2> QED
    BY <2>1, <2>2
<1> HIDE DEF new
<1>5. ASSUME NEW r \in RolloutIds, NEW s \in StageIds,
             Claimed(a, r, s, targets, pending, inflight', new)
      PROVE  Justified(a, r, s, rollouts, targets, cache', new)
  <2>1. Claimed(a, r, s, targets, pending, inflight, old)
    BY <1>1, <1>4, <1>5 DEF Claimed
  <2>2. Justified(a, r, s, rollouts, targets, cache, old)
    BY <2>1 DEF CountInv
  <2> QED
    BY <1>1, <1>4, <2>2 DEF Justified
<1>6. \A b \in Agents, r \in RolloutIds, s \in StageIds :
         b # a /\ Sent(b, r, s, inflight') => Sent(b, r, s, inflight)
  BY <1>1
<1> QED
  BY <1>1, <1>2, <1>4, <1>5, <1>6, AgentCount

LEMMA CountStep ==
    ASSUME OneReplica, CountInv, [DeliveryNext]_deliveryVars
    PROVE  CountInv'
<1>1. ASSUME NEW a \in Agents, SyncOnce(a)
      PROVE  CountInv'
  BY <1>1, PollCount, ReadStateCount, ReadRolloutCount, ReadTargetsCount, InstallCount,
     SendAckCount, AnsweredCount
  DEF SyncOnce
<1>2. ASSUME NEW m \in inflight, Refused(m) \/ \E p \in Replicas : Deliver(p, m) \/ Lost(p, m)
      PROVE  CountInv'
  BY <1>2, FailedCount, DeliverCount DEF Refused, Lost
<1>3. CASE UNCHANGED deliveryVars \/ \E a \in Agents : CredentialExpires(a)
  <2>1. UNCHANGED <<rollouts, targets, stable, pending, cache, sync, inflight>>
    BY <1>3 DEF CredentialExpires, deliveryVars, delivery, writeVars, vars
  <2>2. DeliveryInv'
    BY DeliveryStep DEF CountInv
  <2> QED
    BY <2>1, <2>2 DEF CountInv
<1> QED
  BY <1>1, <1>2, <1>3, EngineCount, GivesUpCount DEF DeliveryNext

\* Acknowledge counts a message that may be as late as it likes, for an agent that
\* has polled any number of times since: while a stage is under way, an agent that
\* it counts as acknowledged runs the version that the stage expects.
THEOREM CountedIsInstalled ==
    ASSUME OneReplica
    PROVE  DeliverySpec => []CountedMeansInstalled
<1>1. DeliveryInit => CountInv
  <2> SUFFICES ASSUME DeliveryInit
               PROVE  CountInv
    OBVIOUS
  <2>1. DeliveryInv
    BY DeliveryInitHolds
  <2>2. \A a \in Agents : PollGiven(a, sync[a], rollouts, targets)
    BY IdleCount DEF DeliveryInit
  <2>3. ASSUME NEW a \in Agents, NEW r \in RolloutIds, NEW s \in StageIds
        PROVE  ~Claimed(a, r, s, targets, pending, inflight, sync[a])
    <3>1. targets[r][s].acked = {} /\ \A q \in Replicas : Counted(pending[q]) = {}
      BY DEF DeliveryInit, WriteInit, Init, NoTargets, Counted
    <3>2. sync[a] = Idle /\ inflight = {}
      BY DEF DeliveryInit
    <3> QED
      BY <3>1, <3>2, IdleCount DEF Claimed, Tallied, Sent
  <2> QED
    BY <2>1, <2>2, <2>3 DEF CountInv
<1>2. CountInv /\ [DeliveryNext]_deliveryVars => CountInv'
  BY CountStep
<1>3. CountInv => CountedMeansInstalled
  <2> SUFFICES ASSUME CountInv, NEW r \in RolloutIds, Active(r),
                      servesCandidate(rollouts[r].state) \/ rollouts[r].stage = Verification,
                      NEW a \in targets[r][rollouts[r].stage].acked
               PROVE  cache[a][rollouts[r].config] = targets[r][rollouts[r].stage].version
    BY DEF CountedMeansInstalled
  <2> DEFINE ro == rollouts[r]
             s  == ro.stage
             t  == targets[r][s]
  <2>1. WriteInv /\ s \in StageIds
    BY DEF CountInv, DeliveryInv, WriteInv, TypeOK, Active, Exists, Rollout
  <2>2. a \in Agents
    BY <2>1 DEF WriteInv, TypeOK, StageTargets
  <2>3. Justified(a, r, s, rollouts, targets, cache, sync[a])
    BY <2>1, <2>2 DEF CountInv, Claimed, Tallied
  <2>4. Current(rollouts, r, s)
    BY DEF Current, Active, Exists
  <2>5. cache[a][ro.config] = Expected(ro, s) /\ a \in t.agents
    BY <2>3, <2>4 DEF Justified, Given
  <2>6. t.version = Expected(ro, s)
    BY <2>1, <2>5 DEF WriteInv, RowsFit
  <2> QED
    BY <2>5, <2>6
<1> QED
  BY <1>1, <1>2, <1>3, PTL DEF DeliverySpec
=============================================================================
