-------------------------- MODULE ConfigApplyProofs --------------------------
(***************************************************************************)
(* Proofs about ConfigApply for every set of valid documents and any       *)
(* number of processes: what they make stable or roll out is what the      *)
(* documents declare, and a process that is done has left everything       *)
(* declared in place.                                                      *)
(*                                                                         *)
(* The inductive invariant says that a number an applier remembers, or has *)
(* put into a request that may still be carried out, is that of a version  *)
(* with the declared value, and that the documents behind an applier are   *)
(* in place.  It is kept because the registry only grows.                  *)
(***************************************************************************)
EXTENDS ConfigApply, TLAPS

Requests == [doc : Documents, number : Nat]

RegistryTyped ==
    /\ tenants \subseteq Tenants
    /\ definitions \in [Keys -> Definition \cup {NoValue}]
    /\ versions \in [Keys -> Seq(Values)]
    /\ stable \in [Keys -> Nat]
    /\ candidate \in [Keys -> Nat]
    /\ rolled \in [Keys -> SUBSET Nat]

AppliersTyped ==
    /\ status \in [Appliers -> {"running", "failed", "done"}]
    /\ left \in [Appliers -> SUBSET Documents]
    /\ refs \in [Appliers -> [VersionNames -> Nat]]
    /\ posting \in [Appliers -> Requests \cup {Nothing}]
    /\ late \subseteq Requests

\* Number n is that of a version with the value of document d.
Holds(d, n) == n \in Numbers(d.key) /\ versions[d.key][n] = d.value

Numbered(q) ==
    q.doc.kind \in {"StableVersion", "Rollout"} => Holds(VersionDoc(q.doc.ref), q.number)

RefsRight ==
    \A p \in Appliers, name \in VersionNames :
        refs[p][name] # 0 => Holds(VersionDoc(name), refs[p][name])

RequestsRight ==
    /\ \A p \in Appliers : posting[p] # Nothing => Numbered(posting[p])
    /\ \A q \in late : Numbered(q)

\* What the registry keeps of a document, whoever writes to it: of a StableVersion
\* document, that there is a stable version.
InPlace(p, d) ==
    CASE d.kind = "StableVersion" -> stable[d.key] # 0
      [] d.kind = "Rollout"       ->
            p \in IncludeRollouts => \E n \in rolled[d.key] : Holds(VersionDoc(d.ref), n)
      [] OTHER                    -> Declared(p, d)

BehindInPlace ==
    \A p \in Appliers :
        /\ status[p] # "failed" => \A d \in Documents \ left[p] : InPlace(p, d)
        /\ status[p] = "done" => left[p] = {}

\* Whatever is stable has a declared value or was the candidate of a rollout.
StableRight ==
    \A k \in Keys :
        /\ candidate[k] \in rolled[k] \cup {0}
        /\ \/ stable[k] \in rolled[k] \cup {0}
           \/ /\ stable[k] \in Numbers(k)
              /\ versions[k][stable[k]] \in DeclaredValues("StableVersion", k)

ApplyInv ==
    RegistryTyped /\ AppliersTyped /\ RefsRight /\ RequestsRight /\ BehindInPlace /\ StableRight

\* What every step does to the registry.
Grows ==
    /\ tenants \subseteq tenants'
    /\ \A k \in Keys : definitions[k] # NoValue => definitions'[k] = definitions[k]
    /\ \A k \in Keys : \A n \in Numbers(k) :
          n \in 1..Len(versions'[k]) /\ versions'[k][n] = versions[k][n]
    /\ \A k \in Keys : stable[k] # 0 => stable'[k] # 0
    /\ \A k \in Keys : rolled[k] \subseteq rolled'[k]

\* How a step may change the stable version and the candidate of config k.
ChangesAsDeclared(k) ==
    /\ stable'[k] \notin {stable[k], candidate[k]} =>
          /\ stable'[k] \in 1..Len(versions'[k])
          /\ versions'[k][stable'[k]] \in DeclaredValues("StableVersion", k)
    /\ candidate'[k] \notin {candidate[k], 0} =>
          /\ candidate'[k] \in rolled'[k]
          /\ versions'[k][candidate'[k]] \in DeclaredValues("Rollout", k)

-----------------------------------------------------------------------------
(* The documents *)

\* What validation guarantees about the documents and the names in them.
LEMMA DocumentFacts ==
    /\ \A d \in OfKind("ConfigVersion") :
          d.key \in Keys /\ d.value \in Values /\ d.name \in VersionNames /\ VersionDoc(d.name) = d
    /\ \A name \in VersionNames : VersionDoc(name) \in OfKind("ConfigVersion")
    /\ \A d \in OfKind("StableVersion") \cup OfKind("Rollout") :
          d.ref \in VersionNames /\ VersionDoc(d.ref).key = d.key /\ d.key \in Keys
    /\ \A d \in OfKind("ConfigDefinition") : d.key \in Keys /\ DefinitionOf(d) \in Definition
    /\ \A d \in OfKind("Tenant") : d.tenant \in Tenants
<1>1. \A name \in VersionNames :
         VersionDoc(name) \in OfKind("ConfigVersion") /\ VersionDoc(name).name = name
  BY DEF VersionNames, VersionDoc
<1>2. \A d \in OfKind("ConfigVersion") :
         d.key \in Keys /\ d.value \in Values /\ d.name \in VersionNames /\ VersionDoc(d.name) = d
  BY <1>1, DocumentAssumption DEF ValidManifests, VersionNames
<1>3. \A d \in OfKind("ConfigDefinition") : d.key \in Keys /\ DefinitionOf(d) \in Definition
  BY DocumentAssumption, RegistryAssumption DEF ValidManifests, DefinitionOf, Definition
<1>4. \A d \in OfKind("StableVersion") \cup OfKind("Rollout") :
         d.ref \in VersionNames /\ VersionDoc(d.ref).key = d.key
  BY DocumentAssumption DEF ValidManifests
<1> QED
  BY <1>1, <1>2, <1>3, <1>4, DocumentAssumption DEF ValidManifests

-----------------------------------------------------------------------------
(* The registry only grows *)

\* A request of the API that creates a tenant, a definition or a version.
LEMMA CreationGrows ==
    ASSUME RegistryTyped,
           \/ \E t \in Tenants : CreateTenant(t)
           \/ \E k \in Keys, definition \in Definition : CreateDefinition(k, definition)
           \/ \E k \in Keys, value \in Values : CreateVersion(k, value)
    PROVE  RegistryTyped' /\ Grows /\ UNCHANGED <<stable, candidate, rolled>>
<1>1. CASE \E t \in Tenants : CreateTenant(t)
  BY <1>1 DEF CreateTenant, RegistryTyped, Grows, Numbers
<1>2. CASE \E k \in Keys, definition \in Definition : CreateDefinition(k, definition)
  BY <1>2 DEF CreateDefinition, DefinitionAccepted, RegistryTyped, Grows, Numbers
<1>3. CASE \E k \in Keys, value \in Values : CreateVersion(k, value)
  <2> PICK k \in Keys, value \in Values : CreateVersion(k, value)
    BY <1>3
  <2>1. versions'[k] = Append(versions[k], value) /\ versions[k] \in Seq(Values)
    BY DEF CreateVersion, RegistryTyped
  <2>2. /\ versions'[k] \in Seq(Values)
        /\ Len(versions'[k]) = Len(versions[k]) + 1
        /\ \A n \in 1..Len(versions[k]) :
              n \in 1..Len(versions'[k]) /\ versions'[k][n] = versions[k][n]
    BY <2>1
  <2> QED
    BY <2>2 DEF CreateVersion, RegistryTyped, Grows, Numbers
<1> QED
  BY <1>1, <1>2, <1>3

\* A request that is accepted, whose number is that of a declared version.
LEMMA HandleGrows ==
    ASSUME RegistryTyped, NEW q \in Requests, Handle(q)
    PROVE  RegistryTyped' /\ Grows
<1> USE DocumentFacts
<1>0. q.doc \in Documents /\ q.number \in Nat
  BY DEF Requests
<1>1. CASE q.doc.kind = "Tenant" /\ CreateTenant(q.doc.tenant)
  BY <1>0, <1>1, CreationGrows DEF OfKind
<1>2. CASE q.doc.kind = "ConfigDefinition" /\ CreateDefinition(q.doc.key, DefinitionOf(q.doc))
  BY <1>0, <1>2, CreationGrows DEF OfKind
<1>3. CASE q.doc.kind = "ConfigVersion" /\ CreateVersion(q.doc.key, q.doc.value)
  BY <1>0, <1>3, CreationGrows DEF OfKind
<1>4. CASE q.doc.kind = "StableVersion" /\ SetStableVersion(q.doc.key, q.number)
  BY <1>0, <1>4 DEF OfKind, SetStableVersion, StableAccepted, RegistryTyped, Grows, Numbers
<1>5. CASE q.doc.kind = "Rollout" /\ Decodes(q) /\ StartRollout(q.doc.key, q.number)
  BY <1>0, <1>5 DEF OfKind, StartRollout, RolloutAccepted, RegistryTyped, Grows, Numbers
<1> QED
  BY <1>1, <1>2, <1>3, <1>4, <1>5 DEF Handle

LEMMA EndGrows ==
    ASSUME RegistryTyped, NEW k \in Keys, RolloutEnds(k)
    PROVE  RegistryTyped' /\ Grows
BY DEF RolloutEnds, RegistryTyped, Grows, Numbers

LEMMA QuietGrows ==
    ASSUME RegistryTyped, UNCHANGED registry
    PROVE  RegistryTyped' /\ Grows
BY DEF registry, RegistryTyped, Grows, Numbers

\* What is in place in a registry stays in place when it grows.
LEMMA StaysInPlace ==
    ASSUME RegistryTyped, Grows, NEW d \in Documents
    PROVE  /\ \A p : InPlace(p, d) => InPlace(p, d)'
           /\ d.kind = "ConfigVersion" => \A n : Holds(d, n) => Holds(d, n)'
           /\ \A n : d.kind \in {"StableVersion", "Rollout"} /\ Holds(VersionDoc(d.ref), n)
                        => Holds(VersionDoc(d.ref), n)'
<1> USE DocumentFacts
<1>1. \A e \in OfKind("ConfigVersion") : \A n : Holds(e, n) => Holds(e, n)'
  BY DEF Holds, Grows, Numbers
<1>2. CASE d.kind = "Tenant"
  BY <1>2 DEF InPlace, Declared, Grows
<1>3. CASE d.kind = "ConfigDefinition"
  BY <1>3 DEF InPlace, Declared, Grows, OfKind
<1>4. CASE d.kind = "ConfigVersion"
  BY <1>1, <1>4 DEF InPlace, Declared, SameValue, Holds, OfKind, Numbers
<1>5. CASE d.kind = "StableVersion"
  BY <1>1, <1>5 DEF InPlace, Grows, OfKind
<1>6. CASE d.kind = "Rollout"
  <2>1. d.key \in Keys /\ rolled[d.key] \subseteq rolled'[d.key]
    BY <1>6 DEF OfKind, Grows
  <2>2. \A n : Holds(VersionDoc(d.ref), n) => Holds(VersionDoc(d.ref), n)'
    BY <1>1, <1>6 DEF OfKind
  <2> QED
    BY <1>6, <2>1, <2>2 DEF InPlace
<1> QED
  BY <1>2, <1>3, <1>4, <1>5, <1>6, DocumentAssumption DEF ValidManifests

LEMMA StableStaysRight ==
    ASSUME RegistryTyped, RegistryTyped', StableRight, Grows, \A k \in Keys : ChangesAsDeclared(k)
    PROVE  StableRight'
<1> SUFFICES ASSUME NEW k \in Keys
             PROVE  /\ candidate'[k] \in rolled'[k] \cup {0}
                    /\ \/ stable'[k] \in rolled'[k] \cup {0}
                       \/ /\ stable'[k] \in 1..Len(versions'[k])
                          /\ versions'[k][stable'[k]] \in DeclaredValues("StableVersion", k)
  BY DEF StableRight, Numbers
<1>1. rolled[k] \subseteq rolled'[k]
  BY DEF Grows
<1>2. /\ candidate[k] \in rolled[k] \cup {0}
      /\ \/ stable[k] \in rolled[k] \cup {0}
         \/ /\ stable[k] \in Numbers(k)
            /\ versions[k][stable[k]] \in DeclaredValues("StableVersion", k)
  BY DEF StableRight
<1>3. ChangesAsDeclared(k)
  OBVIOUS
<1>4. candidate'[k] \in rolled'[k] \cup {0}
  BY <1>1, <1>2, <1>3 DEF ChangesAsDeclared
<1>5. CASE stable'[k] = stable[k]
  <2>1. \A n \in Numbers(k) : n \in 1..Len(versions'[k]) /\ versions'[k][n] = versions[k][n]
    BY DEF Grows
  <2> QED
    BY <1>1, <1>2, <1>4, <1>5, <2>1
<1>6. CASE stable'[k] = candidate[k]
  BY <1>1, <1>2, <1>4, <1>6
<1>7. CASE stable'[k] \notin {stable[k], candidate[k]}
  BY <1>3, <1>4, <1>7 DEF ChangesAsDeclared
<1> QED
  BY <1>5, <1>6, <1>7

\* Steps that leave the registry alone keep all that is said of it.
LEMMA QuietRegistry ==
    ASSUME ApplyInv, UNCHANGED registry
    PROVE  RegistryTyped' /\ Grows /\ StableRight'
BY QuietGrows DEF ApplyInv, StableRight, registry, Numbers

\* A request carried out, now or late, changes the stable version or starts a
\* rollout only with the number of a version that holds the declared value.
LEMMA HandledAsDeclared ==
    ASSUME RegistryTyped, NEW q \in Requests, Numbered(q), Handle(q), NEW k \in Keys
    PROVE  ChangesAsDeclared(k)
<1>0. PICK d \in Documents, number \in Nat : d = q.doc /\ number = q.number
  BY DEF Requests
<1>1. CASE q.doc.kind \in {"Tenant", "ConfigDefinition", "ConfigVersion"}
  <2>1. stable' = stable /\ candidate' = candidate
    BY <1>1 DEF Handle, CreateTenant, CreateDefinition, CreateVersion
  <2> QED
    BY <2>1 DEF ChangesAsDeclared
<1>2. CASE q.doc.kind = "StableVersion"
  <2>1. /\ d \in OfKind("StableVersion") /\ d.key \in Keys /\ VersionDoc(d.ref).key = d.key
        /\ SetStableVersion(d.key, number) /\ Holds(VersionDoc(d.ref), number)
    BY <1>0, <1>2, DocumentFacts DEF OfKind, Handle, Numbered
  <2>2. /\ candidate' = candidate /\ versions' = versions
        /\ stable'[k] = IF k = d.key THEN number ELSE stable[k]
    BY <2>1 DEF SetStableVersion, RegistryTyped
  <2>3. /\ number \in 1..Len(versions[d.key])
        /\ versions[d.key][number] \in DeclaredValues("StableVersion", d.key)
    BY <2>1 DEF Holds, Numbers, DeclaredValues
  <2> QED
    BY <2>2, <2>3 DEF ChangesAsDeclared
<1>3. CASE q.doc.kind = "Rollout"
  <2>1. /\ d \in OfKind("Rollout") /\ d.key \in Keys /\ VersionDoc(d.ref).key = d.key
        /\ StartRollout(d.key, number) /\ Holds(VersionDoc(d.ref), number)
    BY <1>0, <1>3, DocumentFacts DEF OfKind, Handle, Numbered
  <2>2. /\ stable' = stable /\ versions' = versions
        /\ candidate'[k] = IF k = d.key THEN number ELSE candidate[k]
        /\ number \in rolled'[d.key]
    BY <2>1 DEF StartRollout, RegistryTyped
  <2>3. versions[d.key][number] \in DeclaredValues("Rollout", d.key)
    BY <2>1 DEF Holds, DeclaredValues
  <2> QED
    BY <2>2, <2>3 DEF ChangesAsDeclared
<1> QED
  BY <1>0, <1>1, <1>2, <1>3, DocumentAssumption DEF ValidManifests

LEMMA ChangedLate ==
    ASSUME RegistryTyped, NEW q \in late, q \in Requests, Numbered(q), CarriedOutLate(q)
    PROVE  \A k \in Keys : ChangesAsDeclared(k)
<1>1. CASE Handle(q)
  BY <1>1, HandledAsDeclared
<1>2. CASE UNCHANGED registry
  BY <1>2 DEF registry, ChangesAsDeclared
<1> QED
  BY <1>1, <1>2 DEF CarriedOutLate

LEMMA OthersChange ==
    ASSUME RegistryTyped, Operator \/ RolloutEngine
    PROVE  \A k \in Keys : ChangesAsDeclared(k)
<1>1. CASE Operator
  BY <1>1 DEF Operator, CreateTenant, CreateDefinition, CreateVersion, ChangesAsDeclared
<1>2. CASE RolloutEngine
  <2> PICK j \in Keys : RolloutEnds(j)
    BY <1>2 DEF RolloutEngine
  <2> QED
    BY DEF RolloutEnds, RegistryTyped, ChangesAsDeclared
<1> QED
  BY <1>1, <1>2

-----------------------------------------------------------------------------
(* The steps *)

\* Steps that leave the appliers alone, apart from dropping late requests.
LEMMA RegistrySteps ==
    ASSUME ApplyInv, RegistryTyped', Grows, \A k \in Keys : ChangesAsDeclared(k),
           UNCHANGED <<status, left, refs, posting>>, late' \subseteq late
    PROVE  ApplyInv'
<1> USE DEF ApplyInv
<1>1. AppliersTyped'
  BY DEF AppliersTyped
<1>2. RefsRight'
  BY DocumentFacts, StaysInPlace DEF RefsRight, OfKind
<1>3. RequestsRight'
  BY StaysInPlace DEF RequestsRight, Numbered, AppliersTyped, Requests
<1>4. BehindInPlace'
  BY StaysInPlace DEF BehindInPlace
<1> QED
  BY <1>1, <1>2, <1>3, <1>4, StableStaysRight

\* A document that is skipped is in place.
LEMMA SkippedInPlace ==
    ASSUME ApplyInv, NEW p \in Appliers, NEW d \in Documents, Skips(p, d), ~Refuses(p, d)
    PROVE  InPlace(p, d)
<1>1. CASE d.kind = "Tenant"
  BY <1>1 DEF Skips, InPlace, Declared
<1>2. CASE d.kind = "ConfigDefinition"
  BY <1>2 DEF Skips, InPlace, Declared, Matches
<1>3. CASE d.kind = "ConfigVersion"
  BY <1>3 DEF Skips, InPlace, Declared
<1>4. CASE d.kind = "StableVersion"
  BY <1>4 DEF Skips, Refuses, InPlace
<1>5. CASE d.kind = "Rollout"
  BY <1>5 DEF Skips, InPlace
<1> QED
  BY <1>1, <1>2, <1>3, <1>4, <1>5, DocumentAssumption DEF ValidManifests

LEMMA ReadStep ==
    ASSUME ApplyInv, NEW p \in Appliers, Read(p)
    PROVE  ApplyInv'
<1> USE DEF ApplyInv
<1>0. PICK d \in Documents : Skip(p, d) \/ Refuse(p, d) \/ Prepare(p, d)
  BY DEF Read
<1>1. UNCHANGED <<registry, late>> /\ status[p] = "running"
  BY DEF Read
<1>2. RegistryTyped' /\ Grows /\ StableRight'
  BY <1>1, QuietRegistry
<1>3. CASE Skip(p, d)
  <2>0. InPlace(p, d)
    BY <1>3, SkippedInPlace DEF Skip
  <2>1. UNCHANGED <<status, posting>> /\ left' = [left EXCEPT ![p] = @ \ {d}]
    BY <1>3 DEF Skip
  <2>2. \/ UNCHANGED refs
        \/ /\ d \in OfKind("ConfigVersion")
           /\ \E n \in Nat : Holds(d, n) /\ refs' = [refs EXCEPT ![p][d.name] = n]
    BY <1>3 DEF Skip, Remember, FirstMatch, SameValue, Holds, OfKind, Numbers
  <2>3. AppliersTyped'
    <3>1. refs' \in [Appliers -> [VersionNames -> Nat]]
      <4>1. d \in OfKind("ConfigVersion") => d.name \in VersionNames
        BY DocumentFacts
      <4>2. refs \in [Appliers -> [VersionNames -> Nat]] /\ refs[p] \in [VersionNames -> Nat]
        BY DEF AppliersTyped
      <4> QED
        BY <2>2, <4>1, <4>2
    <3> QED
      BY <1>1, <2>1, <3>1 DEF AppliersTyped
  <2>4. RefsRight'
    <3>1. \A name \in VersionNames : \A n : Holds(VersionDoc(name), n) => Holds(VersionDoc(name), n)'
      BY <1>2, DocumentFacts, StaysInPlace DEF OfKind
    <3>2. CASE UNCHANGED refs
      BY <3>1, <3>2 DEF RefsRight
    <3>3. CASE /\ d \in OfKind("ConfigVersion")
               /\ \E n \in Nat : Holds(d, n) /\ refs' = [refs EXCEPT ![p][d.name] = n]
      <4> PICK n \in Nat : Holds(d, n) /\ refs' = [refs EXCEPT ![p][d.name] = n]
        BY <3>3
      <4>1. VersionDoc(d.name) = d /\ d.name \in VersionNames
        BY <3>3, DocumentFacts
      <4>2. \A r \in Appliers, name \in VersionNames :
               refs'[r][name] = IF r = p /\ name = d.name THEN n ELSE refs[r][name]
        BY <4>1 DEF AppliersTyped
      <4> QED
        BY <3>1, <4>1, <4>2 DEF RefsRight
    <3> QED
      BY <2>2, <3>2, <3>3
  <2>5. RequestsRight'
    BY <1>1, <1>2, <2>1, StaysInPlace DEF RequestsRight, Numbered, AppliersTyped, Requests
  <2>6. BehindInPlace'
    BY <1>1, <1>2, <2>0, <2>1, StaysInPlace DEF BehindInPlace, AppliersTyped
  <2> QED
    BY <1>2, <2>3, <2>4, <2>5, <2>6
<1>4. CASE Refuse(p, d)
  <2>1. UNCHANGED <<left, refs, posting>> /\ status' = [status EXCEPT ![p] = "failed"]
    BY <1>4 DEF Refuse
  <2>2. AppliersTyped'
    BY <1>1, <2>1 DEF AppliersTyped
  <2>3. RefsRight'
    BY <1>2, <2>1, DocumentFacts, StaysInPlace DEF RefsRight, OfKind
  <2>4. RequestsRight'
    BY <1>1, <1>2, <2>1, StaysInPlace DEF RequestsRight, Numbered, AppliersTyped, Requests
  <2>5. BehindInPlace'
    BY <1>2, <2>1, StaysInPlace DEF BehindInPlace, AppliersTyped
  <2> QED
    BY <1>2, <2>2, <2>3, <2>4, <2>5
<1>5. CASE Prepare(p, d)
  <2>1. UNCHANGED <<status, left, refs>> /\ posting' = [posting EXCEPT ![p] = Request(p, d)]
    BY <1>5 DEF Prepare
  <2>2. Request(p, d) \in Requests /\ Numbered(Request(p, d))
    BY <1>5, DocumentFacts
    DEF Prepare, Skips, Refuses, Request, Requests, Numbered, RefsRight, AppliersTyped, OfKind
  <2>3. AppliersTyped'
    BY <1>1, <2>1, <2>2 DEF AppliersTyped
  <2>4. RefsRight'
    BY <1>2, <2>1, DocumentFacts, StaysInPlace DEF RefsRight, OfKind
  <2>5. RequestsRight'
    BY <1>1, <1>2, <2>1, <2>2, StaysInPlace DEF RequestsRight, Numbered, AppliersTyped, Requests
  <2>6. BehindInPlace'
    BY <1>2, <2>1, StaysInPlace DEF BehindInPlace, AppliersTyped
  <2> QED
    BY <1>2, <2>3, <2>4, <2>5, <2>6
<1> QED
  BY <1>0, <1>3, <1>4, <1>5

\* An applier gives up: what it was posting may still be carried out.
LEMMA FailedSteps ==
    ASSUME ApplyInv, NEW p \in Appliers,
           UNCHANGED <<registry, left, refs>>,
           status' = [status EXCEPT ![p] = "failed"],
           posting' = [posting EXCEPT ![p] = Nothing],
           late' \subseteq late \cup ({posting[p]} \ {Nothing})
    PROVE  ApplyInv'
<1> USE DEF ApplyInv
<1>1. RegistryTyped' /\ Grows /\ StableRight'
  BY QuietRegistry
<1>2. RefsRight'
  <2>1. \A name \in VersionNames : \A n : Holds(VersionDoc(name), n) => Holds(VersionDoc(name), n)'
    BY <1>1, DocumentFacts, StaysInPlace DEF OfKind
  <2> QED
    BY <2>1 DEF RefsRight
<1>3. RequestsRight'
  <2>1. \A q \in Requests : Numbered(q) => Numbered(q)'
    BY <1>1, StaysInPlace DEF Numbered, Requests
  <2> QED
    BY <2>1 DEF RequestsRight, AppliersTyped
<1>4. BehindInPlace'
  <2>1. \A d \in Documents, r \in Appliers : InPlace(r, d) => InPlace(r, d)'
    BY <1>1, StaysInPlace
  <2> QED
    BY <2>1 DEF BehindInPlace, AppliersTyped
<1>5. AppliersTyped'
  BY DEF AppliersTyped
<1> QED
  BY <1>1, <1>2, <1>3, <1>4, <1>5

LEMMA PostStep ==
    ASSUME ApplyInv, NEW p \in Appliers, Post(p)
    PROVE  ApplyInv'
<1> USE DEF ApplyInv
<1>0. /\ posting[p] \in Requests /\ posting[p].doc \in Documents
      /\ Handle(posting[p]) /\ status[p] = "running"
  BY DEF Post, AppliersTyped, Requests
<1> PICK d \in Documents, number \in Nat : d = posting[p].doc /\ number = posting[p].number
  BY <1>0 DEF Requests
<1>1. /\ d.kind = "Tenant" => CreateTenant(d.tenant)
      /\ d.kind = "ConfigDefinition" => CreateDefinition(d.key, DefinitionOf(d))
      /\ d.kind = "ConfigVersion" => CreateVersion(d.key, d.value)
      /\ d.kind = "StableVersion" => SetStableVersion(d.key, number)
      /\ d.kind = "Rollout" => StartRollout(d.key, number)
  BY <1>0 DEF Handle
<1>2. RegistryTyped' /\ Grows
  BY <1>0, HandleGrows
<1>3. /\ UNCHANGED <<status, late>>
      /\ left' = [left EXCEPT ![p] = @ \ {d}]
      /\ posting' = [posting EXCEPT ![p] = Nothing]
      /\ d.kind # "ConfigVersion" => refs' = refs
      /\ d.kind = "ConfigVersion" =>
            refs' = [refs EXCEPT ![p][d.name] = Len(versions[d.key]) + 1]
  BY DEF Post
<1>4. d.kind = "ConfigVersion" =>
         /\ d.name \in VersionNames /\ VersionDoc(d.name) = d
         /\ \E n \in Nat : n = Len(versions[d.key]) + 1 /\ Holds(d, n)'
  <2> SUFFICES ASSUME d.kind = "ConfigVersion"
               PROVE  /\ d.name \in VersionNames /\ VersionDoc(d.name) = d
                      /\ \E n \in Nat : n = Len(versions[d.key]) + 1 /\ Holds(d, n)'
    OBVIOUS
  <2>1. /\ d.key \in Keys /\ d.value \in Values
        /\ d.name \in VersionNames /\ VersionDoc(d.name) = d
    BY DocumentFacts DEF OfKind
  <2>2. versions[d.key] \in Seq(Values) /\ versions'[d.key] = Append(versions[d.key], d.value)
    BY <1>1, <2>1 DEF CreateVersion, RegistryTyped
  <2>3. PICK n \in Nat : n = Len(versions[d.key]) + 1
    BY <2>2
  <2>4. n \in 1..Len(versions'[d.key]) /\ versions'[d.key][n] = d.value
    BY <2>1, <2>2, <2>3
  <2> QED
    BY <2>1, <2>3, <2>4 DEF Holds, Numbers
<1>5. InPlace(p, d)'
  <2>1. CASE d.kind = "Tenant"
    BY <1>1, <2>1 DEF CreateTenant, InPlace, Declared
  <2>2. CASE d.kind = "ConfigDefinition"
    <3>1. DefinitionOf(d) \in Definition /\ d.key \in Keys
      BY <2>2, DocumentFacts DEF OfKind
    <3>2. definitions'[d.key] = DefinitionOf(d)
      BY <1>1, <2>2, <3>1 DEF CreateDefinition, RegistryTyped
    <3>3. DefinitionOf(d) # NoValue
      BY <3>1, RegistryAssumption
    <3> QED
      BY <2>2, <3>2, <3>3 DEF InPlace, Declared, DefinitionOf
  <2>3. CASE d.kind = "ConfigVersion"
    BY <1>4, <2>3 DEF InPlace, Declared, SameValue, Holds
  <2>4. CASE d.kind = "StableVersion"
    <3>1. d.key \in Keys
      BY <2>4, DocumentFacts DEF OfKind
    <3>2. stable'[d.key] \in 1..Len(versions[d.key]) /\ Len(versions[d.key]) \in Nat
      BY <1>1, <2>4, <3>1 DEF SetStableVersion, StableAccepted, Numbers, RegistryTyped
    <3> QED
      BY <2>4, <3>2 DEF InPlace
  <2>5. CASE d.kind = "Rollout"
    <3>1. d.key \in Keys /\ StartRollout(d.key, number)
      BY <1>1, <2>5, DocumentFacts DEF OfKind
    <3>2. number \in rolled'[d.key]
      BY <3>1 DEF StartRollout, RegistryTyped
    <3>3. Numbered(posting[p]) /\ posting[p].doc = d /\ posting[p].number = number
      BY DEF Post, RequestsRight
    <3>4. Holds(VersionDoc(d.ref), number)
      BY <2>5, <3>3 DEF Numbered
    <3>5. Holds(VersionDoc(d.ref), number)'
      BY <1>2, <2>5, <3>4, StaysInPlace
    <3> QED
      BY <2>5, <3>2, <3>5 DEF InPlace
  <2> QED
    BY <2>1, <2>2, <2>3, <2>4, <2>5, DocumentAssumption DEF ValidManifests
<1>6. \/ refs' = refs
      \/ /\ d.name \in VersionNames /\ VersionDoc(d.name) = d
         /\ \E n \in Nat : Holds(d, n)' /\ refs' = [refs EXCEPT ![p][d.name] = n]
  BY <1>3, <1>4
<1>7. AppliersTyped'
  <2>1. refs \in [Appliers -> [VersionNames -> Nat]] /\ refs[p] \in [VersionNames -> Nat]
    BY DEF AppliersTyped
  <2>2. refs' \in [Appliers -> [VersionNames -> Nat]]
    BY <1>6, <2>1
  <2> QED
    BY <1>3, <2>2 DEF AppliersTyped
<1>8. RefsRight'
  <2>1. \A name \in VersionNames : \A n : Holds(VersionDoc(name), n) => Holds(VersionDoc(name), n)'
    BY <1>2, DocumentFacts, StaysInPlace DEF OfKind
  <2>2. CASE refs' = refs
    BY <2>1, <2>2 DEF RefsRight
  <2>3. CASE /\ d.name \in VersionNames /\ VersionDoc(d.name) = d
             /\ \E n \in Nat : Holds(d, n)' /\ refs' = [refs EXCEPT ![p][d.name] = n]
    <3> PICK n \in Nat : Holds(d, n)' /\ refs' = [refs EXCEPT ![p][d.name] = n]
      BY <2>3
    <3>1. \A r \in Appliers, name \in VersionNames :
             refs'[r][name] = IF r = p /\ name = d.name THEN n ELSE refs[r][name]
      BY <2>3 DEF AppliersTyped
    <3> QED
      BY <2>1, <2>3, <3>1 DEF RefsRight
  <2> QED
    BY <1>6, <2>2, <2>3
<1>9. RequestsRight'
  <2>1. \A q \in Requests : Numbered(q) => Numbered(q)'
    BY <1>2, StaysInPlace DEF Numbered, Requests
  <2> QED
    BY <1>3, <2>1 DEF RequestsRight, AppliersTyped
<1>10. BehindInPlace'
  BY <1>0, <1>2, <1>3, <1>5, StaysInPlace DEF BehindInPlace, AppliersTyped
<1>11. StableRight'
  <2>1. Numbered(posting[p])
    BY DEF Post, RequestsRight
  <2> QED
    BY <1>0, <1>2, <2>1, HandledAsDeclared, StableStaysRight
<1> QED
  BY <1>2, <1>7, <1>8, <1>9, <1>10, <1>11

-----------------------------------------------------------------------------
(* The theorems *)

LEMMA ApplyInvariant == Spec => []ApplyInv
<1>1. Init => ApplyInv
  BY DEF Init, RegistryInit, ApplyInv, RegistryTyped, AppliersTyped, RefsRight,
         RequestsRight, BehindInPlace, StableRight
<1>2. ApplyInv /\ [Next]_applyVars => ApplyInv'
  <2> SUFFICES ASSUME ApplyInv, [Next]_applyVars PROVE ApplyInv'
    OBVIOUS
  <2> USE DEF ApplyInv
  <2>1. ASSUME NEW p \in Appliers, Read(p) PROVE ApplyInv'
    BY <2>1, ReadStep
  <2>2. ASSUME NEW p \in Appliers, Post(p) PROVE ApplyInv'
    BY <2>2, PostStep
  <2>3. ASSUME NEW p \in Appliers, PostRefused(p) \/ Unanswered(p) \/ Finish(p) \/ Rerun(p)
        PROVE  ApplyInv'
    <3>1. UNCHANGED registry
      BY <2>3 DEF PostRefused, Unanswered, Finish, Rerun
    <3>2. CASE PostRefused(p) \/ Unanswered(p)
      BY <3>2, FailedSteps DEF PostRefused, Unanswered
    <3>3. CASE Finish(p)
      <4>1. UNCHANGED registry /\ UNCHANGED <<left, refs, posting, late>>
            /\ status' = [status EXCEPT ![p] = "done"] /\ left[p] = {}
        BY <3>3 DEF Finish
      <4>2. RegistryTyped' /\ Grows /\ StableRight'
        BY <3>1, QuietRegistry
      <4>3. RefsRight'
        BY <4>1, <4>2, DocumentFacts, StaysInPlace DEF RefsRight, OfKind
      <4>4. RequestsRight'
        BY <4>1, <4>2, StaysInPlace DEF RequestsRight, Numbered, AppliersTyped, Requests
      <4>5. BehindInPlace'
        BY <3>3, <4>1, <4>2, StaysInPlace DEF BehindInPlace, AppliersTyped, Finish
      <4>6. AppliersTyped'
        BY <4>1 DEF AppliersTyped
      <4> QED
        BY <4>2, <4>3, <4>4, <4>5, <4>6
    <3>4. CASE Rerun(p)
      <4>1. UNCHANGED registry /\ UNCHANGED <<posting, late>>
            /\ status' = [status EXCEPT ![p] = "running"]
            /\ left' = [left EXCEPT ![p] = Documents]
            /\ refs' = [refs EXCEPT ![p] = [name \in VersionNames |-> 0]]
        BY <3>4 DEF Rerun
      <4>2. RegistryTyped' /\ Grows /\ StableRight'
        BY <3>1, QuietRegistry
      <4>3. RefsRight'
        BY <4>1, <4>2, DocumentFacts, StaysInPlace DEF RefsRight, OfKind, AppliersTyped
      <4>4. RequestsRight'
        BY <4>1, <4>2, StaysInPlace DEF RequestsRight, Numbered, AppliersTyped, Requests
      <4>5. BehindInPlace'
        BY <4>1, <4>2, StaysInPlace DEF BehindInPlace, AppliersTyped
      <4>6. AppliersTyped'
        BY <4>1 DEF AppliersTyped
      <4> QED
        BY <4>2, <4>3, <4>4, <4>5, <4>6
    <3> QED
      BY <2>3, <3>2, <3>3, <3>4
  <2>4. ASSUME NEW q \in late, CarriedOutLate(q) PROVE ApplyInv'
    <3>1. q \in Requests
      BY DEF AppliersTyped
    <3>2. RegistryTyped' /\ Grows
      BY <2>4, <3>1, HandleGrows, QuietGrows DEF CarriedOutLate
    <3>3. \A k \in Keys : ChangesAsDeclared(k)
      BY <2>4, <3>1, ChangedLate DEF RequestsRight
    <3> QED
      BY <2>4, <3>2, <3>3, RegistrySteps DEF CarriedOutLate
  <2>5. CASE Operator
    <3>1. RegistryTyped' /\ Grows
      BY <2>5, CreationGrows DEF Operator
    <3>2. \A k \in Keys : ChangesAsDeclared(k)
      BY <2>5, OthersChange
    <3> QED
      BY <2>5, <3>1, <3>2, RegistrySteps DEF Operator
  <2>6. CASE RolloutEngine
    <3>1. RegistryTyped' /\ Grows
      BY <2>6, EndGrows DEF RolloutEngine
    <3>2. \A k \in Keys : ChangesAsDeclared(k)
      BY <2>6, OthersChange
    <3> QED
      BY <2>6, <3>1, <3>2, RegistrySteps DEF RolloutEngine
  <2>7. CASE UNCHANGED applyVars
    <3>1. RegistryTyped' /\ Grows
      BY <2>7, QuietGrows DEF applyVars
    <3>2. \A k \in Keys : ChangesAsDeclared(k)
      BY <2>7 DEF applyVars, registry, ChangesAsDeclared
    <3> QED
      BY <2>7, <3>1, <3>2, RegistrySteps DEF applyVars
  <2> QED
    BY <2>1, <2>2, <2>3, <2>4, <2>5, <2>6, <2>7 DEF Next
<1> QED
  BY <1>1, <1>2, PTL DEF Spec

\* A process that reports success (ApplyDocuments returning no error) leaves in
\* the registry what the documents declare, the stable version and the included
\* rollouts too, however the requests of other processes, operators and late
\* requests interleave with its own.
THEOREM SuccessMeansDeclared == Spec => []DoneMeansDeclared
<1>1. ApplyInv => DoneMeansDeclared
  <2> SUFFICES ASSUME ApplyInv, NEW p \in Appliers, status[p] = "done", NEW d \in Documents
               PROVE  Declared(p, d)
    BY DEF DoneMeansDeclared
  <2>1. InPlace(p, d)
    BY DEF ApplyInv, BehindInPlace
  <2>2. CASE d.kind = "StableVersion"
    <3>1. d.key \in Keys /\ stable[d.key] # 0
      BY <2>1, <2>2, DocumentFacts DEF OfKind, InPlace
    <3> QED
      BY <2>2, <3>1 DEF ApplyInv, StableRight, Declared
  <2>3. CASE d.kind = "Rollout"
    <3>1. VersionDoc(d.ref).key = d.key
      BY <2>3, DocumentFacts DEF OfKind
    <3> QED
      BY <2>1, <2>3, <3>1 DEF InPlace, Holds, Declared
  <2>4. CASE d.kind \notin {"StableVersion", "Rollout"}
    BY <2>1, <2>4 DEF InPlace
  <2> QED
    BY <2>2, <2>3, <2>4
<1> QED
  BY <1>1, ApplyInvariant, PTL

\* The stable version changes only to a value declared as stable or to the
\* candidate of a rollout, and a rollout starts only for a value declared as a
\* candidate: applyVersion never takes another version for the declared one.
THEOREM AppliesOnlyDeclared == Spec => OnlyDeclared
<1> DEFINE Step == \A k \in Keys :
      /\ stable'[k] \notin {stable[k], candidate[k]} =>
            versions'[k][stable'[k]] \in DeclaredValues("StableVersion", k)
      /\ candidate'[k] \notin {candidate[k], 0} =>
            versions'[k][candidate'[k]] \in DeclaredValues("Rollout", k)
<1>1. ApplyInv /\ [Next]_applyVars => [Step]_applyVars
  <2> SUFFICES ASSUME ApplyInv, Next PROVE \A k \in Keys : ChangesAsDeclared(k)
    BY DEF ChangesAsDeclared
  <2> USE DEF ApplyInv
  <2>1. ASSUME NEW p \in Appliers, Post(p) PROVE \A k \in Keys : ChangesAsDeclared(k)
    BY <2>1, HandledAsDeclared DEF Post, AppliersTyped, RequestsRight
  <2>2. ASSUME NEW q \in late, CarriedOutLate(q) PROVE \A k \in Keys : ChangesAsDeclared(k)
    BY <2>2, ChangedLate DEF AppliersTyped, RequestsRight
  <2>3. CASE Operator \/ RolloutEngine
    BY <2>3, OthersChange
  <2>4. ASSUME NEW p \in Appliers,
               Read(p) \/ PostRefused(p) \/ Unanswered(p) \/ Finish(p) \/ Rerun(p)
        PROVE  \A k \in Keys : ChangesAsDeclared(k)
    BY <2>4 DEF Read, PostRefused, Unanswered, Finish, Rerun, registry, ChangesAsDeclared
  <2> QED
    BY <2>1, <2>2, <2>3, <2>4 DEF Next
<1> QED
  BY <1>1, ApplyInvariant, PTL DEF Spec, OnlyDeclared
=============================================================================
