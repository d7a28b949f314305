----------------------------- MODULE ConfigApply -----------------------------
(***************************************************************************)
(* cfgctl apply (internal/configcode): processes that bring the registry   *)
(* to the state a set of documents declares.  For each document, in the    *)
(* order of their kinds, a process first asks for what exists and then     *)
(* posts what is missing; at the first error it gives up, and somebody     *)
(* runs it again from the start.                                           *)
(*                                                                         *)
(* Several processes may apply the same documents, and operators use the   *)
(* API themselves, between any two requests.  A request whose answer does  *)
(* not come may have been lost, or may still be carried out later.         *)
(***************************************************************************)
EXTENDS ConfigRegistry

CONSTANTS
    Documents,         \* the documents of the manifests, a set of records
    Appliers,
    IncludeRollouts,   \* the appliers that run with --include-rollouts
    Nothing,           \* no request
    MaxLost,           \* bound on the requests that are not answered
    MaxOperated        \* operators add no version to a key that has this many

OfKind(kind) == {d \in Documents : d.kind = kind}

VersionNames == {d.name : d \in OfKind("ConfigVersion")}

\* The document a versionRef names; validation makes the names unique.
VersionDoc(name) == CHOOSE d \in OfKind("ConfigVersion") : d.name = name

\* validateManifest: cfgctl applies no documents that fail it.
ValidManifests ==
    /\ \A d \in Documents :
          d.kind \in {"Tenant", "ConfigDefinition", "ConfigVersion", "StableVersion", "Rollout"}
    /\ \A d \in OfKind("Tenant") : d.tenant \in Tenants
    /\ \A d \in OfKind("ConfigDefinition") :
          /\ d.key \in Keys /\ d.schema \in Schemas
          /\ d.default = NoValue \/ <<d.schema, d.default>> \in Fits
    /\ \A d \in OfKind("ConfigVersion") :
          /\ d.key \in Keys /\ d.value \in Values
          /\ \A e \in OfKind("ConfigVersion") : d.name = e.name => d = e
          /\ \E e \in OfKind("ConfigDefinition") :
                e.key = d.key /\ <<e.schema, d.value>> \in Fits
    /\ \A d \in OfKind("StableVersion") \cup OfKind("Rollout") :
          d.ref \in VersionNames /\ VersionDoc(d.ref).key = d.key
    /\ \A d \in OfKind("Rollout") : d.custom \in BOOLEAN   \* declares stages or guardrails

ASSUME DocumentAssumption ==
    /\ ValidManifests
    /\ IncludeRollouts \subseteq Appliers
    /\ Nothing \notin [doc : Documents, number : Nat]
    /\ MaxLost \in Nat
    /\ MaxOperated \in Nat

VARIABLES
    status,   \* of each applier: "running", "failed" or "done"
    left,     \* the documents it has not applied yet
    refs,     \* applyState.versionRefs: by version name a number, 0 for none
    posting,  \* the request it is about to post
    late,     \* requests without an answer that may still be carried out
    lost      \* how many requests were not answered so far

applyVars == <<registry, status, left, refs, posting, late, lost>>

-----------------------------------------------------------------------------
(* Reading *)

Rank(kind) ==
    CASE kind = "Tenant"           -> 1
      [] kind = "ConfigDefinition" -> 2
      [] kind = "ConfigVersion"    -> 3
      [] kind = "StableVersion"    -> 4
      [] kind = "Rollout"          -> 5

\* orderDocuments; the order within a kind is left open.
IsNext(p, d) == d \in left[p] /\ \A e \in left[p] : Rank(d.kind) <= Rank(e.kind)

\* Mutant: only the key is compared with the definition that exists.
MatchesAny(definition, d) == TRUE

Matches(definition, d) ==
    /\ definition.schema = d.schema
    /\ d.default \in {NoValue, definition.default}

\* The versions that applyVersion accepts in place of a new one.
SameValue(d) == {n \in Numbers(d.key) : versions[d.key][n] = d.value}

\* Mutant: the latest version is taken for the declared one.
LatestVersion(d, n) == n = Len(versions[d.key])

FirstMatch(d, n) == n \in SameValue(d) /\ \A m \in SameValue(d) : n <= m

Skips(p, d) ==
    \/ d.kind = "Tenant" /\ d.tenant \in tenants
    \/ d.kind = "ConfigDefinition" /\ definitions[d.key] # NoValue /\ Matches(definitions[d.key], d)
    \/ d.kind = "ConfigVersion" /\ SameValue(d) # {}
    \/ d.kind = "StableVersion" /\ stable[d.key] = refs[p][d.ref]
    \/ d.kind = "Rollout" /\ p \notin IncludeRollouts

\* The answer to the GET makes the applier give up: a definition that differs,
\* versions of a missing definition, a reference that was not applied.
Refuses(p, d) ==
    \/ /\ d.kind = "ConfigDefinition"
       /\ definitions[d.key] # NoValue /\ ~Matches(definitions[d.key], d)
    \/ d.kind = "ConfigVersion" /\ definitions[d.key] = NoValue
    \/ /\ d.kind = "StableVersion" \/ (d.kind = "Rollout" /\ p \in IncludeRollouts)
       /\ refs[p][d.ref] = 0

\* Mutant: a version that exists already is not remembered.
RememberNothing(p, d) == UNCHANGED refs

Remember(p, d) ==
    \/ d.kind # "ConfigVersion" /\ UNCHANGED refs
    \/ /\ d.kind = "ConfigVersion"
       /\ \E n \in Numbers(d.key) : FirstMatch(d, n) /\ refs' = [refs EXCEPT ![p][d.name] = n]

Request(p, d) ==
    [doc |-> d, number |-> IF d.kind \in {"StableVersion", "Rollout"} THEN refs[p][d.ref] ELSE 0]

Skip(p, d) ==
    /\ Skips(p, d) /\ ~Refuses(p, d)
    /\ left' = [left EXCEPT ![p] = @ \ {d}]
    /\ Remember(p, d)
    /\ UNCHANGED <<status, posting>>

Refuse(p, d) ==
    /\ Refuses(p, d)
    /\ status' = [status EXCEPT ![p] = "failed"]
    /\ UNCHANGED <<left, refs, posting>>

Prepare(p, d) ==
    /\ ~Skips(p, d) /\ ~Refuses(p, d)
    /\ posting' = [posting EXCEPT ![p] = Request(p, d)]
    /\ UNCHANGED <<status, left, refs>>

\* applyDocument up to its POST
Read(p) ==
    /\ status[p] = "running"
    /\ posting[p] = Nothing
    /\ \E d \in Documents : IsNext(p, d) /\ (Skip(p, d) \/ Refuse(p, d) \/ Prepare(p, d))
    /\ UNCHANGED <<registry, late, lost>>

-----------------------------------------------------------------------------
(* Writing *)

\* The definition that a ConfigDefinition document asks for.
DefinitionOf(d) == [schema |-> d.schema, default |-> d.default]

\* decodeRequest refuses unknown fields.  The stages and guardrails of a Rollout
\* document are sent under their Go names, which the control plane does not know.
Decodes(q) == q.doc.kind = "Rollout" => ~q.doc.custom

\* The handler that the request reaches in the control plane accepts it.
Accepts(q) ==
    CASE q.doc.kind = "Tenant"           -> TenantAccepted(q.doc.tenant)
      [] q.doc.kind = "ConfigDefinition" -> DefinitionAccepted(q.doc.key, DefinitionOf(q.doc))
      [] q.doc.kind = "ConfigVersion"    -> VersionAccepted(q.doc.key, q.doc.value)
      [] q.doc.kind = "StableVersion"    -> StableAccepted(q.doc.key, q.number)
      [] q.doc.kind = "Rollout"          -> Decodes(q) /\ RolloutAccepted(q.doc.key, q.number)

Handle(q) ==
    \/ q.doc.kind = "Tenant" /\ CreateTenant(q.doc.tenant)
    \/ q.doc.kind = "ConfigDefinition" /\ CreateDefinition(q.doc.key, DefinitionOf(q.doc))
    \/ q.doc.kind = "ConfigVersion" /\ CreateVersion(q.doc.key, q.doc.value)
    \/ q.doc.kind = "StableVersion" /\ SetStableVersion(q.doc.key, q.number)
    \/ q.doc.kind = "Rollout" /\ Decodes(q) /\ StartRollout(q.doc.key, q.number)

\* The request is carried out and answered; a new version comes with its number.
Post(p) ==
    /\ status[p] = "running"
    /\ posting[p] # Nothing
    /\ LET d == posting[p].doc
       IN  /\ Handle(posting[p])
           /\ left' = [left EXCEPT ![p] = @ \ {d}]
           /\ refs' = IF d.kind = "ConfigVersion"
                      THEN [refs EXCEPT ![p][d.name] = Len(versions[d.key]) + 1] ELSE refs
    /\ posting' = [posting EXCEPT ![p] = Nothing]
    /\ UNCHANGED <<status, late, lost>>

\* The control plane answers with an error.
PostRefused(p) ==
    /\ status[p] = "running"
    /\ posting[p] # Nothing
    /\ ~Accepts(posting[p])
    /\ status' = [status EXCEPT ![p] = "failed"]
    /\ posting' = [posting EXCEPT ![p] = Nothing]
    /\ UNCHANGED <<registry, left, refs, late, lost>>

\* The answer does not come in time, or the process is stopped.
Unanswered(p) ==
    /\ status[p] = "running"
    /\ lost < MaxLost
    /\ lost' = lost + 1
    /\ late' = late \cup ({posting[p]} \ {Nothing})
    /\ status' = [status EXCEPT ![p] = "failed"]
    /\ posting' = [posting EXCEPT ![p] = Nothing]
    /\ UNCHANGED <<registry, left, refs>>

CarriedOutLate(q) ==
    /\ q \in late
    /\ late' = late \ {q}
    /\ \/ Handle(q)
       \/ ~Accepts(q) /\ UNCHANGED registry
    /\ UNCHANGED <<status, left, refs, posting, lost>>

Finish(p) ==
    /\ status[p] = "running"
    /\ left[p] = {}
    /\ status' = [status EXCEPT ![p] = "done"]
    /\ UNCHANGED <<registry, left, refs, posting, late, lost>>

\* ApplyDocuments from the start, with an empty applyState
Rerun(p) ==
    /\ status[p] = "failed"
    /\ status' = [status EXCEPT ![p] = "running"]
    /\ left' = [left EXCEPT ![p] = Documents]
    /\ refs' = [refs EXCEPT ![p] = [name \in VersionNames |-> 0]]
    /\ UNCHANGED <<registry, posting, late, lost>>

\* Operators may define configs and add versions of their own; the stable
\* version of the declared configs is left to the documents.
Operator ==
    /\ \/ \E t \in Tenants : CreateTenant(t)
       \/ \E k \in Keys, definition \in Definition : CreateDefinition(k, definition)
       \/ \E k \in Keys, value \in Values :
             Len(versions[k]) < MaxOperated /\ CreateVersion(k, value)
    /\ UNCHANGED <<status, left, refs, posting, late, lost>>

RolloutEngine ==
    /\ \E k \in Keys : RolloutEnds(k)
    /\ UNCHANGED <<status, left, refs, posting, late, lost>>

-----------------------------------------------------------------------------
(* Specification *)

Init ==
    /\ RegistryInit
    /\ status = [p \in Appliers |-> "running"]
    /\ left = [p \in Appliers |-> Documents]
    /\ refs = [p \in Appliers |-> [name \in VersionNames |-> 0]]
    /\ posting = [p \in Appliers |-> Nothing]
    /\ late = {}
    /\ lost = 0

Next ==
    \/ \E p \in Appliers :
          Read(p) \/ Post(p) \/ PostRefused(p) \/ Unanswered(p) \/ Finish(p) \/ Rerun(p)
    \/ \E q \in late : CarriedOutLate(q)
    \/ Operator
    \/ RolloutEngine

Spec == Init /\ [][Next]_applyVars

\* A running process goes on, a failed one is run again, and rollouts end.
Fairness ==
    /\ WF_applyVars(RolloutEngine)
    /\ \A p \in Appliers :
          WF_applyVars(Read(p) \/ Post(p) \/ PostRefused(p) \/ Finish(p) \/ Rerun(p))

FairSpec == Spec /\ Fairness

-----------------------------------------------------------------------------
(* Properties *)

\* The values that documents of a kind name for a key.
DeclaredValues(kind, k) ==
    {VersionDoc(d.ref).value : d \in {e \in OfKind(kind) : e.key = k}}

\* What a document declares is so in the registry, as far as applier p is to
\* bring it about.  The stable version is the declared one, or the candidate of a
\* rollout since; a rollout may have ended.
Declared(p, d) ==
    CASE d.kind = "Tenant"           -> d.tenant \in tenants
      [] d.kind = "ConfigDefinition" -> definitions[d.key] # NoValue
                                        /\ definitions[d.key].schema = d.schema
                                        /\ d.default \in {NoValue, definitions[d.key].default}
      [] d.kind = "ConfigVersion"    -> SameValue(d) # {}
      [] d.kind = "StableVersion"    ->
            /\ stable[d.key] # 0
            /\ \/ versions[d.key][stable[d.key]] \in DeclaredValues("StableVersion", d.key)
               \/ stable[d.key] \in rolled[d.key]
      [] d.kind = "Rollout"          ->
            p \in IncludeRollouts =>
                \E n \in rolled[d.key] : versions[d.key][n] = VersionDoc(d.ref).value

\* However processes, operators, reruns and late requests interleave, the
\* stable version of a config becomes only one whose value a StableVersion
\* document declares, or the candidate of its rollout; and a rollout starts
\* only for a value that a Rollout document declares.
OnlyDeclared ==
    [][\A k \in Keys :
          /\ stable'[k] \notin {stable[k], candidate[k]} =>
                versions'[k][stable'[k]] \in DeclaredValues("StableVersion", k)
          /\ candidate'[k] \notin {candidate[k], 0} =>
                versions'[k][candidate'[k]] \in DeclaredValues("Rollout", k)]_applyVars

\* A process that reports success leaves a registry in which the tenants,
\* definitions and versions that the documents declare exist, the stable version
\* has a declared value or came from a rollout, and, with --include-rollouts, the
\* declared rollouts were started; and it stays so.
DoneMeansDeclared ==
    \A p \in Appliers : status[p] = "done" => \A d \in Documents : Declared(p, d)

\* An operator has defined a config differently.
Misdefined ==
    \E d \in OfKind("ConfigDefinition") :
        definitions[d.key] # NoValue /\ ~Matches(definitions[d.key], d)

\* The control plane will refuse a rollout of the documents whatever happens.
Unstartable == \E d \in OfKind("Rollout") : d.custom \/ StageIdsTaken

\* Running cfgctl apply again after errors, lost answers and refused rollouts
\* succeeds in the end, unless an operator has defined a config differently or a
\* rollout is to be started that cannot be.
RerunsSucceed ==
    \A p \in Appliers :
        []<>(status[p] = "done" \/ Misdefined \/ (p \in IncludeRollouts /\ Unstartable))
=============================================================================
