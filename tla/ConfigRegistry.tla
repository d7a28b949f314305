---------------------------- MODULE ConfigRegistry ----------------------------
(***************************************************************************)
(* The config registry (internal/configregistry) behind the control-plane  *)
(* API: tenants, config definitions, their immutable numbered versions and *)
(* the stable version of each config in one environment.  Nothing is ever  *)
(* deleted, so what a handler has read before its write stays true and     *)
(* each request is one action.  A request that is not accepted changes     *)
(* nothing.                                                                *)
(*                                                                         *)
(* The rollout engine appears as the candidate that each config has in an  *)
(* unfinished rollout (RolloutLifecycle), and as the rows that rollouts    *)
(* leave behind.  Their requests ask for the default stages, whose ids are *)
(* the same in every rollout.                                              *)
(***************************************************************************)
EXTENDS Naturals, Sequences

CONSTANTS
    Tenants, Keys,
    TenantOf,      \* the tenant of each key
    Schemas, Values,
    Fits,          \* the pairs <<schema, value>> that JSON Schema validation accepts
    NoValue,       \* no default value, no definition
    StageIdsAreKeys   \* TRUE: the Postgres store; FALSE: the memory store

Definition == [schema : Schemas, default : Values \cup {NoValue}]

ASSUME RegistryAssumption ==
    /\ TenantOf \in [Keys -> Tenants]
    /\ Fits \subseteq Schemas \X Values
    /\ NoValue \notin Values
    /\ NoValue \notin Definition
    /\ StageIdsAreKeys \in BOOLEAN

VARIABLES
    tenants, definitions,
    versions,      \* by key, the values in the order of their version numbers
    stable,        \* by key, the number of the stable version, 0 for none
    candidate,     \* by key, the candidate of its unfinished rollout, 0 for none
    rolled         \* by key, the candidates of all its rollouts

registry == <<tenants, definitions, versions, stable, candidate, rolled>>

RegistryInit ==
    /\ tenants = {}
    /\ definitions = [k \in Keys |-> NoValue]
    /\ versions = [k \in Keys |-> <<>>]
    /\ stable = [k \in Keys |-> 0]
    /\ candidate = [k \in Keys |-> 0]
    /\ rolled = [k \in Keys |-> {}]

Numbers(k) == 1..Len(versions[k])

(* What each request must satisfy to be accepted *)

TenantAccepted(t) == t \notin tenants

DefinitionAccepted(k, definition) ==
    /\ TenantOf[k] \in tenants
    /\ definition.default # NoValue => <<definition.schema, definition.default>> \in Fits
    /\ definitions[k] = NoValue

VersionAccepted(k, value) ==
    /\ definitions[k] # NoValue
    /\ <<definitions[k].schema, value>> \in Fits

StableAccepted(k, n) == n \in Numbers(k)

\* The primary key of rollout_stages is the stage id alone, and no row of it is
\* ever deleted.
StageIdsTaken == StageIdsAreKeys /\ \E k \in Keys : rolled[k] # {}

RolloutAccepted(k, n) ==
    /\ n \in Numbers(k)
    /\ stable[k] \notin {0, n}
    /\ candidate[k] = 0
    /\ ~StageIdsTaken

-----------------------------------------------------------------------------
(* Requests *)

CreateTenant(t) ==
    /\ TenantAccepted(t)
    /\ tenants' = tenants \cup {t}
    /\ UNCHANGED <<definitions, versions, stable, candidate, rolled>>

CreateDefinition(k, definition) ==
    /\ DefinitionAccepted(k, definition)
    /\ definitions' = [definitions EXCEPT ![k] = definition]
    /\ UNCHANGED <<tenants, versions, stable, candidate, rolled>>

\* The next number is drawn and the row inserted in one transaction that locks
\* the definition.
CreateVersion(k, value) ==
    /\ VersionAccepted(k, value)
    /\ versions' = [versions EXCEPT ![k] = Append(@, value)]
    /\ UNCHANGED <<tenants, definitions, stable, candidate, rolled>>

SetStableVersion(k, n) ==
    /\ StableAccepted(k, n)
    /\ stable' = [stable EXCEPT ![k] = n]
    /\ UNCHANGED <<tenants, definitions, versions, candidate, rolled>>

\* CreateRollout of the rollout engine
StartRollout(k, n) ==
    /\ RolloutAccepted(k, n)
    /\ candidate' = [candidate EXCEPT ![k] = n]
    /\ rolled' = [rolled EXCEPT ![k] = @ \cup {n}]
    /\ UNCHANGED <<tenants, definitions, versions, stable>>

\* The rollout completes, which publishes its candidate, or is rolled back.
RolloutEnds(k) ==
    /\ candidate[k] # 0
    /\ stable' \in {stable, [stable EXCEPT ![k] = candidate[k]]}
    /\ candidate' = [candidate EXCEPT ![k] = 0]
    /\ UNCHANGED <<tenants, definitions, versions, rolled>>
=============================================================================
