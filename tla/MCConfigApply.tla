---------------------------- MODULE MCConfigApply ----------------------------
(* Values of the constants of ConfigApply for TLC: the documents of the      *)
(* repository's example, one config with two versions, one of them stable    *)
(* and the other rolled out, here in the default stages.                     *)
EXTENDS ConfigApply

CONSTANTS t1, k1, number, anything, low, high

MCTenantOf == [k \in Keys |-> t1]
MCFits == {number, anything} \X {low, high}
MCDocuments ==
    {[kind |-> "Tenant", tenant |-> t1],
     [kind |-> "ConfigDefinition", key |-> k1, schema |-> number, default |-> NoValue],
     [kind |-> "ConfigVersion", name |-> "baseline", key |-> k1, value |-> low],
     [kind |-> "ConfigVersion", name |-> "canary", key |-> k1, value |-> high],
     [kind |-> "StableVersion", key |-> k1, ref |-> "baseline"],
     [kind |-> "Rollout", key |-> k1, ref |-> "canary", custom |-> FALSE]}
=============================================================================
