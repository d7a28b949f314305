-------------------------- MODULE MCSnapshotDelivery --------------------------
(* Values of the constants of SnapshotDelivery for TLC. *)
EXTENDS SnapshotDelivery

CONSTANTS a1   \* the agent whose bucket is in the first stage

MCBucketOf == [k \in Configs \X Versions \X Agents |-> IF k[3] = a1 THEN 100 ELSE 9000]
MCRowOrder ==
    [k \in Configs \X Versions \X SUBSET Agents |->
        SetToSortSeq(k[3], LAMBDA a, b :
            BucketOf[<<k[1], k[2], a>>] < BucketOf[<<k[1], k[2], b>>])]
MCStagePlan == <<[percentage |-> 50, minimumDuration |-> 0],
                 [percentage |-> 100, minimumDuration |-> 0]>>
MCAllServices == {{}}
MCGuarded == {Rules}
MCOneFailure == [rule \in Rules |-> 1]
=============================================================================
