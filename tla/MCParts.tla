------------------------------ MODULE MCParts ------------------------------
(* Eight parts of the system on small instances: exclusive GPU ownership,  *)
(* the caches of a node, live telemetry and its retention, schema          *)
(* migration, the placement decisions and the life of the process.  They   *)
(* share nothing, so a behaviour runs one of them.                         *)
EXTENDS GPUBinding, LocalCache, LoraPool, TelemetryHub, TelemetryRetention,
        Migration, Placement, Gateway

CONSTANTS k1, k2, k3, g1, g2, g3, t1, t2, b1, b2, b3

VARIABLE part

\* Two allocations of one tenant, one of another.
MCTenantOf == (b1 :> t1) @@ (b2 :> t1) @@ (b3 :> t2)

MCSize == (k1 :> 1) @@ (k2 :> 2) @@ (k3 :> 2)

MCPolicy == [base |-> 1, max |-> 6, attempts |-> 3]

\* 9_x.sql, 10_y.sql and 11_z.sql, listed by name; g1 runs an older release,
\* and in g3's two files have one version.
File(v, p) == [wellNamed |-> TRUE, version |-> v, place |-> p]
OldFiles == {File(9, 3), File(10, 1)}
MCFiles ==
    (g1 :> OldFiles)
    @@ (g2 :> OldFiles \cup {File(11, 2)})
    @@ (g3 :> OldFiles \cup {File(10, 4)})

Init ==
    /\ BindingInit
    /\ LRUInit
    /\ PoolInit
    /\ HubInit
    /\ RetentionInit
    /\ MigrationInit
    /\ DecisionInit
    /\ GatewayInit
    /\ part \in {"gpu", "lru", "pool", "hub", "retention", "migration", "decision",
                "gateway"}

Next ==
    /\ UNCHANGED part
    /\ \/ /\ part = "gpu" /\ BindingNext
          /\ UNCHANGED <<lruVars, poolVars, hubVars, retentionVars, migrationVars,
                         decisionVars, gatewayVars>>
       \/ /\ part = "lru" /\ LRUNext
          /\ UNCHANGED <<bindingVars, poolVars, hubVars, retentionVars, migrationVars,
                         decisionVars, gatewayVars>>
       \/ /\ part = "pool" /\ PoolNext
          /\ UNCHANGED <<bindingVars, lruVars, hubVars, retentionVars, migrationVars,
                         decisionVars, gatewayVars>>
       \/ /\ part = "hub" /\ HubNext
          /\ UNCHANGED <<bindingVars, lruVars, poolVars, retentionVars, migrationVars,
                         decisionVars, gatewayVars>>
       \/ /\ part = "retention" /\ RetentionNext
          /\ UNCHANGED <<bindingVars, lruVars, poolVars, hubVars, migrationVars,
                         decisionVars, gatewayVars>>
       \/ /\ part = "migration" /\ MigrationNext
          /\ UNCHANGED <<bindingVars, lruVars, poolVars, hubVars, retentionVars,
                         decisionVars, gatewayVars>>
       \/ /\ part = "decision" /\ DecisionNext
          /\ UNCHANGED <<bindingVars, lruVars, poolVars, hubVars, retentionVars,
                         migrationVars, gatewayVars>>
       \/ /\ part = "gateway" /\ GatewayNext
          /\ UNCHANGED <<bindingVars, lruVars, poolVars, hubVars, retentionVars,
                         migrationVars, decisionVars>>

Spec ==
    /\ Init
    /\ [][Next]_<<bindingVars, lruVars, poolVars, hubVars, retentionVars,
                 migrationVars, decisionVars, gatewayVars, part>>
    /\ BindingFairness
    /\ HubFairness
    /\ GatewayFairness
=============================================================================
