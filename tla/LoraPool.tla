------------------------------ MODULE LoraPool ------------------------------
(***************************************************************************)
(* The adapters resident on one engine (internal/lora): the pool, which    *)
(* loads and evicts under its mutex, the router, which requests read under *)
(* a lock of its own while the pool is busy, and the engine.  A call to    *)
(* the engine can fail before or after it took effect.                     *)
(***************************************************************************)
EXTENDS Naturals, Sequences, FiniteSets, SequencesExt

CONSTANTS
    Adapter,
    NoAdapter,
    MaxSlots     \* maxSlots

ASSUME AdapterAssumption == NoAdapter \notin Adapter
ASSUME MaxSlotsAssumption == MaxSlots \in Nat \ {0}

VARIABLES
    resident,   \* Pool.order, least recently used first
    routable,   \* Router.resident, what Resolve accepts at any time
    engine,     \* external: the adapters the engine has loaded
    acquiring,  \* the adapter for which an Acquire holds the mutex
    evicting,   \* it waits for the engine to unload
    astray      \* history: adapters whose last call took effect and failed

poolVars == <<resident, routable, engine, acquiring, evicting, astray>>

PoolInit ==
    /\ resident = <<>>
    /\ routable = {}
    /\ engine = {}
    /\ acquiring = NoAdapter
    /\ evicting = FALSE
    /\ astray = {}

\* The router. A request resolves while its adapter is marked.
MarkLoaded(a) == routable' = routable \cup {a}
MarkUnloaded(a) == routable' = routable \ {a}

-----------------------------------------------------------------------------
(* Pool.Acquire.                                                           *)

\* The adapter is resident: it becomes the most recently used.
AcquireHit(a) ==
    /\ acquiring = NoAdapter
    /\ \E i \in DOMAIN resident :
          /\ resident[i] = a
          /\ resident' = Append(RemoveAt(resident, i), a)
    /\ UNCHANGED <<routable, engine, acquiring, evicting, astray>>

\* The adapter is not: a full pool first unloads the least recently used one.
\* The mutant is off by one.
FullLate == Len(resident) > MaxSlots
Full == Len(resident) >= MaxSlots

AcquireMiss(a) ==
    /\ acquiring = NoAdapter
    /\ a \notin ToSet(resident)
    /\ acquiring' = a
    /\ evicting' = Full
    /\ UNCHANGED <<resident, routable, engine, astray>>

\* The engine has unloaded the adapter, and the answer is still on its way.
EngineUnloads ==
    /\ evicting
    /\ Head(resident) \in engine
    /\ engine' = engine \ {Head(resident)}
    /\ UNCHANGED <<resident, routable, acquiring, evicting, astray>>

\* unload returns: the router and the pool forget the adapter.
Unloaded ==
    /\ evicting
    /\ Head(resident) \notin engine
    /\ MarkUnloaded(Head(resident))
    /\ resident' = Tail(resident)
    /\ astray' = astray \ {Head(resident)}
    /\ evicting' = FALSE
    /\ UNCHANGED <<engine, acquiring>>

\* unload fails, perhaps after it took effect: Acquire returns and everything
\* is kept.
UnloadFails ==
    /\ evicting
    /\ astray' = IF Head(resident) \in engine THEN astray
                   ELSE astray \cup {Head(resident)}
    /\ evicting' = FALSE
    /\ acquiring' = NoAdapter
    /\ UNCHANGED <<resident, routable, engine>>

\* The engine has loaded the adapter, and the answer is still on its way.
EngineLoads ==
    /\ acquiring # NoAdapter
    /\ ~evicting
    /\ acquiring \notin engine
    /\ engine' = engine \cup {acquiring}
    /\ UNCHANGED <<resident, routable, acquiring, evicting, astray>>

\* load returns: the router and the pool know the adapter.
Loaded ==
    /\ acquiring \in engine
    /\ ~evicting
    /\ MarkLoaded(acquiring)
    /\ resident' = Append(resident, acquiring)
    /\ astray' = astray \ {acquiring}
    /\ acquiring' = NoAdapter
    /\ UNCHANGED <<engine, evicting>>

\* load fails, perhaps after it took effect; the slot stays free.
LoadFails ==
    /\ acquiring # NoAdapter
    /\ ~evicting
    /\ astray' = IF acquiring \in engine THEN astray \cup {acquiring} ELSE astray
    /\ acquiring' = NoAdapter
    /\ UNCHANGED <<resident, routable, engine, evicting>>

-----------------------------------------------------------------------------
PoolNext ==
    \/ \E a \in Adapter : AcquireHit(a) \/ AcquireMiss(a)
    \/ EngineUnloads \/ Unloaded \/ UnloadFails
    \/ EngineLoads \/ Loaded \/ LoadFails

-----------------------------------------------------------------------------
(* Properties.                                                             *)

\* The router never offers an adapter the engine lost, except the one being
\* evicted until its unload returns, and the engine holds only adapters of
\* the pool and the one being loaded until its load returns, never more than
\* MaxSlots, as long as every failed call had no effect; failed loads and
\* unloads in between leave the three in step (pool.go: "keeping router's
\* resident set in sync with every load and eviction").
PoolInStep ==
    /\ routable = ToSet(resident) /\ IsInjective(resident)
    /\ Len(resident) <= MaxSlots
    /\ \A a \in routable \ engine :
          a \in astray \/ (evicting /\ a = Head(resident))
    /\ engine \subseteq routable \cup astray \cup (IF evicting THEN {} ELSE {acquiring})
    /\ astray = {} => Cardinality(engine) <= MaxSlots
=============================================================================
