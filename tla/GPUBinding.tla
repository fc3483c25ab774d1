----------------------------- MODULE GPUBinding -----------------------------
(***************************************************************************)
(* Exclusive GPU ownership (internal/scheduler/gpubinding.go): the Redis   *)
(* hash gpu:binding:<device>, the three scripts that change it, and the    *)
(* VRAM zeroing pass between two tenants.                                  *)
(*                                                                         *)
(* Around the package, the model has what it is for: allocations that run  *)
(* on a device between Bind and Release, and the tenants' data that is in  *)
(* the device's memory.  Every script is one atomic step; a Redis error    *)
(* leaves the caller not knowing whether the script ran, and the Redis     *)
(* client sends a script again whose reply does not come.                  *)
(***************************************************************************)
EXTENDS Naturals, FiniteSets

CONSTANTS
    Devices, Tenants, Allocs,
    TenantOf,       \* the tenant an allocation belongs to
    Zeroers,        \* concurrent callers of ZeroDevice
    None,           \* no tenant, no allocation, no device
    MaxFaults       \* bound: Redis replies that are lost, calls and passes that return an error

ASSUME BindingAssumption ==
    /\ TenantOf \in [Allocs -> Tenants]
    /\ None \notin Devices \cup Tenants \cup Allocs
    /\ MaxFaults \in Nat

VARIABLES
    binding,     \* gpu:binding:<device>: tenant_id, allocation_id, zeroing
    allocation,  \* where each allocation is in its life, and its device
    zeroer,      \* where each ZeroDevice call is, and its device
    vram,        \* the tenants whose data is in each device's memory
    faults,      \* lost replies, Redis errors and failed passes so far
    mishap       \* history: what befell each device that the scripts do not prevent

bindingVars == <<binding, allocation, zeroer, vram, faults, mishap>>

\* A tenant bound a device one of its allocations runs on; ZeroDevice was
\* called on a device without a zeroing hold or with another call at work on
\* it; the client sent completeZeroScript again.
Mishaps == {"shared", "misused", "resent"}

Binding == [tenant : Tenants \cup {None}, alloc : Allocs \cup {None}, zeroing : BOOLEAN]
Unbound == [tenant |-> None, alloc |-> None, zeroing |-> FALSE]
BoundTo(a) == [tenant |-> TenantOf[a], alloc |-> a, zeroing |-> FALSE]
Zeroing == [tenant |-> None, alloc |-> None, zeroing |-> TRUE]

Allocation == [pc : {"new", "running", "stopped", "gone"}, device : Devices \cup {None}]
Zeroer == [pc : {"idle", "zeroing", "zeroed"}, device : Devices \cup {None}]
Idle == [pc |-> "idle", device |-> None]

RunsOn(a, d) == allocation[a] = [pc |-> "running", device |-> d]
ZeroesOn(z, d) == zeroer[z].device = d

BindingInit ==
    /\ binding = [d \in Devices |-> Unbound]
    /\ allocation = [a \in Allocs |-> [pc |-> "new", device |-> None]]
    /\ zeroer = [z \in Zeroers |-> Idle]
    /\ vram = [d \in Devices |-> {}]
    /\ faults = 0
    /\ mishap = [d \in Devices |-> {}]

-----------------------------------------------------------------------------
(* The scripts.                                                            *)

\* Mutant: bindScript does not compare tenants.
ClaimableByAnyone(a, d) == ~binding[d].zeroing

\* bindScript admits the claim: not mid-zeroing, unbound or the same tenant's.
Claimable(a, d) ==
    /\ ~binding[d].zeroing
    /\ binding[d].tenant \in {None, TenantOf[a]}

\* bindScript's HSET; a same-tenant claim overwrites allocation_id.
BindScript(a, d) ==
    /\ Claimable(a, d)
    /\ binding' = [binding EXCEPT ![d] = BoundTo(a)]

\* releaseScript: only the recorded allocation's release counts.
ReleaseScript(a, d) ==
    binding' = IF binding[d].alloc = a
               THEN [binding EXCEPT ![d] = Zeroing]
               ELSE binding

\* Mutant: completeZeroScript clears the record unless it is marked zeroing.
CompleteZeroScriptInverted(d) ==
    binding' = IF binding[d].zeroing
               THEN binding
               ELSE [binding EXCEPT ![d] = Unbound]

\* completeZeroScript: DEL the record if it is marked zeroing.
CompleteZeroScript(d) ==
    binding' = IF binding[d].zeroing
               THEN [binding EXCEPT ![d] = Unbound]
               ELSE binding

Fault ==
    /\ faults < MaxFaults
    /\ faults' = faults + 1

Mark(d, what) == mishap' = [mishap EXCEPT ![d] = @ \cup what]

-----------------------------------------------------------------------------
(* An allocation's life.                                                   *)

\* A same-tenant claim succeeds while an allocation of that tenant runs there.
Sharing(a, d) == \E b \in Allocs : RunsOn(b, d) /\ TenantOf[b] = TenantOf[a]

\* Bind succeeds: the allocation starts and loads its weights.
Bind(a, d) ==
    /\ allocation[a].pc = "new"
    /\ BindScript(a, d)
    /\ allocation' = [allocation EXCEPT ![a] = [pc |-> "running", device |-> d]]
    /\ vram' = [vram EXCEPT ![d] = @ \cup {TenantOf[a]}]
    /\ Mark(d, IF Sharing(a, d) THEN {"shared"} ELSE {})
    /\ UNCHANGED <<zeroer, faults>>

\* Bind ran but its reply was lost: nothing starts, and the client or the
\* caller may try again.
BindLost(a, d) ==
    /\ allocation[a].pc = "new"
    /\ BindScript(a, d)
    /\ Fault
    /\ Mark(d, IF Sharing(a, d) THEN {"shared"} ELSE {})
    /\ UNCHANGED <<allocation, zeroer, vram>>

\* The container exits; its device stays bound until Release.
Stop(a) ==
    /\ allocation[a].pc = "running"
    /\ allocation' = [allocation EXCEPT ![a].pc = "stopped"]
    /\ UNCHANGED <<binding, zeroer, vram, faults, mishap>>

Release(a) ==
    /\ allocation[a].pc = "stopped"
    /\ ReleaseScript(a, allocation[a].device)
    /\ allocation' = [allocation EXCEPT ![a] = [pc |-> "gone", device |-> None]]
    /\ UNCHANGED <<zeroer, vram, faults, mishap>>

\* Release ran but its reply was lost: the client or the caller runs it again.
ReleaseLost(a) ==
    /\ allocation[a].pc = "stopped"
    /\ ReleaseScript(a, allocation[a].device)
    /\ Fault
    /\ UNCHANGED <<allocation, zeroer, vram, mishap>>

-----------------------------------------------------------------------------
(* ZeroDevice: run the pass, then CompleteZero.                            *)

\* Any caller, for any device, at any time: the record is not looked at.
ZeroDevice(z, d) ==
    /\ zeroer[z] = Idle
    /\ zeroer' = [zeroer EXCEPT ![z] = [pc |-> "zeroing", device |-> d]]
    /\ Mark(d, IF binding[d].zeroing /\ ~ \E y \in Zeroers : ZeroesOn(y, d) THEN {} ELSE {"misused"})
    /\ UNCHANGED <<binding, allocation, vram, faults>>

\* The pass ends well: every byte of the device is cleared.
ZeroPass(z) ==
    /\ zeroer[z].pc = "zeroing"
    /\ vram' = [vram EXCEPT ![zeroer[z].device] = {}]
    /\ zeroer' = [zeroer EXCEPT ![z].pc = "zeroed"]
    /\ UNCHANGED <<binding, allocation, faults, mishap>>

\* Mutant: the pass's error is ignored.
ZeroPassErrorIgnored(z) ==
    /\ zeroer[z].pc = "zeroing"
    /\ zeroer' = [zeroer EXCEPT ![z].pc = "zeroed"]
    /\ Fault
    /\ UNCHANGED <<binding, allocation, vram, mishap>>

\* The pass fails: ZeroDevice returns and the hold stays.
ZeroPassFails(z) ==
    /\ zeroer[z].pc = "zeroing"
    /\ zeroer' = [zeroer EXCEPT ![z] = Idle]
    /\ Fault
    /\ UNCHANGED <<binding, allocation, vram, mishap>>

CompleteZero(z) ==
    /\ zeroer[z].pc = "zeroed"
    /\ CompleteZeroScript(zeroer[z].device)
    /\ zeroer' = [zeroer EXCEPT ![z] = Idle]
    /\ UNCHANGED <<allocation, vram, faults, mishap>>

\* CompleteZero returns an error, whether or not the script ran.
CompleteZeroFault(z) ==
    /\ zeroer[z].pc = "zeroed"
    /\ CompleteZeroScript(zeroer[z].device) \/ UNCHANGED binding
    /\ zeroer' = [zeroer EXCEPT ![z] = Idle]
    /\ Fault
    /\ UNCHANGED <<allocation, vram, mishap>>

\* The reply to completeZeroScript is lost and the client sends it again.
CompleteZeroResend(z) ==
    /\ zeroer[z].pc = "zeroed"
    /\ CompleteZeroScript(zeroer[z].device)
    /\ Mark(zeroer[z].device, {"resent"})
    /\ Fault
    /\ UNCHANGED <<allocation, zeroer, vram>>

-----------------------------------------------------------------------------
BindingNext ==
    \/ \E a \in Allocs :
         \/ \E d \in Devices : Bind(a, d) \/ BindLost(a, d)
         \/ Stop(a) \/ Release(a) \/ ReleaseLost(a)
    \/ \E z \in Zeroers :
         \/ \E d \in Devices : ZeroDevice(z, d)
         \/ ZeroPass(z) \/ ZeroPassFails(z)
         \/ CompleteZero(z) \/ CompleteZeroFault(z) \/ CompleteZeroResend(z)

BindingSpec == BindingInit /\ [][BindingNext]_bindingVars

\* Someone calls ZeroDevice for a released device again and again; a pass that
\* was begun ends, and not every pass fails.  Zeroers only bounds how many calls are under way
\* at once, so a call that finds them all busy is made later.
BindingFairness ==
    /\ \A a \in Allocs : WF_bindingVars(Stop(a)) /\ WF_bindingVars(Release(a))
    /\ \A d \in Devices :
         SF_bindingVars(binding[d].zeroing /\ \E z \in Zeroers : ZeroDevice(z, d))
    /\ \A z \in Zeroers : WF_bindingVars(ZeroPass(z)) /\ WF_bindingVars(CompleteZero(z))

-----------------------------------------------------------------------------
(* Properties                                                              *)

BindingTypeOK ==
    /\ binding \in [Devices -> Binding]
    /\ allocation \in [Allocs -> Allocation]
    /\ zeroer \in [Zeroers -> Zeroer]
    /\ vram \in [Devices -> SUBSET Tenants]
    /\ faults \in Nat
    /\ mishap \in [Devices -> SUBSET Mishaps]

\* No two tenants' allocations ever run on the same device, whatever is lost,
\* repeated, zeroed too often or too early; except a device that a tenant bound
\* for an allocation while another one of its allocations ran there.
ExclusiveTenancy ==
    \A a, b \in Allocs, d \in Devices :
        RunsOn(a, d) /\ RunsOn(b, d) => TenantOf[a] = TenantOf[b] \/ "shared" \in mishap[d]

\* While an allocation runs, the device's memory holds its tenant's data and
\* nobody else's: nothing is left over from an earlier tenant, and no zeroing
\* pass of an earlier release clears it under the running allocation.  What
\* happens to a device with a mishap leaves the others alone.
NoForeignData ==
    \A a \in Allocs, d \in Devices : RunsOn(a, d) => vram[d] = {TenantOf[a]} \/ mishap[d] # {}

\* A device that Bind would give to any tenant holds no tenant's data.
FreeMeansClean ==
    \A d \in Devices : binding[d] = Unbound => vram[d] = {} \/ mishap[d] # {}

\* A released device becomes claimable again once the pass succeeds.
EventuallyReclaimed ==
    \A d \in Devices : binding[d].zeroing ~> ~binding[d].zeroing

\* A device's record leaves one tenant only through the zeroing hold: no step
\* hands it from a tenant straight to another, or straight to free.
ThroughZeroing ==
    [][\A d \in Devices :
         binding[d].tenant # None /\ binding'[d].tenant # binding[d].tenant
            => binding'[d].zeroing]_bindingVars

-----------------------------------------------------------------------------
(* The inductive invariant behind the first three.  The records of a       *)
(* device need only that no tenant shared it; its memory, that nothing     *)
(* befell it at all.                                                       *)

UseIsRecorded ==
    \A a \in Allocs, d \in Devices :
        RunsOn(a, d) /\ "shared" \notin mishap[d] => binding[d] = BoundTo(a)

RecordIsWhole ==
    \A d \in Devices :
        \/ binding[d] = Unbound
        \/ binding[d] = Zeroing
        \/ \E a \in Allocs : binding[d] = BoundTo(a)

DataIsOwned ==
    \A d \in Devices : mishap[d] = {} =>
        /\ ~binding[d].zeroing => vram[d] \subseteq {binding[d].tenant}
        /\ \A a \in Allocs : RunsOn(a, d) => TenantOf[a] \in vram[d]

PassIsAwaited ==
    \A z \in Zeroers :
        /\ zeroer[z].pc = "idle" => zeroer[z] = Idle
        /\ zeroer[z].pc # "idle" =>
             /\ zeroer[z].device \in Devices
             /\ mishap[zeroer[z].device] = {} => binding[zeroer[z].device].zeroing
        /\ zeroer[z].pc = "zeroed" /\ mishap[zeroer[z].device] = {} => vram[zeroer[z].device] = {}

OnePassPerDevice ==
    \A y, z \in Zeroers :
        zeroer[y].device = zeroer[z].device /\ zeroer[y].device # None =>
            y = z \/ mishap[zeroer[y].device] # {}

DeviceInUse ==
    \A a \in Allocs : allocation[a].pc \in {"running", "stopped"} => allocation[a].device \in Devices

\* The three properties above, strengthened until every step preserves them.
BindingInv ==
    /\ BindingTypeOK
    /\ UseIsRecorded
    /\ RecordIsWhole
    /\ DataIsOwned
    /\ PassIsAwaited
    /\ OnePassPerDevice
    /\ DeviceInUse

=============================================================================
