----------------------------- MODULE PartsProofs -----------------------------
(***************************************************************************)
(* Theorems about the parts of the system that share no state with the     *)
(* others: GPUBinding, for any devices, tenants, allocations and zeroing   *)
(* workers and any number of Redis errors; LoraPool, for any adapters and  *)
(* slots; LocalCache, for any artifacts, sizes, bound and deployments;     *)
(* TelemetryHub, for any connections; TelemetryRetention, for any samples, *)
(* jobs and threshold; Migration, for any replicas and releases;           *)
(* Placement, for any nodes, policies and width of the integers; Gateway,  *)
(* for any requests.                                                       *)
(***************************************************************************)
EXTENDS GPUBinding, LocalCache, LoraPool, TelemetryHub, TelemetryRetention,
        Migration, Placement, Gateway, SequenceTheorems, FiniteSetTheorems,
        NaturalsInduction, WellFoundedInduction, TLAPS

\* The fields of every record a script writes.
LEMMA RecordFields ==
    /\ Unbound \in Binding /\ Zeroing \in Binding
    /\ \A a \in Allocs : BoundTo(a) \in Binding
    /\ ~Unbound.zeroing /\ Zeroing.zeroing /\ \A a \in Allocs : ~BoundTo(a).zeroing
    /\ Unbound.tenant = None /\ Zeroing.tenant = None
    /\ \A a \in Allocs : BoundTo(a).tenant = TenantOf[a] /\ BoundTo(a).alloc = a
    /\ Unbound.alloc = None /\ Zeroing.alloc = None
    /\ Idle \in Zeroer /\ Idle.pc = "idle" /\ Idle.device = None
    /\ \A a \in Allocs : TenantOf[a] \in Tenants /\ TenantOf[a] # None /\ a # None
    /\ \A d \in Devices : d # None
  BY BindingAssumption DEF Unbound, Zeroing, BoundTo, Binding, Idle, Zeroer

\* No step of any caller, with or without a Redis error, leaves the types.
LEMMA TypeStep == BindingTypeOK /\ [BindingNext]_bindingVars => BindingTypeOK'
<1> SUFFICES ASSUME BindingTypeOK, [BindingNext]_bindingVars PROVE BindingTypeOK'
  OBVIOUS
<1> USE RecordFields DEF BindingTypeOK
<1>1. ASSUME NEW a \in Allocs, NEW d \in Devices, Bind(a, d) PROVE BindingTypeOK'
  BY <1>1 DEF Bind, BindScript, Allocation, Mark, Mishaps
<1>2. ASSUME NEW a \in Allocs, NEW d \in Devices, BindLost(a, d) PROVE BindingTypeOK'
  BY <1>2 DEF BindLost, BindScript, Fault, Mark, Mishaps
<1>3. ASSUME NEW a \in Allocs, Stop(a) PROVE BindingTypeOK'
  BY <1>3 DEF Stop, Allocation
<1>4. ASSUME NEW a \in Allocs, Release(a) PROVE BindingTypeOK'
  BY <1>4 DEF Release, ReleaseScript, Allocation
<1>5. ASSUME NEW a \in Allocs, ReleaseLost(a) PROVE BindingTypeOK'
  <2>1. binding' \in [Devices -> Binding]
    BY <1>5 DEF ReleaseLost, ReleaseScript
  <2> QED
    BY <1>5, <2>1 DEF ReleaseLost, Fault
<1>6. ASSUME NEW z \in Zeroers, NEW d \in Devices, ZeroDevice(z, d) PROVE BindingTypeOK'
  BY <1>6 DEF ZeroDevice, Zeroer, Mark, Mishaps
<1>7. ASSUME NEW z \in Zeroers, ZeroPass(z) PROVE BindingTypeOK'
  <2>1. zeroer' \in [Zeroers -> Zeroer]
    BY <1>7 DEF ZeroPass, Zeroer
  <2>2. vram' \in [Devices -> SUBSET Tenants]
    BY <1>7 DEF ZeroPass
  <2> QED
    BY <1>7, <2>1, <2>2 DEF ZeroPass
<1>8. ASSUME NEW z \in Zeroers, ZeroPassFails(z) PROVE BindingTypeOK'
  BY <1>8 DEF ZeroPassFails, Fault
<1>9. ASSUME NEW z \in Zeroers, CompleteZero(z) PROVE BindingTypeOK'
  BY <1>9 DEF CompleteZero, CompleteZeroScript
<1>10. ASSUME NEW z \in Zeroers, CompleteZeroFault(z) PROVE BindingTypeOK'
  BY <1>10 DEF CompleteZeroFault, CompleteZeroScript, Fault
<1>11. ASSUME NEW z \in Zeroers, CompleteZeroResend(z) PROVE BindingTypeOK'
  <2>1. binding' \in [Devices -> Binding]
    BY <1>11 DEF CompleteZeroResend, CompleteZeroScript
  <2>2. mishap' \in [Devices -> SUBSET Mishaps]
    BY <1>11 DEF CompleteZeroResend, Mark, Mishaps
  <2> QED
    BY <1>11, <2>1, <2>2 DEF CompleteZeroResend, Fault
<1>12. CASE UNCHANGED bindingVars
  BY <1>12 DEF bindingVars
<1> QED
  BY <1>1, <1>2, <1>3, <1>4, <1>5, <1>6, <1>7, <1>8, <1>9, <1>10, <1>11, <1>12 DEF BindingNext

\* Every variable keeps its type, whatever the callers do.
THEOREM TypeCorrect == BindingSpec => []BindingTypeOK
<1>1. BindingInit => BindingTypeOK
  BY RecordFields DEF BindingInit, BindingTypeOK, Allocation
<1> QED
  BY <1>1, TypeStep, PTL DEF BindingSpec

-----------------------------------------------------------------------------
\* A step of the scripts on the record keeps each record whole.
LEMMA RecordStep ==
    ASSUME BindingTypeOK, RecordIsWhole, [BindingNext]_bindingVars PROVE RecordIsWhole'
<1> USE RecordFields DEF BindingTypeOK, RecordIsWhole
<1>1. ASSUME NEW a \in Allocs, NEW d \in Devices, BindScript(a, d) PROVE RecordIsWhole'
  <2>1. \A e \in Devices : binding'[e] \in {binding[e], BoundTo(a)}
    BY <1>1 DEF BindScript
  <2> QED
    BY <2>1
<1>2. ASSUME NEW a \in Allocs, NEW d, ReleaseScript(a, d) PROVE RecordIsWhole'
  <2>1. \A e \in Devices : binding'[e] \in {binding[e], Zeroing}
    BY <1>2 DEF ReleaseScript
  <2> QED
    BY <2>1
<1>3. ASSUME NEW d, CompleteZeroScript(d) PROVE RecordIsWhole'
  <2>1. \A e \in Devices : binding'[e] \in {binding[e], Unbound}
    BY <1>3 DEF CompleteZeroScript
  <2> QED
    BY <2>1
<1>4. CASE UNCHANGED binding
  BY <1>4 DEF BoundTo, Unbound, Zeroing
<1> QED
  BY <1>1, <1>2, <1>3, <1>4 DEF BindingNext, bindingVars, Bind, BindLost, Stop, Release, ReleaseLost,
     ZeroDevice, ZeroPass, ZeroPassFails, CompleteZero, CompleteZeroFault, CompleteZeroResend

\* A step only adds to what befell a device.
LEMMA MishapsStay ==
    ASSUME BindingTypeOK, [BindingNext]_bindingVars PROVE \A e \in Devices : mishap[e] \subseteq mishap'[e]
<1>1. ASSUME NEW d, NEW what, Mark(d, what) PROVE \A e \in Devices : mishap[e] \subseteq mishap'[e]
  BY <1>1 DEF BindingTypeOK, Mark
<1>2. CASE UNCHANGED mishap
  BY <1>2
<1> QED
  BY <1>1, <1>2 DEF BindingNext, bindingVars, Bind, BindLost, Stop, Release, ReleaseLost,
     ZeroDevice, ZeroPass, ZeroPassFails, CompleteZero, CompleteZeroFault, CompleteZeroResend

\* A claim the script admits, on a device the claimer's tenant does not share
\* with itself, is for a device on which no other allocation runs; and if
\* nothing befell the device, it holds no data but the claimer's tenant's and
\* no pass is at work on it.
LEMMA ClaimFacts ==
    ASSUME BindingInv, NEW a \in Allocs, NEW d \in Devices, Claimable(a, d), ~Sharing(a, d)
    PROVE  /\ "shared" \notin mishap[d] => \A b \in Allocs : ~RunsOn(b, d)
           /\ mishap[d] = {} =>
                /\ vram[d] \subseteq {TenantOf[a]}
                /\ \A z \in Zeroers : zeroer[z].pc # "idle" => zeroer[z].device # d
<1> USE RecordFields DEF BindingInv, BindingTypeOK, Claimable
<1>1. mishap[d] = {} => vram[d] \subseteq {TenantOf[a]}
  BY BindingAssumption DEF DataIsOwned
<1>2. ASSUME NEW b \in Allocs, RunsOn(b, d), "shared" \notin mishap[d] PROVE FALSE
  <2>1. binding[d] = BoundTo(b)
    BY <1>2 DEF UseIsRecorded
  <2>2. TenantOf[b] = TenantOf[a]
    BY <2>1
  <2> QED
    BY <1>2, <2>2 DEF Sharing
<1>3. mishap[d] = {} => \A z \in Zeroers : zeroer[z].pc # "idle" => zeroer[z].device # d
  BY DEF PassIsAwaited
<1> QED
  BY <1>1, <1>2, <1>3

\* Whether the claimer starts or its reply was lost, a claim preserves the
\* facts about running allocations, data and passes.
LEMMA BindStep ==
    ASSUME BindingInv, BindingTypeOK', NEW a \in Allocs, NEW d \in Devices,
           Bind(a, d) \/ BindLost(a, d)
    PROVE  /\ UseIsRecorded' /\ DataIsOwned' /\ PassIsAwaited'
           /\ OnePassPerDevice' /\ DeviceInUse'
<1> USE RecordFields DEF BindingInv, BindingTypeOK
<1>1. Claimable(a, d) /\ BindScript(a, d) /\ UNCHANGED zeroer
  BY DEF Bind, BindLost, BindScript
<1>2. /\ \A e \in Devices \ {d} : mishap'[e] = mishap[e]
      /\ mishap'[d] = IF Sharing(a, d) THEN mishap[d] \cup {"shared"} ELSE mishap[d]
  <2>1. Mark(d, IF Sharing(a, d) THEN {"shared"} ELSE {})
    BY DEF Bind, BindLost
  <2> QED
    BY <2>1 DEF Mark
<1>3. "shared" \notin mishap'[d] =>
        "shared" \notin mishap[d] /\ ~Sharing(a, d) /\ \A b \in Allocs : ~RunsOn(b, d)
  BY <1>1, <1>2, ClaimFacts
<1>4. mishap'[d] = {} =>
        /\ mishap[d] = {} /\ vram[d] \subseteq {TenantOf[a]}
        /\ \A b \in Allocs : ~RunsOn(b, d)
        /\ \A z \in Zeroers : zeroer[z].pc # "idle" => zeroer[z].device # d
  BY <1>1, <1>2, ClaimFacts
<1>5. /\ binding'[d] = BoundTo(a)
      /\ \A e \in Devices \ {d} : binding'[e] = binding[e]
  BY <1>1 DEF BindScript
<1>6. /\ vram'[d] \in {vram[d], vram[d] \cup {TenantOf[a]}}
      /\ \A e \in Devices \ {d} : vram'[e] = vram[e]
      /\ Bind(a, d) => TenantOf[a] \in vram'[d]
  BY DEF Bind, BindLost
<1>7. \A b \in Allocs, e \in Devices : RunsOn(b, e)' =>
        RunsOn(b, e) \/ (Bind(a, d) /\ b = a /\ e = d)
  BY DEF RunsOn, Bind, BindLost
<1>8. UseIsRecorded'
  <2> SUFFICES ASSUME NEW b \in Allocs, NEW e \in Devices, RunsOn(b, e)', "shared" \notin mishap'[e]
               PROVE  binding'[e] = BoundTo(b)
    BY DEF UseIsRecorded
  <2>1. CASE e = d
    BY <2>1, <1>3, <1>5, <1>7
  <2>2. CASE e # d
    BY <2>2, <1>2, <1>5, <1>7 DEF UseIsRecorded
  <2> QED
    BY <2>1, <2>2
<1>9. DataIsOwned'
  <2> SUFFICES ASSUME NEW e \in Devices, mishap'[e] = {}
               PROVE  /\ ~binding'[e].zeroing => vram'[e] \subseteq {binding'[e].tenant}
                      /\ \A b \in Allocs : RunsOn(b, e)' => TenantOf[b] \in vram'[e]
    BY DEF DataIsOwned
  <2>1. CASE e = d
    BY <2>1, <1>4, <1>5, <1>6, <1>7
  <2>2. CASE e # d
    BY <2>2, <1>2, <1>5, <1>6, <1>7 DEF DataIsOwned
  <2> QED
    BY <2>1, <2>2
<1>10. PassIsAwaited'
  <2> SUFFICES ASSUME NEW z \in Zeroers, zeroer[z].pc # "idle", mishap'[zeroer[z].device] = {}
               PROVE  /\ binding'[zeroer[z].device].zeroing
                      /\ zeroer[z].pc = "zeroed" => vram'[zeroer[z].device] = {}
    BY <1>1 DEF PassIsAwaited
  <2>1. zeroer[z].device \in Devices \ {d}
    BY <1>4 DEF PassIsAwaited
  <2> QED
    BY <1>2, <1>5, <1>6, <2>1 DEF PassIsAwaited
<1>11. OnePassPerDevice'
  <2> SUFFICES ASSUME NEW y \in Zeroers, NEW z \in Zeroers, y # z,
                      zeroer[y].device = zeroer[z].device, zeroer[y].device # None
               PROVE  mishap'[zeroer[y].device] # {}
    BY <1>1 DEF OnePassPerDevice
  <2>1. mishap[zeroer[y].device] # {} /\ zeroer[y].device \in Devices
    BY DEF OnePassPerDevice, Zeroer
  <2> QED
    BY <1>2, <2>1
<1>12. DeviceInUse'
  BY DEF DeviceInUse, Bind, BindLost
<1> QED
  BY <1>8, <1>9, <1>10, <1>11, <1>12

\* releaseScript changes at most the record of the releasing allocation.
LEMMA ReleaseEffect ==
    ASSUME BindingTypeOK, NEW a \in Allocs, NEW d \in Devices, ReleaseScript(a, d)
    PROVE  \A e \in Devices :
             binding'[e] = binding[e] \/ (binding[e].alloc = a /\ binding'[e] = Zeroing)
<1>1. CASE binding[d].alloc = a
  <2>1. binding' = [binding EXCEPT ![d] = Zeroing]
    BY <1>1 DEF ReleaseScript
  <2> QED
    BY <1>1, <2>1 DEF BindingTypeOK
<1>2. CASE binding[d].alloc # a
  BY <1>2 DEF ReleaseScript
<1> QED
  BY <1>1, <1>2

\* A release of a stopped allocation touches no running one and no pass.
LEMMA ReleaseStep ==
    ASSUME BindingInv, BindingTypeOK', NEW a \in Allocs, Release(a) \/ ReleaseLost(a)
    PROVE  /\ UseIsRecorded' /\ DataIsOwned' /\ PassIsAwaited'
           /\ OnePassPerDevice' /\ DeviceInUse'
<1> USE RecordFields DEF BindingInv, BindingTypeOK
<1> DEFINE d == allocation[a].device
<1>1. /\ allocation[a].pc = "stopped" /\ d \in Devices
      /\ ReleaseScript(a, d) /\ UNCHANGED <<zeroer, vram, mishap>>
  BY DEF Release, ReleaseLost, DeviceInUse
<1>2. \A e \in Devices : binding'[e] = binding[e] \/ (binding[e].alloc = a /\ binding'[e] = Zeroing)
  BY <1>1, ReleaseEffect
<1>3. \A b \in Allocs, e \in Devices : RunsOn(b, e)' => RunsOn(b, e)
  BY DEF RunsOn, Release, ReleaseLost
<1>4. UseIsRecorded'
  <2> SUFFICES ASSUME NEW b \in Allocs, NEW e \in Devices, RunsOn(b, e)', "shared" \notin mishap[e]
               PROVE  binding'[e] = BoundTo(b)
    BY <1>1 DEF UseIsRecorded
  <2>1. RunsOn(b, e) /\ b # a
    BY <1>1, <1>3 DEF RunsOn
  <2>2. binding[e] = BoundTo(b)
    BY <2>1 DEF UseIsRecorded
  <2> QED
    BY <1>2, <2>1, <2>2
<1>5. DataIsOwned'
  BY <1>1, <1>2, <1>3 DEF DataIsOwned
<1>6. PassIsAwaited'
  BY <1>1, <1>2 DEF PassIsAwaited
<1>7. OnePassPerDevice'
  BY <1>1 DEF OnePassPerDevice
<1>8. DeviceInUse'
  BY DEF DeviceInUse, Release, ReleaseLost
<1> QED
  BY <1>4, <1>5, <1>6, <1>7, <1>8

\* The call of ZeroDevice: on a device with no hold, or beside another call,
\* it marks the device.
LEMMA ZeroCallStep ==
    ASSUME BindingInv, BindingTypeOK', NEW z \in Zeroers, NEW d \in Devices, ZeroDevice(z, d)
    PROVE  UseIsRecorded' /\ DataIsOwned' /\ PassIsAwaited' /\ OnePassPerDevice'
<1> USE RecordFields DEF BindingInv, BindingTypeOK
<1>1. /\ UNCHANGED <<binding, allocation, vram>>
      /\ zeroer'[z].pc = "zeroing" /\ zeroer'[z].device = d
      /\ \A y \in Zeroers \ {z} : zeroer'[y] = zeroer[y]
  BY DEF ZeroDevice
<1>2. /\ \A e \in Devices : mishap[e] \subseteq mishap'[e]
      /\ mishap'[d] = {} => binding[d].zeroing /\ \A y \in Zeroers : zeroer[y].device # d
  BY DEF ZeroDevice, Mark, ZeroesOn
<1>3. UseIsRecorded' /\ DataIsOwned'
  BY <1>1, <1>2 DEF UseIsRecorded, DataIsOwned, RunsOn
<1>4. PassIsAwaited'
  <2> SUFFICES ASSUME NEW y \in Zeroers
               PROVE  /\ zeroer'[y].pc = "idle" => zeroer'[y] = Idle
                      /\ zeroer'[y].pc # "idle" =>
                           /\ zeroer'[y].device \in Devices
                           /\ mishap'[zeroer'[y].device] = {} => binding'[zeroer'[y].device].zeroing
                      /\ zeroer'[y].pc = "zeroed" /\ mishap'[zeroer'[y].device] = {} => vram'[zeroer'[y].device] = {}
    BY DEF PassIsAwaited
  <2>1. CASE y = z
    BY <2>1, <1>1, <1>2
  <2>2. CASE y # z
    BY <2>2, <1>1, <1>2 DEF PassIsAwaited
  <2> QED
    BY <2>1, <2>2
<1>5. OnePassPerDevice'
  <2> SUFFICES ASSUME NEW x \in Zeroers, NEW y \in Zeroers, x # y,
                      zeroer'[x].device = zeroer'[y].device, zeroer'[x].device # None
               PROVE  mishap'[zeroer'[x].device] # {}
    BY DEF OnePassPerDevice
  <2>1. CASE x = z \/ y = z
    BY <2>1, <1>1, <1>2
  <2>2. CASE x # z /\ y # z
    <3>1. mishap[zeroer[x].device] # {} /\ zeroer[x].device \in Devices
      BY <2>2, <1>1 DEF OnePassPerDevice, Zeroer
    <3> QED
      BY <2>2, <1>1, <1>2, <3>1
  <2> QED
    BY <2>1, <2>2
<1> QED
  BY <1>3, <1>4, <1>5

\* A pass that ends, well or badly, and the lifting of the hold after it, once
\* or, resent, twice, touch no running allocation and no other pass of a device
\* that nothing befell.
LEMMA PassStep ==
    ASSUME BindingInv, BindingTypeOK', NEW z \in Zeroers,
           \/ ZeroPass(z) \/ ZeroPassFails(z)
           \/ CompleteZero(z) \/ CompleteZeroFault(z) \/ CompleteZeroResend(z)
    PROVE  UseIsRecorded' /\ DataIsOwned' /\ PassIsAwaited' /\ OnePassPerDevice'
<1> USE RecordFields DEF BindingInv, BindingTypeOK
<1>0. \A b \in Allocs, e \in Devices : RunsOn(b, e)' <=> RunsOn(b, e)
  BY DEF ZeroPass, ZeroPassFails, CompleteZero, CompleteZeroFault, CompleteZeroResend, RunsOn
<1> DEFINE d == zeroer[z].device
<1>1. /\ zeroer[z].pc # "idle" /\ d \in Devices /\ d # None
      /\ mishap[d] = {} => binding[d].zeroing
      /\ zeroer[z].pc = "zeroed" /\ mishap[d] = {} => vram[d] = {}
  BY DEF PassIsAwaited, ZeroPass, ZeroPassFails, CompleteZero, CompleteZeroFault, CompleteZeroResend
<1>2. mishap[d] = {} => \A y \in Zeroers \ {z} : zeroer[y].device # d
  BY <1>1 DEF OnePassPerDevice
<1>3. mishap[d] = {} => \A b \in Allocs : ~RunsOn(b, d)
  BY <1>1 DEF UseIsRecorded
<1>4. /\ \A e \in Devices \ {d} : /\ binding'[e] = binding[e] /\ vram'[e] = vram[e]
                                   /\ mishap'[e] = mishap[e]
      /\ mishap[d] \subseteq mishap'[d]
      /\ \A y \in Zeroers \ {z} : zeroer'[y] = zeroer[y]
  BY <1>1 DEF ZeroPass, ZeroPassFails, CompleteZero, CompleteZeroFault, CompleteZeroResend,
     CompleteZeroScript, Mark
<1>5. /\ binding'[d] = binding[d] \/ (binding[d].zeroing /\ binding'[d] = Unbound)
      /\ vram'[d] \in {vram[d], {}}
      /\ binding'[d] # binding[d] => vram'[d] = vram[d] /\ zeroer[z].pc = "zeroed"
      /\ mishap'[d] = {} =>
           /\ zeroer'[z] = Idle
              \/ (zeroer'[z].pc = "zeroed" /\ zeroer'[z].device = d
                  /\ binding'[d] = binding[d] /\ vram'[d] = {})
      /\ zeroer'[z] = Idle \/ (zeroer'[z].pc = "zeroed" /\ zeroer'[z].device = d)
  <2>1. CASE ZeroPass(z)
    BY <2>1, <1>1 DEF ZeroPass, Zeroer
  <2>2. CASE ZeroPassFails(z)
    BY <2>2, <1>1 DEF ZeroPassFails
  <2>3. CASE CompleteZero(z) \/ CompleteZeroFault(z)
    BY <2>3, <1>1 DEF CompleteZero, CompleteZeroFault, CompleteZeroScript
  <2>4. CASE CompleteZeroResend(z)
    BY <2>4, <1>1 DEF CompleteZeroResend, CompleteZeroScript, Mark
  <2> QED
    BY <2>1, <2>2, <2>3, <2>4
<1>6. UseIsRecorded'
  <2> SUFFICES ASSUME NEW b \in Allocs, NEW e \in Devices, RunsOn(b, e), "shared" \notin mishap'[e]
               PROVE  binding'[e] = BoundTo(b)
    BY <1>0 DEF UseIsRecorded
  <2>1. binding[e] = BoundTo(b)
    BY <1>4 DEF UseIsRecorded
  <2> QED
    BY <1>4, <1>5, <2>1
<1>7. DataIsOwned'
  <2> SUFFICES ASSUME NEW e \in Devices, mishap'[e] = {}
               PROVE  /\ ~binding'[e].zeroing => vram'[e] \subseteq {binding'[e].tenant}
                      /\ \A b \in Allocs : RunsOn(b, e) => TenantOf[b] \in vram'[e]
    BY <1>0 DEF DataIsOwned
  <2>1. CASE e = d
    BY <2>1, <1>1, <1>3, <1>4, <1>5
  <2>2. CASE e # d
    BY <2>2, <1>4 DEF DataIsOwned
  <2> QED
    BY <2>1, <2>2
<1>8. PassIsAwaited'
  <2> SUFFICES ASSUME NEW y \in Zeroers
               PROVE  /\ zeroer'[y].pc = "idle" => zeroer'[y] = Idle
                      /\ zeroer'[y].pc # "idle" =>
                           /\ zeroer'[y].device \in Devices
                           /\ mishap'[zeroer'[y].device] = {} => binding'[zeroer'[y].device].zeroing
                      /\ zeroer'[y].pc = "zeroed" /\ mishap'[zeroer'[y].device] = {} => vram'[zeroer'[y].device] = {}
    BY DEF PassIsAwaited
  <2>1. CASE y = z
    BY <2>1, <1>1, <1>4, <1>5
  <2>2. CASE y # z
    <3>1. CASE zeroer[y].device = d
      BY <2>2, <3>1, <1>1, <1>2, <1>4 DEF PassIsAwaited
    <3>2. CASE zeroer[y].device # d
      BY <2>2, <3>2, <1>4 DEF PassIsAwaited
    <3> QED
      BY <3>1, <3>2
  <2> QED
    BY <2>1, <2>2
<1>9. OnePassPerDevice'
  <2> SUFFICES ASSUME NEW x \in Zeroers, NEW y \in Zeroers, x # y,
                      zeroer'[x].device = zeroer'[y].device, zeroer'[x].device # None
               PROVE  mishap'[zeroer'[x].device] # {}
    BY DEF OnePassPerDevice
  <2>1. zeroer'[x].device = zeroer[x].device /\ zeroer'[y].device = zeroer[y].device
    BY <1>4, <1>5
  <2>2. mishap[zeroer[x].device] # {} /\ zeroer[x].device \in Devices
    <3>1. zeroer[x].device = zeroer[y].device /\ zeroer[x].device # None
      BY <2>1
    <3>2. zeroer[x].device \in Devices
      BY <3>1 DEF Zeroer
    <3> QED
      BY <3>1, <3>2 DEF OnePassPerDevice
  <2> QED
    BY <1>4, <2>1, <2>2
<1> QED
  BY <1>6, <1>7, <1>8, <1>9

-----------------------------------------------------------------------------
\* Every step preserves the strengthened invariant.
LEMMA BindingStep == BindingInv /\ [BindingNext]_bindingVars => BindingInv'
<1> SUFFICES ASSUME BindingInv, [BindingNext]_bindingVars PROVE BindingInv'
  OBVIOUS
<1>1. BindingTypeOK'
  BY TypeStep DEF BindingInv
<1>2. RecordIsWhole'
  BY RecordStep DEF BindingInv
<1>3. ASSUME NEW a \in Allocs, NEW d \in Devices, Bind(a, d) \/ BindLost(a, d) PROVE BindingInv'
  BY <1>1, <1>2, <1>3, BindStep DEF BindingInv
<1>4. ASSUME NEW a \in Allocs, Stop(a) PROVE BindingInv'
  <2>1. /\ UNCHANGED <<binding, zeroer, vram, mishap>>
        /\ \A b \in Allocs, e \in Devices : RunsOn(b, e)' => RunsOn(b, e)
        /\ DeviceInUse'
    BY <1>4 DEF Stop, RunsOn, DeviceInUse, BindingInv, BindingTypeOK, Allocation
  <2> QED
    BY <1>1, <1>2, <2>1 DEF BindingInv, UseIsRecorded, DataIsOwned, PassIsAwaited, OnePassPerDevice
<1>5. ASSUME NEW a \in Allocs, Release(a) \/ ReleaseLost(a) PROVE BindingInv'
  BY <1>1, <1>2, <1>5, ReleaseStep DEF BindingInv
<1>6. ASSUME NEW z \in Zeroers, NEW d \in Devices, ZeroDevice(z, d) PROVE BindingInv'
  <2>1. DeviceInUse'
    BY <1>6 DEF ZeroDevice, BindingInv, DeviceInUse
  <2> QED
    BY <1>1, <1>2, <1>6, <2>1, ZeroCallStep DEF BindingInv
<1>7. ASSUME NEW z \in Zeroers,
             \/ ZeroPass(z) \/ ZeroPassFails(z)
             \/ CompleteZero(z) \/ CompleteZeroFault(z) \/ CompleteZeroResend(z)
      PROVE  BindingInv'
  <2>1. DeviceInUse'
    BY <1>7 DEF ZeroPass, ZeroPassFails, CompleteZero, CompleteZeroFault, CompleteZeroResend,
       BindingInv, DeviceInUse
  <2> QED
    BY <1>1, <1>2, <1>7, <2>1, PassStep DEF BindingInv
<1>8. CASE UNCHANGED bindingVars
  BY <1>1, <1>2, <1>8 DEF bindingVars, BindingInv, UseIsRecorded, DataIsOwned, PassIsAwaited,
     OnePassPerDevice, DeviceInUse, RunsOn
<1> QED
  BY <1>3, <1>4, <1>5, <1>6, <1>7, <1>8 DEF BindingNext

\* The invariant holds of every behaviour: whoever calls ZeroDevice, for any
\* device and at any time, and whatever is lost or sent again.
THEOREM BindingInvariant == BindingSpec => []BindingInv
<1>1. BindingInit => BindingInv
  BY RecordFields DEF BindingInit, BindingInv, BindingTypeOK, Allocation, UseIsRecorded, RecordIsWhole,
     DataIsOwned, PassIsAwaited, OnePassPerDevice, DeviceInUse, RunsOn
<1> QED
  BY <1>1, BindingStep, PTL DEF BindingSpec

\* gpubinding.go enforces "exclusive, one-tenant-at-a-time ownership": for any
\* number of devices, tenants, allocations, lost replies and stray zeroing calls,
\* no two tenants' allocations run on one device that no tenant shares with
\* itself.
THEOREM Exclusive == BindingSpec => []ExclusiveTenancy
<1>1. BindingInv => ExclusiveTenancy
  BY RecordFields DEF BindingInv, BindingTypeOK, UseIsRecorded, ExclusiveTenancy
<1> QED
  BY <1>1, BindingInvariant, PTL

\* On a device that nothing befell, a running allocation never shares the
\* memory with an earlier tenant's data, no late zeroing pass clears its own,
\* and a device Bind would give to any tenant is clean.
THEOREM Clean == BindingSpec => [](NoForeignData /\ FreeMeansClean)
<1>1. BindingInv => NoForeignData
  <2> SUFFICES ASSUME BindingInv, NEW a \in Allocs, NEW d \in Devices, RunsOn(a, d), mishap[d] = {}
               PROVE  vram[d] = {TenantOf[a]}
    BY DEF NoForeignData
  <2>1. binding[d] = BoundTo(a)
    BY DEF BindingInv, UseIsRecorded
  <2> QED
    BY <2>1, RecordFields DEF BindingInv, BindingTypeOK, DataIsOwned
<1>2. BindingInv => FreeMeansClean
  BY RecordFields, BindingAssumption DEF BindingInv, BindingTypeOK, DataIsOwned, FreeMeansClean
<1> QED
  BY <1>1, <1>2, BindingInvariant, PTL

\* Whatever the callers do, a device's record leaves a tenant
\* only through the zeroing hold.
THEOREM OnlyThroughZeroing == BindingSpec => ThroughZeroing
<1> DEFINE Inv == BindingTypeOK /\ RecordIsWhole
           Handover == \A d \in Devices :
             binding[d].tenant # None /\ binding'[d].tenant # binding[d].tenant
                => binding'[d].zeroing
<1>1. BindingInit => RecordIsWhole
  BY DEF BindingInit, RecordIsWhole
<1>2. Inv /\ [BindingNext]_bindingVars => Inv'
  BY TypeStep, RecordStep
<1>3. Inv /\ [BindingNext]_bindingVars => [Handover]_bindingVars
  <2> SUFFICES ASSUME Inv, BindingNext PROVE Handover
    OBVIOUS
  <2> USE RecordFields DEF BindingTypeOK, RecordIsWhole
  <2>1. ASSUME NEW a \in Allocs, NEW d \in Devices, BindScript(a, d) PROVE Handover
    BY <2>1 DEF BindScript, Claimable
  <2>2. ASSUME NEW a \in Allocs, NEW d, ReleaseScript(a, d) PROVE Handover
    <3>1. \A e \in Devices : binding'[e] \in {binding[e], Zeroing}
      BY <2>2 DEF ReleaseScript
    <3> QED
      BY <3>1
  <2>3. ASSUME NEW d, CompleteZeroScript(d) PROVE Handover
    <3>1. \A e \in Devices : binding'[e] = binding[e] \/ binding[e].zeroing
      BY <2>3 DEF CompleteZeroScript
    <3> QED
      BY <3>1
  <2>4. CASE UNCHANGED binding
    BY <2>4
  <2> QED
    BY <2>1, <2>2, <2>3, <2>4 DEF BindingNext, Bind, BindLost, Stop, Release, ReleaseLost,
       ZeroDevice, ZeroPass, ZeroPassFails, CompleteZero, CompleteZeroFault, CompleteZeroResend
<1> QED
  BY <1>1, <1>2, <1>3, TypeCorrect, PTL DEF BindingSpec, ThroughZeroing

-----------------------------------------------------------------------------
(* Sequences without repetition.                                           *)

\* A sequence without the element of one place.
LEMMA Removed ==
    ASSUME NEW X, NEW s \in Seq(X), NEW i \in DOMAIN s, IsInjective(s)
    PROVE  /\ RemoveAt(s, i) \in Seq(X)
           /\ Len(RemoveAt(s, i)) = Len(s) - 1
           /\ ToSet(RemoveAt(s, i)) = ToSet(s) \ {s[i]}
           /\ IsInjective(RemoveAt(s, i))
<1> DEFINE u == RemoveAt(s, i)
<1>0. i \in 1 .. Len(s) /\ Len(s) \in Nat /\ i \in Int
  OBVIOUS
<1>1. /\ u \in Seq(X) /\ Len(u) = Len(s) - 1
      /\ \A j \in 1 .. Len(s) - 1 : u[j] = IF j < i THEN s[j] ELSE s[j + 1]
  <2> DEFINE front == SubSeq(s, 1, i - 1)
             back == SubSeq(s, i + 1, Len(s))
  <2>1. /\ front \in Seq(X) /\ Len(front) = i - 1
        /\ \A j \in 1 .. i - 1 : front[j] = s[j]
    BY <1>0
  <2>2. /\ back \in Seq(X) /\ Len(back) = Len(s) - i
        /\ \A j \in 1 .. Len(s) - i : back[j] = s[j + i]
    BY <1>0
  <2>3. u = front \o back
    BY DEF RemoveAt
  <2> HIDE DEF front, back, u
  <2>4. u \in Seq(X) /\ Len(u) = Len(s) - 1
    BY <1>0, <2>1, <2>2, <2>3
  <2>5. ASSUME NEW j \in 1 .. Len(s) - 1, j < i PROVE u[j] = s[j]
    BY <1>0, <2>1, <2>2, <2>3, <2>5
  <2>6. ASSUME NEW j \in 1 .. Len(s) - 1, ~(j < i) PROVE u[j] = s[j + 1]
    <3>1. j \in 1 .. Len(front) + Len(back) /\ ~(j <= Len(front))
      BY <1>0, <2>1, <2>2, <2>6
    <3>2. u[j] = back[j - Len(front)]
      BY <2>1, <2>2, <2>3, <3>1, ConcatProperties
    <3>3. u[j] = back[j - (i - 1)]
      BY <2>1, <3>2
    <3>4. j - (i - 1) \in 1 .. Len(s) - i /\ j - (i - 1) + i = j + 1
      BY <1>0, <2>6
    <3> QED
      BY <2>2, <3>3, <3>4
  <2> QED
    BY <2>4, <2>5, <2>6
<1> HIDE DEF u
<1>2. DOMAIN u = 1 .. Len(s) - 1 /\ DOMAIN s = 1 .. Len(s)
  BY <1>1
<1>3. \A j, k \in 1 .. Len(s) : s[j] = s[k] => j = k
  BY DEF IsInjective
<1>4. IsInjective(u)
  <2> DEFINE from(j) == IF j < i THEN j ELSE j + 1
  <2>1. \A j \in 1 .. Len(s) - 1 : u[j] = s[from(j)] /\ from(j) \in 1 .. Len(s)
    BY <1>0, <1>1
  <2>2. \A j, k \in 1 .. Len(s) - 1 : from(j) = from(k) => j = k
    BY <1>0
  <2> HIDE DEF from
  <2>3. \A j, k \in 1 .. Len(s) - 1 : u[j] = u[k] => j = k
    BY <1>3, <2>1, <2>2
  <2> QED
    BY <1>2, <2>3 DEF IsInjective
<1>5. ASSUME NEW j \in DOMAIN u PROVE u[j] \in ToSet(s) \ {s[i]}
  <2>1. CASE j < i
    BY <1>0, <1>1, <1>2, <1>3, <2>1 DEF ToSet
  <2>2. CASE ~(j < i)
    <3>1. j + 1 \in 1 .. Len(s) /\ j + 1 # i /\ u[j] = s[j + 1]
      BY <1>0, <1>1, <1>2, <2>2
    <3> QED
      BY <1>0, <1>2, <1>3, <3>1 DEF ToSet
  <2> QED
    BY <2>1, <2>2
<1>6. ASSUME NEW j \in DOMAIN s, j # i PROVE s[j] \in ToSet(u)
  <2>1. CASE j < i
    BY <1>0, <1>1, <1>2, <1>6, <2>1 DEF ToSet
  <2>2. CASE j > i
    <3>1. j - 1 \in 1 .. Len(s) - 1 /\ u[j - 1] = s[j]
      BY <1>0, <1>1, <1>2, <2>2
    <3> QED
      BY <1>2, <3>1 DEF ToSet
  <2> QED
    BY <1>0, <1>2, <1>6, <2>1, <2>2
<1>7. ToSet(u) \subseteq ToSet(s) \ {s[i]}
  BY <1>5 DEF ToSet
<1>8. ToSet(s) \ {s[i]} \subseteq ToSet(u)
  BY <1>6 DEF ToSet
<1> QED
  BY <1>1, <1>4, <1>7, <1>8 DEF u

\* A sequence with a new element before it.
LEMMA Pushed ==
    ASSUME NEW X, NEW s \in Seq(X), NEW x \in X, x \notin ToSet(s), IsInjective(s)
    PROVE  /\ <<x>> \o s \in Seq(X)
           /\ ToSet(<<x>> \o s) = ToSet(s) \cup {x}
           /\ IsInjective(<<x>> \o s)
<1> DEFINE t == <<x>> \o s
<1>1. /\ t \in Seq(X) /\ Len(t) = Len(s) + 1 /\ Len(s) \in Nat
      /\ t[1] = x /\ \A j \in 1 .. Len(s) : t[j + 1] = s[j]
      /\ DOMAIN t = 1 .. Len(s) + 1 /\ DOMAIN s = 1 .. Len(s)
  OBVIOUS
<1> HIDE DEF t
<1>2. \A j \in 1 .. Len(s) + 1 : j # 1 => j - 1 \in 1 .. Len(s) /\ t[j] = s[j - 1]
  <2> SUFFICES ASSUME NEW j \in 1 .. Len(s) + 1, j # 1
               PROVE  j - 1 \in 1 .. Len(s) /\ t[j] = s[j - 1]
    OBVIOUS
  <2>1. j - 1 \in 1 .. Len(s) /\ (j - 1) + 1 = j
    BY <1>1
  <2> QED
    BY <1>1, <2>1
<1>3. IsInjective(t)
  <2>1. \A j \in 1 .. Len(s) : s[j] # x
    BY <1>1 DEF ToSet
  <2>2. \A j, k \in 1 .. Len(s) : s[j] = s[k] => j = k
    BY <1>1 DEF IsInjective
  <2>3. \A j, k \in 1 .. Len(s) + 1 : t[j] = t[k] => j = k
    BY <1>1, <1>2, <2>1, <2>2
  <2> QED
    BY <1>1, <2>3 DEF IsInjective
<1>4. ToSet(t) \subseteq ToSet(s) \cup {x}
  <2>1. \A j \in DOMAIN t : t[j] = x \/ t[j] \in ToSet(s)
    BY <1>1, <1>2 DEF ToSet
  <2> QED
    BY <2>1 DEF ToSet
<1>5. ASSUME NEW j \in DOMAIN s PROVE s[j] \in ToSet(t)
  <2>1. j + 1 \in DOMAIN t /\ t[j + 1] = s[j]
    BY <1>1
  <2> QED
    BY <2>1 DEF ToSet
<1>6. ToSet(s) \cup {x} \subseteq ToSet(t)
  BY <1>1, <1>5 DEF ToSet
<1> QED
  BY <1>1, <1>3, <1>4, <1>6 DEF t

\* What a sequence holds is finite.
LEMMA FiniteRange ==
    ASSUME NEW X, NEW s \in Seq(X)
    PROVE  IsFiniteSet(ToSet(s))
<1>1. Len(s) \in Nat /\ DOMAIN s = 1 .. Len(s) /\ IsFiniteSet(1 .. Len(s))
  BY FS_Interval
<1>2. ToSet(s) = {s[j] : j \in 1 .. Len(s)}
  BY <1>1 DEF ToSet
<1>3. s \in Surjection(1 .. Len(s), ToSet(s))
  BY <1>1, <1>2 DEF Surjection
<1> QED
  BY <1>1, <1>3, FS_Surjection

\* A sequence without its first element.
LEMMA WithoutFirst ==
    ASSUME NEW X, NEW s \in Seq(X), s # <<>>, IsInjective(s)
    PROVE  /\ Tail(s) \in Seq(X)
           /\ Len(Tail(s)) = Len(s) - 1
           /\ Head(s) \in ToSet(s)
           /\ ToSet(Tail(s)) = ToSet(s) \ {Head(s)}
           /\ IsInjective(Tail(s))
<1>1. /\ Tail(s) \in Seq(X) /\ Len(Tail(s)) = Len(s) - 1 /\ Len(s) > 0
      /\ \A j \in 1 .. Len(s) - 1 : Tail(s)[j] = s[j + 1]
      /\ Head(s) = s[1] /\ DOMAIN Tail(s) = 1 .. Len(s) - 1
  OBVIOUS
<1>2. Head(s) \in ToSet(s)
  BY <1>1 DEF ToSet
<1>3. IsInjective(Tail(s))
  BY <1>1 DEF IsInjective
<1>4. ToSet(Tail(s)) \subseteq ToSet(s) \ {Head(s)}
  BY <1>1 DEF ToSet, IsInjective
<1>5. ASSUME NEW j \in DOMAIN s, s[j] # Head(s) PROVE s[j] \in ToSet(Tail(s))
  <2>1. j - 1 \in 1 .. Len(s) - 1 /\ Tail(s)[j - 1] = s[j]
    BY <1>1, <1>5
  <2> QED
    BY <1>1, <2>1 DEF ToSet
<1>6. ToSet(s) \ {Head(s)} \subseteq ToSet(Tail(s))
  BY <1>5 DEF ToSet
<1> QED
  BY <1>1, <1>2, <1>3, <1>4, <1>6

\* A sequence with a new element at its end.
LEMMA WithNew ==
    ASSUME NEW X, NEW s \in Seq(X), NEW a \in X, a \notin ToSet(s), IsInjective(s)
    PROVE  /\ Append(s, a) \in Seq(X)
           /\ Len(Append(s, a)) = Len(s) + 1
           /\ ToSet(Append(s, a)) = ToSet(s) \cup {a}
           /\ IsInjective(Append(s, a))
<1> DEFINE t == Append(s, a)
<1>1. /\ t \in Seq(X) /\ Len(t) = Len(s) + 1 /\ Len(s) \in Nat
      /\ \A j \in 1 .. Len(s) : t[j] = s[j]
      /\ t[Len(s) + 1] = a /\ DOMAIN t = 1 .. Len(s) + 1
  OBVIOUS
<1> HIDE DEF t
<1>2. IsInjective(t)
  BY <1>1 DEF IsInjective, ToSet
<1>3. ToSet(t) \subseteq ToSet(s) \cup {a}
  BY <1>1 DEF ToSet
<1>4. ToSet(s) \cup {a} \subseteq ToSet(t)
  BY <1>1 DEF ToSet
<1> QED
  BY <1>1, <1>2, <1>3, <1>4 DEF t

\* Moving the element of one place to the end keeps what the sequence holds.
LEMMA MovedToEnd ==
    ASSUME NEW X, NEW s \in Seq(X), NEW i \in DOMAIN s, IsInjective(s)
    PROVE  LET t == Append(RemoveAt(s, i), s[i])
           IN  /\ t \in Seq(X)
               /\ Len(t) = Len(s)
               /\ ToSet(t) = ToSet(s)
               /\ IsInjective(t)
<1> DEFINE u == RemoveAt(s, i)
<1>1. /\ u \in Seq(X) /\ Len(u) = Len(s) - 1 /\ ToSet(u) = ToSet(s) \ {s[i]}
      /\ IsInjective(u)
  BY Removed
<1> HIDE DEF u
<1>2. s[i] \in X /\ s[i] \notin ToSet(u) /\ Len(s) \in Nat /\ s[i] \in ToSet(s)
  <2>1. s[i] \in ToSet(s)
    BY DEF ToSet
  <2> QED
    BY <1>1, <2>1
<1>3. /\ Append(u, s[i]) \in Seq(X) /\ Len(Append(u, s[i])) = Len(u) + 1
      /\ ToSet(Append(u, s[i])) = ToSet(u) \cup {s[i]}
      /\ IsInjective(Append(u, s[i]))
  BY <1>1, <1>2, WithNew
<1> QED
  BY <1>1, <1>2, <1>3 DEF u

-----------------------------------------------------------------------------
(* The adapter pool.                                                       *)

PoolSpec == PoolInit /\ [][PoolNext]_poolVars

\* The conjuncts of PoolInStep that a step carries over; the bound on the
\* engine follows from them.
PoolAgrees ==
    /\ routable = ToSet(resident) /\ IsInjective(resident)
    /\ Len(resident) <= MaxSlots
    /\ \A a \in routable \ engine :
          a \in astray \/ (evicting /\ a = Head(resident))
    /\ engine \subseteq routable \cup astray \cup (IF evicting THEN {} ELSE {acquiring})

\* An Acquire that holds the mutex wants an adapter that is not resident; it
\* evicts only from a pool that has one, and loads only with a slot free.
PoolInv ==
    /\ resident \in Seq(Adapter)
    /\ acquiring \in Adapter \cup {NoAdapter}
    /\ evicting \in BOOLEAN
    /\ acquiring # NoAdapter =>
          /\ acquiring \notin ToSet(resident)
          /\ ~evicting => Len(resident) < MaxSlots
    /\ evicting => acquiring # NoAdapter /\ resident # <<>>
    /\ engine \subseteq Adapter
    /\ PoolAgrees

\* The steps of an Acquire keep the pool, the router and the engine in step.
LEMMA PoolStep == PoolInv /\ [PoolNext]_poolVars => PoolInv'
<1> SUFFICES ASSUME PoolInv, [PoolNext]_poolVars PROVE PoolInv'
  OBVIOUS
<1>0. /\ resident \in Seq(Adapter) /\ routable = ToSet(resident) /\ IsInjective(resident)
      /\ Len(resident) \in Nat /\ MaxSlots \in Nat \ {0}
  BY MaxSlotsAssumption DEF PoolInv, PoolAgrees
<1>1. ASSUME NEW a \in Adapter, AcquireHit(a) PROVE PoolInv'
  <2>1. PICK i \in DOMAIN resident :
           resident[i] = a /\ resident' = Append(RemoveAt(resident, i), resident[i])
    BY <1>1 DEF AcquireHit
  <2>2. /\ resident' \in Seq(Adapter) /\ Len(resident') = Len(resident)
        /\ ToSet(resident') = ToSet(resident) /\ IsInjective(resident')
    BY <1>0, <2>1, MovedToEnd
  <2> QED
    BY <1>0, <1>1, <2>2 DEF AcquireHit, PoolInv, PoolAgrees
<1>2. ASSUME NEW a \in Adapter, AcquireMiss(a) PROVE PoolInv'
  <2>1. /\ acquiring = NoAdapter /\ a \notin ToSet(resident) /\ acquiring' = a
        /\ evicting' = Full /\ UNCHANGED <<resident, routable, engine, astray>>
    BY <1>2 DEF AcquireMiss
  <2>2. ~evicting
    BY <2>1 DEF PoolInv
  <2>3. Full \in BOOLEAN /\ (~Full => Len(resident) < MaxSlots) /\ (Full => resident # <<>>)
    BY <1>0 DEF Full
  <2>4. PoolAgrees'
    <3>1. engine \subseteq routable \cup astray
      BY <2>1, <2>2, AdapterAssumption DEF PoolInv, PoolAgrees
    <3> QED
      BY <2>1, <2>2, <3>1 DEF PoolInv, PoolAgrees
  <2> QED
    BY <1>0, <2>1, <2>3, <2>4, AdapterAssumption DEF PoolInv
<1>3. CASE EngineUnloads
  BY <1>3 DEF EngineUnloads, PoolInv, PoolAgrees
<1>4. CASE Unloaded
  <2>1. /\ evicting /\ resident # <<>> /\ acquiring # NoAdapter
        /\ acquiring \notin ToSet(resident)
    BY <1>4 DEF Unloaded, PoolInv
  <2>2. /\ Tail(resident) \in Seq(Adapter) /\ Len(Tail(resident)) = Len(resident) - 1
        /\ ToSet(Tail(resident)) = ToSet(resident) \ {Head(resident)}
        /\ IsInjective(Tail(resident))
    BY <1>0, <2>1, WithoutFirst
  <2>3. /\ Head(resident) \notin engine /\ resident' = Tail(resident)
        /\ routable' = routable \ {Head(resident)} /\ astray' = astray \ {Head(resident)}
        /\ evicting' = FALSE /\ UNCHANGED <<engine, acquiring>>
    BY <1>4 DEF Unloaded, MarkUnloaded
  <2>4. Len(resident) <= MaxSlots
    BY DEF PoolInv, PoolAgrees
  <2>5. PoolAgrees'
    BY <1>0, <2>2, <2>3, <2>4 DEF PoolInv, PoolAgrees
  <2>6. Len(resident') < MaxSlots /\ acquiring' \notin ToSet(resident')
    BY <1>0, <2>1, <2>2, <2>3, <2>4
  <2> QED
    BY <2>2, <2>3, <2>5, <2>6 DEF PoolInv
<1>5. CASE UnloadFails
  BY <1>5 DEF UnloadFails, PoolInv, PoolAgrees
<1>6. CASE Loaded
  <2>1. /\ acquiring \in Adapter /\ acquiring \notin ToSet(resident)
        /\ Len(resident) < MaxSlots /\ ~evicting
    BY <1>6, AdapterAssumption DEF Loaded, PoolInv
  <2>2. /\ Append(resident, acquiring) \in Seq(Adapter)
        /\ Len(Append(resident, acquiring)) = Len(resident) + 1
        /\ ToSet(Append(resident, acquiring)) = ToSet(resident) \cup {acquiring}
        /\ IsInjective(Append(resident, acquiring))
    BY <1>0, <2>1, WithNew
  <2>3. /\ UNCHANGED engine /\ acquiring \in engine /\ routable' = routable \cup {acquiring}
        /\ resident' = Append(resident, acquiring) /\ astray' = astray \ {acquiring}
        /\ acquiring' = NoAdapter /\ UNCHANGED evicting
    BY <1>6 DEF Loaded, MarkLoaded
  <2>4. PoolAgrees'
    BY <1>0, <2>1, <2>2, <2>3 DEF PoolInv, PoolAgrees
  <2> QED
    BY <2>1, <2>2, <2>3, <2>4 DEF PoolInv
<1>7. CASE LoadFails
  BY <1>7 DEF LoadFails, PoolInv, PoolAgrees
<1>8. CASE EngineLoads
  BY <1>8 DEF EngineLoads, PoolInv, PoolAgrees
<1>9. CASE UNCHANGED poolVars
  BY <1>9 DEF poolVars, PoolInv, PoolAgrees
<1> QED
  BY <1>1, <1>2, <1>3, <1>4, <1>5, <1>6, <1>7, <1>8, <1>9 DEF PoolNext

\* A sequence of distinct or repeated elements has no more of them than places.
LEMMA FewerThanPlaces ==
    ASSUME NEW X, NEW q \in Seq(X)
    PROVE  IsFiniteSet(ToSet(q)) /\ Cardinality(ToSet(q)) <= Len(q)
<1>1. Len(q) \in Nat /\ q \in [1..Len(q) -> ToSet(q)]
  BY DEF ToSet
<1>2. \A t \in ToSet(q) : \E i \in 1..Len(q) : q[i] = t
  BY DEF ToSet
<1>3. q \in Surjection(1..Len(q), ToSet(q))
  BY <1>1, <1>2 DEF Surjection
<1>4. IsFiniteSet(1..Len(q)) /\ Cardinality(1..Len(q)) = Len(q)
  BY <1>1, FS_Interval
<1> QED
  BY <1>3, <1>4, FS_Surjection

\* The engine holds the adapters of the pool and at most the one for which a
\* slot is free.
LEMMA PoolFits == PoolInv => PoolInStep
<1> SUFFICES ASSUME PoolInv, astray = {} PROVE Cardinality(engine) <= MaxSlots
  BY DEF PoolInv, PoolAgrees, PoolInStep
<1> DEFINE T == ToSet(resident)
<1>1. /\ resident \in Seq(Adapter) /\ Len(resident) \in Nat /\ MaxSlots \in Nat
      /\ Len(resident) <= MaxSlots
  BY MaxSlotsAssumption DEF PoolInv, PoolAgrees
<1>2. IsFiniteSet(T) /\ Cardinality(T) <= Len(resident)
  BY <1>1, FewerThanPlaces
<1>3. engine \subseteq T \/ (engine \subseteq T \cup {acquiring} /\ Len(resident) < MaxSlots)
  BY AdapterAssumption DEF PoolInv, PoolAgrees
<1> HIDE DEF T
<1>4. Cardinality(T) \in Nat
  BY <1>2, FS_CardinalityType
<1>5. CASE engine \subseteq T
  <2>1. Cardinality(engine) \in Nat /\ Cardinality(engine) <= Cardinality(T)
    BY <1>2, <1>5, FS_Subset, FS_CardinalityType
  <2> QED
    BY <1>1, <1>2, <1>4, <2>1
<1>6. CASE ~(engine \subseteq T)
  <2>1. engine \subseteq T \cup {acquiring} /\ Len(resident) < MaxSlots
    BY <1>3, <1>6
  <2>2. /\ IsFiniteSet(T \cup {acquiring})
        /\ Cardinality(T \cup {acquiring}) <= Cardinality(T) + 1
    <3>1. /\ IsFiniteSet(T \cup {acquiring})
          /\ Cardinality(T \cup {acquiring}) =
               IF acquiring \in T THEN Cardinality(T) ELSE Cardinality(T) + 1
      BY <1>2, FS_AddElement
    <3> QED
      BY <1>4, <3>1
  <2>3. /\ Cardinality(engine) \in Nat /\ Cardinality(T \cup {acquiring}) \in Nat
        /\ Cardinality(engine) <= Cardinality(T \cup {acquiring})
    BY <2>1, <2>2, FS_Subset, FS_CardinalityType
  <2> QED
    BY <1>1, <1>2, <1>4, <2>1, <2>2, <2>3
<1> QED
  BY <1>5, <1>6

\* Through hits, misses, evictions and calls that fail with or without effect,
\* router, pool and engine agree, and the pool stays within its slots
\* (lora/pool.go Acquire).
THEOREM PoolStaysInStep == PoolSpec => []PoolInStep
<1>1. PoolInit => PoolInv
  <2> SUFFICES ASSUME PoolInit PROVE PoolInv
    OBVIOUS
  <2>1. DOMAIN resident = {} /\ resident \in Seq(Adapter) /\ Len(resident) = 0
    BY DEF PoolInit
  <2>2. ToSet(resident) = {} /\ IsInjective(resident)
    BY <2>1 DEF ToSet, IsInjective
  <2>3. /\ acquiring = NoAdapter /\ evicting = FALSE
        /\ routable = {} /\ engine = {} /\ astray = {}
    BY DEF PoolInit
  <2>4. PoolAgrees
    BY <2>1, <2>2, <2>3, MaxSlotsAssumption DEF PoolAgrees
  <2> QED
    BY <2>1, <2>3, <2>4 DEF PoolInv
<1> QED
  BY <1>1, PoolFits, PoolStep, PTL DEF PoolSpec

-----------------------------------------------------------------------------
(* The sum of the sizes of a finite set of keys.                           *)

\* The recursion behind MapThenSumSet, as an equation for g over the subsets
\* of S.
Some(s) == CHOOSE x \in s : TRUE
Sums(g, S) ==
    g = [s \in SUBSET S |-> IF s = {} THEN 0 ELSE Size[Some(s)] + g[s \ {Some(s)}]]

\* A set of numbers that is not empty has a least one: induction is by a least
\* counterexample.
LEMMA LeastOf ==
    ASSUME NEW S \in SUBSET Nat, S # {}
    PROVE  \E x \in S : \A y \in S : x <= y
<1>1. PICK x \in S : \A y \in S : ~(<<y, x>> \in OpToRel(<, Nat))
  BY NatLessThanWellFounded, WFMin
<1>2. \A y \in S : ~(y < x)
  BY <1>1 DEF OpToRel
<1> QED
  BY <1>2

\* A finite set without one of its members.
LEMMA OneLess ==
    ASSUME NEW s, IsFiniteSet(s), NEW x \in s
    PROVE  /\ IsFiniteSet(s \ {x})
           /\ Cardinality(s) \in Nat /\ Cardinality(s \ {x}) \in Nat
           /\ Cardinality(s \ {x}) = Cardinality(s) - 1
  BY FS_RemoveElement, FS_CardinalityType

\* The recursion has a solution.
LEMMA SumsExist ==
    ASSUME NEW S, IsFiniteSet(S)
    PROVE  \E g : Sums(g, S)
<1> DEFINE Small(n) == {t \in SUBSET S : Cardinality(t) <= n}
           Rec(g, s) == IF s = {} THEN 0 ELSE Size[Some(s)] + g[s \ {Some(s)}]
           Upto(g, n) == g = [s \in Small(n) |-> Rec(g, s)]
           Bad == {n \in Nat : ~ \E g : Upto(g, n)}
<1>1. \A t \in SUBSET S : /\ IsFiniteSet(t) /\ Cardinality(t) \in Nat
                          /\ Cardinality(t) <= Cardinality(S)
  BY FS_Subset, FS_CardinalityType
<1>2. ASSUME NEW t \in SUBSET S, t # {}
      PROVE  /\ t \ {Some(t)} \in SUBSET S
             /\ Cardinality(t \ {Some(t)}) = Cardinality(t) - 1
             /\ Cardinality(t) > 0
  <2>1. Some(t) \in t /\ IsFiniteSet(t)
    BY <1>1, <1>2 DEF Some
  <2>2. /\ Cardinality(t) \in Nat /\ Cardinality(t \ {Some(t)}) \in Nat
        /\ Cardinality(t \ {Some(t)}) = Cardinality(t) - 1
    BY <2>1, OneLess
  <2> QED
    BY <2>2
<1>3. \A n \in Nat : n \notin Bad => \E g : Upto(g, n)
  <2> HIDE DEF Upto
  <2> QED
    OBVIOUS
<1>4. \A n \in Bad : n \in Nat /\ ~ \E g : Upto(g, n)
  <2> HIDE DEF Upto
  <2> QED
    OBVIOUS
<1>5. Small(0) \subseteq {{}}
  <2>1. \A t \in Small(0) : ~(Cardinality(t) > 0)
    BY <1>1
  <2> QED
    BY <1>2, <2>1
<1>6. \A n \in Nat : \A s \in Small(n) : s # {} => n - 1 \in Nat /\ s \ {Some(s)} \in Small(n - 1)
  BY <1>1, <1>2
<1>7. \A n \in Nat \ {0} : Small(n - 1) \subseteq Small(n)
  BY <1>1
<1>8. Small(Cardinality(S)) = SUBSET S /\ Cardinality(S) \in Nat
  BY <1>1
<1> HIDE DEF Small, Bad
<1>9. \E g : Upto(g, 0)
  <2> DEFINE h == [s \in Small(0) |-> 0]
  <2>1. \A s \in Small(0) : Rec(h, s) = 0
    BY <1>5
  <2> HIDE DEF Rec
  <2>2. Upto(h, 0)
    BY <2>1
  <2> QED
    BY <2>2
<1>10. ASSUME NEW n \in Nat \ {0}, NEW g, Upto(g, n - 1)
       PROVE  \E h : Upto(h, n)
  <2> DEFINE h == [s \in Small(n) |-> Rec(g, s)]
  <2>1. \A s \in Small(n - 1) : h[s] = g[s]
    <3> HIDE DEF Rec
    <3> QED
      BY <1>7, <1>10
  <2>0. h = [s \in Small(n) |-> Rec(g, s)]
    OBVIOUS
  <2> HIDE DEF h
  <2>2. \A s \in Small(n) : s # {} => h[s \ {Some(s)}] = g[s \ {Some(s)}]
    BY <1>6, <2>1
  <2>3. \A s \in Small(n) : Rec(h, s) = Rec(g, s)
    BY <2>2, Zenon
  <2> HIDE DEF Rec
  <2>4. Upto(h, n)
    BY <2>0, <2>3
  <2> QED
    BY <2>4
<1> HIDE DEF Upto
<1>11. Bad = {}
  <2> SUFFICES ASSUME Bad # {} PROVE FALSE
    OBVIOUS
  <2>0. Bad \in SUBSET Nat
    BY <1>4
  <2>1. PICK n \in Bad : \A m \in Bad : n <= m
    BY <2>0, LeastOf
  <2>2. n \in Nat \ {0}
    BY <1>4, <1>9, <2>1
  <2>3. n - 1 \in Nat /\ n - 1 \notin Bad
    BY <2>1, <2>2
  <2> QED
    BY <1>3, <1>4, <1>10, <2>1, <2>2, <2>3
<1>12. PICK g : Upto(g, Cardinality(S))
  BY <1>3, <1>8, <1>11
<1> QED
  BY <1>8, <1>12 DEF Sums, Upto

\* It has one solution, whatever set it is taken over.
LEMMA SumsAgree ==
    ASSUME NEW S, NEW T, NEW g, NEW h, Sums(g, S), Sums(h, T),
           NEW u \in SUBSET S, u \in SUBSET T, IsFiniteSet(u)
    PROVE  g[u] = h[u]
<1> DEFINE Bad == {n \in Nat : \E t \in SUBSET u : Cardinality(t) = n /\ g[t] # h[t]}
<1>1. \A t \in SUBSET u : IsFiniteSet(t) /\ Cardinality(t) \in Nat
  BY FS_Subset, FS_CardinalityType
<1>2. Bad = {}
  <2> SUFFICES ASSUME Bad # {} PROVE FALSE
    OBVIOUS
  <2>1. PICK n \in Bad : \A m \in Bad : n <= m
    BY LeastOf
  <2>2. PICK t \in SUBSET u : Cardinality(t) = n /\ g[t] # h[t]
    BY <2>1
  <2>3. t # {}
    BY <2>2 DEF Sums
  <2> DEFINE r == t \ {Some(t)}
  <2>4. Some(t) \in t
    BY <2>3 DEF Some
  <2>5. r \in SUBSET u /\ Cardinality(r) \in Nat /\ Cardinality(r) < n
    BY <1>1, <2>2, <2>4, OneLess
  <2>6. g[r] = h[r]
    BY <2>1, <2>5
  <2>7. g[t] = Size[Some(t)] + g[r] /\ h[t] = Size[Some(t)] + h[r]
    BY <2>2, <2>3 DEF Sums
  <2> QED
    BY <2>2, <2>6, <2>7
<1> QED
  BY <1>1, <1>2

\* Total is that solution.
LEMMA TotalIsSum ==
    ASSUME NEW S, NEW g, Sums(g, S), NEW u \in SUBSET S, IsFiniteSet(u)
    PROVE  Total(u) = g[u]
<1> DEFINE h == CHOOSE f : Sums(f, u)
<1>1. Sums(h, u)
  BY SumsExist
<1>2. Total(u) = h[u]
  BY Zenon DEF Total, MapThenSumSet, MapThenFoldSet, Sums, Some
<1> HIDE DEF h
<1> QED
  BY <1>1, <1>2, SumsAgree

\* A key counts once in the total, whichever it is.
LEMMA TotalOfOneLess ==
    ASSUME NEW S \in SUBSET Key, IsFiniteSet(S)
    PROVE  /\ Total({}) = 0
           /\ Total(S) \in Nat
           /\ \A x \in S : Total(S) = Size[x] + Total(S \ {x})
<1>1. PICK g : Sums(g, S)
  BY SumsExist
<1>2. \A t \in SUBSET S : IsFiniteSet(t) /\ Cardinality(t) \in Nat /\ Total(t) = g[t]
  BY <1>1, FS_Subset, FS_CardinalityType, TotalIsSum
<1>3. g[{}] = 0
  BY <1>1 DEF Sums
<1>4. \A t \in SUBSET S : t # {} => Some(t) \in t /\ g[t] = Size[Some(t)] + g[t \ {Some(t)}]
  BY <1>1 DEF Sums, Some
<1>5. \A x \in Key : Size[x] \in Nat
  BY SizeAssumption
<1>6. \A t \in SUBSET S : g[t] \in Nat
  <2> DEFINE Bad == {n \in Nat : \E t \in SUBSET S : Cardinality(t) = n /\ g[t] \notin Nat}
  <2> SUFFICES ASSUME Bad # {} PROVE FALSE
    BY <1>2
  <2>1. PICK n \in Bad : \A m \in Bad : n <= m
    BY LeastOf
  <2>2. PICK t \in SUBSET S : Cardinality(t) = n /\ g[t] \notin Nat
    BY <2>1
  <2>3. t # {} /\ Some(t) \in t
    <3>1. g[{}] \in Nat
      BY <1>3
    <3> QED
      BY <1>4, <2>2, <3>1, Zenon
  <2> DEFINE r == t \ {Some(t)}
  <2>4. r \in SUBSET S /\ Cardinality(r) \in Nat /\ Cardinality(r) < n
    BY <1>2, <2>2, <2>3, OneLess
  <2>5. g[r] \in Nat
    BY <2>1, <2>4
  <2>6. g[t] = Size[Some(t)] + g[r] /\ Size[Some(t)] \in Nat
    BY <1>4, <1>5, <2>3, Zenon
  <2> QED
    BY <2>2, <2>5, <2>6
<1>7. \A t \in SUBSET S : \A x \in t : g[t] = Size[x] + g[t \ {x}]
  <2> DEFINE Bad == {n \in Nat : \E t \in SUBSET S : /\ Cardinality(t) = n
                                                     /\ \E x \in t : g[t] # Size[x] + g[t \ {x}]}
  <2> SUFFICES ASSUME Bad # {} PROVE FALSE
    BY <1>2
  <2>1. PICK n \in Bad : \A m \in Bad : n <= m
    BY LeastOf
  <2>0. PICK t \in SUBSET S : /\ Cardinality(t) = n
                              /\ \E x \in t : g[t] # Size[x] + g[t \ {x}]
    BY <2>1
  <2>2. PICK x \in t : Cardinality(t) = n /\ g[t] # Size[x] + g[t \ {x}]
    BY <2>0
  <2> DEFINE y == Some(t)
  <2>3. y \in t /\ g[t] = Size[y] + g[t \ {y}] /\ x # y
    BY <1>4, <2>2
  <2> HIDE DEF y
  <2>4. /\ t \ {y} \in SUBSET S /\ Cardinality(t \ {y}) \in Nat /\ Cardinality(t \ {y}) < n
        /\ t \ {x} \in SUBSET S /\ Cardinality(t \ {x}) \in Nat /\ Cardinality(t \ {x}) < n
    BY <1>2, <2>2, <2>3, OneLess
  <2>9. \A s \in SUBSET S, z \in S :
           Cardinality(s) \in Nat /\ Cardinality(s) < n /\ z \in s
               => g[s] = Size[z] + g[s \ {z}]
    <3> SUFFICES ASSUME NEW s \in SUBSET S, NEW z \in S,
                        Cardinality(s) \in Nat, Cardinality(s) < n, z \in s
                 PROVE  g[s] = Size[z] + g[s \ {z}]
      OBVIOUS
    <3>1. Cardinality(s) \notin Bad
      BY <2>1
    <3> QED
      BY <3>1, Zenon
  <2>5. g[t \ {y}] = Size[x] + g[(t \ {y}) \ {x}]
    BY <2>2, <2>3, <2>4, <2>9, Zenon
  <2>6. g[t \ {x}] = Size[y] + g[(t \ {x}) \ {y}]
    BY <2>2, <2>3, <2>4, <2>9, Zenon
  <2>7. (t \ {x}) \ {y} = (t \ {y}) \ {x} /\ (t \ {x}) \ {y} \in SUBSET S
    BY <2>2
  <2>8. x \in Key /\ y \in Key
    BY <2>2, <2>3
  <2> DEFINE rest == g[(t \ {y}) \ {x}]
  <2>10. rest \in Nat /\ Size[x] \in Nat /\ Size[y] \in Nat
    BY <1>5, <1>6, <2>7, <2>8
  <2>11. /\ g[t] = Size[y] + g[t \ {y}] /\ g[t \ {y}] = Size[x] + rest
         /\ g[t \ {x}] = Size[y] + rest /\ g[t] # Size[x] + g[t \ {x}]
    BY <2>2, <2>3, <2>5, <2>6, <2>7, Zenon
  <2> HIDE DEF rest
  <2> QED
    BY <2>10, <2>11
<1> QED
  BY <1>2, <1>3, <1>6, <1>7

-----------------------------------------------------------------------------
(* The artifact cache of a node.                                           *)

LRUSpec == LRUInit /\ [][LRUNext]_lruVars

\* The count of a key nobody gave up is the number of its holders, also when
\* there is none.
CountsHolders ==
    \A k \in Key \ forced :
        IsFiniteSet(Holders(k)) /\ refCount[k] = Cardinality(Holders(k))

\* What is being put has its file and no entry.
PutOfAFile == putting # NoKey => putting \notin Cached /\ file[putting] = "whole"

LRUInv == LRUTypeOK /\ CountsHolders /\ PutOfAFile /\ CacheSound

\* An entry leaves: the rest is in order and its bytes are counted.
LEMMA EntryLeaves ==
    ASSUME LRUInv, NEW i \in DOMAIN order, RemoveElement(i)
    PROVE  /\ order' \in Seq(Key) /\ IsInjective(order')
           /\ order[i] \in Cached /\ Cached' = Cached \ {order[i]}
           /\ usedBytes' \in Nat /\ usedBytes' = Total(Cached') /\ usedBytes' <= usedBytes
<1>1. /\ order \in Seq(Key) /\ IsInjective(order) /\ usedBytes = Total(Cached)
      /\ usedBytes \in Nat /\ Cached = ToSet(order)
  BY DEF LRUInv, LRUTypeOK, CacheSound, BytesExact, Cached
<1>2. order' = RemoveAt(order, i) /\ usedBytes' = usedBytes - Size[order[i]]
  BY DEF RemoveElement
<1>3. order' \in Seq(Key) /\ IsInjective(order') /\ ToSet(order') = ToSet(order) \ {order[i]}
  BY <1>1, <1>2, Removed
<1>4. /\ order[i] \in Cached /\ Cached \in SUBSET Key /\ IsFiniteSet(Cached)
      /\ Cached' = Cached \ {order[i]}
  <2>1. order[i] \in ToSet(order) /\ ToSet(order) \in SUBSET Key
    BY <1>1 DEF ToSet
  <2>2. IsFiniteSet(ToSet(order))
    BY <1>1, FiniteRange
  <2>3. Cached' = ToSet(order')
    BY DEF Cached
  <2> QED
    BY <1>1, <1>3, <2>1, <2>2, <2>3
<1>5. /\ Total(Cached) = Size[order[i]] + Total(Cached \ {order[i]})
      /\ Total(Cached \ {order[i]}) \in Nat /\ Size[order[i]] \in Nat
  <2>1. Cached \ {order[i]} \in SUBSET Key /\ IsFiniteSet(Cached \ {order[i]})
    BY <1>4, FS_RemoveElement
  <2> QED
    BY <1>4, <2>1, TotalOfOneLess, SizeAssumption
<1> HIDE DEF Cached
<1>6. usedBytes' = Total(Cached \ {order[i]})
  BY <1>1, <1>2, <1>5
<1>7. Total(Cached') = Total(Cached \ {order[i]})
  BY <1>4, Zenon
<1> QED
  BY <1>1, <1>2, <1>3, <1>4, <1>5, <1>6, <1>7

\* The entries stay: so do their bytes.
LEMMA EntriesStay ==
    ASSUME LRUInv, Cached' = Cached, UNCHANGED usedBytes
    PROVE  usedBytes' = Total(Cached') /\ (MaxBytes > 0 => usedBytes' <= MaxBytes)
<1>1. Total(Cached') = Total(Cached)
  BY Zenon
<1> QED
  BY <1>1 DEF LRUInv, CacheSound, BytesExact

\* Nobody acquires or releases.
LEMMA HoldersStay ==
    ASSUME UNCHANGED held
    PROVE  \A k : Holders(k)' = Holders(k)
  BY DEF Holders

\* The sums of the invariant, taken in the next state.
LEMMA CountedNext ==
    ASSUME usedBytes' = Total(Cached'), MaxBytes > 0 => usedBytes' <= MaxBytes,
           \A k \in Cached' : file'[k] = "whole"
    PROVE  BytesExact'
<1>1. Total(Cached)' = Total(Cached')
  BY Zenon DEF Total, MapThenSumSet, MapThenFoldSet
<1> QED
  BY <1>1 DEF BytesExact

\* The invariant of the cache is inductive: a victim's count is zero, so nobody
\* holds it unless it was given up.
LEMMA LRUStep == LRUInv /\ [LRUNext]_lruVars => LRUInv'
<1> SUFFICES ASSUME LRUInv, [LRUNext]_lruVars PROVE LRUInv'
  OBVIOUS
<1>0. /\ LRUTypeOK /\ CountsHolders /\ PutOfAFile /\ HeldIsKept /\ BytesExact
      /\ NoKey \notin Key /\ Cached \subseteq Key
  BY NoKeyAssumption DEF LRUInv, CacheSound, LRUTypeOK, Cached, ToSet
<1>1. ASSUME NEW k \in Key, PullStarts(k) \/ PullEnds(k) PROVE LRUInv'
  <2>1. /\ UNCHANGED <<order, usedBytes, refCount, putting, held, forced>>
        /\ k \notin Cached \/ file[k] = "partial"
        /\ k # putting \/ file[k] = "partial"
        /\ \E f \in {"none", "partial", "whole"} : file' = [file EXCEPT ![k] = f]
    BY <1>1 DEF PullStarts, PullEnds
  <2>2. k \notin Cached /\ (k = putting => putting = NoKey)
    BY <1>0, <2>1 DEF BytesExact, PutOfAFile
  <2>3. Cached' = Cached /\ \A j : Holders(j)' = Holders(j)
    BY <2>1, HoldersStay DEF Cached
  <2>4. \A j \in Key \ {k} : file'[j] = file[j]
    BY <1>0, <2>1 DEF LRUTypeOK
  <2>5. BytesExact'
    BY <1>0, <2>1, <2>2, <2>3, <2>4, EntriesStay, CountedNext DEF BytesExact
  <2>6. LRUTypeOK'
    BY <1>0, <2>1 DEF LRUTypeOK
  <2>7. HeldIsKept' /\ CountsHolders'
    BY <1>0, <2>1, <2>2, <2>3, <2>4 DEF HeldIsKept, CountsHolders
  <2>8. PutOfAFile'
    BY <1>0, <2>1, <2>2, <2>3, <2>4 DEF PutOfAFile, LRUTypeOK
  <2> QED
    BY <2>5, <2>6, <2>7, <2>8 DEF LRUInv, CacheSound
<1>2. ASSUME NEW k \in Key, PutStarts(k) PROVE LRUInv'
  <2>1. /\ UNCHANGED <<file, held>> /\ file[k] = "whole" /\ putting' = k
        /\ refCount' = [refCount EXCEPT ![k] = 0]
        /\ forced' = IF Holders(k) = {} THEN forced ELSE forced \cup {k}
    BY <1>2 DEF PutStarts, Forced
  <2>2. /\ order' \in Seq(Key) /\ IsInjective(order') /\ Cached' = Cached \ {k}
        /\ usedBytes' \in Nat /\ usedBytes' = Total(Cached') /\ usedBytes' <= usedBytes
    <3>1. CASE k \in Cached
      <4>1. PICK i \in DOMAIN order : order[i] = k /\ RemoveElement(i)
        BY <1>2, <3>1 DEF PutStarts
      <4> QED
        BY <4>1, EntryLeaves
    <3>2. CASE k \notin Cached
      <4>1. UNCHANGED <<order, usedBytes>> /\ Cached' = Cached
        BY <1>2, <3>2 DEF PutStarts, Cached
      <4> QED
        BY <1>0, <3>2, <4>1, EntriesStay DEF LRUTypeOK
    <3> QED
      BY <3>1, <3>2
  <2>3. \A j : Holders(j)' = Holders(j)
    BY <2>1, HoldersStay
  <2>4. BytesExact'
    BY <1>0, <2>1, <2>2, CountedNext, MaxBytesAssumption DEF BytesExact, LRUTypeOK
  <2>5. LRUTypeOK'
    BY <1>0, <2>1, <2>2 DEF LRUTypeOK
  <2>6. CountsHolders'
    BY <1>0, <2>1, <2>3, FS_EmptySet DEF CountsHolders, LRUTypeOK
  <2>7. HeldIsKept'
    BY <1>0, <2>1, <2>2, <2>3 DEF HeldIsKept, LRUTypeOK
  <2>8. PutOfAFile'
    BY <2>1, <2>2 DEF PutOfAFile
  <2> QED
    BY <2>4, <2>5, <2>6, <2>7, <2>8 DEF LRUInv, CacheSound
<1>3. CASE Evict
  <2>1. PICK i \in DOMAIN order : /\ refCount[order[i]] = 0
                                  /\ RemoveElement(i) /\ DeleteFile(order[i])
    BY <1>3 DEF Evict, Unreferenced
  <2> DEFINE v == order[i]
  <2>2. /\ order' \in Seq(Key) /\ IsInjective(order') /\ Cached' = Cached \ {v}
        /\ usedBytes' \in Nat /\ usedBytes' = Total(Cached') /\ usedBytes' <= usedBytes
        /\ v \in Cached /\ refCount[v] = 0
    BY <2>1, EntryLeaves
  <2>3. /\ UNCHANGED <<refCount, putting, held, forced>>
        /\ file' = file \/ file' = [file EXCEPT ![v] = "none"]
    BY <1>3, <2>1 DEF Evict, DeleteFile
  <2> HIDE DEF v
  <2>4. \A j : Holders(j)' = Holders(j)
    BY <2>3, HoldersStay
  <2>5. /\ file' \in [Key -> {"none", "partial", "whole"}]
        /\ \A j \in Key \ {v} : file'[j] = file[j]
    BY <1>0, <2>2, <2>3 DEF LRUTypeOK
  <2>6. BytesExact'
    BY <1>0, <2>2, <2>5, CountedNext, MaxBytesAssumption DEF BytesExact, LRUTypeOK
  <2>7. LRUTypeOK'
    BY <1>0, <2>2, <2>3, <2>5 DEF LRUTypeOK
  <2>8. CountsHolders'
    BY <1>0, <2>3, <2>4 DEF CountsHolders
  <2>9. v \in forced \/ Holders(v) = {}
    BY <1>0, <2>2, FS_EmptySet DEF CountsHolders
  <2>10. HeldIsKept'
    BY <1>0, <2>2, <2>3, <2>4, <2>5, <2>9 DEF HeldIsKept
  <2>11. PutOfAFile'
    BY <1>0, <2>2, <2>3, <2>5 DEF PutOfAFile, LRUTypeOK
  <2> QED
    BY <2>6, <2>7, <2>8, <2>10, <2>11 DEF LRUInv, CacheSound
<1>4. CASE PutEnds
  <2>1. /\ putting \in Key /\ putting \notin Cached /\ file[putting] = "whole"
        /\ order' = <<putting>> \o order /\ usedBytes' = usedBytes + Size[putting]
        /\ MaxBytes = 0 \/ usedBytes' <= MaxBytes
        /\ putting' = NoKey /\ UNCHANGED <<refCount, file, held, forced>>
    BY <1>0, <1>4 DEF PutEnds, Fits, PutOfAFile, LRUTypeOK
  <2>2. /\ order' \in Seq(Key) /\ IsInjective(order')
        /\ ToSet(order') = ToSet(order) \cup {putting}
    BY <1>0, <2>1, Pushed DEF LRUTypeOK, Cached
  <2>3. Cached' = Cached \cup {putting}
    BY <2>2 DEF Cached
  <2>4. usedBytes' \in Nat /\ usedBytes' = Total(Cached')
    <3>1. /\ Cached' \in SUBSET Key /\ IsFiniteSet(Cached') /\ putting \in Cached'
          /\ Cached' \ {putting} = Cached
      BY <1>0, <2>1, <2>2, <2>3, FiniteRange DEF Cached
    <3>2. Total(Cached') = Size[putting] + Total(Cached' \ {putting}) /\ Total(Cached') \in Nat
      BY <3>1, TotalOfOneLess
    <3>3. Total(Cached' \ {putting}) = Total(Cached)
      BY <3>1, Zenon
    <3>4. Size[putting] \in Nat /\ usedBytes = Total(Cached) /\ usedBytes \in Nat
      BY <1>0, <2>1, SizeAssumption DEF BytesExact, LRUTypeOK
    <3> QED
      BY <2>1, <3>2, <3>3, <3>4
  <2>5. \A j : Holders(j)' = Holders(j)
    BY <2>1, HoldersStay
  <2>6. BytesExact'
    BY <1>0, <2>1, <2>3, <2>4, CountedNext DEF BytesExact
  <2>7. LRUTypeOK' /\ PutOfAFile'
    BY <1>0, <2>1, <2>2, <2>4 DEF LRUTypeOK, PutOfAFile
  <2>8. CountsHolders' /\ HeldIsKept'
    BY <1>0, <2>1, <2>3, <2>5 DEF CountsHolders, HeldIsKept
  <2> QED
    BY <2>6, <2>7, <2>8 DEF LRUInv, CacheSound
<1>5. CASE PutFails \/ UNCHANGED lruVars
  <2>1. /\ UNCHANGED <<order, usedBytes, refCount, file, held, forced>>
        /\ putting' \in {NoKey, putting}
    BY <1>5 DEF PutFails, lruVars
  <2>2. Cached' = Cached /\ \A j : Holders(j)' = Holders(j)
    BY <2>1, HoldersStay DEF Cached
  <2>3. BytesExact'
    BY <1>0, <2>1, <2>2, EntriesStay, CountedNext DEF BytesExact
  <2>4. LRUTypeOK' /\ PutOfAFile'
    BY <1>0, <2>1, <2>2 DEF LRUTypeOK, PutOfAFile
  <2>5. CountsHolders' /\ HeldIsKept'
    BY <1>0, <2>1, <2>2 DEF CountsHolders, HeldIsKept
  <2> QED
    BY <2>3, <2>4, <2>5 DEF LRUInv, CacheSound
<1>6. ASSUME NEW k \in Key, Get(k) PROVE LRUInv'
  <2>1. PICK i \in DOMAIN order : order[i] = k /\ order' = <<k>> \o RemoveAt(order, i)
    BY <1>6 DEF Get
  <2>2. UNCHANGED <<usedBytes, refCount, putting, file, held, forced>>
    BY <1>6 DEF Get
  <2>3. /\ RemoveAt(order, i) \in Seq(Key) /\ IsInjective(RemoveAt(order, i))
        /\ ToSet(RemoveAt(order, i)) = ToSet(order) \ {k} /\ k \in ToSet(order)
    <3>1. k \in ToSet(order)
      BY <2>1 DEF ToSet
    <3> QED
      BY <1>0, <2>1, <3>1, Removed DEF LRUTypeOK
  <2>4. /\ order' \in Seq(Key) /\ IsInjective(order')
        /\ ToSet(order') = (ToSet(order) \ {k}) \cup {k}
    BY <2>1, <2>3, Pushed
  <2>5. Cached' = Cached /\ \A j : Holders(j)' = Holders(j)
    BY <2>2, <2>3, <2>4, HoldersStay DEF Cached
  <2>6. BytesExact'
    BY <1>0, <2>2, <2>5, EntriesStay, CountedNext DEF BytesExact
  <2>7. LRUTypeOK' /\ PutOfAFile'
    BY <1>0, <2>2, <2>4, <2>5 DEF LRUTypeOK, PutOfAFile
  <2>8. CountsHolders' /\ HeldIsKept'
    BY <1>0, <2>2, <2>5 DEF CountsHolders, HeldIsKept
  <2> QED
    BY <2>6, <2>7, <2>8 DEF LRUInv, CacheSound
<1>7. ASSUME NEW k \in Key, NEW d \in Deployment, AcquireEntry(d, k) PROVE LRUInv'
  <2>1. /\ k \in Cached /\ k \notin held[d]
        /\ refCount' = [refCount EXCEPT ![k] = refCount[k] + 1]
        /\ held' = [held EXCEPT ![d] = held[d] \cup {k}]
        /\ UNCHANGED <<order, usedBytes, putting, file, forced>>
    BY <1>7 DEF AcquireEntry
  <2>2. Cached' = Cached
    BY <2>1 DEF Cached
  <2>3. /\ Holders(k)' = Holders(k) \cup {d} /\ d \notin Holders(k)
        /\ \A j \in Key \ {k} : Holders(j)' = Holders(j)
    BY <1>0, <2>1 DEF Holders, LRUTypeOK
  <2>4. BytesExact'
    BY <1>0, <2>1, <2>2, EntriesStay, CountedNext DEF BytesExact
  <2>5. LRUTypeOK' /\ PutOfAFile'
    BY <1>0, <2>1, <2>2 DEF LRUTypeOK, PutOfAFile
  <2>6. CountsHolders'
    BY <1>0, <2>1, <2>3, FS_AddElement DEF CountsHolders, LRUTypeOK
  <2>7. HeldIsKept'
    BY <1>0, <2>1, <2>2, <2>3, <2>6 DEF HeldIsKept, CountsHolders, BytesExact
  <2> QED
    BY <2>4, <2>5, <2>6, <2>7 DEF LRUInv, CacheSound
<1>8. ASSUME NEW k \in Key, NEW d \in Deployment, ReleaseEntry(d, k) PROVE LRUInv'
  <2>1. /\ k \in held[d]
        /\ held' = [held EXCEPT ![d] = held[d] \ {k}]
        /\ refCount' = IF k \in Cached /\ refCount[k] > 0
                         THEN [refCount EXCEPT ![k] = refCount[k] - 1] ELSE refCount
        /\ UNCHANGED <<order, usedBytes, putting, file, forced>>
    BY <1>8 DEF ReleaseEntry
  <2>2. Cached' = Cached
    BY <2>1 DEF Cached
  <2>3. /\ Holders(k)' = Holders(k) \ {d} /\ d \in Holders(k)
        /\ \A j \in Key \ {k} : Holders(j)' = Holders(j)
    BY <1>0, <2>1 DEF Holders, LRUTypeOK
  <2>4. /\ refCount' \in [Key -> Nat]
        /\ \A j \in Key \ {k} : refCount'[j] = refCount[j]
    BY <1>0, <2>1 DEF LRUTypeOK
  <2>5. k \notin forced =>
           /\ k \in Cached /\ file[k] = "whole"
           /\ IsFiniteSet(Holders(k)') /\ refCount'[k] = Cardinality(Holders(k)')
    <3> SUFFICES ASSUME k \notin forced
                 PROVE  /\ k \in Cached /\ file[k] = "whole"
                        /\ IsFiniteSet(Holders(k)') /\ refCount'[k] = Cardinality(Holders(k)')
      OBVIOUS
    <3>1. /\ k \in Cached /\ file[k] = "whole"
          /\ IsFiniteSet(Holders(k)) /\ refCount[k] = Cardinality(Holders(k))
      BY <1>0, <2>3 DEF HeldIsKept, CountsHolders
    <3>2. /\ IsFiniteSet(Holders(k) \ {d}) /\ Cardinality(Holders(k)) \in Nat
          /\ Cardinality(Holders(k) \ {d}) \in Nat
          /\ Cardinality(Holders(k) \ {d}) = Cardinality(Holders(k)) - 1
      BY <2>3, <3>1, OneLess
    <3>3. refCount'[k] = refCount[k] - 1
      BY <1>0, <2>1, <3>1, <3>2 DEF LRUTypeOK
    <3> QED
      BY <2>3, <3>1, <3>2, <3>3
  <2>6. BytesExact'
    BY <1>0, <2>1, <2>2, EntriesStay, CountedNext DEF BytesExact
  <2>7. LRUTypeOK' /\ PutOfAFile'
    BY <1>0, <2>1, <2>2, <2>4 DEF LRUTypeOK, PutOfAFile
  <2>8. CountsHolders'
    BY <1>0, <2>1, <2>3, <2>4, <2>5 DEF CountsHolders
  <2>9. HeldIsKept'
    BY <1>0, <2>1, <2>2, <2>3, <2>4, <2>5 DEF HeldIsKept
  <2> QED
    BY <2>6, <2>7, <2>8, <2>9 DEF LRUInv, CacheSound
<1>9. ASSUME NEW k \in Key, RemoveEntry(k) PROVE LRUInv'
  <2>1. PICK i \in DOMAIN order : order[i] = k /\ RemoveElement(i)
    BY <1>9 DEF RemoveEntry
  <2>2. /\ order' \in Seq(Key) /\ IsInjective(order') /\ Cached' = Cached \ {k}
        /\ usedBytes' \in Nat /\ usedBytes' = Total(Cached') /\ usedBytes' <= usedBytes
    BY <2>1, EntryLeaves
  <2>3. /\ UNCHANGED <<putting, held>> /\ putting = NoKey
        /\ refCount' = [refCount EXCEPT ![k] = 0]
        /\ forced' = IF Holders(k) = {} THEN forced ELSE forced \cup {k}
        /\ file' = file \/ file' = [file EXCEPT ![k] = "none"]
    BY <1>9 DEF RemoveEntry, Forced, DeleteFile
  <2>4. \A j : Holders(j)' = Holders(j)
    BY <2>3, HoldersStay
  <2>5. /\ file' \in [Key -> {"none", "partial", "whole"}]
        /\ \A j \in Key \ {k} : file'[j] = file[j]
    BY <1>0, <2>3 DEF LRUTypeOK
  <2>6. BytesExact'
    BY <1>0, <2>2, <2>5, CountedNext, MaxBytesAssumption DEF BytesExact, LRUTypeOK
  <2>7. LRUTypeOK' /\ PutOfAFile'
    BY <1>0, <2>2, <2>3, <2>5 DEF LRUTypeOK, PutOfAFile
  <2>8. CountsHolders'
    BY <1>0, <2>3, <2>4, FS_EmptySet DEF CountsHolders, LRUTypeOK
  <2>9. HeldIsKept'
    BY <1>0, <2>2, <2>3, <2>4, <2>5 DEF HeldIsKept, LRUTypeOK
  <2> QED
    BY <2>6, <2>7, <2>8, <2>9 DEF LRUInv, CacheSound
<1> QED
  BY <1>1, <1>2, <1>3, <1>4, <1>5, <1>6, <1>7, <1>8, <1>9 DEF LRUNext

\* For any artifacts, sizes, bound and deployments, through every order of
\* pulls, puts, evictions, releases and removals, the cache keeps what is held
\* and its byte count is the sum of its entries' sizes, within the bound
\* (lru.go LRUCache).
THEOREM CacheIsSound == LRUSpec => []CacheSound
<1>1. LRUInit => LRUInv
  <2> SUFFICES ASSUME LRUInit PROVE LRUInv
    OBVIOUS
  <2>1. order = <<>> /\ Cached = {} /\ \A k : Holders(k) = {}
    BY DEF LRUInit, Cached, ToSet, Holders
  <2>2. order \in Seq(Key) /\ IsInjective(order)
    BY <2>1 DEF IsInjective
  <2>3. LRUTypeOK /\ PutOfAFile
    BY <2>2 DEF LRUInit, LRUTypeOK, PutOfAFile
  <2>4. CountsHolders /\ HeldIsKept
    BY <2>1, FS_EmptySet DEF LRUInit, CountsHolders, HeldIsKept
  <2>5. Total(Cached) = 0
    BY <2>1, FS_EmptySet, TotalOfOneLess
  <2>6. BytesExact
    BY <2>1, <2>5, MaxBytesAssumption DEF LRUInit, BytesExact
  <2> QED
    BY <2>3, <2>4, <2>6 DEF LRUInv, CacheSound
<1>2. LRUInv => CacheSound
  BY DEF LRUInv
<1> QED
  BY <1>1, <1>2, LRUStep, PTL DEF LRUSpec

-----------------------------------------------------------------------------
(* Live telemetry.                                                         *)

HubSpec == HubInit /\ [][HubNext]_hubVars

\* A connection is in the map from its Subscribe to its deferred unsubscribe,
\* and its channel is closed only after that.
HubInv ==
    /\ DOMAIN handler = Conn
    /\ subs \subseteq {c \in Conn : handler[c] \in {"select", "write", "ping", "leave"}}
    /\ closed \subseteq {c \in Conn : handler[c] = "gone"}

\* No step of a connection, its reader or a publisher breaks that.
LEMMA HubStep == HubInv /\ [HubNext]_hubVars => HubInv'
<1> SUFFICES ASSUME HubInv, [HubNext]_hubVars PROVE HubInv'
  OBVIOUS
<1> USE DEF HubInv, Goto
<1>1. CASE Publish
  BY <1>1 DEF Publish
<1>2. ASSUME NEW c \in Conn, Accept(c) PROVE HubInv'
  BY <1>2 DEF Accept
<1>3. ASSUME NEW c \in Conn, ClientGoes(c) \/ ReaderEnds(c) PROVE HubInv'
  BY <1>3 DEF ClientGoes, ReaderEnds
<1>4. ASSUME NEW c \in Conn, Subscribe(c) PROVE HubInv'
  BY <1>4 DEF Subscribe
<1>5. ASSUME NEW c \in Conn, SelectDone(c) \/ SelectSample(c) \/ SelectHeartbeat(c) PROVE HubInv'
  BY <1>5 DEF SelectDone, SelectSample, SelectHeartbeat
<1>6. ASSUME NEW c \in Conn, WriteSucceeds(c) \/ PingSucceeds(c) \/ CallFails(c) PROVE HubInv'
  BY <1>6 DEF WriteSucceeds, PingSucceeds, PingAnswered, CallFails
<1>7. ASSUME NEW c \in Conn, Unsubscribe(c) PROVE HubInv'
  BY <1>7 DEF Unsubscribe, DeleteSub
<1>8. ASSUME NEW c \in Conn, CloseChannel(c) PROVE HubInv'
  BY <1>8 DEF CloseChannel
<1>9. CASE UNCHANGED hubVars
  BY <1>9 DEF hubVars
<1> QED
  BY <1>1, <1>2, <1>3, <1>4, <1>5, <1>6, <1>7, <1>8, <1>9 DEF HubNext, HandlerStep

\* Publish never finds a closed channel in the map (telemetry/hub.go), for any
\* number of connections that come, close and vanish while it publishes.
THEOREM SubscribersAreOpen == HubSpec => []OpenWhileSubscribed
<1>1. HubInit => HubInv
  BY DEF HubInit, HubInv
<1>2. HubInv => OpenWhileSubscribed
  BY DEF HubInv, OpenWhileSubscribed
<1> QED
  BY <1>1, <1>2, HubStep, PTL DEF HubSpec

-----------------------------------------------------------------------------
(* Telemetry retention.                                                    *)

RetentionSpec == RetentionInit /\ [][RetentionNext]_retentionVars

RetentionTypes ==
    /\ now \in Nat \ {0}
    /\ sampledAt \in [Sample -> Nat]
    /\ counted \in [Sample -> Nat]
    /\ raw \subseteq Sample /\ inserting \subseteq Sample
    /\ job \in [Job -> [pc : {"idle", "aggregate", "upsert", "prune", "commit"},
                       start : Nat]]
    /\ picked \in [Job -> SUBSET Sample] /\ pruned \in [Job -> SUBSET Sample]
    /\ overlap \in BOOLEAN

\* Only recorded samples are raw, read by a job or counted, the row of an open
\* INSERT is not old, and no job started after the clock.
Dated ==
    /\ \A s \in Sample :
          s \in raw \/ counted[s] # 0 \/ (\E j \in Job : s \in picked[j])
              => sampledAt[s] > 0 /\ s \notin inserting
    /\ \A s \in inserting : sampledAt[s] > 0 /\ now <= sampledAt[s] + Threshold
    /\ \A j \in Job : job[j].start <= now

\* What a job has read covers every raw row that is old by its start, and it
\* deletes nothing else.
Covers ==
    \A j \in Job :
        /\ job[j].pc \in {"upsert", "prune", "commit"} => Old(j) \subseteq picked[j]
        /\ job[j].pc = "commit" => pruned[j] \subseteq picked[j]

\* While no two jobs have overlapped, the open one has read and deletes
\* exactly the raw rows that are old by its start.
Alone ==
    ~overlap =>
        /\ \A j, k \in Job : job[j].pc # "idle" /\ job[k].pc # "idle" => j = k
        /\ \A j \in Job :
              /\ job[j].pc \in {"upsert", "prune", "commit"} => picked[j] = Old(j)
              /\ job[j].pc = "commit" => pruned[j] = picked[j]

RetentionInv == RetentionTypes /\ Dated /\ Covers /\ Alone /\ NoSampleLost

\* Every step keeps the types.
LEMMA RetentionTypeStep ==
    RetentionTypes /\ [RetentionNext]_retentionVars => RetentionTypes'
<1> SUFFICES ASSUME RetentionTypes, [RetentionNext]_retentionVars PROVE RetentionTypes'
  OBVIOUS
<1> USE DEF RetentionTypes, Step
<1>1. CASE Tick
  BY <1>1 DEF Tick
<1>2. ASSUME NEW s \in Sample, Create(s) PROVE RetentionTypes'
  BY <1>2 DEF Create
<1>2a. ASSUME NEW s \in Sample, CreateCommits(s) PROVE RetentionTypes'
  BY <1>2a DEF CreateCommits
<1>2b. ASSUME NEW s \in Sample, CreateFails(s) PROVE RetentionTypes'
  BY <1>2b DEF CreateFails
<1>3. ASSUME NEW j \in Job, Begin(j) PROVE RetentionTypes'
  <2>1. overlap' \in BOOLEAN
    BY <1>3, Zenon DEF Begin
  <2> QED
    BY <1>3, <2>1 DEF Begin
<1>4. ASSUME NEW j \in Job, Aggregate(j) PROVE RetentionTypes'
  BY <1>4 DEF Aggregate, Old
<1>5. ASSUME NEW j \in Job, Upsert(j) PROVE RetentionTypes'
  BY <1>5 DEF Upsert
<1>6. ASSUME NEW j \in Job, Prune(j) PROVE RetentionTypes'
  BY <1>6 DEF Prune, Expired, Old
<1>7. ASSUME NEW j \in Job, Commit(j) PROVE RetentionTypes'
  BY <1>7 DEF Commit, EndTx, IdleJob
<1>8. ASSUME NEW j \in Job, Rollback(j) PROVE RetentionTypes'
  BY <1>8 DEF Rollback, EndTx, IdleJob
<1>9. CASE UNCHANGED retentionVars
  BY <1>9 DEF retentionVars
<1> QED
  BY <1>1, <1>2, <1>3, <1>4, <1>5, <1>6, <1>7, <1>8, <1>9, <1>2a, <1>2b DEF RetentionNext

\* The invariant of retention is inductive.
LEMMA RetentionStep == RetentionInv /\ [RetentionNext]_retentionVars => RetentionInv'
<1> SUFFICES ASSUME RetentionInv, [RetentionNext]_retentionVars PROVE RetentionInv'
  OBVIOUS
<1>0. RetentionTypes /\ RetentionTypes'
  BY RetentionTypeStep DEF RetentionInv
<1> DEFINE Rest == Dated /\ Covers /\ Alone /\ NoSampleLost
<1> USE ThresholdAssumption
<1>1. ASSUME Tick PROVE Rest'
  <2>1. \A j \in Job : Old(j)' = Old(j)
    BY <1>1 DEF Tick, Old
  <2> QED
    BY <1>0, <1>1, <2>1 DEF Tick, RetentionInv, RetentionTypes, Dated, Covers, Alone,
          NoSampleLost, Created
<1>2. ASSUME NEW s \in Sample, Create(s) PROVE Rest'
  <2>1. /\ sampledAt[s] = 0 /\ sampledAt'[s] = now /\ inserting' = inserting \cup {s}
        /\ \A r \in Sample \ {s} : sampledAt'[r] = sampledAt[r]
        /\ UNCHANGED <<now, raw, counted, job, picked, pruned, overlap>>
        /\ now \in Nat \ {0}
    BY <1>0, <1>2 DEF Create, RetentionTypes
  <2>2. /\ s \notin raw /\ counted[s] = 0 /\ \A j \in Job : s \notin picked[j]
        /\ raw \subseteq Sample /\ inserting \subseteq Sample
    BY <1>0, <2>1 DEF RetentionInv, Dated, RetentionTypes
  <2>3. \A j \in Job : Old(j)' = Old(j)
    BY <2>1, <2>2 DEF Old
  <2>4. Dated'
    BY <1>0, <2>1, <2>2 DEF RetentionInv, Dated, RetentionTypes
  <2>5. Covers' /\ Alone'
    BY <2>1, <2>3 DEF RetentionInv, Covers, Alone
  <2>6. NoSampleLost'
    BY <2>1, <2>2 DEF RetentionInv, NoSampleLost, Created
  <2> QED
    BY <2>4, <2>5, <2>6
<1>2a. ASSUME NEW s \in Sample, CreateCommits(s) PROVE Rest'
  <2>1. /\ s \in inserting /\ inserting' = inserting \ {s} /\ raw' = raw \cup {s}
        /\ UNCHANGED <<now, sampledAt, counted, job, picked, pruned, overlap>>
    BY <1>2a DEF CreateCommits
  <2>2. /\ sampledAt[s] \in Nat /\ sampledAt[s] > 0 /\ now \in Nat
        /\ now <= sampledAt[s] + Threshold /\ s \notin raw /\ counted[s] = 0
    BY <1>0, <2>1 DEF RetentionInv, Dated, RetentionTypes
  <2>3. \A j \in Job : job[j].start \in Nat /\ job[j].start <= now
    BY <1>0 DEF RetentionInv, Dated, RetentionTypes
  <2>4. \A j \in Job : Old(j)' = Old(j)
    BY <2>1, <2>2, <2>3 DEF Old
  <2>5. Dated'
    BY <2>1, <2>2 DEF RetentionInv, Dated
  <2>6. Covers' /\ Alone'
    BY <2>1, <2>4 DEF RetentionInv, Covers, Alone
  <2>7. NoSampleLost'
    BY <2>1, <2>2 DEF RetentionInv, NoSampleLost, Created
  <2> QED
    BY <2>5, <2>6, <2>7
<1>2b. ASSUME NEW s \in Sample, CreateFails(s) PROVE Rest'
  <2>1. /\ s \in inserting /\ inserting' = inserting \ {s} /\ sampledAt'[s] = 0
        /\ \A r \in Sample \ {s} : sampledAt'[r] = sampledAt[r]
        /\ UNCHANGED <<now, raw, counted, job, picked, pruned, overlap>>
    BY <1>0, <1>2b DEF CreateFails, RetentionTypes
  <2>2. /\ s \notin raw /\ counted[s] = 0 /\ \A j \in Job : s \notin picked[j]
        /\ raw \subseteq Sample /\ inserting \subseteq Sample
    BY <1>0, <2>1 DEF RetentionInv, Dated, RetentionTypes
  <2>3. \A j \in Job : Old(j)' = Old(j)
    BY <2>1, <2>2 DEF Old
  <2>4. Dated'
    BY <2>1, <2>2 DEF RetentionInv, Dated
  <2>5. Covers' /\ Alone'
    BY <2>1, <2>3 DEF RetentionInv, Covers, Alone
  <2>6. NoSampleLost'
    BY <2>1, <2>2 DEF RetentionInv, NoSampleLost, Created
  <2> QED
    BY <2>4, <2>5, <2>6
<1>3. ASSUME NEW j \in Job, Begin(j) PROVE Rest'
  <2>1. /\ UNCHANGED <<now, raw, sampledAt, inserting, counted, picked, pruned>>
        /\ job'[j] = [pc |-> "aggregate", start |-> now]
        /\ \A k \in Job \ {j} : job'[k] = job[k]
        /\ now \in Nat
    BY <1>0, <1>3 DEF Begin, RetentionTypes
  <2>2. ~overlap' => ~overlap /\ \A k \in Job \ {j} : job[k].pc = "idle"
    BY <1>3 DEF Begin
  <2>3. \A k \in Job \ {j} : Old(k)' = Old(k)
    BY <2>1 DEF Old
  <2>4. Dated' /\ Covers'
    BY <2>1, <2>3 DEF RetentionInv, Dated, Covers
  <2>5. Alone'
    BY <2>1, <2>2, <2>3 DEF RetentionInv, Alone
  <2>6. NoSampleLost'
    BY <2>1, <2>2 DEF RetentionInv, NoSampleLost, Created
  <2> QED
    BY <2>4, <2>5, <2>6
<1>4. ASSUME NEW j \in Job, Aggregate(j) PROVE Rest'
  <2>1. /\ UNCHANGED <<now, raw, sampledAt, inserting, counted, pruned, overlap>>
        /\ job[j].pc = "aggregate" /\ job'[j].pc \in {"upsert", "prune"}
        /\ job'[j].start = job[j].start
        /\ picked'[j] = Old(j)
        /\ \A k \in Job \ {j} : job'[k] = job[k] /\ picked'[k] = picked[k]
    BY <1>0, <1>4 DEF Aggregate, Step, RetentionTypes
  <2>2. \A k \in Job : Old(k)' = Old(k)
    BY <2>1 DEF Old
  <2>3. Dated' /\ Covers'
    <3>1. Old(j) \subseteq raw
      BY DEF Old
    <3>2. Dated'
      BY <2>1, <3>1 DEF RetentionInv, Dated
    <3> QED
      BY <2>1, <2>2, <3>2 DEF RetentionInv, Covers
  <2>4. Alone'
    BY <2>1, <2>2 DEF RetentionInv, Alone
  <2>5. NoSampleLost'
    BY <2>1 DEF RetentionInv, NoSampleLost, Created
  <2> QED
    BY <2>3, <2>4, <2>5
<1>5. ASSUME NEW j \in Job, Upsert(j) PROVE Rest'
  <2>1. /\ UNCHANGED <<now, raw, sampledAt, inserting, counted, picked, pruned, overlap>>
        /\ job[j].pc = "upsert" /\ job'[j].pc = "prune"
        /\ job'[j].start = job[j].start
        /\ \A k \in Job \ {j} : job'[k] = job[k]
    BY <1>0, <1>5 DEF Upsert, Step, RetentionTypes
  <2>2. \A k \in Job : Old(k)' = Old(k)
    BY <2>1 DEF Old
  <2>3. Dated' /\ Covers'
    BY <2>1, <2>2 DEF RetentionInv, Dated, Covers
  <2>4. Alone'
    BY <2>1, <2>2 DEF RetentionInv, Alone
  <2>5. NoSampleLost'
    BY <2>1 DEF RetentionInv, NoSampleLost, Created
  <2> QED
    BY <2>3, <2>4, <2>5
<1>6. ASSUME NEW j \in Job, Prune(j) PROVE Rest'
  <2>1. /\ UNCHANGED <<now, raw, sampledAt, inserting, counted, picked, overlap>>
        /\ job[j].pc = "prune" /\ job'[j].pc = "commit"
        /\ job'[j].start = job[j].start
        /\ pruned'[j] = Old(j)
        /\ \A k \in Job \ {j} : job'[k] = job[k] /\ pruned'[k] = pruned[k]
    BY <1>0, <1>6 DEF Prune, Expired, Step, RetentionTypes
  <2>2. \A k \in Job : Old(k)' = Old(k)
    BY <2>1 DEF Old
  <2>3. Dated' /\ Covers'
    BY <2>1, <2>2 DEF RetentionInv, Dated, Covers
  <2>4. Alone'
    BY <2>1, <2>2 DEF RetentionInv, Alone
  <2>5. NoSampleLost'
    BY <2>1 DEF RetentionInv, NoSampleLost, Created
  <2> QED
    BY <2>3, <2>4, <2>5
<1>7. ASSUME NEW j \in Job, Commit(j) PROVE Rest'
  <2>1. /\ UNCHANGED <<now, sampledAt, inserting, overlap>>
        /\ job[j].pc = "commit" /\ job'[j].pc = "idle" /\ job'[j].start = 0
        /\ picked'[j] = {}
        /\ raw' = raw \ pruned[j]
        /\ \A k \in Job \ {j} : /\ job'[k] = job[k]
                                /\ picked'[k] = picked[k] /\ pruned'[k] = pruned[k]
    BY <1>0, <1>7 DEF Commit, EndTx, IdleJob, RetentionTypes
  <2>2. \A s \in Sample :
           /\ counted[s] \in Nat
           /\ counted'[s] = IF s \in picked[j] THEN counted[s] + 1 ELSE counted[s]
    BY <1>0, <1>7 DEF Commit, RetentionTypes
  <2>3. \A k \in Job \ {j} : Old(k)' = Old(k) \ pruned[j]
    BY <2>1 DEF Old
  <2>4. now \in Nat /\ pruned[j] \subseteq picked[j]
    BY <1>0, <2>1 DEF RetentionInv, RetentionTypes, Covers
  <2>5. Dated' /\ Covers'
    <3>1. Dated'
      BY <2>1, <2>2, <2>4 DEF RetentionInv, Dated
    <3> QED
      BY <2>1, <2>3, <2>4, <3>1 DEF RetentionInv, Covers
  <2>6. ~overlap => /\ picked[j] = Old(j) /\ pruned[j] = Old(j) /\ Old(j) \subseteq raw
                    /\ \A k \in Job \ {j} : job[k].pc = "idle"
    BY <2>1 DEF RetentionInv, Alone, Old
  <2>7. Alone'
    BY <2>1, <2>6 DEF Alone
  <2>8. ASSUME NEW s \in Created'
        PROVE  /\ s \in raw' \/ counted'[s] > 0
               /\ ~overlap' => counted'[s] = IF s \in raw' THEN 0 ELSE 1
    <3>1. /\ s \in Sample
          /\ s \in raw \/ counted[s] > 0
          /\ ~overlap => counted[s] = IF s \in raw THEN 0 ELSE 1
      BY <2>1 DEF RetentionInv, NoSampleLost, Created
    <3> QED
      BY <2>1, <2>2, <2>4, <2>6, <3>1
  <2>9. NoSampleLost'
    BY <2>8 DEF NoSampleLost
  <2> QED
    BY <2>5, <2>7, <2>9
<1>8. ASSUME NEW j \in Job, Rollback(j) PROVE Rest'
  <2>1. /\ UNCHANGED <<now, raw, sampledAt, inserting, counted, overlap>>
        /\ job'[j].pc = "idle" /\ job'[j].start = 0
        /\ picked'[j] = {}
        /\ \A k \in Job \ {j} : /\ job'[k] = job[k]
                                /\ picked'[k] = picked[k] /\ pruned'[k] = pruned[k]
        /\ now \in Nat
    BY <1>0, <1>8 DEF Rollback, EndTx, IdleJob, RetentionTypes
  <2>2. \A k \in Job \ {j} : Old(k)' = Old(k)
    BY <2>1 DEF Old
  <2>3. Dated' /\ Covers'
    BY <2>1, <2>2 DEF RetentionInv, Dated, Covers
  <2>4. Alone'
    BY <2>1, <2>2 DEF RetentionInv, Alone
  <2>5. NoSampleLost'
    BY <2>1 DEF RetentionInv, NoSampleLost, Created
  <2> QED
    BY <2>3, <2>4, <2>5
<1>9. ASSUME UNCHANGED retentionVars PROVE Rest'
  <2>1. \A j \in Job : Old(j)' = Old(j)
    BY <1>9 DEF retentionVars, Old
  <2> QED
    BY <1>9, <2>1 DEF retentionVars, RetentionInv, Dated, Covers, Alone, NoSampleLost,
          Created
<1>10. Rest'
  BY <1>1, <1>2, <1>3, <1>4, <1>5, <1>6, <1>7, <1>8, <1>9, <1>2a, <1>2b DEF RetentionNext
<1> QED
  BY <1>0, <1>10 DEF RetentionInv

\* No sample is lost, or counted twice by jobs that never overlapped, whatever
\* the number of samples and of jobs, at whatever statement a job is rolled
\* back: the DELETE removes only rows the same transaction has aggregated,
\* since both measure a row's age from the transaction's start.
THEOREM NoSampleIsLost == RetentionSpec => []NoSampleLost
<1>1. RetentionInit => RetentionInv
  <2> SUFFICES ASSUME RetentionInit PROVE RetentionInv
    OBVIOUS
  <2>1. RetentionTypes /\ Created = {}
    <3>1. job \in [Job -> [pc : {"idle", "aggregate", "upsert", "prune", "commit"},
                           start : Nat]]
      BY DEF RetentionInit, IdleJob
    <3>2. picked \in [Job -> SUBSET Sample] /\ pruned \in [Job -> SUBSET Sample]
      BY Zenon DEF RetentionInit
    <3>3. sampledAt \in [Sample -> Nat] /\ counted \in [Sample -> Nat] /\ Created = {}
      BY DEF RetentionInit, Created
    <3>4. now \in Nat \ {0} /\ raw \subseteq Sample /\ inserting \subseteq Sample
      BY DEF RetentionInit
    <3>5. overlap \in BOOLEAN
      BY Zenon DEF RetentionInit
    <3> QED
      BY <3>1, <3>2, <3>3, <3>4, <3>5, Zenon DEF RetentionTypes
  <2>2. \A j \in Job : job[j].pc = "idle" /\ job[j].start = 0 /\ picked[j] = {}
    BY DEF RetentionInit, IdleJob
  <2>3. Dated
    BY <2>2 DEF RetentionInit, Dated
  <2>4. Covers /\ Alone
    <3>1. Covers
      BY <2>2 DEF Covers
    <3>2. \A j, k \in Job : ~(job[j].pc # "idle" /\ job[k].pc # "idle")
      BY <2>2
    <3> QED
      BY <2>2, <3>1, <3>2 DEF Alone
  <2> QED
    BY <2>1, <2>3, <2>4 DEF RetentionInv, NoSampleLost
<1>2. RetentionInv => NoSampleLost
  BY DEF RetentionInv
<1> QED
  BY <1>1, <1>2, RetentionStep, PTL DEF RetentionSpec

-----------------------------------------------------------------------------
(* Schema migration.                                                       *)

MigrationSpec == MigrationInit /\ [][MigrationNext]_migrationVars

\* Releases only add migrations at the end: a release that has one has every
\* older one that some other release has (migrate.go Migration: "one
\* forward-only schema change").
ForwardOnly ==
    \A q, r \in Replica : Loadable(Files[q]) /\ Loadable(Files[r]) =>
        \A v \in Versions(q), w \in Versions(r) : v < w => v \in Versions(r)

\* The versions of the releases that start at all.
Known == {v \in Nat \ {0} : \E r \in Replica : Loadable(Files[r]) /\ v \in Versions(r)}

MigrationTypes ==
    /\ phase \in [Replica -> Phases]
    /\ todo \in [Replica -> SUBSET [wellNamed : BOOLEAN, version : Nat \ {0}, place : Nat]]
    /\ lock \in Replica \cup {Nobody, Ghost}
    /\ sent \in Nat
    /\ schema \in Seq(Known)
    /\ recorded = ToSet(schema)

\* v is the least version of one of the releases that is not recorded.
Due(v) ==
    /\ v \notin recorded
    /\ \E r \in Replica :
          /\ Loadable(Files[r]) /\ v \in Versions(r)
          /\ \A w \in Versions(r) : w < v => w \in recorded

\* Only the holder of the lock reads and applies, what it has left to do is
\* what the table lacks, and a dead session was sent what was due.
UnderLock ==
    /\ \A r \in Replica :
          /\ phase[r] \in {"read", "apply", "commit"} => lock = r
          /\ phase[r] \in {"lock", "read", "apply", "commit"} => Loadable(Files[r])
          /\ phase[r] \in {"apply", "commit"} =>
                todo[r] = {f \in Files[r] : f.version \notin recorded}
          /\ phase[r] = "commit" => todo[r] # {}
          /\ phase[r] = "up" => Versions(r) \subseteq recorded
    /\ sent # 0 => lock = Ghost /\ Due(sent)

\* What has taken effect is in order and has no gap.
InOrder ==
    /\ \A i, j \in 1 .. Len(schema) : i < j => schema[i] < schema[j]
    /\ \A v \in recorded, w \in Known : w < v => w \in recorded

MigrationInv ==
    /\ MigrationTypes
    /\ UnderLock
    /\ StartsUndisturbed
    /\ ForwardOnly => InOrder

\* What the loop comes to first is the least version left.
LEMMA ForemostIsDue ==
    ASSUME MigrationInv, NEW r \in Replica, phase[r] \in {"apply", "commit"}, todo[r] # {}
    PROVE  /\ Foremost(todo[r]) \in todo[r]
           /\ Upcoming(r) \in Known
           /\ Due(Upcoming(r))
           /\ \A f \in todo[r] : f.version = Upcoming(r) => f = Foremost(todo[r])
<1>1. /\ todo[r] = {f \in Files[r] : f.version \notin recorded}
      /\ Loadable(Files[r])
      /\ \A f \in Files[r] : f.version \in Nat \ {0}
  BY FilesAssumption DEF MigrationInv, UnderLock
<1>2. PICK least \in {f.version : f \in todo[r]} :
         \A y \in {f.version : f \in todo[r]} : least <= y
  <2>1. {f.version : f \in todo[r]} \in SUBSET Nat /\ {f.version : f \in todo[r]} # {}
    BY <1>1
  <2> QED
    BY <2>1, LeastOf
<1>3. PICK f \in todo[r] : f.version = least
  BY <1>2
<1>4. \A g \in todo[r] \ {f} : f.version < g.version
  <2>1. \A g \in todo[r] : f.version <= g.version /\ f.version \in Nat /\ g.version \in Nat
    BY <1>1, <1>2, <1>3
  <2>2. f \in Files[r] /\ \A g \in todo[r] : g \in Files[r]
    BY <1>1
  <2>3. \A g \in todo[r] \ {f} : g.version # f.version
    BY <1>1, <2>2 DEF Loadable
  <2> QED
    BY <2>1, <2>3
<1>5. \A g \in todo[r] : (\A h \in todo[r] \ {g} : Sorted(g, h)) => g = f
  BY <1>1, <1>4 DEF Sorted
<1>6. Foremost(todo[r]) = f
  BY <1>4, <1>5 DEF Foremost, Sorted
<1>7. Upcoming(r) = f.version /\ f.version \in Versions(r) /\ f.version \notin recorded
  BY <1>1, <1>6 DEF Upcoming, Versions
<1>8. \A w \in Versions(r) : w < f.version => w \in recorded
  BY <1>1, <1>4 DEF Versions
<1> QED
  BY <1>1, <1>3, <1>6, <1>7, <1>8 DEF Known, Due, Loadable

\* Committing a version that is due keeps the order.
LEMMA CommitsInOrder ==
    ASSUME MigrationInv, NEW v \in Known, Due(v), Committed(v)
    PROVE  /\ schema' \in Seq(Known)
           /\ recorded' = ToSet(schema')
           /\ ForwardOnly => InOrder'
<1>1. /\ schema \in Seq(Known) /\ Len(schema) \in Nat /\ recorded = ToSet(schema)
      /\ schema' = Append(schema, v) /\ recorded' = recorded \cup {v}
  BY DEF MigrationInv, MigrationTypes, Committed
<1>2. /\ schema' \in Seq(Known) /\ Len(schema') = Len(schema) + 1
      /\ \A i \in 1 .. Len(schema) : schema'[i] = schema[i]
      /\ schema'[Len(schema) + 1] = v
      /\ DOMAIN schema = 1 .. Len(schema) /\ DOMAIN schema' = 1 .. Len(schema) + 1
  BY <1>1
<1>3. recorded' = ToSet(schema')
  BY <1>1, <1>2 DEF ToSet
<1>4. ASSUME ForwardOnly PROVE InOrder'
  <2>1. PICK r \in Replica : /\ Loadable(Files[r]) /\ v \in Versions(r)
                             /\ \A w \in Versions(r) : w < v => w \in recorded
    BY DEF Due
  <2>2. \A w \in Known : w < v => w \in recorded
    BY <1>4, <2>1 DEF ForwardOnly, Known
  <2>3. InOrder /\ v \notin recorded /\ recorded \subseteq Known
    BY <1>1, <1>4 DEF MigrationInv, Due, ToSet
  <2>4. \A i \in 1 .. Len(schema) : schema[i] \in recorded
    BY <1>1, <1>2 DEF ToSet
  <2>5. \A w \in recorded : w < v
    BY <2>3 DEF InOrder, Known
  <2>6. \A i, j \in 1 .. Len(schema') : i < j => schema'[i] < schema'[j]
    BY <1>1, <1>2, <2>3, <2>4, <2>5 DEF InOrder
  <2>7. \A u \in recorded', w \in Known : w < u => w \in recorded'
    BY <1>1, <2>2, <2>3 DEF InOrder
  <2> QED
    BY <2>6, <2>7 DEF InOrder
<1> QED
  BY <1>2, <1>3, <1>4

\* The table stays as it is.
LEMMA UnrecordedStep ==
    ASSUME MigrationInv, UNCHANGED <<recorded, schema>>
    PROVE  /\ schema' \in Seq(Known)
           /\ recorded' = ToSet(schema')
           /\ ForwardOnly => InOrder'
           /\ \A v : Due(v)' <=> Due(v)
  BY DEF MigrationInv, MigrationTypes, InOrder, Due

\* The invariant of migration is inductive: whoever commits holds the lock and
\* decided under it, and a dead session keeps the lock until its last COMMIT
\* is decided.
LEMMA MigrationStep ==
    MigrationInv /\ [MigrationNext]_migrationVars => MigrationInv'
<1> SUFFICES ASSUME MigrationInv, [MigrationNext]_migrationVars PROVE MigrationInv'
  OBVIOUS
<1>0. MigrationTypes /\ UnderLock /\ StartsUndisturbed
  BY DEF MigrationInv
<1> USE SessionAssumption, FilesAssumption
<1>1. ASSUME NEW r \in Replica, Load(r) \/ LoadRejected(r) PROVE MigrationInv'
  <2>1. /\ UNCHANGED <<todo, lock, sent, recorded, schema>>
        /\ phase' = [phase EXCEPT ![r] = phase'[r]]
        /\ \/ phase'[r] = "lock" /\ Loadable(Files[r]) /\ struck' = struck \ {r}
           \/ phase'[r] = "failed" /\ ~Loadable(Files[r]) /\ struck' = struck
    BY <1>0, <1>1 DEF Load, LoadRejected, Enter, MigrationTypes
  <2>2. MigrationTypes'
    BY <1>0, <2>1, UnrecordedStep DEF MigrationTypes, Phases
  <2>3. UnderLock'
    BY <1>0, <2>1, UnrecordedStep DEF UnderLock, MigrationTypes
  <2>4. StartsUndisturbed'
    BY <1>0, <2>1 DEF StartsUndisturbed, MigrationTypes
  <2> QED
    BY <2>1, <2>2, <2>3, <2>4, UnrecordedStep DEF MigrationInv
<1>2. ASSUME NEW r \in Replica, Lock(r) PROVE MigrationInv'
  <2>1. /\ UNCHANGED <<todo, sent, recorded, schema, struck>>
        /\ phase' = [phase EXCEPT ![r] = "read"] /\ phase[r] = "lock"
        /\ lock = Nobody /\ lock' = r
    BY <1>2 DEF Lock, Enter
  <2>2. MigrationTypes'
    BY <1>0, <2>1, UnrecordedStep DEF MigrationTypes, Phases
  <2>3. UnderLock'
    BY <1>0, <2>1, UnrecordedStep DEF UnderLock, MigrationTypes
  <2>4. StartsUndisturbed'
    BY <1>0, <2>1 DEF StartsUndisturbed, MigrationTypes
  <2> QED
    BY <2>1, <2>2, <2>3, <2>4, UnrecordedStep DEF MigrationInv
<1>3. ASSUME NEW r \in Replica, Read(r) PROVE MigrationInv'
  <2>1. /\ UNCHANGED <<lock, sent, recorded, schema, struck>>
        /\ phase' = [phase EXCEPT ![r] = "apply"] /\ phase[r] = "read"
        /\ todo' = [todo EXCEPT ![r] = {f \in Files[r] : f.version \notin recorded}]
    BY <1>3 DEF Read, Enter, AppliedVersions
  <2>2. MigrationTypes'
    BY <1>0, <2>1, UnrecordedStep DEF MigrationTypes, Phases
  <2>3. UnderLock'
    BY <1>0, <2>1, UnrecordedStep DEF UnderLock, MigrationTypes
  <2>4. StartsUndisturbed'
    BY <1>0, <2>1 DEF StartsUndisturbed, MigrationTypes
  <2> QED
    BY <2>1, <2>2, <2>3, <2>4, UnrecordedStep DEF MigrationInv
<1>4. ASSUME NEW r \in Replica, Apply(r) PROVE MigrationInv'
  <2>1. phase[r] = "apply" /\ todo[r] # {} /\ Upcoming(r) \notin recorded
    BY <1>4, ForemostIsDue DEF Apply, Due
  <2>2. /\ UNCHANGED <<todo, lock, sent, recorded, schema, struck>>
        /\ phase' = [phase EXCEPT ![r] = "commit"]
    BY <1>0, <1>4, <2>1 DEF Apply, Enter, MigrationTypes
  <2>3. MigrationTypes'
    BY <1>0, <2>2, UnrecordedStep DEF MigrationTypes, Phases
  <2>4. UnderLock'
    BY <1>0, <2>1, <2>2, UnrecordedStep DEF UnderLock, MigrationTypes
  <2>5. StartsUndisturbed'
    BY <1>0, <2>2 DEF StartsUndisturbed, MigrationTypes
  <2> QED
    BY <2>2, <2>3, <2>4, <2>5, UnrecordedStep DEF MigrationInv
<1>5. ASSUME NEW r \in Replica, CommitMigration(r) \/ CommitUnanswered(r)
      PROVE  MigrationInv'
  <2>1. /\ phase[r] = "commit" /\ Committed(Upcoming(r))
        /\ phase' = [phase EXCEPT ![r] = phase'[r]] /\ UNCHANGED sent
        /\ \/ /\ phase'[r] = "apply" /\ UNCHANGED <<lock, struck>>
              /\ todo' = [todo EXCEPT ![r] = todo[r] \ {Foremost(todo[r])}]
           \/ /\ phase'[r] = "failed" /\ struck' = struck \cup {r}
              /\ lock' = Nobody /\ UNCHANGED todo
    BY <1>0, <1>5 DEF CommitMigration, CommitUnanswered, Enter, Trouble, Unlock, UnderLock,
          MigrationTypes
  <2>2. lock = r /\ todo[r] # {} /\ sent = 0 /\ r # Ghost
    BY <1>0, <2>1 DEF UnderLock
  <2>3. /\ Foremost(todo[r]) \in todo[r] /\ Upcoming(r) \in Known /\ Due(Upcoming(r))
        /\ \A f \in todo[r] : f.version = Upcoming(r) => f = Foremost(todo[r])
        /\ Foremost(todo[r]).version = Upcoming(r)
    BY <2>1, <2>2, ForemostIsDue DEF Upcoming
  <2>4. /\ schema' \in Seq(Known) /\ recorded' = ToSet(schema')
        /\ ForwardOnly => InOrder'
        /\ recorded' = recorded \cup {Upcoming(r)}
    BY <2>1, <2>3, CommitsInOrder DEF Committed
  <2>5. MigrationTypes'
    BY <1>0, <2>1, <2>4 DEF MigrationTypes, Phases
  <2>6. UnderLock'
    <3>1. \A q \in Replica \ {r} :
             phase'[q] = phase[q] /\ phase[q] \notin {"read", "apply", "commit"}
      BY <1>0, <2>1, <2>2 DEF UnderLock, MigrationTypes
    <3>2. todo[r] = {f \in Files[r] : f.version \notin recorded} /\ Loadable(Files[r])
      BY <1>0, <2>1 DEF UnderLock
    <3>3. todo[r] \ {Foremost(todo[r])} = {f \in Files[r] : f.version \notin recorded'}
      BY <2>3, <2>4, <3>2
    <3> QED
      BY <1>0, <2>1, <2>2, <2>4, <3>1, <3>2, <3>3 DEF UnderLock, MigrationTypes
  <2>7. StartsUndisturbed'
    BY <1>0, <2>1 DEF StartsUndisturbed, MigrationTypes
  <2> QED
    BY <2>4, <2>5, <2>6, <2>7 DEF MigrationInv
<1>6. ASSUME NEW r \in Replica, Serve(r) PROVE MigrationInv'
  <2>1. /\ UNCHANGED <<todo, sent, recorded, schema, struck>>
        /\ phase[r] = "apply" /\ phase' = [phase EXCEPT ![r] = "up"] /\ todo[r] = {}
        /\ lock = r /\ lock' = Nobody
    BY <1>0, <1>6 DEF Serve, Enter, Unlock, UnderLock
  <2>2. Versions(r) \subseteq recorded
    BY <1>0, <2>1 DEF UnderLock, Versions
  <2>3. MigrationTypes'
    BY <1>0, <2>1, UnrecordedStep DEF MigrationTypes, Phases
  <2>4. UnderLock'
    BY <1>0, <2>1, <2>2, UnrecordedStep DEF UnderLock, MigrationTypes
  <2>5. StartsUndisturbed'
    BY <1>0, <2>1 DEF StartsUndisturbed, MigrationTypes
  <2> QED
    BY <2>1, <2>3, <2>4, <2>5, UnrecordedStep DEF MigrationInv
<1>7. ASSUME NEW r \in Replica, Fails(r) PROVE MigrationInv'
  <2>1. /\ UNCHANGED <<todo, sent, recorded, schema>>
        /\ phase' = [phase EXCEPT ![r] = "failed"] /\ struck' = struck \cup {r}
        /\ lock' = IF lock = r THEN Nobody ELSE lock
    BY <1>7 DEF Fails, Enter, Unlock, Trouble
  <2>2. MigrationTypes'
    BY <1>0, <2>1, UnrecordedStep DEF MigrationTypes, Phases
  <2>3. UnderLock'
    BY <1>0, <2>1, UnrecordedStep DEF UnderLock, MigrationTypes
  <2>4. StartsUndisturbed'
    BY <1>0, <2>1 DEF StartsUndisturbed, MigrationTypes
  <2> QED
    BY <2>1, <2>2, <2>3, <2>4, UnrecordedStep DEF MigrationInv
<1>8. ASSUME NEW r \in Replica, Dies(r) PROVE MigrationInv'
  <2>1. /\ UNCHANGED <<todo, recorded, schema>>
        /\ phase' = [phase EXCEPT ![r] = "down"] /\ struck' = struck \cup {r}
        /\ lock' = IF lock = r THEN Ghost ELSE lock
        /\ \/ phase[r] = "commit" /\ lock = r /\ sent' \in {0, Upcoming(r)}
           \/ sent' = sent
    BY <1>8 DEF Dies, Enter, Trouble
  <2>2. phase[r] = "commit" => Upcoming(r) \in Nat /\ Due(Upcoming(r))
    BY <1>0, ForemostIsDue DEF UnderLock, Known
  <2>3. MigrationTypes'
    BY <1>0, <2>1, <2>2, UnrecordedStep DEF MigrationTypes, Phases
  <2>4. UnderLock'
    <3>1. sent' # 0 => lock' = Ghost /\ Due(sent')
      BY <1>0, <2>1, <2>2 DEF UnderLock
    <3>2. Due(sent)' <=> Due(sent')
      BY <2>1 DEF Due
    <3> QED
      BY <1>0, <2>1, <3>1, <3>2 DEF UnderLock, MigrationTypes
  <2>5. StartsUndisturbed'
    BY <1>0, <2>1 DEF StartsUndisturbed, MigrationTypes
  <2> QED
    BY <2>1, <2>3, <2>4, <2>5, UnrecordedStep DEF MigrationInv
<1>9. ASSUME SessionEnds PROVE MigrationInv'
  <2>1. /\ lock = Ghost /\ lock' = Nobody /\ sent' = 0
        /\ UNCHANGED <<phase, todo, struck>>
        /\ IF sent = 0 THEN UNCHANGED <<recorded, schema>> ELSE Committed(sent)
    BY <1>9 DEF SessionEnds
  <2>2. \A r \in Replica : phase[r] \notin {"read", "apply", "commit"}
    BY <1>0, <2>1 DEF UnderLock
  <2>3. /\ schema' \in Seq(Known) /\ recorded' = ToSet(schema')
        /\ ForwardOnly => InOrder'
        /\ recorded \subseteq recorded'
    <3>1. CASE sent = 0
      BY <2>1, <3>1, UnrecordedStep
    <3>2. CASE sent # 0
      <4>1. Due(sent) /\ sent \in Known /\ Committed(sent)
        BY <1>0, <2>1, <3>2 DEF UnderLock, MigrationTypes, Due, Known
      <4> QED
        BY <4>1, CommitsInOrder DEF Committed
    <3> QED
      BY <3>1, <3>2
  <2>4. MigrationTypes'
    BY <1>0, <2>1, <2>3 DEF MigrationTypes
  <2>5. UnderLock'
    BY <1>0, <2>1, <2>2, <2>3 DEF UnderLock
  <2>6. StartsUndisturbed'
    BY <1>0, <2>1 DEF StartsUndisturbed
  <2> QED
    BY <2>3, <2>4, <2>5, <2>6 DEF MigrationInv
<1>10. ASSUME UNCHANGED migrationVars PROVE MigrationInv'
  <2>1. UNCHANGED <<recorded, schema>>
    BY <1>10 DEF migrationVars
  <2>2. UnderLock' /\ MigrationTypes'
    BY <1>0, <1>10, <2>1, UnrecordedStep DEF migrationVars, UnderLock, MigrationTypes
  <2> QED
    BY <1>0, <1>10, <2>1, <2>2, UnrecordedStep
       DEF migrationVars, MigrationInv, StartsUndisturbed
<1> QED
  BY <1>1, <1>2, <1>3, <1>4, <1>5, <1>6, <1>7, <1>8, <1>9, <1>10 DEF MigrationNext

\* The invariant holds in every behaviour.
LEMMA MigrationAlways == MigrationSpec => []MigrationInv
<1>1. MigrationInit => MigrationInv
  <2> SUFFICES ASSUME MigrationInit PROVE MigrationInv
    OBVIOUS
  <2>1. /\ schema = <<>> /\ recorded = {} /\ sent = 0
        /\ \A r \in Replica : phase[r] = "down"
    BY DEF MigrationInit
  <2>2. schema \in Seq(Known) /\ Len(schema) = 0 /\ recorded = ToSet(schema)
    BY <2>1 DEF ToSet
  <2>3. MigrationTypes
    BY <2>1, <2>2 DEF MigrationInit, MigrationTypes, Phases
  <2>4. UnderLock /\ StartsUndisturbed /\ InOrder
    BY <2>1, <2>2 DEF UnderLock, StartsUndisturbed, InOrder
  <2> QED
    BY <2>3, <2>4 DEF MigrationInv
<1> QED
  BY <1>1, MigrationStep, PTL DEF MigrationSpec

\* For any number of replicas, of any releases that only add migrations at the
\* end, and whatever fails or dies, the migrations take effect in order, each
\* once, and a replica that serves has all of its own (migrate.go Migrator).
THEOREM MigratesInOrder ==
    ASSUME ForwardOnly
    PROVE  MigrationSpec => []MigratedInOrder
<1>1. MigrationInv => MigratedInOrder
  BY DEF MigrationInv, MigrationTypes, UnderLock, InOrder, MigratedInOrder
<1> QED
  BY <1>1, MigrationAlways, PTL

\* A replica's start fails only for its own troubles, whatever releases the
\* others run (migrate.go: "concurrent gateway replicas cannot race the same
\* migration").
THEOREM StartsAreUndisturbed == MigrationSpec => []StartsUndisturbed
<1>1. MigrationInv => StartsUndisturbed
  BY DEF MigrationInv
<1> QED
  BY <1>1, MigrationAlways, PTL

-----------------------------------------------------------------------------
(* Placement and retries.  Their loops are recursions over the rounds: one  *)
(* lemma says that such a loop has a course, the others what it computes.   *)

\* What holds before a loop and is kept by each of its rounds holds after n
\* rounds: Good is the set of rounds after which it does.
LEMMA ByRounds ==
    ASSUME NEW n \in Nat, NEW Good, 0 \in Good, \A i \in 1 .. n : i - 1 \in Good => i \in Good
    PROVE  \A i \in 0 .. n : i \in Good
<1> SUFFICES ASSUME (0 .. n) \ Good # {} PROVE FALSE
  OBVIOUS
<1>0. (0 .. n) \ Good \in SUBSET Nat
  OBVIOUS
<1>1. PICK i \in (0 .. n) \ Good : \A k \in (0 .. n) \ Good : i <= k
  BY <1>0, LeastOf
<1>2. i \in 1 .. n /\ i - 1 \in 0 .. n
  BY <1>1
<1> QED
  BY <1>1, <1>2

\* A loop of n rounds from base, each taking the value before to the value
\* after as step says, has a course.
Course(f, n, base, step) ==
    f[0] = base /\ \A i \in 1 .. n : f[i] = step[<<i, f[i - 1]>>]
LEMMA LoopRuns ==
    ASSUME NEW n \in Nat, NEW S, NEW base \in S, NEW step \in [(1 .. n) \X S -> S]
    PROVE  \E f \in [0 .. n -> S] : Course(f, n, base, step)
<1> DEFINE Good == {i \in 0 .. n : \E f \in [0 .. i -> S] : Course(f, i, base, step)}
<1>1. 0 \in Good
  <2> DEFINE f == [i \in 0 .. 0 |-> base]
  <2>1. f \in [0 .. 0 -> S] /\ Course(f, 0, base, step)
    BY DEF Course
  <2> QED
    BY <2>1
<1>2. ASSUME NEW i \in 1 .. n, i - 1 \in Good PROVE i \in Good
  <2>1. PICK f \in [0 .. i - 1 -> S] : Course(f, i - 1, base, step)
    BY <1>2
  <2> DEFINE g == [k \in 0 .. i |-> IF k = i THEN step[<<i, f[i - 1]>>] ELSE f[k]]
  <2>2. g \in [0 .. i -> S]
    BY <2>1
  <2>3. g[0] = base
    BY <2>1 DEF Course
  <2>4. ASSUME NEW k \in 1 .. i PROVE g[k] = step[<<k, g[k - 1]>>]
    <3>1. CASE k = i
      <4>1. i \in 0 .. i /\ i - 1 \in 0 .. i /\ i - 1 # i
        OBVIOUS
      <4>2. g[i] = step[<<i, f[i - 1]>>] /\ g[i - 1] = f[i - 1]
        BY <4>1
      <4> QED
        BY <3>1, <4>2
    <3>2. CASE k # i
      BY <2>1, <3>2 DEF Course
    <3> QED
      BY <3>1, <3>2
  <2> HIDE DEF g
  <2>5. Course(g, i, base, step)
    BY <2>3, <2>4 DEF Course
  <2> QED
    BY <2>2, <2>5
<1>3. n \in Good
  <2> HIDE DEF Good
  <2>1. \A i \in 1 .. n : i - 1 \in Good => i \in Good
    BY <1>2
  <2>2. \A i \in 0 .. n : i \in Good
    BY <1>1, <2>1, ByRounds
  <2> QED
    BY <2>2
<1> QED
  BY <1>3

\* The nodes among the first i that can hold the model.
Holding(free, required, i) == {k \in 1 .. i : free[k] >= required}

\* b is the best of the first i nodes, or 0 if none will do.
BestOf(free, required, i, b) ==
    \/ b = 0 /\ Holding(free, required, i) = {}
    \/ /\ b \in Holding(free, required, i)
       /\ \A k \in Holding(free, required, i) :
             free[b] < free[k] \/ (free[b] = free[k] /\ b <= k)

LEMMA NodeIsBest ==
    ASSUME NEW free \in Seq(Nat), NEW required \in Nat
    PROVE  BestOf(free, required, Len(free), SelectNode(free, required))
<1> DEFINE n == Len(free)
           Walk(i, b) == IF Improves(free, required, b, i) THEN i ELSE b
           Rec(g) == [i \in 0 .. n |-> IF i = 0 THEN 0 ELSE Walk(i, g[i - 1])]
           step == [x \in (1 .. n) \X (0 .. n) |-> Walk(x[1], x[2])]
           best == CHOOSE g : g = Rec(g)
<1>0. n \in Nat
  OBVIOUS
<1>1. /\ step \in [(1 .. n) \X (0 .. n) -> 0 .. n]
      /\ \A i \in 1 .. n : \A b \in 0 .. n : step[<<i, b>>] = Walk(i, b)
  OBVIOUS
<1> HIDE DEF n, step
<1>3. PICK f \in [0 .. n -> 0 .. n] : Course(f, n, 0, step)
  <2>1. 0 \in 0 .. n
    BY <1>0
  <2>2. \E f \in [0 .. n -> 0 .. n] : Course(f, n, 0, step)
    BY <1>0, <1>1, <2>1, LoopRuns
  <2> QED
    BY <2>2
<1> HIDE DEF Walk
<1>4. f = Rec(f)
  <2>1. \A i \in 1 .. n : i - 1 \in 0 .. n /\ f[i - 1] \in 0 .. n
    BY <1>0, <1>3
  <2>2. \A i \in 1 .. n : f[i] = Walk(i, f[i - 1])
    BY <1>1, <1>3, <2>1 DEF Course
  <2>3. \A i \in 0 .. n : f[i] = IF i = 0 THEN 0 ELSE Walk(i, f[i - 1])
    BY <1>0, <1>3, <2>2 DEF Course
  <2> QED
    BY <1>3, <2>3
<1>5. best = Rec(best)
  <2> HIDE DEF Rec
  <2> QED
    BY <1>4
<1>6. SelectNode(free, required) = best[n]
  BY Zenon DEF SelectNode, Walk, n
<1> HIDE DEF best
<1>7. best[0] = 0 /\ \A i \in 1 .. n : best[i] = Walk(i, best[i - 1])
  <2>1. \A i \in 0 .. n : best[i] = IF i = 0 THEN 0 ELSE Walk(i, best[i - 1])
    BY <1>5
  <2> QED
    BY <1>0, <2>1
<1> DEFINE Good == {i \in 0 .. n : BestOf(free, required, i, best[i])}
<1>8. 0 \in Good
  BY <1>0, <1>7 DEF BestOf, Holding
<1>9. ASSUME NEW i \in 1 .. n, i - 1 \in Good PROVE i \in Good
  <2> DEFINE b == best[i - 1]
  <2>1. BestOf(free, required, i - 1, b) /\ best[i] = Walk(i, b)
    BY <1>0, <1>7, <1>9
  <2> HIDE DEF b
  <2>2. \A k : k \in Holding(free, required, i) <=>
                 \/ k \in Holding(free, required, i - 1)
                 \/ k = i /\ free[i] >= required
    BY DEF Holding
  <2>3. \A k \in 1 .. n : free[k] \in Nat
    BY DEF n
  <2>4. \A k \in Holding(free, required, i - 1) : k \in 1 .. n /\ k < i
    BY <1>0 DEF Holding
  <2>5. BestOf(free, required, i, best[i])
    <3>1. CASE Improves(free, required, b, i)
      <4>1. best[i] = i /\ free[i] >= required /\ (b = 0 \/ free[i] < free[b])
        BY <2>1, <3>1 DEF Improves, Walk
      <4>2. i \in Holding(free, required, i)
        BY <2>2, <4>1
      <4>3. ASSUME NEW k \in Holding(free, required, i)
            PROVE  free[i] < free[k] \/ (free[i] = free[k] /\ i <= k)
        <5>1. CASE k = i
          BY <2>3, <5>1
        <5>2. CASE k \in Holding(free, required, i - 1)
          <6>1. b # 0 /\ b \in Holding(free, required, i - 1)
                /\ (free[b] < free[k] \/ free[b] = free[k])
            BY <2>1, <2>4, <5>2 DEF BestOf
          <6>2. free[i] \in Nat /\ free[b] \in Nat /\ free[k] \in Nat
            BY <2>3, <2>4, <5>2, <6>1
          <6> QED
            BY <4>1, <6>1, <6>2
        <5> QED
          BY <2>2, <5>1, <5>2
      <4> QED
        BY <4>1, <4>2, <4>3 DEF BestOf
    <3>2. CASE ~Improves(free, required, b, i)
      BY <2>1, <2>2, <2>3, <2>4, <3>2 DEF BestOf, Improves, Walk
    <3> QED
      BY <3>1, <3>2
  <2> QED
    BY <2>5
<1>10. n \in Good
  <2> HIDE DEF Good, n
  <2>1. \A i \in 0 .. n : i \in Good
    BY <1>0, <1>8, <1>9, ByRounds
  <2> QED
    BY <1>0, <2>1
<1> QED
  BY <1>6, <1>10 DEF n

\* Past MaxInt a sum of two durations is negative.
LEMMA Wraps ==
    ASSUME NEW x \in 0 .. MaxInt
    PROVE  Wrap(x * 2) = IF x * 2 <= MaxInt THEN x * 2 ELSE x * 2 - 2 * (MaxInt + 1)
<1> DEFINE m == 2 * (MaxInt + 1)
           a == x * 2 + MaxInt + 1
<1>1. MaxInt \in Nat
  BY BoundsAssumption
<1>2. m \in Nat \ {0} /\ a \in Nat /\ a < 2 * m
  BY <1>1
<1>3. a % m = IF a < m THEN a ELSE a - m
  <2> HIDE DEF m, a
  <2>1. CASE a < m
    BY <1>2, <2>1
  <2>2. CASE a >= m
    BY <1>2, <2>2
  <2> QED
    BY <1>2, <2>1, <2>2
<1> QED
  BY <1>1, <1>3 DEF Wrap

\* The course of Power's recursion.
LEMMA PowerRuns ==
    ASSUME NEW n \in Nat
    PROVE  \E p \in [0 .. n -> Nat] :
             /\ Power(n) = p[n]
             /\ p[0] = 1 /\ \A i \in 1 .. n : p[i] = 2 * p[i - 1]
<1> DEFINE Rec(g) == [i \in 0 .. n |-> IF i = 0 THEN 1 ELSE 2 * g[i - 1]]
           step == [x \in (1 .. n) \X Nat |-> 2 * x[2]]
           power == CHOOSE g : g = Rec(g)
<1>1. /\ step \in [(1 .. n) \X Nat -> Nat]
      /\ \A i \in 1 .. n : \A b \in Nat : step[<<i, b>>] = 2 * b
  OBVIOUS
<1> HIDE DEF step
<1>2. PICK f \in [0 .. n -> Nat] : Course(f, n, 1, step)
  <2>1. \E f \in [0 .. n -> Nat] : Course(f, n, 1, step)
    BY <1>1, LoopRuns
  <2> QED
    BY <2>1
<1>3. f = Rec(f)
  <2>1. \A i \in 1 .. n : i - 1 \in 0 .. n /\ f[i - 1] \in Nat
    BY <1>2
  <2>2. \A i \in 1 .. n : f[i] = 2 * f[i - 1]
    BY <1>1, <1>2, <2>1 DEF Course
  <2>3. \A i \in 0 .. n : f[i] = IF i = 0 THEN 1 ELSE 2 * f[i - 1]
    BY <1>2, <2>2 DEF Course
  <2> QED
    BY <1>2, <2>3
<1>4. power = Rec(power)
  <2> HIDE DEF Rec
  <2> QED
    BY <1>3
<1>5. Power(n) = power[n]
  BY Zenon DEF Power
<1> HIDE DEF power
<1>6. \A i \in 0 .. n : power[i] = IF i = 0 THEN 1 ELSE 2 * power[i - 1]
  BY <1>4
<1>7. \A i \in 1 .. n : power[i] = 2 * power[i - 1]
  BY <1>6
<1> DEFINE Good == {i \in 0 .. n : power[i] \in Nat}
<1>8. \A i \in 0 .. n : i \in Good
  <2>1. 0 \in Good
    BY <1>6
  <2>2. \A i \in 1 .. n : i - 1 \in Good => i \in Good
    BY <1>7
  <2> HIDE DEF Good
  <2> QED
    BY <2>1, <2>2, ByRounds
<1>9. power \in [0 .. n -> Nat]
  BY <1>4, <1>8
<1>10. power[0] = 1
  BY <1>6
<1> QED
  BY <1>5, <1>7, <1>9, <1>10

\* One round of NextDelay's loop keeps a duration a duration, and doubles it
\* unless it is past the cap or would be.
LEMMA Doubles ==
    ASSUME NEW cap \in 1 .. MaxInt, NEW b \in 1 .. MaxInt
    PROVE  /\ Double(b, cap) \in 1 .. MaxInt
           /\ b >= cap => Double(b, cap) = b
           /\ b < cap => \/ Double(b, cap) = 2 * b
                         \/ Double(b, cap) = cap /\ 2 * b > cap
<1>1. MaxInt \in Nat
  BY BoundsAssumption
<1>2. Wrap(b * 2) = IF b * 2 <= MaxInt THEN b * 2 ELSE b * 2 - 2 * (MaxInt + 1)
  BY <1>1, Wraps
<1> QED
  BY <1>1, <1>2 DEF Double

\* NextDelay's loop computes base * 2 ^ (attempt - 1), saturating at the cap.
LEMMA BackoffSaturates ==
    ASSUME NEW policy, NEW attempt \in Nat \ {0},
           Normalize(policy).base \in 1 .. MaxInt, Normalize(policy).max \in 1 .. MaxInt
    PROVE  LET p == Normalize(policy)
               whole == p.base * Power(attempt - 1)
           IN  /\ whole \in Nat
               /\ Backoff(policy, attempt) = IF whole <= p.max THEN whole ELSE p.max
<1> DEFINE base == Normalize(policy).base
           cap == Normalize(policy).max
           n == attempt - 1
           Rec(g) == [i \in 0 .. n |-> IF i = 0 THEN base ELSE Double(g[i - 1], cap)]
           step == [x \in (1 .. n) \X (1 .. MaxInt) |-> Double(x[2], cap)]
           backoff == CHOOSE g : g = Rec(g)
<1>0. n \in Nat /\ MaxInt \in Nat
  BY BoundsAssumption
<1>1. base \in 1 .. MaxInt /\ cap \in 1 .. MaxInt
  OBVIOUS
<1>2. Backoff(policy, attempt) = IF backoff[n] > cap THEN cap
                                 ELSE IF backoff[n] <= 0 THEN 0 ELSE backoff[n]
  BY Zenon DEF Backoff
<1> HIDE DEF base, cap, n
<1>3. \A b \in 1 .. MaxInt : Double(b, cap) \in 1 .. MaxInt
  BY <1>1, Doubles
<1>4. /\ step \in [(1 .. n) \X (1 .. MaxInt) -> 1 .. MaxInt]
      /\ \A i \in 1 .. n : \A b \in 1 .. MaxInt : step[<<i, b>>] = Double(b, cap)
  BY <1>3
<1> HIDE DEF step
<1>5. PICK f \in [0 .. n -> 1 .. MaxInt] : Course(f, n, base, step)
  <2>1. \E f \in [0 .. n -> 1 .. MaxInt] : Course(f, n, base, step)
    BY <1>0, <1>1, <1>4, LoopRuns
  <2> QED
    BY <2>1
<1>6. f = Rec(f)
  <2>1. \A i \in 1 .. n : i - 1 \in 0 .. n /\ f[i - 1] \in 1 .. MaxInt
    BY <1>0, <1>5
  <2>2. \A i \in 1 .. n : f[i] = Double(f[i - 1], cap)
    BY <1>4, <1>5, <2>1 DEF Course
  <2>3. \A i \in 0 .. n : f[i] = IF i = 0 THEN base ELSE Double(f[i - 1], cap)
    BY <1>0, <1>5, <2>2 DEF Course
  <2> QED
    BY <1>5, <2>3
<1>7. backoff = Rec(backoff)
  <2> HIDE DEF Rec
  <2> QED
    BY <1>6
<1> HIDE DEF backoff
<1>8. \A i \in 0 .. n : backoff[i] = IF i = 0 THEN base ELSE Double(backoff[i - 1], cap)
  BY <1>7
<1>9. PICK p \in [0 .. n -> Nat] : /\ Power(n) = p[n] /\ p[0] = 1
                                   /\ \A i \in 1 .. n : p[i] = 2 * p[i - 1]
  BY <1>0, PowerRuns
<1> DEFINE w == [i \in 0 .. n |-> base * p[i]]
<1>10. /\ \A i \in 0 .. n : w[i] \in Nat
       /\ w[0] = base
       /\ \A i \in 1 .. n : w[i] = 2 * w[i - 1]
       /\ w[n] = base * Power(n)
  <2>1. \A i \in 0 .. n : p[i] \in Nat
    BY <1>9
  <2>2. \A i \in 0 .. n : base * p[i] \in Nat
    BY <1>0, <1>1, <2>1
  <2>3. ASSUME NEW i \in 1 .. n PROVE w[i] = 2 * w[i - 1]
    <3>1. i \in 0 .. n /\ i - 1 \in 0 .. n
      BY <1>0
    <3>2. p[i] = 2 * p[i - 1] /\ p[i - 1] \in Nat
      BY <1>9, <2>1, <3>1
    <3>3. base * (2 * p[i - 1]) = 2 * (base * p[i - 1])
      BY <1>0, <1>1, <3>2
    <3> QED
      BY <3>1, <3>2, <3>3
  <2>4. w[0] = base * 1 /\ w[n] = base * Power(n)
    BY <1>0, <1>9
  <2>5. \A i \in 0 .. n : w[i] \in Nat
    BY <2>2
  <2>6. base * 1 = base
    BY <1>0, <1>1
  <2> HIDE DEF w
  <2> QED
    BY <2>3, <2>4, <2>5, <2>6
<1> HIDE DEF w
<1> DEFINE Good == {i \in 0 .. n : /\ backoff[i] \in 1 .. MaxInt
                                   /\ \/ backoff[i] = w[i]
                                      \/ backoff[i] >= cap /\ w[i] >= cap}
<1>11. 0 \in Good
  BY <1>0, <1>1, <1>8, <1>10
<1>12. ASSUME NEW i \in 1 .. n, i - 1 \in Good PROVE i \in Good
  <2> DEFINE b == backoff[i - 1]
  <2>1. b \in 1 .. MaxInt /\ (b = w[i - 1] \/ (b >= cap /\ w[i - 1] >= cap))
    BY <1>12
  <2>2. i - 1 \in 0 .. n /\ i \in 0 .. n /\ i # 0
    BY <1>0
  <2>3. w[i] = 2 * w[i - 1] /\ w[i - 1] \in Nat /\ w[i] \in Nat
    BY <1>10, <2>2
  <2>4. backoff[i] = Double(b, cap)
    BY <1>8, <2>2
  <2> HIDE DEF b
  <2>5. /\ Double(b, cap) \in 1 .. MaxInt
        /\ b >= cap => Double(b, cap) = b
        /\ b < cap => \/ Double(b, cap) = 2 * b
                      \/ Double(b, cap) = cap /\ 2 * b > cap
    BY <1>1, <2>1, Doubles
  <2>6. backoff[i] = w[i] \/ (backoff[i] >= cap /\ w[i] >= cap)
    <3>1. CASE b >= cap
      <4>1. backoff[i] >= cap
        BY <2>4, <2>5, <3>1
      <4>2. w[i - 1] >= cap
        BY <2>1, <3>1
      <4>3. cap \in Nat
        BY <1>0, <1>1
      <4>4. w[i] >= cap
        BY <2>3, <4>2, <4>3
      <4> QED
        BY <4>1, <4>4
    <3>2. CASE b < cap
      <4>1. b = w[i - 1]
        BY <1>0, <1>1, <2>1, <3>2
      <4>2. CASE Double(b, cap) = 2 * b
        BY <2>3, <2>4, <4>1, <4>2
      <4>3. CASE Double(b, cap) = cap /\ 2 * b > cap
        BY <1>0, <1>1, <2>3, <2>4, <4>1, <4>3
      <4> QED
        BY <2>5, <3>2, <4>2, <4>3
    <3> QED
      BY <1>0, <1>1, <2>1, <3>1, <3>2
  <2> QED
    BY <2>2, <2>4, <2>5, <2>6
<1>13. n \in Good
  <2> HIDE DEF Good
  <2>1. \A i \in 0 .. n : i \in Good
    BY <1>0, <1>11, <1>12, ByRounds
  <2> QED
    BY <1>0, <2>1
<1>14. /\ base * Power(n) \in Nat
       /\ Backoff(policy, attempt) = IF base * Power(n) <= cap THEN base * Power(n) ELSE cap
  <2>1. /\ backoff[n] \in 1 .. MaxInt /\ w[n] \in Nat
        /\ backoff[n] = w[n] \/ (backoff[n] >= cap /\ w[n] >= cap)
    BY <1>0, <1>10, <1>13
  <2> QED
    BY <1>0, <1>1, <1>2, <1>10, <2>1
<1> QED
  BY <1>14 DEF base, cap, n

DecisionSpec == DecisionInit /\ [][DecisionNext]_decisionVars

\* A placement that is asked for is answered with the best fit.
LEMMA PlaceIsRight ==
    ASSUME Place
    PROVE  PlacedWell'
<1> DEFINE free == question'.free
           fp16 == question'.footprint.fp16
           fp8 == question'.footprint.fp8
<1>1. /\ question'.fp8Supported \in BOOLEAN
      /\ fp16 \in Nat /\ fp8 \in Nat
      /\ free \in Seq(Nat)
  <2>0. Bytes \subseteq Nat
    BY BoundsAssumption DEF Bytes
  <2>1. question' \in PlacementQuestions
    BY DEF Place
  <2>2. PICK n \in 0 .. MaxNodes : question'.free \in [1 .. n -> Bytes]
    BY <2>1 DEF PlacementQuestions
  <2>3. n \in Nat
    BY BoundsAssumption
  <2>4. free \in [1 .. n -> Nat]
    BY <2>0, <2>2
  <2>5. free \in Seq(Nat)
    BY <2>3, <2>4
  <2> QED
    BY <2>0, <2>1, <2>5 DEF PlacementQuestions
<1>2. answer' = SelectPlacement(question'.fp8Supported, question'.footprint, free)
  BY DEF Place
<1>3. BestOf(free, fp16, Len(free), SelectNode(free, fp16))
  BY <1>1, NodeIsBest
<1>4. BestOf(free, fp8, Len(free), SelectNode(free, fp8))
  BY <1>1, NodeIsBest
<1> DEFINE FittingNext(required) == {i \in DOMAIN free : free[i] >= required}
<1>5. \A required : Holding(free, required, Len(free)) = FittingNext(required)
  BY <1>1 DEF Holding
<1>6. 0 \notin FittingNext(fp16) /\ 0 \notin FittingNext(fp8)
  BY <1>1
<1> HIDE DEF free, fp16, fp8, FittingNext
<1>7. CASE FittingNext(fp16) # {}
  <2>1. /\ SelectNode(free, fp16) \in FittingNext(fp16)
        /\ \A k \in FittingNext(fp16) :
              \/ free[SelectNode(free, fp16)] < free[k]
              \/ (free[SelectNode(free, fp16)] = free[k] /\ SelectNode(free, fp16) <= k)
    BY <1>3, <1>5, <1>7 DEF BestOf
  <2>2. answer' = [precision |-> "fp16", node |-> SelectNode(free, fp16)]
    BY <1>2, <1>6, <2>1 DEF SelectPlacement, fp16
  <2> QED
    BY <1>7, <2>1, <2>2 DEF PlacedWell, BestFit, Fitting, FittingNext, free, fp16
<1>8. CASE FittingNext(fp16) = {} /\ question'.fp8Supported /\ FittingNext(fp8) # {}
  <2>0. SelectNode(free, fp16) = 0
    BY <1>3, <1>5, <1>8 DEF BestOf
  <2>1. /\ SelectNode(free, fp8) \in FittingNext(fp8)
        /\ \A k \in FittingNext(fp8) :
              \/ free[SelectNode(free, fp8)] < free[k]
              \/ (free[SelectNode(free, fp8)] = free[k] /\ SelectNode(free, fp8) <= k)
    BY <1>4, <1>5, <1>8 DEF BestOf
  <2>2. answer' = [precision |-> "fp8", node |-> SelectNode(free, fp8)]
    BY <1>2, <1>6, <1>8, <2>0, <2>1 DEF SelectPlacement, fp16, fp8
  <2> QED
    BY <1>8, <2>1, <2>2 DEF PlacedWell, BestFit, Fitting, FittingNext, free, fp16, fp8
<1>9. CASE FittingNext(fp16) = {} /\ ~(question'.fp8Supported /\ FittingNext(fp8) # {})
  <2>0. SelectNode(free, fp16) = 0
    BY <1>3, <1>5, <1>9 DEF BestOf
  <2>1. FittingNext(fp8) = {} => SelectNode(free, fp8) = 0
    BY <1>4, <1>5 DEF BestOf
  <2>2. answer' = NoCapacity
    BY <1>1, <1>2, <1>9, <2>0, <2>1 DEF SelectPlacement, fp16, fp8
  <2> QED
    BY <1>9, <2>2 DEF PlacedWell, Fitting, FittingNext, free, fp16, fp8
<1> QED
  BY <1>7, <1>8, <1>9

\* A retry that is asked for is allowed and delayed as the policy says.
LEMMA RetryIsRight ==
    ASSUME Retry
    PROVE  RetriedWell'
<1> DEFINE q == question'
           p == Normalize(q.policy)
           whole == p.base * Power(q.attempt - 1)
<1>1. q \in RetryQuestions /\ answer' = Decide(q.policy, q.class, q.attempt)
  BY DEF Retry
<1>2. MaxInt \in Nat /\ MaxAttempts \in Nat
  BY BoundsAssumption
<1>3. /\ q.attempt \in Nat \ {0}
      /\ p.base \in 1 .. MaxInt /\ p.max \in 1 .. MaxInt
  BY <1>1, <1>2, PolicyAssumption DEF RetryQuestions, Normalize
<1>4. /\ whole \in Nat
      /\ Backoff(q.policy, q.attempt) = IF whole <= p.max THEN whole ELSE p.max
  BY <1>3, BackoffSaturates
<1> HIDE DEF q, p, whole
<1>5. Min({whole, p.max}) = IF whole <= p.max THEN whole ELSE p.max
  BY <1>2, <1>3, <1>4 DEF Min
<1>6. /\ answer'.retry = (q.class = "placement" /\ q.attempt < p.attempts)
      /\ answer'.retry => answer'.longest = Backoff(q.policy, q.attempt)
  BY <1>1 DEF Decide, IsRetryable, p
<1> QED
  BY <1>4, <1>5, <1>6 DEF RetriedWell, q, p, whole

\* Whatever is asked, of however many nodes of whatever size and of whatever
\* policy and attempt in integers of whatever width: the model is placed at
\* the best precision any node holds, on the node that wastes least, and a
\* failed placement is retried after a delay that doubles up to the cap, also
\* where doubling overflows (binpacking.go, quant/placement.go, retry.go).
THEOREM DecisionsAreRight == DecisionSpec => []DecisionsRight
<1>1. DecisionInit => DecisionsRight
  BY DEF DecisionInit, DecisionsRight
<1>2. DecisionsRight /\ [DecisionNext]_decisionVars => DecisionsRight'
  <2> SUFFICES ASSUME DecisionsRight, [DecisionNext]_decisionVars PROVE DecisionsRight'
    OBVIOUS
  <2>1. CASE Place
    <3>1. PlacedWell'
      BY <2>1, PlaceIsRight
    <3> QED
      BY <2>1, <3>1 DEF Place, DecisionsRight
  <2>2. CASE Retry
    <3>1. RetriedWell'
      BY <2>2, RetryIsRight
    <3> QED
      BY <2>2, <3>1 DEF Retry, DecisionsRight
  <2>3. CASE UNCHANGED decisionVars
    BY <2>3 DEF decisionVars, DecisionsRight, PlacedWell, RetriedWell, BestFit, Fitting
  <2> QED
    BY <2>1, <2>2, <2>3 DEF DecisionNext
<1> QED
  BY <1>1, <1>2, PTL DEF DecisionSpec

-----------------------------------------------------------------------------
(* The process.                                                            *)

GatewaySpec == GatewayInit /\ [][GatewayNext]_gatewayVars

GatewayTypes ==
    /\ main \in {"off", "load", "migrate", "listen", "serve", "drain", "close",
                "closing", "exited"}
    /\ serve \in [Call -> {"none", "running", "gone"}]
    /\ reply \in [Call -> {"none", "done", "failed", "timeout"}]

\* The pool is open from New to Close, and only a handler that met it closed
\* has failed.
PoolOutlastsServer ==
    /\ main \in {"migrate", "listen", "serve", "drain", "close"} => pool = "open"
    /\ main \in {"off", "load"} => \A c \in Call : serve[c] = "none" /\ reply[c] = "none"
    /\ pool = "open" => \A c \in Call : reply[c] # "failed"

\* The listener is open while the gateway serves, or after a server failed.
ListensInTime ==
    /\ open => main \in {"serve", "close", "closing"}
    /\ code = "ok" => main \in {"close", "closing", "exited"}

GatewayInv == GatewayTypes /\ PoolOutlastsServer /\ ListensInTime /\ AllServed

\* No step of the main goroutine, a handler or the worker breaks it.
LEMMA GatewayStep == GatewayInv /\ [GatewayNext]_gatewayVars => GatewayInv'
<1> SUFFICES ASSUME GatewayInv, [GatewayNext]_gatewayVars PROVE GatewayInv'
  OBVIOUS
<1> USE DEF GatewayInv, GatewayTypes, PoolOutlastsServer, ListensInTime, AllServed
<1>1. CASE Launch
  BY <1>1 DEF Launch
<1>2. CASE New
  BY <1>2 DEF New
<1>3. CASE MigrateReturns
  BY <1>3 DEF MigrateReturns, Returns
<1>4. CASE Listen
  BY <1>4 DEF Listen, Returns
<1>5. CASE ServeFails
  BY <1>5 DEF ServeFails, Returns
<1>6. CASE ShutdownStarts
  BY <1>6 DEF ShutdownStarts
<1>7. CASE ShutdownEnds
  BY <1>7 DEF ShutdownEnds, Drained, Active, Returns
<1>8. CASE ShutdownExpires
  BY <1>8 DEF ShutdownExpires, Expires, Returns
<1>9. CASE CloseStarts
  BY <1>9 DEF CloseStarts
<1>10. CASE CloseEnds
  BY <1>10 DEF CloseEnds
<1>11. CASE Signal
  BY <1>11 DEF Signal
<1>12. ASSUME NEW c \in Call, AcceptCall(c) PROVE GatewayInv'
  BY <1>12 DEF AcceptCall
<1>13. ASSUME NEW c \in Call, Timeout(c) PROVE GatewayInv'
  BY <1>13 DEF Timeout
<1>14. ASSUME NEW c \in Call, NEW said \in {"done", "failed"}, HandlerReturns(c, said)
       PROVE  GatewayInv'
  BY <1>14 DEF HandlerReturns
<1>15. ASSUME NEW u \in Call \cup {Worker}, Query(u) \/ QueryEnds(u) PROVE GatewayInv'
  BY <1>15 DEF Query, QueryEnds
<1>16. CASE TakeJob \/ JobEnds
  BY <1>16 DEF TakeJob, JobEnds
<1>17. CASE UNCHANGED gatewayVars
  BY <1>17 DEF gatewayVars
<1> QED
  BY <1>1, <1>2, <1>3, <1>4, <1>5, <1>6, <1>7, <1>8, <1>9, <1>10, <1>11, <1>12, <1>13,
     <1>14, <1>15, <1>16, <1>17 DEF GatewayNext, MainStep

\* When Run reports success every accepted request has its answer, none of them
\* from a pool that was closed under it, for any number of requests, whatever
\* streams, timed out handlers and the ingestion job still do (app.go Run,
\* Close).
THEOREM EveryoneIsServed == GatewaySpec => []AllServed
<1>1. GatewayInit => GatewayInv
  BY DEF GatewayInit, GatewayInv, GatewayTypes, PoolOutlastsServer, ListensInTime, AllServed
<1>2. GatewayInv => AllServed
  BY DEF GatewayInv
<1> QED
  BY <1>1, <1>2, GatewayStep, PTL DEF GatewaySpec
=============================================================================
