-------------------------- MODULE DeploymentProofs --------------------------
(***************************************************************************)
(* Theorems about Deployment, for any deployments, allocations, faults and *)
(* restarts and whichever actors run.                                      *)
(***************************************************************************)
EXTENDS Deployment, SequenceTheorems, TLAPS

-----------------------------------------------------------------------------
\* Nomad's steps keep the types.
LEMMA NomadTypes == TypeOK /\ Nomad => TypeOK'
<1> SUFFICES ASSUME TypeOK, NEW a \in Allocs,
                    \/ \E d \in Deployments : Place(d, a)
                    \/ Start(a) \/ FailAlloc(a) \/ Complete(a)
             PROVE  TypeOK'
  BY DEF Nomad
<1> USE DEF TypeOK, dispatcher, background
<1>1. ASSUME NEW s \in ClientStatuses, Report(a, s)
      PROVE  alloc' \in [Allocs -> Alloc] /\ events' \in Seq(Event)
  <2>1. [alloc[a] EXCEPT !.status = s] \in Alloc
    BY DEF Alloc
  <2>2. [alloc |-> a, status |-> s] \in Event
    BY DEF Event
  <2> QED
    BY <1>1, <2>1, <2>2 DEF Report
<1>2. {"pending", "running", "complete", "failed"} \subseteq ClientStatuses
  BY DEF ClientStatuses, mapAllocationState
<1>3. ASSUME NEW d \in Deployments, Place(d, a) PROVE TypeOK'
  <2>1. [job |-> d, status |-> "pending", stop |-> FALSE] \in Alloc
    BY <1>2 DEF Alloc
  <2>2. [alloc |-> a, status |-> "pending"] \in Event
    BY <1>2 DEF Event
  <2> QED
    BY <1>3, <2>1, <2>2 DEF Place
<1>4. CASE Start(a)
  BY <1>1, <1>2, <1>4 DEF Start
<1>5. CASE FailAlloc(a)
  BY <1>1, <1>2, <1>5 DEF FailAlloc
<1>6. CASE Complete(a)
  BY <1>1, <1>2, <1>6 DEF Complete
<1> QED
  BY <1>3, <1>4, <1>5, <1>6

\* The create handler's and the dispatcher's steps keep the types.
LEMMA DispatchTypes == TypeOK /\ Dispatch => TypeOK'
<1> SUFFICES ASSUME TypeOK, NEW d \in Deployments,
                    \/ Create(d) \/ JobMissing(d)
                    \/ Register(d) \/ RegisterFault(d) \/ QueueForRetry(d) \/ QueueFault(d)
             PROVE  TypeOK'
  BY DEF Dispatch
<1> USE DEF TypeOK, nomad, background, HandlerStates, Goto
<1>1. CASE Create(d)
  <2>1. [row[d] EXCEPT !.state = "queued"] \in Row
    BY DEF Row, States
  <2> QED
    BY <1>1, <2>1 DEF Create
<1>4. CASE JobMissing(d)
  BY <1>4 DEF JobMissing, Fault
<1>5. CASE Register(d)
  BY <1>5 DEF Register, Submitted
<1>6. CASE RegisterFault(d)
  <2>1. job' \in [Deployments -> BOOLEAN]
    BY <1>6, Zenon DEF RegisterFault
  <2>2. degraded' \in BOOLEAN
    BY <1>6 DEF RegisterFault
  <2>3. faults' \in Nat /\ handler' \in [Deployments -> HandlerStates]
    BY <1>6 DEF RegisterFault, Fault
  <2> QED
    BY <1>6, <2>1, <2>2, <2>3 DEF RegisterFault
<1>7. CASE QueueForRetry(d)
  BY <1>7 DEF QueueForRetry
<1>8. CASE QueueFault(d)
  BY <1>8 DEF QueueFault, Fault
<1> QED
  BY <1>1, <1>4, <1>5, <1>6, <1>7, <1>8

\* UpdateState writes a state and StopAllocation a flag, whatever the key.
LEMMA WriteTypes ==
    ASSUME TypeOK
    PROVE  /\ \A d, state : state \in States /\ UpdateState(d, state) => row' \in [Deployments -> Row]
           /\ \A a : StopAllocation(a) => alloc' \in [Allocs -> Alloc]
<1>1. ASSUME NEW d, NEW state \in States, UpdateState(d, state)
      PROVE  row' \in [Deployments -> Row]
  <2>1. d \in Deployments => [row[d] EXCEPT !.state = state] \in Row
    BY DEF TypeOK, Row
  <2> QED
    BY <1>1, <2>1 DEF TypeOK, UpdateState
<1>2. ASSUME NEW a, StopAllocation(a) PROVE alloc' \in [Allocs -> Alloc]
  <2>1. a \in Allocs => [alloc[a] EXCEPT !.stop = TRUE] \in Alloc
    BY DEF TypeOK, Alloc
  <2> QED
    BY <1>2, <2>1 DEF TypeOK, StopAllocation
<1> QED
  BY <1>1, <1>2

\* The streamer's steps keep the types.
LEMMA StreamTypes == TypeOK /\ Stream => TypeOK'
<1> SUFFICES ASSUME TypeOK, Stream PROVE TypeOK'
  OBVIOUS
<1> USE DEF TypeOK, nomad, dispatcher
<1>0. Receiving \in Streamer
  BY DEF Receiving, Streamer, States
<1>1. CASE Receive
  <2> DEFINE ev == Head(events)
             d == alloc[ev.alloc].job
  <2>1. ev \in Event /\ events' \in Seq(Event)
    BY <1>1 DEF Receive
  <2>2. d \in Deployments \cup {None} /\ mapAllocationState[ev.status] \in States
    BY <2>1 DEF Event, Alloc, ClientStatuses, mapAllocationState, States
  <2>3. streamer' \in Streamer
    BY <1>1, <2>2 DEF Receive, Streamer
  <2>4. row' \in [Deployments -> Row]
    <3>1. d \in Deployments => [row[d] EXCEPT !.alloc = ev.alloc] \in Row
      BY <2>1 DEF Row, Event
    <3> QED
      BY <1>1, <3>1 DEF Receive
  <2>5. faults' \in Nat
    BY <1>1 DEF Receive, Fault
  <2> QED
    BY <1>1, <2>1, <2>3, <2>4, <2>5 DEF Receive
<1>2. CASE ReadState
  <2>1. [streamer EXCEPT !.pc = "write"] \in Streamer
    BY DEF Streamer
  <2>2. streamer' \in Streamer
    BY <1>0, <1>2, <2>1 DEF ReadState
  <2> QED
    BY <1>2, <2>2 DEF ReadState
<1>3. CASE WriteState
  <2>1. row' \in [Deployments -> Row]
    BY <1>3, WriteTypes DEF WriteState, Streamer
  <2> QED
    BY <1>0, <1>3, <2>1 DEF WriteState
<1>4. CASE StreamerFault
  <2>1. row' \in [Deployments -> Row]
    BY <1>4, WriteTypes DEF StreamerFault, Streamer
  <2> QED
    BY <1>0, <1>4, <2>1 DEF StreamerFault, Fault
<1>5. CASE BatchFails
  <2>1. events' \in Seq(Event)
    BY <1>5 DEF BatchFails
  <2> QED
    BY <1>5, <2>1 DEF BatchFails, Fault, background
<1>6. CASE StreamCloses
  <2>1. streamer' \in Streamer
    BY <1>6 DEF StreamCloses, Receiving, Streamer, States
  <2> QED
    BY <1>6, <2>1 DEF StreamCloses, Fault
<1> QED
  BY <1>1, <1>2, <1>3, <1>4, <1>5, <1>6 DEF Stream

\* The idle tracker's and the reaper's steps keep the types.
LEMMA ReapTypes == TypeOK /\ Reap => TypeOK'
<1> SUFFICES ASSUME TypeOK, Reap PROVE TypeOK'
  OBVIOUS
<1> USE DEF TypeOK, nomad, dispatcher
<1>0. NotReaping \in Reaper
  BY DEF NotReaping, Reaper
<1>1. ASSUME NEW a \in Allocs, Touch(a) \/ Forget(a) \/ GoIdle(a) PROVE TypeOK'
  BY <1>1 DEF Touch, Forget, GoIdle
<1>2. ASSUME NEW t \in reaper.todo, ReapCheck(t) PROVE TypeOK'
  <2>1. t \in Listing /\ reaper.todo \ {t} \in SUBSET Listing
    BY DEF Reaper
  <2>2. /\ [pc |-> "stop", todo |-> reaper.todo \ {t}, cur |-> t] \in Reaper
        /\ [reaper EXCEPT !.todo = @ \ {t}] \in Reaper
    BY <2>1 DEF Reaper
  <2> QED
    BY <1>2, <2>2 DEF ReapCheck
<1>3. CASE ReapList
  <2> DEFINE ready == {d \in Deployments : row[d].state = "ready" /\ row[d].alloc # None}
             todo == {[id |-> d, alloc |-> row[d].alloc] : d \in ready}
  <2>1. todo \subseteq Listing
    BY DEF Listing, Row
  <2>2. [pc |-> "check", cur |-> None, todo |-> todo] \in Reaper
    BY <2>1 DEF Reaper
  <2> QED
    BY <1>3, <2>2 DEF ReapList
<1>4. /\ [reaper EXCEPT !.pc = "write"] \in Reaper
      /\ [reaper EXCEPT !.pc = "check", !.cur = None] \in Reaper
  BY DEF Reaper
<1>5. CASE ReapStop
  <2>1. alloc' \in [Allocs -> Alloc]
    BY <1>5, WriteTypes DEF ReapStop
  <2> QED
    BY <1>4, <1>5, <2>1 DEF ReapStop
<1>6. CASE ReapWrite
  <2>1. row' \in [Deployments -> Row]
    BY <1>6, WriteTypes DEF ReapWrite, States
  <2> QED
    BY <1>4, <1>6, <2>1 DEF ReapWrite
<1>7. CASE ReapFault
  <2>1. row' \in [Deployments -> Row] /\ alloc' \in [Allocs -> Alloc]
    BY <1>7, WriteTypes DEF ReapFault, States
  <2> QED
    BY <1>4, <1>7, <2>1 DEF ReapFault, Fault
<1>8. CASE ReapDone
  BY <1>0, <1>8 DEF ReapDone
<1> QED
  BY <1>1, <1>2, <1>3, <1>5, <1>6, <1>7, <1>8 DEF Reap

\* The enforcer's steps keep the types.
LEMMA SuspendTypes == TypeOK /\ Suspend => TypeOK'
<1> SUFFICES ASSUME TypeOK, Suspend PROVE TypeOK'
  OBVIOUS
<1> USE DEF TypeOK, nomad, dispatcher
<1>0. /\ \A pc \in {"list", "done", "aborted"} : [enforcer EXCEPT !.pc = pc] \in Enforcer
      /\ [enforcer EXCEPT !.pc = "stop", !.todo = {d \in Deployments : Active(d)}] \in Enforcer
      /\ [enforcer EXCEPT !.pc = "stop", !.cur = None] \in Enforcer
  BY DEF Enforcer
<1>1. CASE SuspendAccount
  BY <1>0, <1>1 DEF SuspendAccount
<1>2. CASE ListLiveByUser
  <2>1. result' \in Result
    BY <1>2 DEF ListLiveByUser, Result
  <2> QED
    BY <1>0, <1>2, <2>1 DEF ListLiveByUser
<1>3. ASSUME NEW d \in Deployments, StopJob(d) PROVE TypeOK'
  <2>1. job' \in [Deployments -> BOOLEAN]
    BY <1>3, Zenon DEF StopJob
  <2>2. [pc |-> "mark", todo |-> enforcer.todo \ {d}, cur |-> d] \in Enforcer
    BY DEF Enforcer
  <2>3. result' \in Result /\ faults' \in Nat
    <3>1. PICK failed \in BOOLEAN :
            /\ IF failed THEN Fault ELSE UNCHANGED faults
            /\ result' = [result EXCEPT !.StopJobErrors = IF failed THEN @ \cup {d} ELSE @,
                                        !.racing = IF InFlight(d) THEN @ \cup {d} ELSE @]
      BY <1>3 DEF StopJob
    <3>2. result' \in Result
      BY <3>1 DEF Result
    <3> QED
      BY <3>1, <3>2 DEF Fault
  <2> QED
    BY <1>3, <2>1, <2>2, <2>3 DEF StopJob
<1>4. CASE Terminate
  <2>1. row' \in [Deployments -> Row]
    BY <1>4, WriteTypes DEF Terminate, States
  <2> QED
    BY <1>0, <1>4, <2>1 DEF Terminate
<1>5. CASE Suspended
  BY <1>0, <1>5 DEF Suspended
<1>6. CASE SuspendFault
  <2>1. row' \in [Deployments -> Row]
    BY <1>6, WriteTypes DEF SuspendFault, States
  <2> QED
    BY <1>0, <1>6, <2>1 DEF SuspendFault, Fault
<1> QED
  BY <1>1, <1>2, <1>3, <1>4, <1>5, <1>6 DEF Suspend

\* The reconciler's steps keep the types.
LEMMA ReconcileTypes == TypeOK /\ Reconcile => TypeOK'
<1> SUFFICES ASSUME TypeOK, Reconcile PROVE TypeOK'
  OBVIOUS
<1> USE DEF TypeOK, nomad, dispatcher
<1>1. CASE ListAllocations
  BY <1>1 DEF ListAllocations, Reconciler
<1>2. CASE ListActive
  BY <1>2 DEF ListActive, Reconciler
<1>3. ASSUME NEW a \in Allocs, StopOrphan(a) PROVE TypeOK'
  <2>1. [reconciler EXCEPT !.todo = @ \ {a}] \in Reconciler
    BY DEF Reconciler
  <2>2. alloc' \in [Allocs -> Alloc] /\ faults' \in Nat
    BY <1>3, WriteTypes DEF StopOrphan, Fault
  <2> QED
    BY <1>3, <2>1, <2>2 DEF StopOrphan
<1>4. CASE Reconciled
  BY <1>4 DEF Reconciled, NotReconciling, Reconciler, Fault
<1> QED
  BY <1>1, <1>2, <1>3, <1>4 DEF Reconcile

\* A crash keeps the types.
LEMMA CrashTypes == TypeOK /\ Crash => TypeOK'
<1> SUFFICES ASSUME TypeOK, Crash PROVE TypeOK'
  OBVIOUS
<1> USE DEF TypeOK, Crash
<1>1. events' \in Seq(Event) /\ restarts' \in Nat
  OBVIOUS
<1>2. handler' \in [Deployments -> HandlerStates]
  BY DEF HandlerStates
<1>3. streamer' \in Streamer /\ reaper' \in Reaper /\ reconciler' \in Reconciler
  BY DEF Receiving, Streamer, States, NotReaping, Reaper, NotReconciling, Reconciler
<1>4. enforcer' \in Enforcer
  BY DEF Enforcer
<1>5. degraded' \in BOOLEAN
  OBVIOUS
<1> QED
  BY <1>1, <1>2, <1>3, <1>4, <1>5

\* Every step of every actor keeps the types.
LEMMA TypeStep == TypeOK /\ [Next]_vars => TypeOK'
<1> SUFFICES ASSUME TypeOK, [Next]_vars PROVE TypeOK'
  OBVIOUS
<1>1. CASE UNCHANGED vars
  BY <1>1 DEF vars, nomad, dispatcher, background, TypeOK
<1>2. CASE Next
  BY <1>2, NomadTypes, DispatchTypes, StreamTypes, ReapTypes, SuspendTypes, ReconcileTypes,
     CrashTypes DEF Next
<1> QED
  BY <1>1, <1>2

\* The initial state has the types.
LEMMA InitTypes == Init => TypeOK
<1> SUFFICES ASSUME Init PROVE TypeOK
  OBVIOUS
<1> USE DEF Init
<1>1. row \in [Deployments -> Row] /\ alloc \in [Allocs -> Alloc]
  BY DEF Row, Alloc
<1>2. streamer \in Streamer /\ reaper \in Reaper /\ enforcer \in Enforcer /\ reconciler \in Reconciler
  BY DEF Receiving, Streamer, States, NotReaping, Reaper, Enforcer, NotReconciling, Reconciler
<1>3. handler \in [Deployments -> HandlerStates] /\ events \in Seq(Event) /\ result \in Result
  BY DEF HandlerStates, Result
<1> QED
  BY <1>1, <1>2, <1>3 DEF TypeOK

\* Every variable keeps its type, whoever runs and whatever fails.
THEOREM TypeCorrect == Spec => []TypeOK
  BY InitTypes, TypeStep, PTL DEF Spec

-----------------------------------------------------------------------------
(* What each actor has in hand.                                            *)

\* Nomad's events are about allocations of deployments.
Placed ==
    /\ \A a \in Allocs : alloc[a].status # "none" => alloc[a].job \in Deployments
    /\ \A i \in DOMAIN events : alloc[events[i].alloc].status # "none"

\* The events on the stream name allocations.
LEMMA EventAllocs ==
    ASSUME TypeOK PROVE \A i \in DOMAIN events : events[i].alloc \in Allocs
<1>1. SUFFICES ASSUME NEW i \in DOMAIN events PROVE events[i].alloc \in Allocs
  OBVIOUS
<1>2. events \in Seq(Event)
  BY DEF TypeOK
<1>3. events[i] \in Event
  BY <1>1, <1>2
<1> QED
  BY <1>3 DEF Event

\* The listings a Reap still has to deal with, the one in hand included.
Reaping == reaper.todo \cup (IF reaper.pc \in {"stop", "write"} THEN {reaper.cur} ELSE {})

\* Only a request makes a row.
RowKnown == \A d \in Deployments : handler[d] = "idle" <=> row[d].state = "absent"

\* What the reaper listed was ready, and is not queued again.
ReaperHolds ==
    /\ Reaping \subseteq Listing
    /\ \A t \in Reaping : row[t.id].state \notin {"absent", "queued"}

\* What the enforcer listed has a row.
EnforcerHolds ==
    /\ \A d \in enforcer.todo : row[d].state # "absent"
    /\ enforcer.pc = "mark" =>
          enforcer.cur \in Deployments /\ row[enforcer.cur].state # "absent"

\* A row about to be written as provisioning was queued when it was read, and
\* only the enforcer can have written it since.
StreamerHolds ==
    /\ streamer.pc \in {"read", "write"} => streamer.id \in Deployments /\ streamer.next # "queued"
    /\ streamer.pc = "write" =>
          /\ row[streamer.id].state # "absent"
          /\ streamer.next = "provisioning" =>
                /\ row[streamer.id].state \in {"queued", "terminated"}
                /\ \A t \in Reaping : t.id # streamer.id

Hands == RowKnown /\ ReaperHolds /\ EnforcerHolds /\ StreamerHolds

WritersInv == TypeOK /\ Placed /\ Hands

\* How a step can change the allocations and their events: the streamer takes
\* an event or loses a batch, a crash loses them all, someone stops an allocation, a live one
\* reports a status, or a new one is placed.
AllocMove ==
    \/ UNCHANGED alloc /\ (\/ UNCHANGED events
                           \/ events' = <<>>
                           \/ events # <<>> /\ events' = Tail(events)
                           \/ \E n \in 1 .. Len(events) :
                                events' = SubSeq(events, n + 1, Len(events)))
    \/ UNCHANGED events /\ \E a \in Allocs : StopAllocation(a)
    \/ \E a \in Allocs : \E s \in ClientStatuses : Live(a) /\ Report(a, s)
    \/ \E a \in Allocs : \E d \in Deployments : Place(d, a)

\* There is no other way.
LEMMA AllocMoves ==
    ASSUME TypeOK, ReaperHolds, [Next]_vars
    PROVE  AllocMove
<1> USE DEF AllocMove
<1>1. CASE UNCHANGED <<alloc, events>>
  BY <1>1
<1>2. CASE Nomad
  <2>1. {"running", "failed", "complete"} \subseteq ClientStatuses
    BY DEF ClientStatuses, mapAllocationState
  <2>2. ASSUME NEW a \in Allocs, Start(a) PROVE AllocMove
    BY <2>1, <2>2 DEF Start, Live, liveAllocationStatuses
  <2>3. ASSUME NEW a \in Allocs, FailAlloc(a) \/ Complete(a) PROVE AllocMove
    BY <2>1, <2>3 DEF FailAlloc, Complete
  <2> QED
    BY <1>2, <2>2, <2>3 DEF Nomad
<1>3. CASE Dispatch
  <2>1. UNCHANGED <<alloc, events>>
    BY <1>3 DEF Dispatch, Create, JobMissing, Register, RegisterFault,
       QueueForRetry, QueueFault, nomad
  <2> QED
    BY <1>1, <2>1
<1>4. CASE Stream
  BY <1>4 DEF Stream, Receive, BatchFails, StreamCloses, ReadState, WriteState, StreamerFault, nomad
<1>5. CASE Reap
  <2>1. reaper.pc = "stop" => reaper.cur.alloc \in Allocs
    <3>1. reaper.pc = "stop" => reaper.cur \in Listing
      BY DEF ReaperHolds, Reaping
    <3> QED
      BY <3>1 DEF Listing
  <2>2. ASSUME ReapStop \/ ReapFault PROVE AllocMove
    BY <2>1, <2>2 DEF ReapStop, ReapFault
  <2>3. ASSUME Reap, ~ReapStop, ~ReapFault PROVE UNCHANGED <<alloc, events>>
    BY <2>3 DEF Reap, Touch, Forget, GoIdle, ReapCheck, ReapList, ReapWrite, ReapDone, nomad
  <2> QED
    BY <1>1, <1>5, <2>2, <2>3
<1>6. CASE Suspend
  BY <1>6 DEF Suspend, SuspendAccount, ListLiveByUser, Terminate, Suspended, SuspendFault,
     StopJob, nomad
<1>7. CASE Reconcile
  BY <1>7 DEF Reconcile, ListAllocations, ListActive, Reconciled, StopOrphan, nomad
<1>8. CASE Crash
  BY <1>8 DEF Crash
<1>9. CASE UNCHANGED vars
  BY <1>9 DEF vars, nomad
<1> QED
  BY <1>2, <1>3, <1>4, <1>5, <1>6, <1>7, <1>8, <1>9 DEF Next

\* Nomad's events stay about allocations of deployments.
LEMMA EventsStep ==
    ASSUME TypeOK, Placed, AllocMove PROVE Placed'
<1> USE DEF TypeOK
<1>0. \A i \in DOMAIN events : events[i].alloc \in Allocs
  BY EventAllocs
<1>1. ASSUME UNCHANGED alloc,
             \A i \in DOMAIN events' :
                \E j \in DOMAIN events : events'[i] = events[j]
      PROVE  Placed'
  BY <1>1 DEF Placed
<1>2. ASSUME NEW a \in Allocs, StopAllocation(a), UNCHANGED events
      PROVE  Placed'
  <2>1. \A b \in Allocs : alloc'[b].status = alloc[b].status /\ alloc'[b].job = alloc[b].job
    BY <1>2 DEF StopAllocation, Alloc
  <2> QED
    BY <1>0, <1>2, <2>1 DEF Placed
<1>3. ASSUME NEW a \in Allocs, NEW s \in ClientStatuses, NEW d \in Deployments,
             \A b \in Allocs \ {a} : alloc'[b] = alloc[b],
             alloc'[a].status = s, alloc'[a].job = d,
             events' = Append(events, [alloc |-> a, status |-> s])
      PROVE  Placed'
  <2>1. s # "none"
    BY DEF ClientStatuses, mapAllocationState
  <2>2. \A i \in DOMAIN events' :
           \/ i \in DOMAIN events /\ events'[i] = events[i]
           \/ events'[i] = [alloc |-> a, status |-> s]
    BY <1>3
  <2>3. \A b \in Allocs : alloc'[b].status # "none" => alloc'[b].job \in Deployments
    BY <1>3 DEF Placed
  <2>4. ASSUME NEW i \in DOMAIN events' PROVE alloc'[events'[i].alloc].status # "none"
    <3>1. CASE i \in DOMAIN events /\ events'[i] = events[i]
      BY <3>1, <1>0, <1>3, <2>1 DEF Placed
    <3>2. CASE events'[i] = [alloc |-> a, status |-> s]
      BY <3>2, <1>3, <2>1
    <3> QED
      BY <2>2, <3>1, <3>2
  <2> QED
    BY <2>3, <2>4 DEF Placed
<1>4. ASSUME NEW a \in Allocs, NEW s \in ClientStatuses, Live(a), Report(a, s)
      PROVE  Placed'
  <2>1. alloc[a] \in Alloc /\ alloc[a].status \in {"pending", "running"}
    BY <1>4 DEF Live, liveAllocationStatuses
  <2>2. alloc[a].job \in Deployments
    BY <2>1 DEF Placed
  <2>3. /\ \A b \in Allocs \ {a} : alloc'[b] = alloc[b]
        /\ alloc'[a].status = s /\ alloc'[a].job = alloc[a].job
    BY <1>4, <2>1 DEF Report, Alloc
  <2> QED
    BY <1>3, <1>4, <2>2, <2>3 DEF Report
<1>5. ASSUME NEW a \in Allocs, NEW d \in Deployments, Place(d, a)
      PROVE  Placed'
  <2>1. "pending" \in ClientStatuses
    BY DEF ClientStatuses, mapAllocationState
  <2>2. /\ \A b \in Allocs \ {a} : alloc'[b] = alloc[b]
        /\ alloc'[a].status = "pending" /\ alloc'[a].job = d
        /\ events' = Append(events, [alloc |-> a, status |-> "pending"])
    BY <1>5 DEF Place
  <2> QED
    BY <1>3, <2>1, <2>2
<1>6. CASE UNCHANGED alloc /\ UNCHANGED events
  BY <1>1, <1>6
<1>7. CASE UNCHANGED alloc /\ events' = <<>>
  BY <1>1, <1>7
<1>8. CASE UNCHANGED alloc /\ events # <<>> /\ events' = Tail(events)
  <2>1. \A i \in DOMAIN events' : i + 1 \in DOMAIN events /\ events'[i] = events[i + 1]
    BY <1>8
  <2> QED
    BY <1>1, <1>8, <2>1
<1>9. ASSUME UNCHANGED alloc, NEW n \in 1 .. Len(events), events' = SubSeq(events, n + 1, Len(events))
      PROVE  Placed'
  <2>1. \A i \in DOMAIN events' : n + i \in DOMAIN events /\ events'[i] = events[n + i]
    BY <1>9
  <2> QED
    BY <1>1, <1>9, <2>1
<1> QED
  BY <1>2, <1>4, <1>5, <1>6, <1>7, <1>8, <1>9 DEF AllocMove

\* UPDATE deployments SET state changes one row's state and no other row.
LEMMA StateWritten ==
    ASSUME TypeOK, NEW d \in Deployments, NEW s, UpdateState(d, s)
    PROVE  /\ row'[d].state = s
           /\ \A e \in Deployments \ {d} : row'[e] = row[e]
  BY DEF TypeOK, UpdateState, Row

\* What the reaper lists and has in hand, as its type says.
LEMMA ReaperFields ==
    ASSUME TypeOK
    PROVE  /\ reaper.todo \subseteq Listing
           /\ \A t \in Listing : t.id \in Deployments /\ t.alloc \in Allocs
           /\ enforcer.todo \subseteq Deployments
           /\ streamer.next \in States /\ "absent" \notin States
           /\ \A d \in Deployments : row[d].state \in States \cup {"absent"}
  BY DEF TypeOK, Reaper, Listing, Enforcer, Streamer, States, Row

NoProvisioning ==
    \A d \in Deployments : row[d].state \in {"ready", "draining", "failed"} =>
        row'[d].state # "provisioning"

\* A step that touches no row, request or listing.
LEMMA IdleHands ==
    ASSUME Hands, UNCHANGED <<row, handler, reaper, enforcer, streamer>>
    PROVE  Hands' /\ NoProvisioning
  BY DEF Hands, RowKnown, ReaperHolds, EnforcerHolds, StreamerHolds, Reaping, NoProvisioning

\* The create handler's and the dispatcher's steps.
LEMMA DispatchHands ==
    ASSUME TypeOK, Hands, Dispatch
    PROVE  Hands' /\ NoProvisioning
<1> USE DEF Hands
<1>1. PICK d \in Deployments :
        \/ Create(d) \/ JobMissing(d)
        \/ Register(d) \/ RegisterFault(d) \/ QueueForRetry(d) \/ QueueFault(d)
  BY DEF Dispatch
<1>2. UNCHANGED <<reaper, enforcer, streamer>>
  BY <1>1 DEF Create, JobMissing, Register, RegisterFault,
     QueueForRetry, QueueFault, background
<1>3. CASE Create(d)
  <2>1. /\ handler[d] = "idle" /\ handler'[d] = "info"
        /\ \A e \in Deployments \ {d} : handler'[e] = handler[e]
    BY <1>3 DEF Create, Goto, TypeOK
  <2>2. /\ row'[d].state = "queued" /\ row[d].state = "absent"
        /\ \A e \in Deployments \ {d} : row'[e] = row[e]
    BY <1>3, <2>1, StateWritten DEF Create, UpdateState, RowKnown
  <2>3. RowKnown'
    BY <2>1, <2>2 DEF RowKnown
  <2>4. Reaping' = Reaping /\ \A t \in Reaping : t.id \in Deployments /\ t.id # d
    BY <1>2, <2>2, ReaperFields DEF ReaperHolds, Reaping
  <2>5. ReaperHolds'
    BY <2>2, <2>4 DEF ReaperHolds
  <2>6. EnforcerHolds'
    BY <1>2, <2>2, ReaperFields DEF EnforcerHolds
  <2>7. StreamerHolds'
    BY <1>2, <2>2, <2>4 DEF StreamerHolds
  <2> QED
    BY <2>2, <2>3, <2>5, <2>6, <2>7 DEF NoProvisioning
<1>4. CASE ~Create(d)
  <2>1. UNCHANGED row
    BY <1>1, <1>4 DEF JobMissing, Register, RegisterFault,
       QueueForRetry, QueueFault
  <2>2. \E pc \in HandlerStates \ {"idle"} :
           handler[d] # "idle" /\ handler' = [handler EXCEPT ![d] = pc]
    BY <1>1, <1>4 DEF JobMissing, Register, RegisterFault,
       QueueForRetry, QueueFault, Submitted, Goto, HandlerStates
  <2>3. RowKnown'
    BY <2>1, <2>2 DEF RowKnown, TypeOK
  <2> QED
    BY <1>2, <2>1, <2>3 DEF ReaperHolds, EnforcerHolds, StreamerHolds, Reaping, NoProvisioning
<1> QED
  BY <1>3, <1>4

\* The streamer's steps. It writes provisioning only on a row it has read as
\* queued, which nobody but the enforcer has written since.
LEMMA StreamHands ==
    ASSUME TypeOK, Placed, Hands, Stream
    PROVE  Hands' /\ NoProvisioning
<1> USE DEF Hands
<1>0. UNCHANGED <<handler, reaper, enforcer>> /\ Reaping' = Reaping
  BY DEF Stream, Receive, BatchFails, StreamCloses, ReadState, WriteState, StreamerFault,
     dispatcher, background, Reaping
<1>1. ASSUME \A e \in Deployments : row'[e].state = row[e].state
      PROVE  RowKnown' /\ ReaperHolds' /\ EnforcerHolds' /\ NoProvisioning
  BY <1>0, <1>1, ReaperFields DEF RowKnown, ReaperHolds, EnforcerHolds, NoProvisioning
<1>2. CASE Receive
  <2> DEFINE ev == Head(events)
             d == alloc[ev.alloc].job
  <2>1. ev \in Event /\ 1 \in DOMAIN events /\ ev = events[1]
    BY <1>2 DEF Receive, TypeOK
  <2>2. d \in Deployments
    BY <2>1 DEF Placed, Event
  <2>3. row' = [row EXCEPT ![d].alloc = ev.alloc] \/ UNCHANGED row
    BY <1>2 DEF Receive
  <2>4. \A e \in Deployments : row'[e].state = row[e].state
    BY <2>2, <2>3 DEF TypeOK, Row
  <2>5. streamer'.pc = "read" /\ streamer'.id = d /\ streamer'.next = mapAllocationState[ev.status]
    BY <1>2 DEF Receive
  <2>6. streamer'.next # "queued"
    BY <2>1, <2>5 DEF Event, ClientStatuses, mapAllocationState
  <2> QED
    BY <1>1, <2>2, <2>4, <2>5, <2>6 DEF StreamerHolds
<1>3. CASE ReadState
  <2>1. \A e \in Deployments : row'[e].state = row[e].state
    BY <1>3 DEF ReadState
  <2>2. CASE streamer' = Receiving
    BY <1>1, <2>1, <2>2 DEF Receiving, StreamerHolds
  <2>3. CASE streamer' # Receiving
    <3>1. /\ ValidTransition(row[streamer.id].state, streamer.next)
          /\ row[streamer.id].state # streamer.next
          /\ streamer'.id = streamer.id /\ streamer'.next = streamer.next
          /\ streamer.pc = "read"
      BY <1>3, <2>3 DEF ReadState, Streamer, TypeOK
    <3>2. streamer.id \in Deployments /\ streamer.next # "queued"
      BY <3>1 DEF StreamerHolds
    <3>3. <<row[streamer.id].state, streamer.next>> \in legalTransitions
      BY <3>1 DEF ValidTransition
    <3>4. /\ row[streamer.id].state # "absent"
          /\ streamer.next = "provisioning" => row[streamer.id].state = "queued"
      BY <3>3 DEF legalTransitions
    <3>5. row[streamer.id].state = "queued" => \A t \in Reaping : t.id # streamer.id
      BY DEF ReaperHolds
    <3>6. StreamerHolds'
      BY <1>0, <2>1, <3>1, <3>2, <3>4, <3>5 DEF StreamerHolds
    <3> QED
      BY <1>1, <2>1, <3>6
  <2> QED
    BY <2>2, <2>3
<1>4. CASE WriteState \/ StreamerFault
  <2>1. /\ streamer' = Receiving
        /\ \/ UNCHANGED row
           \/ streamer.pc = "write" /\ UpdateState(streamer.id, streamer.next)
    BY <1>4 DEF WriteState, StreamerFault
  <2>2. StreamerHolds'
    BY <2>1 DEF Receiving, StreamerHolds
  <2>3. CASE UNCHANGED row
    BY <1>1, <2>2, <2>3
  <2>4. CASE streamer.pc = "write" /\ UpdateState(streamer.id, streamer.next)
    <3>1. /\ streamer.id \in Deployments /\ row[streamer.id].state # "absent"
          /\ streamer.next \notin {"queued", "absent"}
          /\ streamer.next = "provisioning" => row[streamer.id].state \in {"queued", "terminated"}
      BY <2>4, ReaperFields DEF StreamerHolds
    <3>2. /\ row'[streamer.id].state = streamer.next
          /\ \A e \in Deployments \ {streamer.id} : row'[e] = row[e]
      BY <2>4, <3>1, StateWritten
    <3>3. RowKnown' /\ NoProvisioning
      BY <1>0, <3>1, <3>2 DEF RowKnown, NoProvisioning
    <3>4. ReaperHolds'
      BY <1>0, <3>1, <3>2, ReaperFields DEF ReaperHolds
    <3>5. EnforcerHolds'
      BY <1>0, <3>1, <3>2, ReaperFields DEF EnforcerHolds
    <3> QED
      BY <2>2, <3>3, <3>4, <3>5
  <2> QED
    BY <2>1, <2>3, <2>4
<1>5. CASE BatchFails \/ StreamCloses
  <2>1. UNCHANGED row /\ (UNCHANGED streamer \/ streamer'.pc = "closed")
    BY <1>5 DEF BatchFails, StreamCloses, background, Receiving
  <2>2. StreamerHolds'
    BY <1>0, <2>1 DEF StreamerHolds
  <2> QED
    BY <1>1, <2>1, <2>2
<1> QED
  BY <1>2, <1>3, <1>4, <1>5 DEF Stream

\* The reaper's steps. It writes draining only on rows it has listed as ready.
LEMMA ReapHands ==
    ASSUME TypeOK, Hands, Reap
    PROVE  Hands' /\ NoProvisioning
<1> USE DEF Hands
<1>0. UNCHANGED <<handler, streamer, enforcer>>
  BY DEF Reap, Touch, Forget, GoIdle, ReapCheck, ReapList, ReapStop, ReapWrite, ReapFault,
     ReapDone, dispatcher
<1>1. ASSUME UNCHANGED row, Reaping' \subseteq Reaping PROVE Hands' /\ NoProvisioning
  BY <1>0, <1>1 DEF RowKnown, ReaperHolds, EnforcerHolds, StreamerHolds, NoProvisioning
<1>2. CASE ReapList
  <2>1. /\ UNCHANGED row
        /\ \A t \in Reaping' : t \in Listing /\ row[t.id].state = "ready"
    <3>1. /\ UNCHANGED row
          /\ Reaping' = {[id |-> d, alloc |-> row[d].alloc] :
                d \in {e \in Deployments : row[e].state = "ready" /\ row[e].alloc # None}}
      BY <1>2 DEF ReapList, Reaping
    <3>2. \A d \in Deployments : row[d].alloc # None => row[d].alloc \in Allocs
      BY DEF TypeOK, Row
    <3> QED
      BY <3>1, <3>2 DEF Listing
  <2> QED
    BY <1>0, <2>1 DEF RowKnown, ReaperHolds, EnforcerHolds, StreamerHolds, NoProvisioning
<1>3. ASSUME NEW t \in reaper.todo, ReapCheck(t) PROVE Hands' /\ NoProvisioning
  <2>1. UNCHANGED row /\ Reaping' \subseteq Reaping
    BY <1>3 DEF ReapCheck, Reaping, TypeOK, Reaper
  <2> QED
    BY <1>1, <2>1
<1>4. CASE ReapStop \/ ReapDone
  <2>1. UNCHANGED row /\ Reaping' \subseteq Reaping
    BY <1>4 DEF ReapStop, ReapDone, NotReaping, Reaping, TypeOK, Reaper
  <2> QED
    BY <1>1, <2>1
<1>5. CASE ReapWrite \/ ReapFault
  <2>1. Reaping' \subseteq Reaping
    BY <1>5 DEF ReapWrite, ReapFault, Reaping, TypeOK, Reaper
  <2>2. UNCHANGED row \/ (reaper.pc = "write" /\ UpdateState(reaper.cur.id, "draining"))
    BY <1>5 DEF ReapWrite, ReapFault
  <2>3. CASE UNCHANGED row
    BY <1>1, <2>1, <2>3
  <2>4. CASE reaper.pc = "write" /\ UpdateState(reaper.cur.id, "draining")
    <3> DEFINE d == reaper.cur.id
    <3>1. reaper.cur \in Reaping
      BY <2>4 DEF Reaping
    <3>2. d \in Deployments /\ row[d].state \notin {"absent", "queued"}
      BY <3>1, ReaperFields DEF ReaperHolds
    <3>3. row'[d].state = "draining" /\ \A e \in Deployments \ {d} : row'[e] = row[e]
      BY <2>4, <3>2, StateWritten
    <3> HIDE DEF d
    <3>4. RowKnown' /\ NoProvisioning
      BY <1>0, <3>2, <3>3 DEF RowKnown, NoProvisioning
    <3>5. ReaperHolds' /\ EnforcerHolds'
      BY <1>0, <2>1, <3>2, <3>3, ReaperFields DEF ReaperHolds, EnforcerHolds
    <3>6. StreamerHolds'
      <4>1. streamer.pc = "write" /\ streamer.next = "provisioning" => streamer.id # d
        BY <3>1 DEF StreamerHolds, d
      <4> QED
        BY <1>0, <2>1, <3>2, <3>3, <4>1 DEF StreamerHolds
    <3> QED
      BY <3>4, <3>5, <3>6
  <2> QED
    BY <2>2, <2>3, <2>4
<1>6. ASSUME NEW a \in Allocs, Touch(a) \/ Forget(a) \/ GoIdle(a)
      PROVE  Hands' /\ NoProvisioning
  BY <1>0, <1>6, IdleHands DEF Touch, Forget, GoIdle
<1> QED
  BY <1>2, <1>3, <1>4, <1>5, <1>6 DEF Reap

\* The enforcer's steps. It writes terminated only on rows that exist.
LEMMA SuspendHands ==
    ASSUME TypeOK, Hands, Suspend
    PROVE  Hands' /\ NoProvisioning
<1> USE DEF Hands
<1>0. UNCHANGED <<handler, streamer, reaper>> /\ Reaping' = Reaping
  BY DEF Suspend, SuspendAccount, ListLiveByUser, Terminate, Suspended, SuspendFault,
     StopJob, dispatcher, Reaping
<1>1. ASSUME UNCHANGED row, EnforcerHolds' PROVE Hands' /\ NoProvisioning
  BY <1>0, <1>1 DEF RowKnown, ReaperHolds, StreamerHolds, NoProvisioning
<1>2. CASE SuspendAccount \/ Suspended
  <2>1. UNCHANGED row /\ enforcer'.todo = enforcer.todo /\ enforcer'.pc # "mark"
    BY <1>2 DEF SuspendAccount, Suspended, TypeOK, Enforcer
  <2> QED
    BY <1>1, <2>1 DEF EnforcerHolds
<1>3. CASE ListLiveByUser
  <2>1. /\ UNCHANGED row /\ enforcer'.pc = "stop"
        /\ enforcer'.todo = {d \in Deployments : Active(d)}
    BY <1>3 DEF ListLiveByUser, TypeOK, Enforcer
  <2> QED
    BY <1>1, <2>1 DEF EnforcerHolds, Active
<1>4. ASSUME NEW d \in Deployments, StopJob(d) PROVE Hands' /\ NoProvisioning
  <2>1. /\ UNCHANGED row /\ d \in enforcer.todo /\ enforcer'.cur = d
        /\ enforcer'.todo = enforcer.todo \ {d}
    BY <1>4 DEF StopJob
  <2> QED
    BY <1>1, <2>1 DEF EnforcerHolds
<1>5. CASE Terminate \/ SuspendFault
  <2>1. enforcer'.todo = enforcer.todo /\ enforcer'.pc # "mark"
    BY <1>5 DEF Terminate, SuspendFault, TypeOK, Enforcer
  <2>2. UNCHANGED row \/ (enforcer.pc = "mark" /\ UpdateState(enforcer.cur, "terminated"))
    BY <1>5 DEF Terminate, SuspendFault
  <2>3. CASE UNCHANGED row
    BY <1>1, <2>1, <2>3 DEF EnforcerHolds
  <2>4. CASE enforcer.pc = "mark" /\ UpdateState(enforcer.cur, "terminated")
    <3> DEFINE d == enforcer.cur
    <3>1. d \in Deployments /\ row[d].state # "absent"
      BY <2>4 DEF EnforcerHolds
    <3>2. row'[d].state = "terminated" /\ \A e \in Deployments \ {d} : row'[e] = row[e]
      BY <2>4, <3>1, StateWritten
    <3> HIDE DEF d
    <3>3. RowKnown' /\ NoProvisioning
      BY <1>0, <3>1, <3>2 DEF RowKnown, NoProvisioning
    <3>4. ReaperHolds' /\ EnforcerHolds'
      BY <1>0, <2>1, <3>1, <3>2, ReaperFields DEF ReaperHolds, EnforcerHolds
    <3>5. StreamerHolds'
      BY <1>0, <3>1, <3>2 DEF StreamerHolds
    <3> QED
      BY <3>3, <3>4, <3>5
  <2> QED
    BY <2>2, <2>3, <2>4
<1> QED
  BY <1>2, <1>3, <1>4, <1>5 DEF Suspend

\* A crash drops every listing and the event in hand.
LEMMA CrashHands ==
    ASSUME TypeOK, Hands, Crash
    PROVE  Hands' /\ NoProvisioning
<1> USE DEF Hands
<1>1. /\ UNCHANGED row /\ streamer' = Receiving /\ reaper' = NotReaping
      /\ \A d \in Deployments : handler'[d] = "idle" <=> handler[d] = "idle"
  BY DEF Crash
<1>2. enforcer'.todo = enforcer.todo /\ enforcer'.pc # "mark"
  BY DEF Crash, TypeOK, Enforcer
<1>3. Reaping' = {}
  BY <1>1 DEF Reaping, NotReaping
<1> QED
  BY <1>1, <1>2, <1>3 DEF RowKnown, ReaperHolds, EnforcerHolds, StreamerHolds, Receiving,
     NoProvisioning

\* The invariant of all writers together is inductive.
LEMMA WritersStep ==
    ASSUME WritersInv, [Next]_vars
    PROVE  WritersInv' /\ NoProvisioning
<1> USE DEF WritersInv
<1>1. TypeOK'
  BY TypeStep
<1>2. Placed'
  BY AllocMoves, EventsStep DEF Hands
<1>4. CASE Nomad
  <2>1. UNCHANGED <<row, handler, reaper, enforcer, streamer>>
    BY <1>4 DEF Nomad, Place, Start, FailAlloc, Complete, dispatcher, background
  <2> QED
    BY <1>1, <1>2, <2>1, IdleHands
<1>5. CASE Reconcile
  <2>1. UNCHANGED <<row, handler, reaper, enforcer, streamer>>
    BY <1>5 DEF Reconcile, ListAllocations, ListActive, Reconciled, StopOrphan, dispatcher
  <2> QED
    BY <1>1, <1>2, <2>1, IdleHands
<1>6. CASE UNCHANGED vars
  <2>1. UNCHANGED <<row, handler, reaper, enforcer, streamer>>
    BY <1>6 DEF vars, dispatcher, background
  <2> QED
    BY <1>1, <1>2, <2>1, IdleHands
<1>7. Hands' /\ NoProvisioning
  BY <1>4, <1>5, <1>6, DispatchHands, StreamHands, ReapHands, SuspendHands, CrashHands
     DEF Next
<1> QED
  BY <1>1, <1>2, <1>7

\* And holds in an empty table.
LEMMA WritersInit == Init => WritersInv
<1> SUFFICES ASSUME Init PROVE WritersInv
  OBVIOUS
<1>1. Hands
  BY DEF Init, Hands, RowKnown, ReaperHolds, EnforcerHolds, StreamerHolds, Reaping,
     NotReaping, Receiving
<1>2. Placed
  BY DEF Init, Placed
<1> QED
  BY <1>1, <1>2, InitTypes DEF WritersInv

\* Whoever runs, and however they interleave, what each writer has in hand is
\* what it read, up to what the others may write.
THEOREM WritersInvariant == Spec => []WritersInv
  BY WritersInit, WritersStep, PTL DEF Spec

\* A deployment that was ready, draining or failed never goes back to
\* provisioning, although the streamer, the reaper and the enforcer write the
\* table unconditionally (deployments.go UpdateState).
THEOREM NeverReprovisioned == Spec => NoReprovision
<1>1. WritersInv /\ [Next]_vars => [NoProvisioning]_vars
  BY WritersStep
<1> QED
  BY <1>1, WritersInvariant, PTL DEF Spec, NoReprovision, NoProvisioning

-----------------------------------------------------------------------------
(* Suspension.                                                             *)

\* What was live at the listing and the enforcer has come to is stopped, and its
\* create request is over, so that nobody registers it again.
StoppedForGood ==
    /\ \A d \in result.live : d \in Deployments /\ handler[d] # "idle"
    /\ enforcer.pc = "done" => enforcer.todo = {}
    /\ \A d \in result.live \ (enforcer.todo \cup result.StopJobErrors \cup result.racing) :
         ~job[d] /\ ~InFlight(d)

SuspensionInv == WritersInv /\ StoppedForGood

\* Only a create request under way registers a job, and it ends for good.
LEMMA DispatchStops ==
    ASSUME TypeOK, StoppedForGood, Dispatch PROVE StoppedForGood'
<1>1. PICK d \in Deployments :
        \/ Create(d) \/ JobMissing(d)
        \/ Register(d) \/ RegisterFault(d) \/ QueueForRetry(d) \/ QueueFault(d)
  BY DEF Dispatch
<1>2. UNCHANGED <<enforcer, result>>
  BY <1>1 DEF Create, JobMissing, Register, RegisterFault,
     QueueForRetry, QueueFault, background
<1>3. handler'[d] # "idle" /\ \A e \in Deployments \ {d} : handler'[e] = handler[e]
  <2>1. \E pc \in HandlerStates \ {"idle"} : handler' = [handler EXCEPT ![d] = pc]
    BY <1>1 DEF Create, JobMissing, Register, RegisterFault,
       QueueForRetry, QueueFault, Submitted, Goto, HandlerStates
  <2> QED
    BY <2>1 DEF TypeOK
<1>4. \A e \in Deployments \ {d} : job'[e] = job[e]
  <2>1. UNCHANGED job \/ \E registered : job' = [job EXCEPT ![d] = registered]
    BY <1>1 DEF Create, JobMissing, Register, RegisterFault,
       QueueForRetry, QueueFault, nomad
  <2> QED
    BY <2>1 DEF TypeOK
<1>5. handler[d] = "idle" \/ InFlight(d) \/ (UNCHANGED job /\ handler'[d] \in {"queued", "rejected"})
  BY <1>1 DEF Create, JobMissing, Register, RegisterFault,
     QueueForRetry, QueueFault, InFlight, Goto, nomad, TypeOK
<1>6. ASSUME NEW e \in result.live \ (enforcer.todo \cup result.StopJobErrors \cup result.racing)
      PROVE  ~job'[e] /\ ~InFlight(e)'
  <2>1. e \in Deployments /\ handler[e] # "idle" /\ ~job[e] /\ ~InFlight(e)
    BY <1>6 DEF StoppedForGood
  <2>2. CASE e = d
    BY <2>1, <2>2, <1>5 DEF InFlight
  <2>3. CASE e # d
    BY <2>1, <2>3, <1>3, <1>4 DEF InFlight
  <2> QED
    BY <2>2, <2>3
<1>7. \A e \in result.live : e \in Deployments /\ handler'[e] # "idle"
  BY <1>3 DEF StoppedForGood
<1> QED
  BY <1>2, <1>6, <1>7 DEF StoppedForGood

\* One stop after the other: a failed one is reported, one that races its create
\* request is known to, and the others are for good.
LEMMA StopJobStops ==
    ASSUME TypeOK, StoppedForGood, NEW d \in Deployments, StopJob(d) PROVE StoppedForGood'
<1>1. /\ UNCHANGED handler /\ enforcer'.pc = "mark" /\ enforcer'.todo = enforcer.todo \ {d}
  BY DEF StopJob, dispatcher
<1>2. PICK failed \in BOOLEAN, registered \in {job[d], FALSE} :
        /\ failed \/ registered = FALSE
        /\ job' = [job EXCEPT ![d] = registered]
        /\ result' = [result EXCEPT !.StopJobErrors = IF failed THEN @ \cup {d} ELSE @,
                                    !.racing = IF InFlight(d) THEN @ \cup {d} ELSE @]
  BY DEF StopJob
<1>3. /\ result'.live = result.live
      /\ result'.StopJobErrors = IF failed THEN result.StopJobErrors \cup {d} ELSE result.StopJobErrors
      /\ result'.racing = IF InFlight(d) THEN result.racing \cup {d} ELSE result.racing
  BY <1>2 DEF TypeOK, Result
<1>4. /\ job'[d] = registered
      /\ \A e \in Deployments \ {d} : job'[e] = job[e]
  BY <1>2 DEF TypeOK
<1>5. ASSUME NEW e \in result'.live \ (enforcer'.todo \cup result'.StopJobErrors \cup result'.racing)
      PROVE  ~job'[e] /\ ~InFlight(e)'
  <2>1. e \in Deployments
    BY <1>3, <1>5 DEF StoppedForGood
  <2>2. CASE e = d
    BY <1>1, <1>2, <1>3, <1>4, <1>5, <2>2 DEF InFlight
  <2>3. CASE e # d
    <3>1. e \in result.live \ (enforcer.todo \cup result.StopJobErrors \cup result.racing)
      BY <1>1, <1>3, <1>5, <2>3
    <3> QED
      BY <1>1, <1>4, <2>1, <2>3, <3>1 DEF StoppedForGood, InFlight
  <2> QED
    BY <2>2, <2>3
<1> QED
  BY <1>1, <1>3, <1>5 DEF StoppedForGood

\* The enforcer's other steps.
LEMMA SuspendStops ==
    ASSUME TypeOK, Hands, StoppedForGood, Suspend PROVE StoppedForGood'
<1>1. CASE ListLiveByUser
  <2>1. /\ UNCHANGED <<job, handler>> /\ enforcer'.pc = "stop"
        /\ enforcer'.todo = {d \in Deployments : Active(d)}
        /\ result'.live = {d \in Deployments : Active(d)}
    BY <1>1 DEF ListLiveByUser, TypeOK, Enforcer, Result, nomad, dispatcher
  <2>2. \A d \in Deployments : Active(d) => handler[d] # "idle"
    BY DEF Active, Hands, RowKnown
  <2> QED
    BY <2>1, <2>2 DEF StoppedForGood
<1>2. CASE SuspendAccount \/ Terminate \/ Suspended \/ SuspendFault
  <2>1. /\ UNCHANGED <<job, handler, result>> /\ enforcer'.todo = enforcer.todo
        /\ enforcer'.pc = "done" => enforcer.todo = {}
    BY <1>2 DEF SuspendAccount, Terminate, Suspended, SuspendFault, TypeOK, Enforcer, nomad, dispatcher
  <2> QED
    BY <2>1 DEF StoppedForGood, InFlight
<1> QED
  BY <1>1, <1>2, StopJobStops DEF Suspend

\* The invariant of a suspension is inductive.
LEMMA SuspensionStep ==
    ASSUME SuspensionInv, [Next]_vars PROVE SuspensionInv'
<1>0. TypeOK /\ Hands /\ StoppedForGood
  BY DEF SuspensionInv, WritersInv
<1>1. WritersInv'
  BY WritersStep DEF SuspensionInv
<1>2. ASSUME UNCHANGED <<job, handler, enforcer, result>> PROVE StoppedForGood'
  BY <1>0, <1>2 DEF StoppedForGood, InFlight
<1>3. ASSUME Nomad \/ Stream \/ Reap \/ Reconcile \/ UNCHANGED vars PROVE StoppedForGood'
  <2>1. CASE Nomad
    BY <1>2, <2>1 DEF Nomad, Place, Start, FailAlloc, Complete, dispatcher, background
  <2>2. CASE Stream
    BY <1>2, <2>2 DEF Stream, Receive, BatchFails, StreamCloses, ReadState, WriteState,
       StreamerFault, dispatcher, nomad, background
  <2>3. CASE Reap
    BY <1>2, <2>3 DEF Reap, Touch, Forget, GoIdle, ReapCheck, ReapList, ReapStop, ReapWrite,
       ReapFault, ReapDone, dispatcher, nomad
  <2>4. CASE Reconcile
    BY <1>2, <2>4 DEF Reconcile, ListAllocations, ListActive, Reconciled, StopOrphan,
       dispatcher, nomad
  <2>5. CASE UNCHANGED vars
    BY <1>2, <2>5 DEF vars, dispatcher, background, nomad
  <2> QED
    BY <1>3, <2>1, <2>2, <2>3, <2>4, <2>5
<1>4. ASSUME Crash PROVE StoppedForGood'
  <2>1. /\ UNCHANGED <<job, result>> /\ enforcer'.todo = enforcer.todo
        /\ enforcer'.pc = "done" => enforcer.pc = "done"
        /\ \A d \in Deployments : handler'[d] = handler[d] \/ handler'[d] = "rejected"
    BY <1>0, <1>4 DEF Crash, TypeOK, Enforcer
  <2> QED
    BY <1>0, <2>1 DEF StoppedForGood, InFlight
<1>5. StoppedForGood'
  BY <1>0, <1>3, <1>4, DispatchStops, SuspendStops DEF Next
<1> QED
  BY <1>1, <1>5 DEF SuspensionInv

\* Whatever the requests, the streamer, the reaper, the reconciler, Nomad and
\* crashes do meanwhile, what the enforcer came to stays stopped.
THEOREM SuspensionInvariant == Spec => []SuspensionInv
<1>1. Init => SuspensionInv
  <2> SUFFICES ASSUME Init PROVE SuspensionInv
    OBVIOUS
  <2>1. StoppedForGood
    BY DEF Init, StoppedForGood
  <2> QED
    BY <2>1, WritersInit DEF SuspensionInv
<1>2. SuspensionInv /\ [Next]_vars => SuspensionInv'
  BY SuspensionStep
<1> QED
  BY <1>1, <1>2, PTL DEF Spec

\* Every deployment live at the listing is stopped for good, reported in
\* StopJobErrors, or was still being created when its job was stopped
\* (policy/suspension.go Suspend); a failed stop costs the others nothing.
THEOREM SuspensionStopsTheLive == Spec => []LiveIsStopped
<1>1. SuspensionInv => LiveIsStopped
  BY DEF SuspensionInv, StoppedForGood, LiveIsStopped
<1> QED
  BY <1>1, SuspensionInvariant, PTL

=============================================================================
