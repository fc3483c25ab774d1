----------------------------- MODULE Deployment -----------------------------
(***************************************************************************)
(* The life of a deployment: the deployments table (internal/db), the      *)
(* create handler and its degraded-mode dispatch (internal/api,            *)
(* scheduler/degraded.go, nomadclient/idempotent.go), the state machine    *)
(* and the status streamer (scheduler/state.go, statusstream.go), the idle *)
(* reaper (reaper.go, idle.go), the orphan reconciler (orphan.go) and the  *)
(* account suspension that ends deployments (policy/suspension.go).        *)
(*                                                                         *)
(* Every call to Postgres, Redis or Nomad is one step.  Nomad is external: *)
(* it registers jobs, places, starts, fails and completes allocations and  *)
(* reports every change, in order, on its event stream.                    *)
(***************************************************************************)
EXTENDS Naturals, Sequences, FiniteSets

CONSTANTS
    Deployments, Allocs, None,
    Actors,       \* which of "reaper", "enforcer", "reconciler" run
    Replace,      \* does Nomad place a new allocation when a job's is dead?
    QuickStop,    \* may an allocation end before its stopper's next call?
    MaxFailures,  \* bound: allocations that fail or are lost
    MaxFaults,    \* bound: calls that return an error
    MaxRestarts   \* bound: crashes of the gateway

ASSUME DeploymentAssumption ==
    /\ None \notin Deployments \cup Allocs
    /\ Actors \subseteq {"reaper", "enforcer", "reconciler"}
    /\ Replace \in BOOLEAN /\ QuickStop \in BOOLEAN
    /\ MaxFailures \in Nat /\ MaxFaults \in Nat /\ MaxRestarts \in Nat

VARIABLES
    row,         \* the deployments table: state, allocation_id
    job,         \* Nomad: is the deployment's job registered?
    alloc,       \* Nomad: each allocation's job, client status, stop request
    events,      \* allocation events the streamer has not received
    handler,     \* where each deployment's create request is
    retryQueue,  \* the deployment-retry queue, which nothing in the program reads
    degraded,    \* DegradedModeDispatcher.degraded
    streamer,    \* StatusStreamer.handleEvent: its pc, deployment and next state
    idle,        \* IdleTracker: each allocation's last-request record
    reaper,      \* IdleReaper.Reap: its pc, the rows it listed, the one in hand
    enforcer,    \* Enforcer.Suspend: its pc, the rows it listed, the one in hand
    result,      \* Result.StopJobErrors, and history: what was live at the listing
                 \* and what was being created when its job was stopped
    reconciler,  \* OrphanReconciler.Reconcile: its pc and allocations
    failures, faults, restarts

nomad == <<job, alloc, events, failures>>
dispatcher == <<handler, retryQueue, degraded>>
background == <<streamer, idle, reaper, enforcer, result, reconciler>>
vars == <<row, nomad, dispatcher, background, faults, restarts>>

-----------------------------------------------------------------------------
(* The state machine.                                                      *)

States == {"queued", "provisioning", "warming", "ready", "draining", "terminated", "failed"}

\* Mutant: a deployment must warm up to be ready.
WarmFirstTransitions ==
    {<<"queued", "provisioning">>, <<"queued", "failed">>,
     <<"provisioning", "warming">>, <<"provisioning", "failed">>,
     <<"warming", "ready">>, <<"warming", "failed">>,
     <<"ready", "draining">>, <<"ready", "failed">>,
     <<"draining", "terminated">>, <<"draining", "failed">>}

legalTransitions ==
    {<<"queued", "provisioning">>, <<"queued", "failed">>,
     <<"provisioning", "warming">>, <<"provisioning", "ready">>, <<"provisioning", "failed">>,
     <<"warming", "ready">>, <<"warming", "failed">>,
     <<"ready", "draining">>, <<"ready", "failed">>,
     <<"draining", "terminated">>, <<"draining", "failed">>}

ValidTransition(from, to) == from = to \/ <<from, to>> \in legalTransitions

IsTerminal(state) == ~ \E to \in States : <<state, to>> \in legalTransitions

\* A client status as the streamer understands it; "lost" is like "failed".
mapAllocationState ==
    [pending |-> "provisioning", running |-> "ready",
     complete |-> "terminated", failed |-> "failed"]

ClientStatuses == DOMAIN mapAllocationState
liveAllocationStatuses == {"pending", "running"}

-----------------------------------------------------------------------------
Row == [state : States \cup {"absent"}, alloc : Allocs \cup {None}]
Alloc == [job : Deployments \cup {None}, status : ClientStatuses \cup {"none"}, stop : BOOLEAN]
Event == [alloc : Allocs, status : ClientStatuses]
Listing == [id : Deployments, alloc : Allocs]

HandlerStates == {"idle", "info", "register", "fallback", "accepted", "queued", "rejected"}
Streamer == [pc : {"recv", "read", "write", "closed"}, id : Deployments \cup {None}, next : States]
Reaper == [pc : {"idle", "check", "stop", "write"}, todo : SUBSET Listing, cur : Listing \cup {None}]
Enforcer == [pc : {"idle", "list", "stop", "mark", "done", "aborted"},
             todo : SUBSET Deployments, cur : Deployments \cup {None}]
Result == [StopJobErrors : SUBSET Deployments, live : SUBSET Deployments, racing : SUBSET Deployments]
Reconciler == [pc : {"off", "start", "active", "stop"}, todo : SUBSET Allocs]

Receiving == [pc |-> "recv", id |-> None, next |-> "queued"]
NotReaping == [pc |-> "idle", todo |-> {}, cur |-> None]
NotReconciling == [pc |-> "off", todo |-> {}]

Live(a) == alloc[a].status \in liveAllocationStatuses
\* Reconcile runs before the gateway accepts requests.
Serving == reconciler.pc = "off"
Active(d) == row[d].state # "absent" /\ ~IsTerminal(row[d].state)

Init ==
    /\ row = [d \in Deployments |-> [state |-> "absent", alloc |-> None]]
    /\ job = [d \in Deployments |-> FALSE]
    /\ alloc = [a \in Allocs |-> [job |-> None, status |-> "none", stop |-> FALSE]]
    /\ events = <<>>
    /\ handler = [d \in Deployments |-> "idle"]
    /\ retryQueue = {}
    /\ degraded = FALSE
    /\ streamer = Receiving
    /\ idle = [a \in Allocs |-> "none"]
    /\ reaper = NotReaping
    /\ enforcer = [pc |-> "idle", todo |-> {}, cur |-> None]
    /\ result = [StopJobErrors |-> {}, live |-> {}, racing |-> {}]
    /\ reconciler = NotReconciling
    /\ failures = 0 /\ faults = 0 /\ restarts = 0

Fault ==
    /\ faults < MaxFaults
    /\ faults' = faults + 1

\* UPDATE deployments SET state: unconditional.
UpdateState(d, state) == row' = [row EXCEPT ![d].state = state]

-----------------------------------------------------------------------------
(* Nomad (external).                                                       *)

\* The client reports a new status, on the record and on the event stream.
Report(a, status) ==
    /\ alloc' = [alloc EXCEPT ![a].status = status]
    /\ events' = Append(events, [alloc |-> a, status |-> status])

Place(d, a) ==
    /\ job[d]
    /\ alloc[a].status = "none"
    /\ ~ \E b \in Allocs : alloc[b].job = d /\ (Live(b) \/ ~Replace)
    /\ alloc' = [alloc EXCEPT ![a] = [job |-> d, status |-> "pending", stop |-> FALSE]]
    /\ events' = Append(events, [alloc |-> a, status |-> "pending"])
    /\ UNCHANGED <<row, job, failures, dispatcher, background, faults, restarts>>

Start(a) ==
    /\ alloc[a].status = "pending"
    /\ ~alloc[a].stop /\ job[alloc[a].job]
    /\ Report(a, "running")
    /\ UNCHANGED <<row, job, failures, dispatcher, background, faults, restarts>>

\* The allocation fails, or its node is lost.
FailAlloc(a) ==
    /\ Live(a)
    /\ failures < MaxFailures
    /\ failures' = failures + 1
    /\ Report(a, "failed")
    /\ UNCHANGED <<row, job, dispatcher, background, faults, restarts>>

\* A stopped allocation ends after its drain period, which outlasts its
\* stopper's next call unless QuickStop.
Complete(a) ==
    /\ Live(a)
    /\ alloc[a].stop \/ ~job[alloc[a].job]
    /\ QuickStop \/ (reaper.pc # "write" /\ enforcer.pc # "mark")
    /\ Report(a, "complete")
    /\ UNCHANGED <<row, job, failures, dispatcher, background, faults, restarts>>

\* Allocations().Stop: a dead allocation is not stopped again.
StopAllocation(a) ==
    alloc' = IF Live(a) THEN [alloc EXCEPT ![a].stop = TRUE] ELSE alloc

-----------------------------------------------------------------------------
(* POST /v1/dashboard/deployments, and Dispatch.                           *)

Goto(d, pc) == handler' = [handler EXCEPT ![d] = pc]

\* deployments.Create inserts the row in its default state.
Create(d) ==
    /\ handler[d] = "idle"
    /\ Serving
    /\ row' = [row EXCEPT ![d].state = "queued"]
    /\ Goto(d, "info")
    /\ UNCHANGED <<nomad, retryQueue, degraded, background, faults, restarts>>

Submitted(d) ==
    /\ degraded' = FALSE
    /\ Goto(d, "accepted")
    /\ UNCHANGED retryQueue

\* SubmitJobIdempotent's Info finds no live job, or fails: register. That it
\* finds one is never so: the id is that of a row just inserted, and nobody
\* dispatches a deployment again.
JobMissing(d) ==
    /\ handler[d] = "info"
    /\ \/ ~job[d] /\ UNCHANGED faults
       \/ Fault
    /\ Goto(d, "register")
    /\ UNCHANGED <<row, nomad, retryQueue, degraded, background, restarts>>

Register(d) ==
    /\ handler[d] = "register"
    /\ job' = [job EXCEPT ![d] = TRUE]
    /\ Submitted(d)
    /\ UNCHANGED <<row, alloc, events, failures, background, faults, restarts>>

\* Register returns an error, whether or not Nomad has the job.
RegisterFault(d) ==
    /\ handler[d] = "register"
    /\ Fault
    /\ \E registered \in {job[d], TRUE} : job' = [job EXCEPT ![d] = registered]
    /\ degraded' = TRUE
    /\ Goto(d, "fallback")
    /\ UNCHANGED <<row, alloc, events, failures, retryQueue, background, restarts>>

QueueForRetry(d) ==
    /\ handler[d] = "fallback"
    /\ retryQueue' = retryQueue \cup {d}
    /\ Goto(d, "queued")
    /\ UNCHANGED <<row, nomad, degraded, background, faults, restarts>>

\* Enqueue fails too: the request ends in a 500, the row stays.
QueueFault(d) ==
    /\ handler[d] = "fallback"
    /\ Fault
    /\ retryQueue' \in {retryQueue, retryQueue \cup {d}}
    /\ Goto(d, "rejected")
    /\ UNCHANGED <<row, nomad, degraded, background, restarts>>

-----------------------------------------------------------------------------
(* StatusStreamer.handleEvent: SetAllocationID, CurrentState, UpdateState. *)

\* One event of a batch.  SetAllocationID is unconditional; its error is logged
\* and ignored.
Receive ==
    /\ streamer.pc = "recv"
    /\ events # <<>>
    /\ LET ev == Head(events)
           d == alloc[ev.alloc].job
       IN  /\ \/ row' = [row EXCEPT ![d].alloc = ev.alloc] /\ UNCHANGED faults
              \/ Fault /\ UNCHANGED row
           /\ streamer' = [pc |-> "read", id |-> d, next |-> mapAllocationState[ev.status]]
    /\ events' = Tail(events)
    /\ UNCHANGED <<job, alloc, failures, dispatcher, idle, reaper, enforcer, result,
                   reconciler, restarts>>

\* handleBatch on a batch that carries an error: none of its events is looked at.
BatchFails ==
    /\ streamer.pc = "recv"
    /\ Fault
    /\ \E n \in 1 .. Len(events) : events' = SubSeq(events, n + 1, Len(events))
    /\ UNCHANGED <<row, job, alloc, failures, dispatcher, background, restarts>>

\* Nomad ends the stream: Run returns nil, and no event is received before the
\* gateway is started again.
StreamCloses ==
    /\ streamer.pc = "recv"
    /\ Fault
    /\ streamer' = [Receiving EXCEPT !.pc = "closed"]
    /\ UNCHANGED <<row, nomad, dispatcher, idle, reaper, enforcer, result, reconciler, restarts>>

\* Mutant: the transition is not validated.
ReadStateBlindly ==
    /\ streamer.pc = "read"
    /\ streamer' = IF row[streamer.id].state # streamer.next
                   THEN [streamer EXCEPT !.pc = "write"]
                   ELSE Receiving
    /\ UNCHANGED <<row, nomad, dispatcher, idle, reaper, enforcer, result, reconciler,
                   faults, restarts>>

\* Drop what the state machine does not permit and what changes nothing.
ReadState ==
    /\ streamer.pc = "read"
    /\ LET current == row[streamer.id].state
       IN  streamer' = IF ValidTransition(current, streamer.next) /\ current # streamer.next
                       THEN [streamer EXCEPT !.pc = "write"]
                       ELSE Receiving
    /\ UNCHANGED <<row, nomad, dispatcher, idle, reaper, enforcer, result, reconciler,
                   faults, restarts>>

\* UpdateState: whatever the row holds by now.
WriteState ==
    /\ streamer.pc = "write"
    /\ UpdateState(streamer.id, streamer.next)
    /\ streamer' = Receiving
    /\ UNCHANGED <<nomad, dispatcher, idle, reaper, enforcer, result, reconciler,
                   faults, restarts>>

\* Either call returns an error, whether or not the write was done: the event
\* is logged and gone.
StreamerFault ==
    /\ streamer.pc \in {"read", "write"}
    /\ Fault
    /\ UNCHANGED row \/ (streamer.pc = "write" /\ UpdateState(streamer.id, streamer.next))
    /\ streamer' = Receiving
    /\ UNCHANGED <<nomad, dispatcher, idle, reaper, enforcer, result, reconciler,
                   restarts>>

-----------------------------------------------------------------------------
(* IdleTracker and IdleReaper.                                             *)

\* A request is served: Touch.
Touch(a) ==
    /\ "reaper" \in Actors
    /\ alloc[a].status = "running"
    /\ idle[a] # "fresh"
    /\ idle' = [idle EXCEPT ![a] = "fresh"]
    /\ UNCHANGED <<row, nomad, dispatcher, streamer, reaper, enforcer, result, reconciler,
                   faults, restarts>>

\* Forget, once the allocation has been torn down.
Forget(a) ==
    /\ "reaper" \in Actors
    /\ alloc[a].status \in {"complete", "failed"}
    /\ idle[a] # "none"
    /\ idle' = [idle EXCEPT ![a] = "none"]
    /\ UNCHANGED <<row, nomad, dispatcher, streamer, reaper, enforcer, result, reconciler,
                   faults, restarts>>

\* The idle threshold passes since the last request.
GoIdle(a) ==
    /\ idle[a] = "fresh"
    /\ idle' = [idle EXCEPT ![a] = "idle"]
    /\ UNCHANGED <<row, nomad, dispatcher, streamer, reaper, enforcer, result, reconciler,
                   faults, restarts>>

\* ListByState(ready); rows without an allocation are skipped.
ReapList ==
    /\ "reaper" \in Actors
    /\ reaper.pc = "idle"
    /\ LET ready == {d \in Deployments : row[d].state = "ready" /\ row[d].alloc # None}
       IN  /\ ready # {}
           /\ reaper' = [pc |-> "check", cur |-> None,
                         todo |-> {[id |-> d, alloc |-> row[d].alloc] : d \in ready}]
    /\ UNCHANGED <<row, nomad, dispatcher, streamer, idle, enforcer, result, reconciler,
                   faults, restarts>>

\* IdleDuration: no record, or idle for less than the threshold, is skipped.
ReapCheck(t) ==
    /\ reaper.pc = "check"
    /\ t \in reaper.todo
    /\ reaper' = IF idle[t.alloc] = "idle"
                 THEN [pc |-> "stop", todo |-> reaper.todo \ {t}, cur |-> t]
                 ELSE [reaper EXCEPT !.todo = @ \ {t}]
    /\ UNCHANGED <<row, nomad, dispatcher, streamer, idle, enforcer, result, reconciler,
                   faults, restarts>>

ReapStop ==
    /\ reaper.pc = "stop"
    /\ StopAllocation(reaper.cur.alloc)
    /\ reaper' = [reaper EXCEPT !.pc = "write"]
    /\ UNCHANGED <<row, job, events, failures, dispatcher, streamer, idle, enforcer,
                   result, reconciler, faults, restarts>>

\* UpdateState(draining): the transition validated is the constant ready ->
\* draining, not the row's.
ReapWrite ==
    /\ reaper.pc = "write"
    /\ UpdateState(reaper.cur.id, "draining")
    /\ reaper' = [reaper EXCEPT !.pc = "check", !.cur = None]
    /\ UNCHANGED <<nomad, dispatcher, streamer, idle, enforcer, result, reconciler,
                   faults, restarts>>

\* A failed stop skips the row, a failed write is only logged; either may have
\* been done all the same.
ReapFault ==
    /\ reaper.pc \in {"stop", "write"}
    /\ Fault
    /\ \/ UNCHANGED <<row, alloc>>
       \/ reaper.pc = "stop" /\ StopAllocation(reaper.cur.alloc) /\ UNCHANGED row
       \/ reaper.pc = "write" /\ UpdateState(reaper.cur.id, "draining") /\ UNCHANGED alloc
    /\ reaper' = [reaper EXCEPT !.pc = "check", !.cur = None]
    /\ UNCHANGED <<job, events, failures, dispatcher, streamer, idle, enforcer, result, reconciler,
                   restarts>>

ReapDone ==
    /\ reaper.pc = "check"
    /\ reaper.todo = {}
    /\ reaper' = NotReaping
    /\ UNCHANGED <<row, nomad, dispatcher, streamer, idle, enforcer, result, reconciler,
                   faults, restarts>>

-----------------------------------------------------------------------------
(* Enforcer.Suspend, of the one account that owns the deployments.         *)

\* users.Suspend and RevokeAllByUser; neither changes a deployment.
SuspendAccount ==
    /\ "enforcer" \in Actors
    /\ Serving
    /\ enforcer.pc = "idle"
    /\ enforcer' = [enforcer EXCEPT !.pc = "list"]
    /\ UNCHANGED <<row, nomad, dispatcher, streamer, idle, reaper, result, reconciler,
                   faults, restarts>>

\* Mutant: only deployments that are ready are listed.
ListReadyByUser ==
    /\ enforcer.pc = "list"
    /\ enforcer' = [enforcer EXCEPT !.pc = "stop", !.todo = {d \in Deployments : row[d].state = "ready"}]
    /\ result' = [result EXCEPT !.live = {d \in Deployments : Active(d)}]
    /\ UNCHANGED <<row, nomad, dispatcher, streamer, idle, reaper, reconciler, faults, restarts>>

ListLiveByUser ==
    /\ enforcer.pc = "list"
    /\ enforcer' = [enforcer EXCEPT !.pc = "stop", !.todo = {d \in Deployments : Active(d)}]
    /\ result' = [result EXCEPT !.live = {d \in Deployments : Active(d)}]
    /\ UNCHANGED <<row, nomad, dispatcher, streamer, idle, reaper, reconciler, faults, restarts>>

\* The create request of d is still under way and may register its job.
InFlight(d) == handler[d] \in {"info", "register"}

\* StopJob with purge: the job is gone and its allocations will end.  An
\* error, whether or not Nomad did it, is recorded and the loop goes on.
StopJob(d) ==
    /\ enforcer.pc = "stop"
    /\ d \in enforcer.todo
    /\ \E failed \in BOOLEAN, registered \in {job[d], FALSE} :
         /\ IF failed THEN Fault ELSE registered = FALSE /\ UNCHANGED faults
         /\ job' = [job EXCEPT ![d] = registered]
         /\ result' = [result EXCEPT !.StopJobErrors = IF failed THEN @ \cup {d} ELSE @,
                                     !.racing = IF InFlight(d) THEN @ \cup {d} ELSE @]
    /\ enforcer' = [pc |-> "mark", todo |-> enforcer.todo \ {d}, cur |-> d]
    /\ UNCHANGED <<row, alloc, events, failures, dispatcher, streamer, idle, reaper,
                   reconciler, restarts>>

Terminate ==
    /\ enforcer.pc = "mark"
    /\ UpdateState(enforcer.cur, "terminated")
    /\ enforcer' = [enforcer EXCEPT !.pc = "stop", !.cur = None]
    /\ UNCHANGED <<nomad, dispatcher, streamer, idle, reaper, result, reconciler,
                   faults, restarts>>

Suspended ==
    /\ enforcer.pc = "stop"
    /\ enforcer.todo = {}
    /\ enforcer' = [enforcer EXCEPT !.pc = "done"]
    /\ UNCHANGED <<row, nomad, dispatcher, streamer, idle, reaper, result, reconciler,
                   faults, restarts>>

\* Any other error aborts the suspension where it is, whether or not the row
\* was marked.
SuspendFault ==
    /\ enforcer.pc \in {"list", "mark"}
    /\ Fault
    /\ UNCHANGED row \/ (enforcer.pc = "mark" /\ UpdateState(enforcer.cur, "terminated"))
    /\ enforcer' = [enforcer EXCEPT !.pc = "aborted"]
    /\ UNCHANGED <<nomad, dispatcher, streamer, idle, reaper, result, reconciler,
                   restarts>>

-----------------------------------------------------------------------------
(* OrphanReconciler.Reconcile, once at startup.                            *)

ListAllocations ==
    /\ reconciler.pc = "start"
    /\ reconciler' = [pc |-> "active", todo |-> {a \in Allocs : Live(a)}]
    /\ UNCHANGED <<row, nomad, dispatcher, streamer, idle, reaper, enforcer, result,
                   faults, restarts>>

\* ListActive: an allocation some active row records is known.
ListActive ==
    /\ reconciler.pc = "active"
    /\ LET known == {row[d].alloc : d \in {e \in Deployments : Active(e)}}
       IN  reconciler' = [pc |-> "stop", todo |-> reconciler.todo \ known]
    /\ UNCHANGED <<row, nomad, dispatcher, streamer, idle, reaper, enforcer, result,
                   faults, restarts>>

StopOrphan(a) ==
    /\ reconciler.pc = "stop"
    /\ a \in reconciler.todo
    /\ \/ StopAllocation(a) /\ UNCHANGED faults
       \/ Fault /\ (StopAllocation(a) \/ UNCHANGED alloc)
    /\ reconciler' = [reconciler EXCEPT !.todo = @ \ {a}]
    /\ UNCHANGED <<row, job, events, failures, dispatcher, streamer, idle, reaper, enforcer,
                   result, restarts>>

\* Reconcile ends, or one of its two listings fails.
Reconciled ==
    /\ \/ reconciler.pc = "stop" /\ reconciler.todo = {} /\ UNCHANGED faults
       \/ reconciler.pc \in {"start", "active"} /\ Fault
    /\ reconciler' = NotReconciling
    /\ UNCHANGED <<row, nomad, dispatcher, streamer, idle, reaper, enforcer, result, restarts>>

-----------------------------------------------------------------------------
\* The gateway dies and is started again.  Calls in progress are gone, and so
\* are the events of the meantime: the new stream starts "from now".
Crash ==
    /\ restarts < MaxRestarts
    /\ restarts' = restarts + 1
    /\ events' = <<>>
    /\ handler' = [d \in Deployments |->
                     IF handler[d] \in {"info", "register", "fallback"} THEN "rejected" ELSE handler[d]]
    /\ degraded' = FALSE
    /\ streamer' = Receiving
    /\ reaper' = NotReaping
    /\ enforcer' = IF enforcer.pc \in {"idle", "done"} THEN enforcer
                   ELSE [enforcer EXCEPT !.pc = "aborted"]
    /\ reconciler' = IF "reconciler" \in Actors THEN [pc |-> "start", todo |-> {}]
                     ELSE NotReconciling
    /\ UNCHANGED <<row, job, alloc, failures, retryQueue, idle, result, faults>>

-----------------------------------------------------------------------------
Nomad == \E a \in Allocs :
    \/ \E d \in Deployments : Place(d, a)
    \/ Start(a) \/ FailAlloc(a) \/ Complete(a)

Dispatch == \E d \in Deployments :
    \/ Create(d) \/ JobMissing(d)
    \/ Register(d) \/ RegisterFault(d) \/ QueueForRetry(d) \/ QueueFault(d)

Stream == Receive \/ BatchFails \/ StreamCloses \/ ReadState \/ WriteState \/ StreamerFault

Reap ==
    \/ \E a \in Allocs : Touch(a) \/ Forget(a) \/ GoIdle(a)
    \/ \E t \in reaper.todo : ReapCheck(t)
    \/ ReapList \/ ReapStop \/ ReapWrite \/ ReapFault \/ ReapDone

Suspend ==
    \/ SuspendAccount \/ ListLiveByUser \/ Terminate \/ Suspended \/ SuspendFault
    \/ \E d \in Deployments : StopJob(d)

Reconcile ==
    \/ ListAllocations \/ ListActive \/ Reconciled
    \/ \E a \in Allocs : StopOrphan(a)

Next == Nomad \/ Dispatch \/ Stream \/ Reap \/ Suspend \/ Reconcile \/ Crash

Spec == Init /\ [][Next]_vars

-----------------------------------------------------------------------------
(* Properties                                                              *)

TypeOK ==
    /\ row \in [Deployments -> Row]
    /\ job \in [Deployments -> BOOLEAN]
    /\ alloc \in [Allocs -> Alloc]
    /\ events \in Seq(Event)
    /\ handler \in [Deployments -> HandlerStates]
    /\ retryQueue \subseteq Deployments
    /\ degraded \in BOOLEAN
    /\ streamer \in Streamer
    /\ idle \in [Allocs -> {"none", "fresh", "idle"}]
    /\ reaper \in Reaper
    /\ enforcer \in Enforcer
    /\ result \in Result
    /\ reconciler \in Reconciler
    /\ failures \in Nat /\ faults \in Nat /\ restarts \in Nat

\* StateTerminated and StateFailed are terminal: no step leaves them.
TerminalIsFinal ==
    [][\A d \in Deployments : row[d].state \in {"terminated", "failed"} =>
         row'[d].state = row[d].state]_vars

\* However the streamer, the reaper and the enforcer interleave, a deployment
\* that was ready, draining or failed never goes back to provisioning.
NoReprovision ==
    [][\A d \in Deployments : row[d].state \in {"ready", "draining", "failed"} =>
         row'[d].state # "provisioning"]_vars

\* Every deployment that was live when the enforcer listed the account's is
\* stopped: its job is gone for good and nobody brings it back, or the operator
\* finds it in StopJobErrors, or its own create request was still under way.  One
\* stop that fails costs none of the others theirs, and a suspension that is
\* aborted did so much for those it came to.
LiveIsStopped ==
    LET reached == result.live \ (IF enforcer.pc = "done" THEN {} ELSE enforcer.todo)
    IN  \A d \in reached \ (result.StopJobErrors \cup result.racing) : ~job[d]

\* Suspension "stops every live workload belonging to the offending principal":
\* no allocation runs, at the time of the listing, under a deployment that is
\* not listed.
ListsEveryWorkload ==
    [][enforcer.pc = "list" /\ enforcer'.pc = "stop" =>
         \A a \in Allocs : alloc[a].status = "running" => alloc[a].job \in enforcer'.todo]_vars

\* Once the streamer has handled every event, the row of a running allocation
\* names that allocation and is past provisioning, whatever failed and was
\* replaced before it and whichever writers came in between; not so when a call
\* failed, the stream ended or the gateway was restarted, for nothing in the code
\* looks again (statusstream.go, handleEvent).
RecordFollows ==
    streamer = Receiving /\ events = <<>> /\ faults = 0 /\ restarts = 0 =>
        \A a \in Allocs : alloc[a].status = "running" =>
            LET r == row[alloc[a].job] IN
                r.alloc = a /\ r.state \notin {"queued", "provisioning"}

=============================================================================
