------------------------------ MODULE JobQueue ------------------------------
(***************************************************************************)
(* The Redis-backed durable job queue (internal/queue: queue.go, ops.go)   *)
(* and the worker pool that consumes it (workerpool.go).                   *)
(*                                                                         *)
(* A Lua script is one atomic step; a Go function that makes several       *)
(* Redis calls is one step per call, so everything the other actors do     *)
(* between two calls is explored.  Time is abstracted to what the code     *)
(* compares: a visibility deadline is either still ahead ("held") or past  *)
(* ("expired").                                                            *)
(*                                                                         *)
(* The Redis client sends a command again when its reply does not come     *)
(* (redisclient.NewClient, MaxRetries): such a command has run, and the call     *)
(* that made it is still where it was.                                     *)
(***************************************************************************)
EXTENDS Naturals, Sequences, FiniteSets

CONSTANTS
    Jobs,        \* job ids, each enqueued by one caller
    Workers,     \* goroutines of the pool
    Reapers,     \* concurrent callers of Queue.Reap (one per gateway replica)
    NoJob,       \* a worker that holds nothing
    MaxAttempts, \* Options.MaxAttempts
    MaxFaults,   \* bound: Redis replies that are lost and calls that return an error
    MaxRestarts, \* bound: crashes and shutdowns of the gateway process
    MaxReaps     \* bound: calls of Reap

ASSUME QueueAssumption ==
    /\ NoJob \notin Jobs
    /\ MaxAttempts \in Nat \ {0}
    /\ MaxFaults \in Nat
    /\ MaxRestarts \in Nat
    /\ MaxReaps \in Nat

VARIABLES
    pending,     \* queue:<name>:pending, oldest first (LPUSH appends, RPOP takes the head)
    processing,  \* queue:<name>:processing; LREM 0 removes every copy, so a set
    visibility,  \* queue:<name>:visibility, job -> "none" | "held" | "expired"
    deadLetter,  \* queue:<name>:deadletter
    hash,        \* queue:<name>:job:<id>
    caller,      \* where each job's Enqueue call is
    worker,      \* where each worker goroutine is, and the Job it was handed
    reaper,      \* ids a Reap call has read and not yet Nacked
    serving,     \* the pool's ctx is not done
    faults,      \* lost replies and Redis errors so far
    restarts,    \* crashes and shutdowns so far
    reaps,       \* calls of Reap that found something so far
    acked,       \* history: jobs whose ack script ran
    astray       \* history: jobs that a repeated or a late step may have put in two places

redis == <<pending, processing, visibility, deadLetter, hash>>
process == <<caller, worker, reaper, serving>>
bounds == <<faults, restarts, reaps>>
history == <<acked, astray>>
vars == <<redis, process, bounds, history>>

Visibilities == {"none", "held", "expired"}
CallerStates == {"new", "stored", "queued", "failed"}
WorkerStates == {"poll", "handle", "ack", "nack", "stopped"}

\* The job hash: its payload field, whether its attempts field exists, its value.
Hash == [payload : BOOLEAN, counted : BOOLEAN, attempts : Nat]
NoHash == [payload |-> FALSE, counted |-> FALSE, attempts |-> 0]
NewHash == [payload |-> TRUE, counted |-> TRUE, attempts |-> 0]

\* A worker, the job it holds and whether the payload it was handed is the
\* one that was enqueued (a missing field reaches the handler as "").
Worker == [pc : WorkerStates, job : Jobs \cup {NoJob}, payload : BOOLEAN]
At(pc) == [pc |-> pc, job |-> NoJob, payload |-> FALSE]

Elements(s) == {s[i] : i \in DOMAIN s}

Init ==
    /\ pending = <<>>
    /\ processing = {}
    /\ visibility = [j \in Jobs |-> "none"]
    /\ deadLetter = <<>>
    /\ hash = [j \in Jobs |-> NoHash]
    /\ caller = [j \in Jobs |-> "new"]
    /\ worker = [w \in Workers |-> At("poll")]
    /\ reaper = [r \in Reapers |-> {}]
    /\ serving = TRUE
    /\ faults = 0
    /\ restarts = 0
    /\ reaps = 0
    /\ acked = {}
    /\ astray = {}

-----------------------------------------------------------------------------
(* The Redis calls.  Each says what it does to the five Redis keys.        *)

\* HSET jobKey payload .. attempts 0
StoreHash(j) ==
    /\ hash' = [hash EXCEPT ![j] = NewHash]
    /\ UNCHANGED <<pending, processing, visibility, deadLetter>>

\* LPUSH pending id
PushPending(j) ==
    /\ pending' = Append(pending, j)
    /\ UNCHANGED <<processing, visibility, deadLetter, hash>>

\* dequeueScript: RPOPLPUSH pending processing, ZADD visibility deadline.
DequeueScript(j) ==
    /\ pending # <<>>
    /\ j = Head(pending)
    /\ pending' = Tail(pending)
    /\ processing' = processing \cup {j}
    /\ visibility' = [visibility EXCEPT ![j] = "held"]
    /\ UNCHANGED <<deadLetter, hash>>

\* ackScript: LREM processing, ZREM visibility, DEL the job hash.
AckScript(j) ==
    /\ processing' = processing \ {j}
    /\ visibility' = [visibility EXCEPT ![j] = "none"]
    /\ hash' = [hash EXCEPT ![j] = NoHash]
    /\ UNCHANGED <<pending, deadLetter>>

\* Mutants of nackScript: what becomes of the job (settled, given the new
\* count) is wrong.
NackWith(j, record, settled) ==
    /\ processing' = processing \ {j}
    /\ visibility' = [visibility EXCEPT ![j] = "none"]
    /\ hash' = [hash EXCEPT ![j] = record]
    /\ settled

\* The budget is compared with > instead of >=.
NackScriptOneMore(j) ==
    NackWith(j, [hash[j] EXCEPT !.counted = TRUE, !.attempts = @ + 1],
        IF hash[j].attempts + 1 > MaxAttempts
        THEN deadLetter' = Append(deadLetter, j) /\ UNCHANGED pending
        ELSE pending' = Append(pending, j) /\ UNCHANGED deadLetter)

\* A job out of budget is dropped instead of dead-lettered.
NackScriptDrops(j) ==
    NackWith(j, [hash[j] EXCEPT !.counted = TRUE, !.attempts = @ + 1],
        /\ pending' = IF hash[j].attempts + 1 >= MaxAttempts THEN pending ELSE Append(pending, j)
        /\ UNCHANGED deadLetter)

\* The job is pushed without being removed from processing.
NackScriptKeeps(j) ==
    LET attempts == hash[j].attempts + 1
    IN  /\ hash' = [hash EXCEPT ![j].counted = TRUE, ![j].attempts = attempts]
        /\ IF attempts >= MaxAttempts
           THEN deadLetter' = Append(deadLetter, j) /\ UNCHANGED pending
           ELSE pending' = Append(pending, j) /\ UNCHANGED deadLetter
        /\ UNCHANGED <<processing, visibility>>

\* nackScript: HINCRBY creates the hash (without a payload) when Ack deleted it.
NackScript(j) ==
    LET attempts == hash[j].attempts + 1
    IN  /\ processing' = processing \ {j}
        /\ visibility' = [visibility EXCEPT ![j] = "none"]
        /\ hash' = [hash EXCEPT ![j] =
                       [payload |-> hash[j].payload, counted |-> TRUE, attempts |-> attempts]]
        /\ IF attempts >= MaxAttempts
           THEN deadLetter' = Append(deadLetter, j) /\ UNCHANGED pending
           ELSE pending' = Append(pending, j) /\ UNCHANGED deadLetter

-----------------------------------------------------------------------------
(* Enqueue: two round trips, HSET then LPUSH.                              *)

Store(j) ==
    /\ caller[j] = "new"
    /\ StoreHash(j)
    /\ caller' = [caller EXCEPT ![j] = "stored"]
    /\ UNCHANGED <<worker, reaper, serving, bounds, history>>

Push(j) ==
    /\ caller[j] = "stored"
    /\ PushPending(j)
    /\ caller' = [caller EXCEPT ![j] = "queued"]
    /\ UNCHANGED <<worker, reaper, serving, bounds, history>>

\* Either call returns an error: Enqueue gives up, whether or not Redis ran it.
EnqueueFault(j) ==
    /\ caller[j] \in {"new", "stored"}
    /\ faults < MaxFaults
    /\ \/ caller[j] = "new" /\ StoreHash(j)
       \/ caller[j] = "stored" /\ PushPending(j)
       \/ UNCHANGED redis
    /\ caller' = [caller EXCEPT ![j] = "failed"]
    /\ faults' = faults + 1
    /\ UNCHANGED <<worker, reaper, serving, restarts, reaps, history>>

\* The reply is lost and the client sends the command again: HSET twice is
\* HSET once, but each LPUSH leaves a copy.
EnqueueResend(j) ==
    /\ faults < MaxFaults
    /\ \/ caller[j] = "new" /\ StoreHash(j) /\ UNCHANGED astray
       \/ caller[j] = "stored" /\ PushPending(j) /\ astray' = astray \cup {j}
    /\ faults' = faults + 1
    /\ UNCHANGED <<process, restarts, reaps, acked>>

-----------------------------------------------------------------------------
(* workerLoop: Dequeue, run the handler, Ack or Nack.                      *)

\* tryDequeue hands out the job.
Dequeue(w, j) ==
    /\ serving
    /\ worker[w].pc = "poll"
    /\ DequeueScript(j)
    /\ hash[j].counted
    /\ worker' = [worker EXCEPT ![w] =
                    [pc |-> "handle", job |-> j, payload |-> hash[j].payload]]
    /\ UNCHANGED <<caller, reaper, serving, bounds, history>>

\* The script ran but the attempts field is gone: strconv.Atoi fails,
\* Dequeue returns the error and workerLoop returns for good.
DequeueUnparsable(w, j) ==
    /\ serving
    /\ worker[w].pc = "poll"
    /\ DequeueScript(j)
    /\ ~hash[j].counted
    /\ worker' = [worker EXCEPT ![w] = At("stopped")]
    /\ UNCHANGED <<caller, reaper, serving, bounds, history>>

\* Redis returns an error: workerLoop logs it and returns for good.
DequeueFault(w) ==
    /\ serving
    /\ worker[w].pc = "poll"
    /\ faults < MaxFaults
    /\ UNCHANGED redis \/ \E j \in Jobs : DequeueScript(j)
    /\ worker' = [worker EXCEPT ![w] = At("stopped")]
    /\ faults' = faults + 1
    /\ UNCHANGED <<caller, reaper, serving, restarts, reaps, history>>

\* The reply is lost and the client runs the script again: the first job it
\* took stays in processing with nobody working on it.
DequeueResend(w) ==
    /\ serving
    /\ worker[w].pc = "poll"
    /\ faults < MaxFaults
    /\ \E j \in Jobs : DequeueScript(j)
    /\ faults' = faults + 1
    /\ UNCHANGED <<process, restarts, reaps, history>>

\* ctx is done: Dequeue returns ErrEmpty and the worker exits; a call that the
\* cancellation cuts short may have run.
StopPolling(w) ==
    /\ ~serving
    /\ worker[w].pc = "poll"
    /\ UNCHANGED redis \/ \E j \in Jobs : DequeueScript(j)
    /\ worker' = [worker EXCEPT ![w] = At("stopped")]
    /\ UNCHANGED <<caller, reaper, serving, bounds, history>>

\* The handler returns, with or without an error.
HandlerReturns(w) ==
    /\ worker[w].pc = "handle"
    /\ \E settle \in {"ack", "nack"} :
         worker' = [worker EXCEPT ![w].pc = settle]
    /\ UNCHANGED <<redis, caller, reaper, serving, bounds, history>>

Ack(w) ==
    /\ worker[w].pc = "ack"
    /\ AckScript(worker[w].job)
    /\ acked' = acked \cup {worker[w].job}
    /\ worker' = [worker EXCEPT ![w] = At("poll")]
    /\ UNCHANGED <<caller, reaper, serving, bounds, astray>>

Nack(w) ==
    /\ worker[w].pc = "nack"
    /\ NackScript(worker[w].job)
    /\ worker' = [worker EXCEPT ![w] = At("poll")]
    /\ UNCHANGED <<caller, reaper, serving, bounds, history>>

\* Ack or Nack returns an error, whether or not Redis ran it: process logs
\* it and the worker polls again.
SettleFault(w) ==
    /\ faults < MaxFaults
    /\ \/ /\ worker[w].pc = "ack"
          /\ AckScript(worker[w].job)
          /\ acked' = acked \cup {worker[w].job}
       \/ /\ worker[w].pc = "nack"
          /\ NackScript(worker[w].job)
          /\ UNCHANGED acked
       \/ /\ worker[w].pc \in {"ack", "nack"}
          /\ UNCHANGED <<redis, acked>>
    /\ worker' = [worker EXCEPT ![w] = At("poll")]
    /\ faults' = faults + 1
    /\ UNCHANGED <<caller, reaper, serving, restarts, reaps, astray>>

\* The reply is lost and the client runs the script again: acking twice is
\* acking once, but nackScript does not look at what its LREM removed, so each
\* run counts an attempt and pushes a copy.
SettleResend(w) ==
    /\ faults < MaxFaults
    /\ \/ /\ worker[w].pc = "ack"
          /\ AckScript(worker[w].job)
          /\ acked' = acked \cup {worker[w].job}
          /\ UNCHANGED astray
       \/ /\ worker[w].pc = "nack"
          /\ NackScript(worker[w].job)
          /\ astray' = astray \cup {worker[w].job}
          /\ UNCHANGED acked
    /\ faults' = faults + 1
    /\ UNCHANGED <<process, restarts, reaps>>

-----------------------------------------------------------------------------
(* Reap: ZRANGEBYSCORE, then one Nack per id it returned.                  *)

Held(j) == \E w \in Workers : worker[w].job = j

\* One Reap call reads these ids.  Those a worker still holds, or another Reap
\* has read and not yet nacked, are now about to be in two places.
Scan(r, ids) ==
    /\ reaper[r] = {}
    /\ ids # {}
    /\ reaps < MaxReaps
    /\ reaps' = reaps + 1
    /\ reaper' = [reaper EXCEPT ![r] = ids]
    /\ astray' = astray \cup {j \in ids : Held(j) \/ \E q \in Reapers : j \in reaper[q]}
    /\ UNCHANGED <<redis, caller, worker, serving, faults, restarts, acked>>

ReapScan(r) == Scan(r, {j \in Jobs : visibility[j] = "expired"})

ReapNack(r, j) ==
    /\ j \in reaper[r]
    /\ NackScript(j)
    /\ reaper' = [reaper EXCEPT ![r] = @ \ {j}]
    /\ UNCHANGED <<caller, worker, serving, bounds, history>>

\* One Nack fails: Reap returns and the other ids wait for the next call.
ReapFault(r, j) ==
    /\ j \in reaper[r]
    /\ faults < MaxFaults
    /\ UNCHANGED redis \/ NackScript(j)
    /\ reaper' = [reaper EXCEPT ![r] = {}]
    /\ faults' = faults + 1
    /\ UNCHANGED <<caller, worker, serving, restarts, reaps, history>>

\* The reply to one Nack is lost and the client runs the script again.
ReapResend(r, j) ==
    /\ j \in reaper[r]
    /\ faults < MaxFaults
    /\ NackScript(j)
    /\ astray' = astray \cup {j}
    /\ faults' = faults + 1
    /\ UNCHANGED <<process, restarts, reaps, acked>>

-----------------------------------------------------------------------------
(* The environment: clock, shutdown, crash.                                *)

\* A visibility deadline passes, whether or not a worker still has the job.
Expire(j) ==
    /\ visibility[j] = "held"
    /\ visibility' = [visibility EXCEPT ![j] = "expired"]
    /\ UNCHANGED <<pending, processing, deadLetter, hash, process, bounds, history>>

\* SIGTERM: ctx is cancelled; jobs in hand still run to completion.
Shutdown ==
    /\ serving
    /\ restarts < MaxRestarts
    /\ serving' = FALSE
    /\ restarts' = restarts + 1
    /\ UNCHANGED <<redis, caller, worker, reaper, faults, reaps, history>>

\* The call has sent a command to Redis and has not returned.
InEnqueue(j) == caller[j] = "stored" \/ (caller[j] = "new" /\ hash[j] # NoHash)

\* What a new process finds: Redis as it was, no call in progress.
FreshProcess ==
    /\ caller' = [j \in Jobs |-> IF InEnqueue(j) THEN "failed" ELSE caller[j]]
    /\ worker' = [w \in Workers |-> At("poll")]
    /\ reaper' = [r \in Reapers |-> {}]
    /\ serving' = TRUE
    /\ UNCHANGED <<redis, faults, reaps, history>>

\* The process dies at any point and is started again.
Crash ==
    /\ restarts < MaxRestarts
    /\ restarts' = restarts + 1
    /\ FreshProcess

\* App.Run returns without waiting for the pool; the process is started again.
ExitAndRestart ==
    /\ ~serving
    /\ FreshProcess
    /\ UNCHANGED restarts

-----------------------------------------------------------------------------
Next ==
    \/ \E j \in Jobs : Store(j) \/ Push(j) \/ EnqueueFault(j) \/ EnqueueResend(j) \/ Expire(j)
    \/ \E w \in Workers :
         \/ \E j \in Jobs : Dequeue(w, j) \/ DequeueUnparsable(w, j)
         \/ DequeueFault(w) \/ DequeueResend(w) \/ StopPolling(w) \/ HandlerReturns(w)
         \/ Ack(w) \/ Nack(w) \/ SettleFault(w) \/ SettleResend(w)
    \/ \E r \in Reapers :
         \/ ReapScan(r)
         \/ \E j \in Jobs : ReapNack(r, j) \/ ReapFault(r, j) \/ ReapResend(r, j)
    \/ Shutdown \/ Crash \/ ExitAndRestart

Spec == Init /\ [][Next]_vars

\* Goroutines that can run do run: handlers return, workers settle and poll
\* again, and a process that was shut down is started again.  Nothing in the
\* program calls Reap, so nothing is assumed of it.
Fairness ==
    /\ \A w \in Workers :
         /\ WF_vars(HandlerReturns(w))
         /\ WF_vars(Ack(w) \/ Nack(w))
    /\ WF_vars(\E w \in Workers, j \in Jobs : Dequeue(w, j) \/ DequeueUnparsable(w, j))
    /\ WF_vars(ExitAndRestart)

FairSpec == Spec /\ Fairness

-----------------------------------------------------------------------------
(* Properties                                                              *)

TypeOK ==
    /\ pending \in Seq(Jobs)
    /\ processing \subseteq Jobs
    /\ visibility \in [Jobs -> Visibilities]
    /\ deadLetter \in Seq(Jobs)
    /\ hash \in [Jobs -> Hash]
    /\ caller \in [Jobs -> CallerStates]
    /\ worker \in [Workers -> Worker]
    /\ reaper \in [Reapers -> SUBSET Jobs]
    /\ serving \in BOOLEAN
    /\ faults \in Nat
    /\ restarts \in Nat
    /\ reaps \in Nat
    /\ acked \subseteq Jobs
    /\ astray \subseteq Jobs

\* Every job whose Enqueue succeeded and that was not acked is on one of the
\* three lists: no crash, lost reply or reap between the scripts drops it.
NoJobLost ==
    \A j \in Jobs : caller[j] = "queued" /\ j \notin acked =>
        j \in Elements(pending) \cup processing \cup Elements(deadLetter)

\* A job in processing always has a visibility deadline and nothing else has
\* one: without the deadline no Reap would ever find it again.
DeadlineForProcessing ==
    \A j \in Jobs : j \in processing <=> visibility[j] # "none"

\* What the two properties above need to be preserved by every step, whatever
\* the deadlines: a worker that settles a job has one.
HandsFull ==
    \A w \in Workers : worker[w].pc \in {"handle", "ack", "nack"} => worker[w].job \in Jobs

\* The inductive invariant of every regime: no job that was enqueued is lost
\* and every job being processed can be reaped, however late, crashed or
\* unlucky the workers are.
QueueInv ==
    /\ TypeOK
    /\ HandsFull
    /\ DeadlineForProcessing
    /\ NoJobLost

\* A dequeued job is invisible to other consumers: no two workers hold it, it
\* is in processing unless its ack already ran, and neither Reap, Ack, Nack, a
\* crash nor a lost reply leaves a second copy on a list that would be worked
\* on again (ops.go, Dequeue: "stays invisible to other consumers until Ack or
\* Nack, or until its visibility timeout expires and Reap makes it available
\* again").  Not so for a job astray: one that Reap read while it was held or
\* read by another Reap, or whose LPUSH or nack the Redis client sent again.
\* What happens to such a job leaves every other job alone.
Once(s, j) == \A i, k \in DOMAIN s : s[i] = j /\ s[k] = j => i = k
Apart(j) ==
    /\ Once(pending, j) /\ Once(deadLetter, j)
    /\ j \in Elements(pending) => j \notin processing
    /\ j \in Elements(deadLetter) => j \notin Elements(pending) \cup processing
    /\ j \in acked => j \notin Elements(pending) \cup processing \cup Elements(deadLetter)
SoleHolder ==
    \A j \in Jobs \ astray :
        /\ \A v, w \in Workers : worker[v].job = j /\ worker[w].job = j => v = w
        /\ Held(j) => j \in processing \cup acked
        /\ Apart(j)

\* In processing, with nobody at work on it: the process exited with the job in
\* hand, or the reply that handed it out or settled it was lost.
Orphaned(j) == j \in processing /\ ~Held(j)

NoWorkers == serving /\ \A w \in Workers : worker[w].pc = "stopped"

\* Every job whose Enqueue succeeded is eventually acked or dead-lettered: also
\* after a crash, a shutdown and Redis errors elsewhere, however many handlers
\* fail.  The exceptions are a job that is orphaned, which waits for a Reap,
\* and a pool whose workers have all returned on a dequeue error.
EventuallySettled ==
    \A j \in Jobs :
        caller[j] = "queued" ~> j \in acked \cup Elements(deadLetter) \/ Orphaned(j) \/ NoWorkers

-----------------------------------------------------------------------------
(* The abstract queue this one implements.                                 *)

Status(j) ==
    IF j \in astray THEN "astray"
    ELSE IF j \in acked THEN "acked"
    ELSE IF j \in Elements(deadLetter) THEN "dead"
    ELSE IF j \in processing THEN "held"
    ELSE IF j \in Elements(pending) THEN "waiting"
    ELSE "unsent"

Attempts(j) == IF j \in astray THEN 0 ELSE hash[j].attempts

Abstract == INSTANCE ReliableDelivery WITH
    status <- [j \in Jobs |-> Status(j)],
    tries <- [j \in Jobs |-> Attempts(j)]

\* The lists, hashes and scripts implement the per-job promise of the package
\* comment: waiting, held, returned a bounded number of times, acked or dead;
\* and a job goes astray only while it is being sent or while it is held.
ImplementsReliableDelivery == Abstract!Spec

=============================================================================
