--------------------------- MODULE JobQueueProofs ---------------------------
(***************************************************************************)
(* Theorems about JobQueue that hold in every regime: any number of jobs,  *)
(* workers, reapers, lost replies, Redis errors and restarts, whatever     *)
(* deadlines pass while a worker still holds the job.                      *)
(***************************************************************************)
EXTENDS JobQueue, TLAPS

\* What LPUSH and RPOP do to the elements of a list.
LEMMA ElementsAppend ==
    ASSUME NEW s \in Seq(Jobs), NEW j \in Jobs
    PROVE  Append(s, j) \in Seq(Jobs) /\ Elements(Append(s, j)) = Elements(s) \cup {j}
<1>1. Append(s, j) \in Seq(Jobs)
  OBVIOUS
<1>2. ASSUME NEW x \in Elements(Append(s, j)) PROVE x \in Elements(s) \cup {j}
  BY <1>2 DEF Elements
<1>3. ASSUME NEW x \in Elements(s) PROVE x \in Elements(Append(s, j))
  BY <1>3 DEF Elements
<1>4. j \in Elements(Append(s, j))
  <2>1. Append(s, j)[Len(s) + 1] = j /\ Len(s) + 1 \in DOMAIN Append(s, j)
    OBVIOUS
  <2> QED
    BY <2>1 DEF Elements
<1> QED
  BY <1>1, <1>2, <1>3, <1>4

\* Popping the head of a list takes away that element only.
LEMMA ElementsTail ==
    ASSUME NEW s \in Seq(Jobs), s # <<>>
    PROVE  /\ Head(s) \in Jobs /\ Tail(s) \in Seq(Jobs)
           /\ Elements(s) = Elements(Tail(s)) \cup {Head(s)}
<1>1. Head(s) \in Jobs /\ Tail(s) \in Seq(Jobs)
  OBVIOUS
<1>2. ASSUME NEW x \in Elements(s) PROVE x \in Elements(Tail(s)) \cup {Head(s)}
  <2>1. PICK i \in DOMAIN s : x = s[i]
    BY DEF Elements
  <2>2. CASE i = 1
    BY <2>1, <2>2
  <2>3. CASE i # 1
    <3>1. i - 1 \in DOMAIN Tail(s) /\ Tail(s)[i - 1] = s[i]
      BY <2>1, <2>3
    <3> QED
      BY <2>1, <3>1 DEF Elements
  <2> QED
    BY <2>2, <2>3
<1>3. ASSUME NEW x \in Elements(Tail(s)) PROVE x \in Elements(s)
  <2>1. PICK i \in DOMAIN Tail(s) : x = Tail(s)[i]
    BY DEF Elements
  <2>2. i + 1 \in DOMAIN s /\ s[i + 1] = Tail(s)[i]
    BY <2>1
  <2> QED
    BY <2>1, <2>2 DEF Elements
<1>4. Head(s) \in Elements(s)
  <2>1. 1 \in DOMAIN s /\ s[1] = Head(s)
    OBVIOUS
  <2> QED
    BY <2>1 DEF Elements
<1> QED
  BY <1>1, <1>2, <1>3, <1>4

-----------------------------------------------------------------------------
\* The part of the types that is in Redis, and the jobs on the three lists.
RedisOK ==
    /\ pending \in Seq(Jobs)
    /\ processing \subseteq Jobs
    /\ visibility \in [Jobs -> Visibilities]
    /\ deadLetter \in Seq(Jobs)
    /\ hash \in [Jobs -> Hash]

Listed == Elements(pending) \cup processing \cup Elements(deadLetter)

\* Neither of Enqueue's two calls takes a job off a list; LPUSH adds it.
LEMMA StoreHashEffect ==
    ASSUME RedisOK, DeadlineForProcessing, NEW j \in Jobs, StoreHash(j)
    PROVE  RedisOK' /\ DeadlineForProcessing' /\ Listed' = Listed
  BY DEF RedisOK, DeadlineForProcessing, StoreHash, Listed, Hash, NewHash, Visibilities

\* LPUSH of a new job.
LEMMA PushPendingEffect ==
    ASSUME RedisOK, DeadlineForProcessing, NEW j \in Jobs, PushPending(j)
    PROVE  RedisOK' /\ DeadlineForProcessing' /\ Listed' = Listed \cup {j}
  BY ElementsAppend DEF RedisOK, DeadlineForProcessing, PushPending, Listed

\* The dequeue script only moves a job, and gives it a deadline.
LEMMA DequeueScriptEffect ==
    ASSUME RedisOK, DeadlineForProcessing, NEW j \in Jobs, DequeueScript(j)
    PROVE  RedisOK' /\ DeadlineForProcessing' /\ Listed' = Listed
<1>1. /\ pending' \in Seq(Jobs) /\ Elements(pending) = Elements(pending') \cup {j}
  BY ElementsTail DEF RedisOK, DequeueScript
<1>2. RedisOK'
  BY <1>1 DEF RedisOK, DequeueScript, Visibilities
<1>3. DeadlineForProcessing'
  BY DEF RedisOK, DequeueScript, DeadlineForProcessing
<1>4. Listed' = Listed
  BY <1>1 DEF DequeueScript, Listed
<1> QED
  BY <1>2, <1>3, <1>4

\* The ack script takes no other job off a list.
LEMMA AckScriptEffect ==
    ASSUME RedisOK, DeadlineForProcessing, NEW j \in Jobs, AckScript(j)
    PROVE  RedisOK' /\ DeadlineForProcessing' /\ Listed \subseteq Listed' \cup {j}
<1>1. RedisOK'
  BY DEF RedisOK, AckScript, Hash, NoHash, Visibilities
<1>2. DeadlineForProcessing'
  BY DEF RedisOK, AckScript, DeadlineForProcessing
<1>3. Listed \subseteq Listed' \cup {j}
  BY DEF AckScript, Listed
<1> QED
  BY <1>1, <1>2, <1>3

\* The nack script, stale or not, takes no job off the lists: it returns or
\* buries the one it removes from processing.
LEMMA NackScriptEffect ==
    ASSUME RedisOK, DeadlineForProcessing, NEW j \in Jobs, NackScript(j)
    PROVE  RedisOK' /\ DeadlineForProcessing' /\ Listed \subseteq Listed'
<1>1. hash' \in [Jobs -> Hash]
  <2>1. [payload |-> hash[j].payload, counted |-> TRUE, attempts |-> hash[j].attempts + 1] \in Hash
    BY DEF RedisOK, Hash
  <2> QED
    BY <2>1 DEF RedisOK, NackScript
<1>2. /\ processing' = processing \ {j}
      /\ visibility' = [visibility EXCEPT ![j] = "none"]
      /\ \/ deadLetter' = Append(deadLetter, j) /\ pending' = pending
         \/ pending' = Append(pending, j) /\ deadLetter' = deadLetter
  BY DEF NackScript
<1>3. RedisOK'
  BY <1>1, <1>2, ElementsAppend DEF RedisOK, Visibilities
<1>4. DeadlineForProcessing'
  BY <1>2 DEF RedisOK, DeadlineForProcessing
<1>5. Listed \subseteq Listed'
  <2>1. CASE deadLetter' = Append(deadLetter, j) /\ pending' = pending
    <3>1. Elements(deadLetter') = Elements(deadLetter) \cup {j} /\ Elements(pending') = Elements(pending)
      BY <2>1, ElementsAppend DEF RedisOK
    <3> QED
      BY <1>2, <3>1 DEF Listed
  <2>2. CASE pending' = Append(pending, j) /\ deadLetter' = deadLetter
    <3>1. Elements(pending') = Elements(pending) \cup {j} /\ Elements(deadLetter') = Elements(deadLetter)
      BY <2>2, ElementsAppend DEF RedisOK
    <3> QED
      BY <1>2, <3>1 DEF Listed
  <2> QED
    BY <1>2, <2>1, <2>2
<1> QED
  BY <1>3, <1>4, <1>5

-----------------------------------------------------------------------------
\* The types outside Redis.
LocalOK ==
    /\ caller \in [Jobs -> CallerStates]
    /\ worker \in [Workers -> Worker]
    /\ reaper \in [Reapers -> SUBSET Jobs]
    /\ serving \in BOOLEAN
    /\ faults \in Nat
    /\ restarts \in Nat
    /\ reaps \in Nat
    /\ acked \subseteq Jobs
    /\ astray \subseteq Jobs

\* A job that was enqueued and not acked stays listed when no list loses it
\* and no other job becomes enqueued.
LEMMA StaysListed ==
    ASSUME NoJobLost, Listed \subseteq Listed', acked \subseteq acked',
           \A j \in Jobs : caller'[j] = "queued" => caller[j] = "queued"
    PROVE  NoJobLost'
  BY DEF NoJobLost, Listed

\* The two halves make up the type invariant, before and after a step.
LEMMA TypeParts ==
    /\ TypeOK <=> RedisOK /\ LocalOK
    /\ TypeOK' <=> RedisOK' /\ LocalOK'
  BY DEF TypeOK, RedisOK, LocalOK

\* Enqueue's steps preserve the invariant.
LEMMA EnqueueStep ==
    ASSUME QueueInv, NEW j \in Jobs,
           Store(j) \/ Push(j) \/ EnqueueFault(j) \/ EnqueueResend(j)
    PROVE  QueueInv'
<1> USE DEF QueueInv
<1>0. RedisOK /\ LocalOK
  BY TypeParts
<1>1. CASE Store(j)
  <2>1. RedisOK' /\ DeadlineForProcessing' /\ Listed' = Listed
    BY <1>0, <1>1, StoreHashEffect DEF Store
  <2>2. LocalOK' /\ HandsFull'
    BY <1>0, <1>1 DEF Store, LocalOK, CallerStates, HandsFull, bounds, history
  <2>3. NoJobLost'
    BY <1>0, <1>1, <2>1, StaysListed DEF Store, LocalOK, history
  <2> QED
    BY <2>1, <2>2, <2>3, TypeParts
<1>2. CASE Push(j)
  <2>1. RedisOK' /\ DeadlineForProcessing' /\ Listed' = Listed \cup {j}
    BY <1>0, <1>2, PushPendingEffect DEF Push
  <2>2. LocalOK' /\ HandsFull'
    BY <1>0, <1>2 DEF Push, LocalOK, CallerStates, HandsFull, bounds, history
  <2>3. NoJobLost'
    BY <1>0, <1>2, <2>1 DEF Push, LocalOK, history, NoJobLost, Listed
  <2> QED
    BY <2>1, <2>2, <2>3, TypeParts
<1>3. CASE EnqueueFault(j)
  <2>1. RedisOK' /\ DeadlineForProcessing' /\ Listed \subseteq Listed'
    <3>1. CASE StoreHash(j)
      BY <1>0, <3>1, StoreHashEffect
    <3>2. CASE PushPending(j)
      BY <1>0, <3>2, PushPendingEffect
    <3>3. CASE UNCHANGED redis
      BY <1>0, <3>3 DEF redis, RedisOK, DeadlineForProcessing, Listed
    <3> QED
      BY <1>3, <3>1, <3>2, <3>3 DEF EnqueueFault
  <2>2. LocalOK' /\ HandsFull'
    BY <1>0, <1>3 DEF EnqueueFault, LocalOK, CallerStates, HandsFull, history
  <2>3. NoJobLost'
    BY <1>0, <1>3, <2>1, StaysListed DEF EnqueueFault, LocalOK, history
  <2> QED
    BY <2>1, <2>2, <2>3, TypeParts
<1>4. CASE EnqueueResend(j)
  <2>1. RedisOK' /\ DeadlineForProcessing' /\ Listed \subseteq Listed'
    <3>1. CASE StoreHash(j)
      BY <1>0, <3>1, StoreHashEffect
    <3>2. CASE PushPending(j)
      BY <1>0, <3>2, PushPendingEffect
    <3> QED
      BY <1>4, <3>1, <3>2 DEF EnqueueResend
  <2>2. LocalOK' /\ HandsFull'
    BY <1>0, <1>4 DEF EnqueueResend, LocalOK, HandsFull, process
  <2>3. NoJobLost'
    BY <1>0, <1>4, <2>1, StaysListed DEF EnqueueResend, LocalOK, process
  <2> QED
    BY <2>1, <2>2, <2>3, TypeParts
<1> QED
  BY <1>1, <1>2, <1>3, <1>4

\* The worker's steps preserve the invariant.
LEMMA PollStep ==
    ASSUME QueueInv, NEW w \in Workers,
           \/ \E j \in Jobs : Dequeue(w, j) \/ DequeueUnparsable(w, j)
           \/ DequeueFault(w) \/ DequeueResend(w) \/ StopPolling(w) \/ HandlerReturns(w)
    PROVE  QueueInv'
<1> USE DEF QueueInv
<1>0. RedisOK /\ LocalOK
  BY TypeParts
<1>1. RedisOK' /\ DeadlineForProcessing' /\ Listed' = Listed
  <2>1. ASSUME NEW j \in Jobs, DequeueScript(j)
        PROVE  RedisOK' /\ DeadlineForProcessing' /\ Listed' = Listed
    BY <1>0, <2>1, DequeueScriptEffect
  <2>2. CASE UNCHANGED redis
    BY <1>0, <2>2 DEF redis, RedisOK, DeadlineForProcessing, Listed
  <2> QED
    BY <2>1, <2>2 DEF Dequeue, DequeueUnparsable, DequeueFault, DequeueResend, StopPolling,
                      HandlerReturns
<1>2. UNCHANGED <<caller, acked>>
  BY DEF Dequeue, DequeueUnparsable, DequeueFault, DequeueResend, StopPolling, HandlerReturns,
         history, process
<1>3. NoJobLost'
  BY <1>1, <1>2, StaysListed
<1>4. LocalOK' /\ HandsFull'
  <2> USE <1>0 DEF LocalOK, HandsFull, Worker, WorkerStates, At, bounds, history
  <2>1. ASSUME NEW j \in Jobs, Dequeue(w, j) PROVE LocalOK' /\ HandsFull'
    <3>1. [pc |-> "handle", job |-> j, payload |-> hash[j].payload] \in Worker
      BY DEF RedisOK, Hash
    <3> QED
      BY <2>1, <3>1 DEF Dequeue
  <2>2. CASE \E j \in Jobs : DequeueUnparsable(w, j)
    BY <2>2 DEF DequeueUnparsable
  <2>3. CASE DequeueFault(w)
    BY <2>3 DEF DequeueFault
  <2>4. CASE StopPolling(w)
    BY <2>4 DEF StopPolling
  <2>5. CASE HandlerReturns(w)
    BY <2>5 DEF HandlerReturns
  <2>6. CASE DequeueResend(w)
    BY <2>6 DEF DequeueResend, process
  <2> QED
    BY <2>1, <2>2, <2>3, <2>4, <2>5, <2>6
<1> QED
  BY <1>1, <1>3, <1>4, TypeParts

\* Ack and Nack, their reply lost or not, preserve the invariant.
LEMMA SettleStep ==
    ASSUME QueueInv, NEW w \in Workers, Ack(w) \/ Nack(w) \/ SettleFault(w) \/ SettleResend(w)
    PROVE  QueueInv'
<1> USE DEF QueueInv
<1>0. RedisOK /\ LocalOK /\ worker[w].job \in Jobs
  BY TypeParts DEF HandsFull, Ack, Nack, SettleFault, SettleResend
<1> DEFINE j == worker[w].job
<1>1. \/ AckScript(j) /\ acked' = acked \cup {j}
      \/ NackScript(j) /\ acked' = acked
      \/ UNCHANGED redis /\ acked' = acked
  BY DEF Ack, Nack, SettleFault, SettleResend, history
<1>2. /\ worker' \in {worker, [worker EXCEPT ![w] = At("poll")]}
      /\ UNCHANGED <<caller, reaper, serving, restarts, reaps>>
      /\ astray' \in {astray, astray \cup {j}}
      /\ faults' \in {faults, faults + 1}
  BY DEF Ack, Nack, SettleFault, SettleResend, history, bounds, process
<1>3. RedisOK' /\ DeadlineForProcessing' /\ Listed \subseteq Listed' \cup (acked' \ acked) \cup acked
  <2>1. CASE AckScript(j) /\ acked' = acked \cup {j}
    BY <1>0, <2>1, AckScriptEffect
  <2>2. CASE NackScript(j) /\ acked' = acked
    BY <1>0, <2>2, NackScriptEffect
  <2>3. CASE UNCHANGED redis /\ acked' = acked
    BY <1>0, <2>3 DEF redis, RedisOK, DeadlineForProcessing, Listed
  <2> QED
    BY <1>1, <2>1, <2>2, <2>3
<1>4. NoJobLost'
  BY <1>1, <1>2, <1>3 DEF NoJobLost, Listed
<1>5. At("poll") \in Worker
  BY DEF At, Worker, WorkerStates
<1>6. LocalOK'
  BY <1>0, <1>1, <1>2, <1>5 DEF LocalOK
<1>7. HandsFull'
  BY <1>0, <1>2 DEF HandsFull, LocalOK, At
<1> QED
  BY <1>3, <1>4, <1>6, <1>7, TypeParts

\* Reap's steps preserve the invariant, even those on ids it read long ago.
LEMMA ReapStep ==
    ASSUME QueueInv, NEW r \in Reapers,
           ReapScan(r) \/ \E j \in Jobs : ReapNack(r, j) \/ ReapFault(r, j) \/ ReapResend(r, j)
    PROVE  QueueInv'
<1> USE DEF QueueInv
<1>0. RedisOK /\ LocalOK
  BY TypeParts
<1>1. RedisOK' /\ DeadlineForProcessing' /\ Listed \subseteq Listed'
  <2>1. ASSUME NEW j \in Jobs, NackScript(j)
        PROVE  RedisOK' /\ DeadlineForProcessing' /\ Listed \subseteq Listed'
    BY <1>0, <2>1, NackScriptEffect
  <2>2. CASE UNCHANGED redis
    BY <1>0, <2>2 DEF redis, RedisOK, DeadlineForProcessing, Listed
  <2> QED
    BY <2>1, <2>2 DEF ReapScan, Scan, ReapNack, ReapFault, ReapResend
<1>2. UNCHANGED <<caller, worker, serving, acked>>
  BY DEF ReapScan, Scan, ReapNack, ReapFault, ReapResend, history, process
<1>4. NoJobLost'
  BY <1>1, <1>2, StaysListed
<1>3. LocalOK' /\ HandsFull'
  <2> USE <1>0 DEF LocalOK, HandsFull, bounds, history
  <2>1. CASE ReapScan(r)
    BY <2>1 DEF ReapScan, Scan
  <2>2. CASE \E j \in Jobs : ReapNack(r, j)
    BY <2>2 DEF ReapNack
  <2>3. CASE \E j \in Jobs : ReapFault(r, j)
    BY <2>3 DEF ReapFault
  <2>4. CASE \E j \in Jobs : ReapResend(r, j)
    BY <2>4 DEF ReapResend, process
  <2> QED
    BY <2>1, <2>2, <2>3, <2>4
<1> QED
  BY <1>1, <1>4, <1>3, TypeParts

\* Deadlines, shutdowns and crashes preserve the invariant.
LEMMA EnvironmentStep ==
    ASSUME QueueInv, (\E j \in Jobs : Expire(j)) \/ Shutdown \/ Crash \/ ExitAndRestart
    PROVE  QueueInv'
<1> USE DEF QueueInv
<1>0. RedisOK /\ LocalOK
  BY TypeParts
<1>1. ASSUME NEW j \in Jobs, Expire(j) PROVE QueueInv'
  <2>1. RedisOK' /\ Listed' = Listed
    BY <1>0, <1>1 DEF Expire, RedisOK, Listed, Visibilities
  <2>2. DeadlineForProcessing'
    BY <1>0, <1>1 DEF Expire, RedisOK, DeadlineForProcessing
  <2>3. LocalOK' /\ HandsFull'
    BY <1>0, <1>1 DEF Expire, LocalOK, HandsFull, process, bounds, history
  <2>4. NoJobLost'
    BY <1>1, <2>1, StaysListed DEF Expire, process, history
  <2> QED
    BY <2>1, <2>2, <2>3, <2>4, TypeParts
<1>2. CASE Shutdown
  <2>1. RedisOK' /\ DeadlineForProcessing' /\ Listed' = Listed
    BY <1>0, <1>2 DEF Shutdown, redis, RedisOK, DeadlineForProcessing, Listed
  <2>2. LocalOK' /\ HandsFull'
    <3>1. serving' \in BOOLEAN
      BY <1>2 DEF Shutdown
    <3>2. restarts' \in Nat
      BY <1>0, <1>2 DEF Shutdown, LocalOK
    <3>3. UNCHANGED <<caller, worker, reaper, faults, reaps, acked, astray>>
      BY <1>2 DEF Shutdown, history
    <3> QED
      BY <1>0, <3>1, <3>2, <3>3 DEF LocalOK, HandsFull
  <2>3. NoJobLost'
    BY <1>2, <2>1, StaysListed DEF Shutdown, history
  <2> QED
    BY <2>1, <2>2, <2>3, TypeParts
<1>3. CASE Crash \/ ExitAndRestart
  <2>1. FreshProcess /\ restarts' \in {restarts, restarts + 1}
    BY <1>3 DEF Crash, ExitAndRestart
  <2>2. RedisOK' /\ DeadlineForProcessing' /\ Listed' = Listed
    BY <1>0, <2>1 DEF FreshProcess, redis, RedisOK, DeadlineForProcessing, Listed
  <2>3. At("poll") \in Worker
    BY DEF At, Worker, WorkerStates
  <2>4. LocalOK' /\ HandsFull'
    BY <1>0, <2>1, <2>3 DEF FreshProcess, LocalOK, CallerStates, HandsFull, At, history
  <2>5. NoJobLost'
    BY <1>0, <2>1, <2>2, StaysListed DEF FreshProcess, LocalOK, history
  <2> QED
    BY <2>2, <2>4, <2>5, TypeParts
<1> QED
  BY <1>1, <1>2, <1>3

-----------------------------------------------------------------------------
\* Every step of every actor preserves the invariant, in every regime.
LEMMA QueueStep == QueueInv /\ [Next]_vars => QueueInv'
<1> SUFFICES ASSUME QueueInv, [Next]_vars PROVE QueueInv'
  OBVIOUS
<1>1. CASE UNCHANGED vars
  <2>1. TypeOK' /\ HandsFull'
    BY <1>1 DEF QueueInv, vars, redis, process, bounds, history, TypeOK, HandsFull
  <2>2. DeadlineForProcessing' /\ NoJobLost'
    BY <1>1 DEF QueueInv, vars, redis, process, bounds, history, DeadlineForProcessing, NoJobLost
  <2> QED
    BY <2>1, <2>2 DEF QueueInv
<1>2. CASE Next
  BY <1>2, EnqueueStep, PollStep, SettleStep, ReapStep, EnvironmentStep DEF Next
<1> QED
  BY <1>1, <1>2

\* An empty queue satisfies the invariant.
LEMMA InitQueue == Init => QueueInv
<1> SUFFICES ASSUME Init PROVE QueueInv
  OBVIOUS
<1>1. TypeOK
  BY DEF Init, TypeOK, Visibilities, Hash, NoHash, CallerStates, Worker, WorkerStates, At
<1>2. HandsFull /\ DeadlineForProcessing /\ NoJobLost
  BY DEF Init, HandsFull, DeadlineForProcessing, NoJobLost, At
<1> QED
  BY <1>1, <1>2 DEF QueueInv

\* The invariant holds of every behaviour of the queue.
THEOREM QueueInvariant == Spec => []QueueInv
  BY InitQueue, QueueStep, PTL DEF Spec

\* Every variable keeps its type.
THEOREM TypeCorrect == Spec => []TypeOK
<1>1. QueueInv => TypeOK
  BY DEF QueueInv
<1> QED
  BY <1>1, QueueInvariant, PTL

\* The package comment's promise that a job is not dropped: a job whose Enqueue
\* succeeded is acked or on one of the three lists, whatever crashes, expires,
\* is reaped twice or loses its reply.
THEOREM NothingLost == Spec => []NoJobLost
<1>1. QueueInv => NoJobLost
  BY DEF QueueInv
<1> QED
  BY <1>1, QueueInvariant, PTL

\* Reap can find every job that is being processed, and no other.
THEOREM EveryHeldJobHasDeadline == Spec => []DeadlineForProcessing
<1>1. QueueInv => DeadlineForProcessing
  BY DEF QueueInv
<1> QED
  BY <1>1, QueueInvariant, PTL

-----------------------------------------------------------------------------
(* One holder per job, for every job that has not gone astray.             *)

\* Whoever holds the job holds it alone, and has it in processing unless its
\* ack ran and the reply is still awaited.
HeldAlone(j) ==
    /\ \A v, w \in Workers : worker[v].job = j /\ worker[w].job = j => v = w
    /\ \A w \in Workers : worker[w].job = j =>
         j \in processing \/ (j \in acked /\ worker[w].pc = "ack")

\* What Reap has read and not yet returned is overdue, held by nobody, and read
\* by no other Reap.
Overdue(j) ==
    \A r \in Reapers : j \in reaper[r] =>
        /\ visibility[j] = "expired"
        /\ \A w \in Workers : worker[w].job # j
        /\ \A q \in Reapers : j \in reaper[q] => q = r

\* Before its LPUSH a job is nowhere and has no attempts.
NotSentYet(j) ==
    caller[j] \in {"new", "stored"} => j \notin Listed \cup acked /\ hash[j].attempts = 0

\* Acking deletes the hash, and nothing counts an attempt of the job again.
Cleared(j) == j \in acked => hash[j].attempts = 0

Good(j) == Apart(j) /\ HeldAlone(j) /\ Overdue(j) /\ NotSentYet(j) /\ Cleared(j)

\* A worker that polls or has stopped holds nothing.
IdleHoldsNone ==
    \A w \in Workers : worker[w].pc \in {"poll", "stopped"} => worker[w].job = NoJob

Exclusive == IdleHoldsNone /\ \A j \in Jobs \ astray : Good(j)

\* The inductive invariant behind SoleHolder and the refinement.
ExclusiveInv == QueueInv /\ Exclusive

\* Popping the head of a list leaves every other job as often as it was, and
\* takes away a job that was there once.
LEMMA OnceTail ==
    ASSUME NEW s \in Seq(Jobs), s # <<>>, NEW j, Once(s, j)
    PROVE  /\ Once(Tail(s), j)
           /\ j = Head(s) => j \notin Elements(Tail(s))
<1>1. \A i \in DOMAIN Tail(s) : i \in Nat /\ i + 1 \in DOMAIN s /\ i + 1 # 1 /\ Tail(s)[i] = s[i + 1]
  OBVIOUS
<1>2. 1 \in DOMAIN s /\ Head(s) = s[1]
  OBVIOUS
<1>3. Once(Tail(s), j)
  <2> SUFFICES ASSUME NEW i \in DOMAIN Tail(s), NEW k \in DOMAIN Tail(s),
                      Tail(s)[i] = j, Tail(s)[k] = j
               PROVE  i = k
    BY DEF Once
  <2>1. i + 1 = k + 1
    BY <1>1 DEF Once
  <2>2. i \in Nat /\ k \in Nat
    BY <1>1
  <2> QED
    BY <2>1, <2>2
<1>4. j = Head(s) => j \notin Elements(Tail(s))
  BY <1>1, <1>2 DEF Once, Elements
<1> QED
  BY <1>3, <1>4

\* Adding another job, or one that is not on the list, makes no second copy.
LEMMA OnceAppend ==
    ASSUME NEW s \in Seq(Jobs), NEW j \in Jobs, NEW k, Once(s, k), k # j \/ k \notin Elements(s)
    PROVE  Once(Append(s, j), k)
<1> SUFFICES ASSUME NEW m \in DOMAIN Append(s, j), NEW n \in DOMAIN Append(s, j),
                    Append(s, j)[m] = k, Append(s, j)[n] = k
             PROVE  m = n
  BY DEF Once
<1>1. \A i \in DOMAIN Append(s, j) :
        \/ i \in DOMAIN s /\ Append(s, j)[i] = s[i]
        \/ i = Len(s) + 1 /\ Append(s, j)[i] = j
  OBVIOUS
<1>2. k \notin Elements(s) => \A i \in DOMAIN s : s[i] # k
  BY DEF Elements
<1> QED
  BY <1>1, <1>2 DEF Once

-----------------------------------------------------------------------------
\* Redis holds of k what it held before.
Untouched(k) ==
    /\ k \in Elements(pending') <=> k \in Elements(pending)
    /\ k \in processing' <=> k \in processing
    /\ k \in Elements(deadLetter') <=> k \in Elements(deadLetter)
    /\ Once(pending, k) => Once(pending', k)
    /\ Once(deadLetter, k) => Once(deadLetter', k)
    /\ visibility'[k] = visibility[k]
    /\ hash'[k].attempts = hash[k].attempts

\* No script touches another job.
LEMMA Elsewhere ==
    ASSUME RedisOK, NEW j \in Jobs, NEW k \in Jobs \ {j},
           StoreHash(j) \/ PushPending(j) \/ DequeueScript(j) \/ AckScript(j) \/ NackScript(j)
    PROVE  Untouched(k)
<1>1. CASE StoreHash(j)
  BY <1>1 DEF StoreHash, Untouched, RedisOK
<1>2. CASE PushPending(j)
  BY <1>2, ElementsAppend, OnceAppend DEF PushPending, Untouched, RedisOK
<1>3. CASE DequeueScript(j)
  <2>1. /\ pending' = Tail(pending) /\ pending # <<>> /\ j = Head(pending)
        /\ UNCHANGED <<deadLetter, hash>> /\ visibility'[k] = visibility[k]
        /\ k \in processing' <=> k \in processing
    BY <1>3 DEF DequeueScript, RedisOK
  <2>2. k \in Elements(pending') <=> k \in Elements(pending)
    BY <2>1, ElementsTail DEF RedisOK
  <2>3. Once(pending, k) => Once(pending', k)
    BY <2>1, OnceTail DEF RedisOK
  <2> QED
    BY <2>1, <2>2, <2>3 DEF Untouched
<1>4. CASE AckScript(j)
  BY <1>4 DEF AckScript, Untouched, RedisOK
<1>5. CASE NackScript(j)
  <2>1. /\ visibility'[k] = visibility[k] /\ hash'[k] = hash[k]
        /\ k \in processing' <=> k \in processing
        /\ \/ deadLetter' = Append(deadLetter, j) /\ pending' = pending
           \/ pending' = Append(pending, j) /\ deadLetter' = deadLetter
    BY <1>5 DEF NackScript, RedisOK
  <2>2. CASE deadLetter' = Append(deadLetter, j) /\ pending' = pending
    BY <2>1, <2>2, ElementsAppend, OnceAppend DEF Untouched, RedisOK
  <2>3. CASE pending' = Append(pending, j) /\ deadLetter' = deadLetter
    BY <2>1, <2>3, ElementsAppend, OnceAppend DEF Untouched, RedisOK
  <2> QED
    BY <2>1, <2>2, <2>3
<1> QED
  BY <1>1, <1>2, <1>3, <1>4, <1>5

\* What a step on Redis alone leaves alone.
LEMMA IdleUntouched ==
    ASSUME UNCHANGED redis, NEW k
    PROVE  Untouched(k)
  BY DEF redis, Untouched

\* A job that Redis, the acks, the workers and the reapers leave alone stays good.
LEMMA GoodKept ==
    ASSUME NEW k \in Jobs, Good(k), Untouched(k), k \in acked' <=> k \in acked,
           \A w \in Workers : worker'[w].job = k =>
               worker[w].job = k /\ (worker'[w].pc = worker[w].pc \/ worker[w].pc # "ack"),
           \A r \in Reapers : k \in reaper'[r] => k \in reaper[r],
           caller'[k] \in {"new", "stored"} => caller[k] \in {"new", "stored"}
    PROVE  Good(k)'
<1>1. Apart(k)'
  BY DEF Good, Apart, Untouched
<1>2. HeldAlone(k)'
  BY DEF Good, HeldAlone, Untouched
<1>3. Overdue(k)'
  BY DEF Good, Overdue, Untouched
<1>4. NotSentYet(k)'
  BY DEF Good, NotSentYet, Untouched, Listed
<1>5. Cleared(k)'
  BY DEF Good, Cleared, Untouched
<1> QED
  BY <1>1, <1>2, <1>3, <1>4, <1>5 DEF Good

-----------------------------------------------------------------------------
\* What a step may do to the abstract state of one job.
Kept(j) == Status(j)' = Status(j) /\ Attempts(j)' = Attempts(j)

JobMove(j) ==
    \/ Kept(j)
    \/ Status(j) = "unsent" /\ Status(j)' = "waiting" /\ Attempts(j)' = Attempts(j)
    \/ Status(j) = "waiting" /\ Status(j)' = "held" /\ Attempts(j)' = Attempts(j)
    \/ Status(j) = "held" /\ Status(j)' = "acked" /\ Attempts(j)' = 0
    \/ /\ Status(j) = "held" /\ Attempts(j) + 1 < MaxAttempts
       /\ Status(j)' = "waiting" /\ Attempts(j)' = Attempts(j) + 1
    \/ /\ Status(j) = "held" /\ Attempts(j) + 1 >= MaxAttempts
       /\ Status(j)' = "dead" /\ Attempts(j)' = Attempts(j) + 1
    \/ Status(j) \in {"unsent", "held"} /\ Status(j)' = "astray" /\ Attempts(j)' = 0

\* And to all of them: one job moves, or several go astray at once.
QueueMove ==
    \/ \E j \in Jobs : JobMove(j) /\ \A k \in Jobs \ {j} : Kept(k)
    \/ \A j \in Jobs : Kept(j)
    \/ \E js \in SUBSET Jobs :
         /\ \A j \in js : Status(j) \in {"unsent", "held"} /\ Status(j)' = "astray" /\ Attempts(j)' = 0
         /\ \A k \in Jobs \ js : Kept(k)

\* A job astray stays so, and one Redis and the acks leave alone keeps its status.
LEMMA KeptIf ==
    ASSUME NEW k \in Jobs,
           \/ k \in astray /\ k \in astray'
           \/ Untouched(k) /\ (k \in acked' <=> k \in acked) /\ (k \in astray' <=> k \in astray)
    PROVE  Kept(k)
  BY DEF Kept, Status, Attempts, Untouched

\* What workers, reapers and callers know of k does not grow.
Alone(k) ==
    /\ \A w \in Workers : worker'[w].job = k =>
           worker[w].job = k /\ (worker'[w].pc = worker[w].pc \/ worker[w].pc # "ack")
    /\ \A r \in Reapers : k \in reaper'[r] => k \in reaper[r]
    /\ caller'[k] \in {"new", "stored"} => caller[k] \in {"new", "stored"}

\* A step on one job: the others keep what they had.
LEMMA StepOnOne ==
    ASSUME RedisOK, Exclusive, IdleHoldsNone', NEW j \in Jobs,
           \/ StoreHash(j) \/ PushPending(j) \/ DequeueScript(j) \/ AckScript(j) \/ NackScript(j)
           \/ UNCHANGED redis,
           acked' \in {acked, acked \cup {j}}, astray' \in {astray, astray \cup {j}},
           \A k \in Jobs \ {j} : Alone(k),
           j \in astray' \/ Good(j)', JobMove(j)
    PROVE  Exclusive' /\ QueueMove
<1>1. \A k \in Jobs \ {j} : Untouched(k)
  BY Elsewhere, IdleUntouched
<1>2. \A k \in Jobs \ {j} : (k \in acked' <=> k \in acked) /\ (k \in astray' <=> k \in astray)
  OBVIOUS
<1>3. ASSUME NEW k \in Jobs \ astray', k # j PROVE Good(k)'
  <2>1. Good(k) /\ Alone(k) /\ Untouched(k) /\ (k \in acked' <=> k \in acked)
    BY <1>1, <1>2, <1>3 DEF Exclusive
  <2> QED
    BY <2>1, GoodKept DEF Alone
<1>4. Exclusive'
  BY <1>3 DEF Exclusive
<1>5. \A k \in Jobs \ {j} : Kept(k)
  BY <1>1, <1>2, KeptIf
<1> QED
  BY <1>4, <1>5 DEF QueueMove

\* A step that leaves Redis, the acks and the strays alone moves no job.
LEMMA StepOnNone ==
    ASSUME Exclusive, IdleHoldsNone', UNCHANGED <<redis, acked, astray>>, \A k \in Jobs : Alone(k)
    PROVE  Exclusive' /\ QueueMove
<1>1. \A k \in Jobs : Untouched(k)
  BY IdleUntouched
<1>2. ASSUME NEW k \in Jobs \ astray' PROVE Good(k)'
  <2>1. Good(k) /\ Alone(k) /\ Untouched(k) /\ (k \in acked' <=> k \in acked)
    BY <1>1, <1>2 DEF Exclusive
  <2> QED
    BY <2>1, GoodKept DEF Alone
<1>3. \A k \in Jobs : Kept(k)
  BY <1>1, KeptIf
<1> QED
  BY <1>2, <1>3 DEF Exclusive, QueueMove

-----------------------------------------------------------------------------
\* How the scripts move the job they are about, between the states of Status.

\* LPUSH of a job that is nowhere: unsent, then waiting.
LEMMA PushMoves ==
    ASSUME RedisOK, NEW j \in Jobs, Apart(j), j \notin Listed \cup acked, j \notin astray,
           PushPending(j), UNCHANGED acked
    PROVE  /\ Status(j) = "unsent" /\ Apart(j)'
           /\ j \notin astray' => Status(j)' = "waiting" /\ Attempts(j)' = Attempts(j)
<1>1. Elements(pending') = Elements(pending) \cup {j} /\ Once(pending', j)
  BY ElementsAppend, OnceAppend DEF RedisOK, PushPending, Apart, Listed
<1>2. UNCHANGED <<processing, deadLetter, hash>>
  BY DEF PushPending
<1>3. Status(j) = "unsent"
  BY DEF Status, Listed
<1>4. Apart(j)'
  BY <1>1, <1>2 DEF Apart, Listed
<1>5. j \notin astray' => Status(j)' = "waiting" /\ Attempts(j)' = Attempts(j)
  BY <1>1, <1>2 DEF Status, Attempts, Listed
<1> QED
  BY <1>3, <1>4, <1>5

\* The dequeue script: waiting, then held.
LEMMA DequeueMoves ==
    ASSUME RedisOK, NEW j \in Jobs, Apart(j), j \notin astray,
           DequeueScript(j), UNCHANGED <<acked, astray>>
    PROVE  /\ Apart(j)' /\ j \notin processing /\ j \in processing' /\ j \notin acked
           /\ Status(j) = "waiting" /\ Status(j)' = "held" /\ Attempts(j)' = Attempts(j)
           /\ Listed' = Listed /\ UNCHANGED hash /\ j \in Listed
<1>1. /\ Elements(pending) = Elements(pending') \cup {j} /\ j \notin Elements(pending')
      /\ Once(pending', j)
  BY ElementsTail, OnceTail DEF RedisOK, DequeueScript, Apart
<1>2. processing' = processing \cup {j} /\ UNCHANGED <<deadLetter, hash>>
  BY DEF DequeueScript
<1>3. Apart(j)' /\ j \notin processing /\ j \notin acked /\ Listed' = Listed /\ j \in Listed
  BY <1>1, <1>2 DEF Apart, Listed
<1>4. Status(j) = "waiting" /\ Status(j)' = "held" /\ Attempts(j)' = Attempts(j)
  BY <1>1, <1>2, <1>3 DEF Status, Attempts, Apart
<1> QED
  BY <1>2, <1>3, <1>4

\* The ack script: held, then acked; on a job already acked, nothing.
LEMMA AckMoves ==
    ASSUME RedisOK, NEW j \in Jobs, Apart(j), j \notin astray, j \in processing \cup acked,
           hash[j].attempts \in Nat, AckScript(j), acked' = acked \cup {j}, UNCHANGED astray
    PROVE  Apart(j)' /\ Status(j)' = "acked" /\ Attempts(j)' = 0
           /\ Status(j) \in {"held", "acked"}
<1>1. /\ processing' = processing \ {j} /\ UNCHANGED <<pending, deadLetter>>
      /\ hash'[j].attempts = 0
  BY DEF AckScript, RedisOK, NoHash
<1>2. Apart(j)'
  BY <1>1 DEF Apart
<1>3. Status(j) \in {"held", "acked"} /\ Status(j)' = "acked" /\ Attempts(j)' = 0
  BY <1>1 DEF Status, Attempts, Apart
<1> QED
  BY <1>2, <1>3

\* The nack script on a job in processing: held, then waiting or dead, by the
\* count of attempts.
LEMMA NackMoves ==
    ASSUME RedisOK, NEW j \in Jobs, Apart(j), j \notin astray, j \in processing,
           NackScript(j), UNCHANGED acked
    PROVE  /\ Status(j) = "held" /\ j \in Listed
           /\ j \notin astray' => Apart(j)' /\ JobMove(j)
<1>1. j \notin Elements(pending) /\ j \notin Elements(deadLetter) /\ j \notin acked
  BY DEF Apart
<1>2. /\ processing' = processing \ {j} /\ hash'[j].attempts = hash[j].attempts + 1
      /\ hash[j].attempts \in Nat /\ MaxAttempts \in Nat
  BY QueueAssumption DEF NackScript, RedisOK, Hash
<1>3. Status(j) = "held" /\ j \in Listed
  BY <1>1 DEF Status, Listed
<1>4. CASE j \in astray'
  BY <1>3, <1>4
<1>5. CASE j \notin astray' /\ hash[j].attempts + 1 >= MaxAttempts
  <2>1. pending' = pending /\ deadLetter' = Append(deadLetter, j)
    BY <1>5 DEF NackScript
  <2>2. Elements(deadLetter') = Elements(deadLetter) \cup {j} /\ Once(deadLetter', j)
    BY <1>1, <2>1, ElementsAppend, OnceAppend DEF RedisOK, Apart
  <2>3. Apart(j)'
    BY <1>1, <1>2, <2>1, <2>2 DEF Apart
  <2>4. Status(j)' = "dead" /\ Attempts(j)' = Attempts(j) + 1 /\ Attempts(j) = hash[j].attempts
    BY <1>1, <1>2, <1>5, <2>2 DEF Status, Attempts
  <2> QED
    BY <1>3, <1>5, <2>3, <2>4 DEF JobMove
<1>6. CASE j \notin astray' /\ hash[j].attempts + 1 < MaxAttempts
  <2>1. deadLetter' = deadLetter /\ pending' = Append(pending, j)
    BY <1>2, <1>6 DEF NackScript
  <2>2. Elements(pending') = Elements(pending) \cup {j} /\ Once(pending', j)
    BY <1>1, <2>1, ElementsAppend, OnceAppend DEF RedisOK, Apart
  <2>3. Apart(j)'
    BY <1>1, <1>2, <2>1, <2>2 DEF Apart
  <2>4. Status(j)' = "waiting" /\ Attempts(j)' = Attempts(j) + 1 /\ Attempts(j) = hash[j].attempts
    BY <1>1, <1>2, <1>6, <2>1, <2>2 DEF Status, Attempts
  <2> QED
    BY <1>3, <1>6, <2>3, <2>4 DEF JobMove
<1> QED
  BY <1>2, <1>4, <1>5, <1>6

-----------------------------------------------------------------------------
(* One lemma per actor: its steps keep good jobs good and are moves.       *)

\* Going astray is a move from where it may happen.
LEMMA StrayMove ==
    ASSUME NEW j \in Jobs, j \in astray', Status(j) \in {"unsent", "held"} \/ j \in astray
    PROVE  JobMove(j)
  BY DEF JobMove, Kept, Status, Attempts

\* Enqueue, however it ends, sends a job that is nowhere or moves none.
LEMMA EnqueueMoves ==
    ASSUME QueueInv, Exclusive, NEW j \in Jobs,
           Store(j) \/ Push(j) \/ EnqueueFault(j) \/ EnqueueResend(j)
    PROVE  Exclusive' /\ QueueMove
<1>0. RedisOK /\ LocalOK
  BY TypeParts DEF QueueInv
<1>1. /\ UNCHANGED <<worker, reaper, acked>>
      /\ caller' = caller \/ \E s \in {"stored", "queued", "failed"} : caller' = [caller EXCEPT ![j] = s]
      /\ caller[j] \in {"new", "stored"}
      /\ \/ caller[j] = "new" /\ StoreHash(j) /\ astray' = astray
         \/ caller[j] = "stored" /\ PushPending(j) /\ astray' = astray /\ caller'[j] \in {"queued", "failed"}
         \/ caller[j] = "stored" /\ PushPending(j) /\ astray' = astray \cup {j}
         \/ UNCHANGED redis /\ astray' = astray
  BY <1>0 DEF Store, Push, EnqueueFault, EnqueueResend, history, process, LocalOK
<1>2. IdleHoldsNone'
  BY <1>1 DEF Exclusive, IdleHoldsNone
<1>3. \A k \in Jobs : k # j => Alone(k)
  BY <1>0, <1>1 DEF Alone, LocalOK
<1>4. j \notin astray => Good(j)
  BY DEF Exclusive
<1>5. j \notin astray => j \notin Listed \cup acked /\ hash[j].attempts = 0
  BY <1>1, <1>4 DEF Good, NotSentYet
<1>6. CASE caller[j] = "new" /\ StoreHash(j) /\ astray' = astray
  <2>1. UNCHANGED <<pending, processing, deadLetter, visibility>> /\ hash'[j].attempts = 0
    BY <1>0, <1>6 DEF StoreHash, RedisOK, NewHash
  <2>2. j \notin astray => Untouched(j)
    BY <1>5, <2>1 DEF Untouched
  <2>3. j \in astray' \/ Good(j)'
    BY <1>1, <1>4, <1>6, <2>2, GoodKept
  <2>4. JobMove(j)
    BY <1>1, <1>6, <2>2, KeptIf DEF JobMove
  <2> QED
    BY <1>0, <1>1, <1>2, <1>3, <1>6, <2>3, <2>4, StepOnOne
<1>7. CASE caller[j] = "stored" /\ PushPending(j) /\ astray' = astray /\ caller'[j] \in {"queued", "failed"}
  <2>1. ASSUME j \notin astray PROVE Good(j)' /\ JobMove(j)
    <3>1. /\ Apart(j)' /\ Status(j) = "unsent" /\ Status(j)' = "waiting"
          /\ Attempts(j)' = Attempts(j)
      BY <1>0, <1>1, <1>4, <1>5, <1>7, <2>1, PushMoves DEF Good
    <3>2. UNCHANGED <<visibility, processing>>
      BY <1>7 DEF PushPending
    <3>3. HeldAlone(j)' /\ Overdue(j)' /\ NotSentYet(j)' /\ Cleared(j)'
      BY <1>1, <1>4, <1>5, <1>7, <2>1, <3>2 DEF Good, HeldAlone, Overdue, NotSentYet, Cleared
    <3> QED
      BY <3>1, <3>3 DEF Good, JobMove
  <2>2. j \in astray => JobMove(j)
    BY <1>7, StrayMove
  <2> QED
    BY <1>0, <1>1, <1>2, <1>3, <1>7, <2>1, <2>2, StepOnOne
<1>8. CASE caller[j] = "stored" /\ PushPending(j) /\ astray' = astray \cup {j}
  <2>1. j \notin astray => Status(j) = "unsent"
    BY <1>0, <1>1, <1>4, <1>5, <1>8, PushMoves DEF Good
  <2>2. JobMove(j)
    BY <1>8, <2>1, StrayMove
  <2> QED
    BY <1>0, <1>1, <1>2, <1>3, <1>8, <2>2, StepOnOne
<1>9. CASE UNCHANGED redis /\ astray' = astray
  <2>1. Alone(j)
    BY <1>1 DEF Alone
  <2> QED
    BY <1>1, <1>2, <1>3, <1>9, <2>1, StepOnNone
<1> QED
  BY <1>1, <1>6, <1>7, <1>8, <1>9

\* Dequeue delivers a job nobody holds and no Reap has read, or leaves it in
\* processing.
LEMMA PollMoves ==
    ASSUME QueueInv, Exclusive, NEW w \in Workers,
           \/ \E j \in Jobs : Dequeue(w, j) \/ DequeueUnparsable(w, j)
           \/ DequeueFault(w) \/ DequeueResend(w) \/ StopPolling(w)
    PROVE  Exclusive' /\ QueueMove
<1>0. RedisOK /\ LocalOK
  BY TypeParts DEF QueueInv
<1>1. UNCHANGED <<caller, reaper, acked, astray>> /\ worker[w].pc = "poll"
  BY DEF Dequeue, DequeueUnparsable, DequeueFault, DequeueResend, StopPolling, history, process
<1>2. worker[w].job = NoJob
  BY <1>1 DEF Exclusive, IdleHoldsNone
<1>3. ASSUME NEW j \in Jobs, DequeueScript(j),
             \/ worker' = worker
             \/ worker' = [worker EXCEPT ![w] = At("stopped")]
             \/ worker' = [worker EXCEPT ![w] = [pc |-> "handle", job |-> j, payload |-> hash[j].payload]]
      PROVE  Exclusive' /\ QueueMove
  <2>1. /\ \A v \in Workers \ {w} : worker'[v] = worker[v]
        /\ worker'[w].job \in {j, NoJob}
        /\ worker'[w].pc \in {"poll", "stopped"} => worker'[w].job = NoJob
    BY <1>0, <1>2, <1>3 DEF LocalOK, At
  <2>2. IdleHoldsNone'
    BY <2>1 DEF Exclusive, IdleHoldsNone
  <2>3. \A k \in Jobs : k # j => Alone(k)
    BY <1>1, <2>1, QueueAssumption DEF Alone
  <2>4. ASSUME j \notin astray PROVE Good(j)' /\ JobMove(j)
    <3>0. Good(j)
      BY <2>4 DEF Exclusive
    <3>1. /\ Apart(j)' /\ j \notin processing /\ j \in processing' /\ j \notin acked
          /\ Status(j) = "waiting" /\ Status(j)' = "held" /\ Attempts(j)' = Attempts(j)
          /\ Listed' = Listed /\ UNCHANGED hash /\ j \in Listed
      BY <1>0, <1>1, <1>3, <2>4, <3>0, DequeueMoves DEF Good
    <3>2. \A v \in Workers : worker[v].job # j
      BY <3>0, <3>1 DEF Good, HeldAlone
    <3>3. HeldAlone(j)'
      BY <2>1, <3>1, <3>2 DEF HeldAlone
    <3>4. \A r \in Reapers : j \notin reaper[r]
      BY <3>0, <3>1 DEF Good, Overdue, QueueInv, DeadlineForProcessing
    <3>5. Overdue(j)'
      BY <1>1, <3>4 DEF Overdue
    <3>6. NotSentYet(j)' /\ Cleared(j)'
      BY <1>1, <3>0, <3>1 DEF Good, NotSentYet, Cleared
    <3> QED
      BY <3>1, <3>3, <3>5, <3>6 DEF Good, JobMove
  <2>5. j \in astray => JobMove(j)
    BY <1>1, StrayMove
  <2> QED
    BY <1>0, <1>1, <1>3, <2>2, <2>3, <2>4, <2>5, StepOnOne
<1>4. ASSUME UNCHANGED redis, worker' = [worker EXCEPT ![w] = At("stopped")]
      PROVE  Exclusive' /\ QueueMove
  <2>1. (\A v \in Workers \ {w} : worker'[v] = worker[v]) /\ worker'[w].job = NoJob
    BY <1>0, <1>4 DEF LocalOK, At
  <2>2. IdleHoldsNone' /\ \A k \in Jobs : Alone(k)
    BY <1>1, <2>1, QueueAssumption DEF Exclusive, IdleHoldsNone, Alone
  <2> QED
    BY <1>1, <1>4, <2>2, StepOnNone
<1> QED
  BY <1>3, <1>4 DEF Dequeue, DequeueUnparsable, DequeueFault, DequeueResend, StopPolling, process

\* Ack and Nack settle a job in processing that no other worker holds.
LEMMA SettleMoves ==
    ASSUME QueueInv, Exclusive, NEW w \in Workers,
           HandlerReturns(w) \/ Ack(w) \/ Nack(w) \/ SettleFault(w) \/ SettleResend(w)
    PROVE  Exclusive' /\ QueueMove
<1>0. RedisOK /\ LocalOK
  BY TypeParts DEF QueueInv
<1>1. PICK j \in Jobs : j = worker[w].job /\ j # NoJob
  BY QueueAssumption DEF QueueInv, HandsFull, HandlerReturns, Ack, Nack, SettleFault, SettleResend
<1>2. CASE HandlerReturns(w)
  <2>1. UNCHANGED <<redis, acked, astray, caller, reaper>>
    BY <1>2 DEF HandlerReturns, history
  <2>2. \A v \in Workers : /\ worker'[v].job = worker[v].job
                           /\ \/ worker'[v].pc = worker[v].pc
                              \/ worker'[v].pc \in {"ack", "nack"} /\ worker[v].pc = "handle"
    BY <1>0, <1>2 DEF HandlerReturns, LocalOK, Worker
  <2>3. IdleHoldsNone' /\ \A k \in Jobs : Alone(k)
    BY <2>1, <2>2 DEF Exclusive, IdleHoldsNone, Alone
  <2> QED
    BY <2>1, <2>3, StepOnNone
<1>3. CASE Ack(w) \/ Nack(w) \/ SettleFault(w) \/ SettleResend(w)
  <2>1. /\ UNCHANGED <<caller, reaper>>
        /\ worker[w].pc \in {"ack", "nack"}
        /\ \/ worker' = [worker EXCEPT ![w] = At("poll")] /\ UNCHANGED astray
           \/ worker' = worker /\ worker[w].pc = "ack" /\ UNCHANGED astray
           \/ worker' = worker /\ worker[w].pc = "nack" /\ astray' = astray \cup {j}
        /\ \/ AckScript(j) /\ acked' = acked \cup {j} /\ worker[w].pc = "ack"
           \/ NackScript(j) /\ acked' = acked /\ worker[w].pc = "nack"
           \/ UNCHANGED redis /\ acked' = acked /\ worker' = [worker EXCEPT ![w] = At("poll")]
    BY <1>1, <1>3 DEF Ack, Nack, SettleFault, SettleResend, history, process
  <2>2. /\ \A v \in Workers \ {w} : worker'[v] = worker[v]
        /\ \/ worker'[w] = worker[w]
           \/ worker'[w].job = NoJob /\ worker'[w].pc = "poll"
    BY <1>0, <2>1 DEF LocalOK, At
  <2>3. IdleHoldsNone' /\ \A k \in Jobs : Alone(k)
    BY <1>1, <2>1, <2>2, QueueAssumption DEF Exclusive, IdleHoldsNone, Alone
  <2>4. ASSUME j \notin astray
        PROVE  /\ Good(j) /\ j \in processing \cup acked
               /\ worker[w].pc = "nack" => j \in processing
               /\ \A v \in Workers \ {w} : worker[v].job # j
               /\ \A r \in Reapers : j \notin reaper[r]
               /\ caller[j] \notin {"new", "stored"}
    <3>1. Good(j)
      BY <1>1, <2>4 DEF Exclusive
    <3>2. j \in processing \/ (j \in acked /\ worker[w].pc = "ack")
      BY <1>1, <3>1 DEF Good, HeldAlone
    <3>3. \A v \in Workers \ {w} : worker[v].job # j
      BY <1>1, <3>1 DEF Good, HeldAlone
    <3>4. \A r \in Reapers : j \notin reaper[r]
      BY <1>1, <3>1 DEF Good, Overdue
    <3>5. caller[j] \notin {"new", "stored"}
      BY <3>1, <3>2 DEF Good, NotSentYet, Listed
    <3> QED
      BY <3>1, <3>2, <3>3, <3>4, <3>5
  <2>5. j \in astray => JobMove(j)
    BY <1>1, <2>1, StrayMove
  <2>6. CASE AckScript(j) /\ acked' = acked \cup {j} /\ worker[w].pc = "ack"
    <3>1. UNCHANGED astray
      BY <2>1, <2>6
    <3>2. ASSUME j \notin astray PROVE Good(j)' /\ JobMove(j)
      <4>1. /\ Apart(j)' /\ Status(j)' = "acked" /\ Attempts(j)' = 0
            /\ Status(j) \in {"held", "acked"}
        BY <1>0, <1>1, <2>4, <2>6, <3>1, <3>2, AckMoves DEF Good, RedisOK, Hash
      <4>2. HeldAlone(j)' /\ Overdue(j)'
        BY <1>1, <2>1, <2>2, <2>4, <2>6, <3>2 DEF HeldAlone, Overdue
      <4>3. NotSentYet(j)' /\ Cleared(j)'
        <5>1. hash'[j].attempts = 0
          BY <1>0, <2>6 DEF AckScript, RedisOK, NoHash
        <5> QED
          BY <2>1, <2>4, <3>2, <5>1 DEF NotSentYet, Cleared
      <4>4. Status(j) = "acked" => Attempts(j) = 0
        BY <2>4, <3>2 DEF Status, Attempts, Good, Cleared
      <4> QED
        BY <4>1, <4>2, <4>3, <4>4 DEF Good, JobMove, Kept
    <3> QED
      BY <1>0, <1>1, <2>3, <2>5, <2>6, <3>1, <3>2, StepOnOne
  <2>7. CASE NackScript(j) /\ acked' = acked /\ worker[w].pc = "nack"
    <3>1. ASSUME j \notin astray
          PROVE  Status(j) = "held" /\ (j \notin astray' => Good(j)' /\ JobMove(j))
      <4>1. Status(j) = "held" /\ (j \notin astray' => Apart(j)' /\ JobMove(j))
        BY <1>0, <1>1, <2>4, <2>7, <3>1, NackMoves DEF Good
      <4>2. j \notin astray' => worker'[w].job = NoJob
        BY <2>1, <2>7, <1>0 DEF LocalOK, At
      <4>3. j \notin acked'
        BY <2>4, <2>7, <3>1 DEF Good, Apart
      <4>4. j \notin astray' => HeldAlone(j)' /\ Overdue(j)' /\ NotSentYet(j)' /\ Cleared(j)'
        BY <1>1, <2>1, <2>2, <2>4, <3>1, <4>2, <4>3 DEF HeldAlone, Overdue, NotSentYet, Cleared
      <4> QED
        BY <4>1, <4>4 DEF Good
    <3>2. JobMove(j)
      BY <1>1, <2>5, <3>1, StrayMove
    <3>3. astray' \in {astray, astray \cup {j}}
      BY <2>1
    <3> QED
      BY <1>0, <1>1, <2>3, <2>7, <3>1, <3>2, <3>3, StepOnOne
  <2>8. CASE UNCHANGED redis /\ acked' = acked /\ worker' = [worker EXCEPT ![w] = At("poll")]
    <3>1. UNCHANGED astray \/ worker' = worker
      BY <2>1
    <3>2. worker'[w].pc = "poll"
      BY <1>0, <2>8 DEF LocalOK, At
    <3>3. UNCHANGED astray
      BY <2>1, <3>2
    <3> QED
      BY <2>3, <2>8, <3>3, StepOnNone
  <2> QED
    BY <2>1, <2>6, <2>7, <2>8
<1> QED
  BY <1>2, <1>3

\* Reap returns or buries jobs in processing that no worker holds; those it
\* reads while somebody has them go astray.
LEMMA ReapMoves ==
    ASSUME QueueInv, Exclusive, NEW r \in Reapers,
           ReapScan(r) \/ \E j \in Jobs : ReapNack(r, j) \/ ReapFault(r, j) \/ ReapResend(r, j)
    PROVE  Exclusive' /\ QueueMove
<1>0. RedisOK /\ LocalOK
  BY TypeParts DEF QueueInv
<1>1. UNCHANGED <<caller, worker, acked>> /\ IdleHoldsNone'
  BY DEF ReapScan, Scan, ReapNack, ReapFault, ReapResend, history, process, Exclusive, IdleHoldsNone
<1>2. ASSUME NEW j \in Jobs, j \in reaper[r], NackScript(j),
             \A q \in Reapers : reaper'[q] \subseteq reaper[q],
             \/ astray' = astray /\ j \notin reaper'[r]
             \/ astray' = astray \cup {j}
      PROVE  Exclusive' /\ QueueMove
  <2>1. \A k \in Jobs : k # j => Alone(k)
    BY <1>1, <1>2 DEF Alone
  <2>2. ASSUME j \notin astray
        PROVE  Status(j) = "held" /\ (j \notin astray' => Good(j)' /\ JobMove(j))
    <3>1. Good(j) /\ j \in processing
      BY <1>2, <2>2 DEF Exclusive, Good, Overdue, QueueInv, DeadlineForProcessing
    <3>2. /\ Status(j) = "held" /\ j \in Listed
          /\ j \notin astray' => Apart(j)' /\ JobMove(j)
      BY <1>0, <1>1, <1>2, <2>2, <3>1, NackMoves DEF Good
    <3>3. j \notin astray' => \A q \in Reapers : j \notin reaper'[q]
      BY <1>2, <2>2, <3>1 DEF Good, Overdue
    <3>4. (\A w \in Workers : worker'[w].job # j) /\ j \notin acked'
      BY <1>1, <1>2, <3>1 DEF Good, Overdue, Apart
    <3>5. j \notin astray' => HeldAlone(j)' /\ Overdue(j)' /\ NotSentYet(j)' /\ Cleared(j)'
      BY <1>1, <1>2, <3>1, <3>2, <3>3, <3>4 DEF Good, HeldAlone, Overdue, NotSentYet, Cleared
    <3> QED
      BY <3>2, <3>5 DEF Good
  <2>3. JobMove(j)
    BY <1>2, <2>2, StrayMove
  <2> QED
    BY <1>0, <1>1, <1>2, <2>1, <2>2, <2>3, StepOnOne
<1>3. CASE ReapScan(r)
  <2> DEFINE ids == {j \in Jobs : visibility[j] = "expired"}
             lost == {j \in ids : Held(j) \/ \E q \in Reapers : j \in reaper[q]}
  <2>1. /\ reaper[r] = {} /\ reaper' = [reaper EXCEPT ![r] = ids]
        /\ astray' = astray \cup lost /\ UNCHANGED redis
    BY <1>3 DEF ReapScan, Scan
  <2>2. \A k \in Jobs : Untouched(k)
    BY <2>1, IdleUntouched
  <2>3. reaper'[r] = ids /\ \A q \in Reapers \ {r} : reaper'[q] = reaper[q]
    BY <1>0, <2>1 DEF LocalOK
  <2>4. ASSUME NEW k \in Jobs \ astray' PROVE Good(k)'
    <3>1. Good(k) /\ k \notin lost
      BY <2>1, <2>4 DEF Exclusive
    <3>2. UNCHANGED <<visibility, pending, processing, deadLetter, hash>>
      BY <2>1 DEF redis
    <3>3. Apart(k)' /\ HeldAlone(k)' /\ NotSentYet(k)' /\ Cleared(k)'
      BY <1>1, <3>1, <3>2 DEF Good, Apart, HeldAlone, NotSentYet, Listed, Cleared
    <3>4. CASE k \in ids
      <4>1. (\A w \in Workers : worker[w].job # k) /\ \A q \in Reapers : k \notin reaper[q]
        BY <3>1, <3>4 DEF Held
      <4>2. visibility'[k] = "expired"
        BY <3>2, <3>4
      <4> QED
        BY <1>1, <2>3, <3>3, <4>1, <4>2 DEF Good, Overdue
    <3>5. CASE k \notin ids
      BY <1>1, <2>3, <3>1, <3>2, <3>3, <3>5 DEF Good, Overdue
    <3> QED
      BY <3>4, <3>5
  <2>5. Exclusive'
    BY <1>1, <2>4 DEF Exclusive
  <2>6. \A k \in Jobs \ (lost \ astray) : Kept(k)
    BY <1>1, <2>1, <2>2, KeptIf
  <2>7. ASSUME NEW k \in lost \ astray
        PROVE  Status(k) = "held" /\ Status(k)' = "astray" /\ Attempts(k)' = 0
    <3>1. Good(k) /\ k \in Jobs /\ visibility[k] = "expired"
      BY <2>7 DEF Exclusive
    <3>2. k \in processing
      BY <3>1 DEF QueueInv, DeadlineForProcessing
    <3>3. Status(k) = "held"
      BY <2>7, <3>1, <3>2 DEF Status, Good, Apart
    <3>4. k \in astray'
      BY <2>1, <2>7
    <3> QED
      BY <3>3, <3>4 DEF Status, Attempts
  <2>8. lost \ astray \in SUBSET Jobs
    OBVIOUS
  <2>9. QueueMove
    BY <2>6, <2>7, <2>8 DEF QueueMove
  <2> QED
    BY <2>5, <2>9
<1>4. ASSUME NEW j \in Jobs, ReapNack(r, j) PROVE Exclusive' /\ QueueMove
  BY <1>0, <1>2, <1>4 DEF ReapNack, LocalOK, history
<1>5. ASSUME NEW j \in Jobs, ReapResend(r, j) PROVE Exclusive' /\ QueueMove
  BY <1>0, <1>2, <1>5 DEF ReapResend, LocalOK, process
<1>6. ASSUME NEW j \in Jobs, ReapFault(r, j) PROVE Exclusive' /\ QueueMove
  <2>1. /\ j \in reaper[r] /\ UNCHANGED astray /\ reaper' = [reaper EXCEPT ![r] = {}]
        /\ NackScript(j) \/ UNCHANGED redis
    BY <1>6 DEF ReapFault, history
  <2>2. reaper'[r] = {} /\ \A q \in Reapers : reaper'[q] \subseteq reaper[q]
    BY <1>0, <2>1 DEF LocalOK
  <2>3. CASE NackScript(j)
    BY <1>2, <2>1, <2>2, <2>3
  <2>4. CASE UNCHANGED redis
    <3>1. \A k \in Jobs : Alone(k)
      BY <1>1, <2>2 DEF Alone
    <3> QED
      BY <1>1, <2>1, <2>4, <3>1, StepOnNone
  <2> QED
    BY <2>1, <2>3, <2>4
<1> QED
  BY <1>3, <1>4, <1>5, <1>6

\* Deadlines, shutdowns and crashes move no job.
LEMMA EnvironmentMoves ==
    ASSUME QueueInv, Exclusive,
           (\E j \in Jobs : Expire(j)) \/ Shutdown \/ Crash \/ ExitAndRestart
    PROVE  Exclusive' /\ QueueMove
<1>0. RedisOK /\ LocalOK
  BY TypeParts DEF QueueInv
<1>1. ASSUME NEW j \in Jobs, Expire(j) PROVE Exclusive' /\ QueueMove
  <2>1. UNCHANGED <<pending, processing, deadLetter, hash, caller, worker, reaper, acked, astray>>
    BY <1>1 DEF Expire, process, history
  <2>2. \A k \in Jobs : visibility'[k] # visibility[k] => visibility'[k] = "expired"
    BY <1>0, <1>1 DEF Expire, RedisOK
  <2>3. ASSUME NEW k \in Jobs \ astray' PROVE Good(k)'
    <3>1. Good(k)
      BY <2>1 DEF Exclusive
    <3>2. Apart(k)' /\ HeldAlone(k)' /\ NotSentYet(k)' /\ Cleared(k)'
      BY <2>1, <3>1 DEF Good, Apart, HeldAlone, NotSentYet, Listed, Cleared
    <3>3. Overdue(k)'
      BY <2>1, <2>2, <3>1 DEF Good, Overdue
    <3> QED
      BY <3>2, <3>3 DEF Good
  <2>4. \A k \in Jobs : Kept(k)
    BY <2>1 DEF Kept, Status, Attempts
  <2> QED
    BY <2>1, <2>3, <2>4 DEF Exclusive, IdleHoldsNone, QueueMove
<1>2. CASE Shutdown
  <2>1. UNCHANGED <<redis, acked, astray, caller, worker, reaper>>
    BY <1>2 DEF Shutdown, history
  <2>2. IdleHoldsNone' /\ \A k \in Jobs : Alone(k)
    BY <2>1 DEF Exclusive, IdleHoldsNone, Alone
  <2> QED
    BY <2>1, <2>2, StepOnNone
<1>3. CASE Crash \/ ExitAndRestart
  <2>1. FreshProcess /\ UNCHANGED <<redis, acked, astray>>
    BY <1>3 DEF Crash, ExitAndRestart, FreshProcess, history
  <2>2. /\ \A w \in Workers : worker'[w].job = NoJob
        /\ \A r \in Reapers : reaper'[r] = {}
        /\ \A k \in Jobs : caller'[k] \in {"failed", caller[k]}
    BY <2>1 DEF FreshProcess, At
  <2>3. IdleHoldsNone' /\ \A k \in Jobs : Alone(k)
    BY <2>2, QueueAssumption DEF IdleHoldsNone, Alone
  <2> QED
    BY <2>1, <2>3, StepOnNone
<1> QED
  BY <1>1, <1>2, <1>3

-----------------------------------------------------------------------------
\* Every step keeps the jobs apart and is a move of the abstract queue.
LEMMA ExclusiveStep ==
    ASSUME ExclusiveInv, [Next]_vars
    PROVE  ExclusiveInv' /\ QueueMove
<1>1. QueueInv /\ Exclusive
  BY DEF ExclusiveInv
<1>2. QueueInv'
  BY <1>1, QueueStep
<1>3. Exclusive' /\ QueueMove
  <2>1. CASE UNCHANGED vars
    <3>1. UNCHANGED <<redis, acked, astray, caller, worker, reaper>>
      BY <2>1 DEF vars, process, history
    <3>2. IdleHoldsNone' /\ \A k \in Jobs : Alone(k)
      BY <1>1, <3>1 DEF Exclusive, IdleHoldsNone, Alone
    <3> QED
      BY <1>1, <3>1, <3>2, StepOnNone
  <2>2. CASE Next
    BY <1>1, <2>2, EnqueueMoves, PollMoves, SettleMoves, ReapMoves, EnvironmentMoves DEF Next
  <2> QED
    BY <2>1, <2>2
<1> QED
  BY <1>2, <1>3 DEF ExclusiveInv

\* An empty queue keeps its jobs apart.
LEMMA ExclusiveInit == Init => ExclusiveInv
<1> SUFFICES ASSUME Init PROVE ExclusiveInv
  OBVIOUS
<1>1. QueueInv
  BY InitQueue
<1>2. Elements(pending) = {} /\ Elements(deadLetter) = {} /\ Listed = {}
  BY DEF Init, Elements, Listed
<1>3. \A w \in Workers : worker[w].job = NoJob
  BY DEF Init, At
<1>4. ASSUME NEW j \in Jobs PROVE Good(j)
  <2>1. Apart(j)
    BY <1>2 DEF Init, Apart, Once
  <2>2. HeldAlone(j) /\ Overdue(j)
    BY <1>3, QueueAssumption DEF Init, HeldAlone, Overdue
  <2>3. NotSentYet(j) /\ Cleared(j)
    BY <1>2 DEF Init, NotSentYet, Cleared, NoHash
  <2> QED
    BY <2>1, <2>2, <2>3 DEF Good
<1> QED
  BY <1>1, <1>3, <1>4 DEF ExclusiveInv, Exclusive, IdleHoldsNone

\* Jobs that have not gone astray stay apart in every behaviour of the queue.
THEOREM ExclusiveInvariant == Spec => []ExclusiveInv
<1>1. ExclusiveInv /\ [Next]_vars => ExclusiveInv'
  BY ExclusiveStep
<1> QED
  BY <1>1, ExclusiveInit, PTL DEF Spec

\* ops.go: "stays invisible to other consumers until Ack or Nack, or until its
\* visibility timeout expires and Reap makes it available again". For any number
\* of jobs, workers and reapers, through crashes, late handlers, lost replies and
\* commands the client sends again, nobody else holds a job and no second copy of
\* it is anywhere, unless a Reap read that job while somebody had it or the
\* command sent again was the LPUSH or the nack of that job.
THEOREM OneHolder == Spec => []SoleHolder
<1>1. ExclusiveInv => SoleHolder
  BY DEF ExclusiveInv, Exclusive, Good, HeldAlone, Held, SoleHolder
<1> QED
  BY <1>1, ExclusiveInvariant, PTL

\* The abstract state before the first step is the abstract initial state.
LEMMA AbstractInit == Init => Abstract!Init
<1> SUFFICES ASSUME Init PROVE Abstract!Init
  OBVIOUS
<1>1. \A j \in Jobs : Status(j) = "unsent" /\ Attempts(j) = 0
  BY DEF Init, Status, Attempts, Elements, NoHash
<1> QED
  BY <1>1 DEF Abstract!Init

\* A move of the queue is a step of the abstract one, or none.
LEMMA MoveIsAbstractStep ==
    ASSUME QueueMove
    PROVE  [Abstract!Next]_<<[j \in Jobs |-> Status(j)], [j \in Jobs |-> Attempts(j)]>>
<1> DEFINE status == [j \in Jobs |-> Status(j)]
           tries == [j \in Jobs |-> Attempts(j)]
<1>1. status' = [j \in Jobs |-> Status(j)'] /\ tries' = [j \in Jobs |-> Attempts(j)']
  OBVIOUS
<1>2. CASE \A j \in Jobs : Kept(j)
  <2>1. status' = status /\ tries' = tries
    BY <1>1, <1>2 DEF Kept
  <2> QED
    BY <2>1
<1>3. ASSUME NEW j \in Jobs, JobMove(j), \A k \in Jobs \ {j} : Kept(k)
      PROVE  [Abstract!Next]_<<status, tries>>
  <2>1. ASSUME NEW s, Status(j)' = s PROVE status' = [status EXCEPT ![j] = s]
    BY <1>1, <1>3, <2>1 DEF Kept
  <2>2. ASSUME NEW n, Attempts(j)' = n PROVE tries' = [tries EXCEPT ![j] = n]
    BY <1>1, <1>3, <2>2 DEF Kept
  <2>3. ASSUME Attempts(j)' = Attempts(j) PROVE tries' = tries
    BY <1>1, <1>3, <2>3 DEF Kept
  <2>4. CASE Kept(j)
    BY <1>2, <1>3, <2>4
  <2>5. CASE Status(j) = "unsent" /\ Status(j)' = "waiting" /\ Attempts(j)' = Attempts(j)
    <3>1. Abstract!Send(j)
      BY <2>1, <2>3, <2>5 DEF Abstract!Send, Abstract!Move
    <3> QED
      BY <3>1 DEF Abstract!Next
  <2>6. CASE Status(j) = "waiting" /\ Status(j)' = "held" /\ Attempts(j)' = Attempts(j)
    <3>1. Abstract!Deliver(j)
      BY <2>1, <2>3, <2>6 DEF Abstract!Deliver, Abstract!Move
    <3> QED
      BY <3>1 DEF Abstract!Next
  <2>7. CASE Status(j) = "held" /\ Status(j)' = "acked" /\ Attempts(j)' = 0
    <3>1. Abstract!Settle(j)
      BY <2>1, <2>2, <2>7 DEF Abstract!Settle, Abstract!Move
    <3> QED
      BY <3>1 DEF Abstract!Next
  <2>8. CASE /\ Status(j) = "held" /\ Attempts(j) + 1 < MaxAttempts
             /\ Status(j)' = "waiting" /\ Attempts(j)' = Attempts(j) + 1
    <3>1. Abstract!Return(j)
      BY <2>1, <2>2, <2>8 DEF Abstract!Return, Abstract!Move
    <3> QED
      BY <3>1 DEF Abstract!Next
  <2>9. CASE /\ Status(j) = "held" /\ Attempts(j) + 1 >= MaxAttempts
             /\ Status(j)' = "dead" /\ Attempts(j)' = Attempts(j) + 1
    <3>1. Abstract!Bury(j)
      BY <2>1, <2>2, <2>9 DEF Abstract!Bury, Abstract!Move
    <3> QED
      BY <3>1 DEF Abstract!Next
  <2>10. CASE Status(j) \in {"unsent", "held"} /\ Status(j)' = "astray" /\ Attempts(j)' = 0
    <3>1. status' = [k \in Jobs |-> IF k \in {j} THEN "astray" ELSE status[k]]
      BY <1>1, <1>3, <2>10 DEF Kept
    <3>2. tries' = [k \in Jobs |-> IF k \in {j} THEN 0 ELSE tries[k]]
      BY <1>1, <1>3, <2>10 DEF Kept
    <3>3. Abstract!Stray({j})
      BY <2>10, <3>1, <3>2 DEF Abstract!Stray
    <3> QED
      BY <3>3 DEF Abstract!Next
  <2> QED
    BY <1>3, <2>4, <2>5, <2>6, <2>7, <2>8, <2>9, <2>10 DEF JobMove
<1>4. ASSUME NEW js \in SUBSET Jobs,
             \A j \in js : Status(j) \in {"unsent", "held"} /\ Status(j)' = "astray" /\ Attempts(j)' = 0,
             \A k \in Jobs \ js : Kept(k)
      PROVE  [Abstract!Next]_<<status, tries>>
  <2>1. status' = [k \in Jobs |-> IF k \in js THEN "astray" ELSE status[k]]
    BY <1>1, <1>4 DEF Kept
  <2>2. tries' = [k \in Jobs |-> IF k \in js THEN 0 ELSE tries[k]]
    BY <1>1, <1>4 DEF Kept
  <2>3. Abstract!Stray(js)
    BY <1>4, <2>1, <2>2 DEF Abstract!Stray
  <2> QED
    BY <2>3 DEF Abstract!Next
<1> QED
  BY <1>2, <1>3, <1>4 DEF QueueMove

\* The Redis queue implements what its package comment promises of every job:
\* it waits, is held by one consumer, comes back fewer than MaxAttempts times,
\* and ends acked or dead-lettered, or goes astray while it is sent or held; for
\* every number of jobs, workers, reapers, attempts, faults and restarts.
THEOREM QueueRefinement == Spec => ImplementsReliableDelivery
<1>1. ExclusiveInv /\ [Next]_vars =>
        [Abstract!Next]_<<[j \in Jobs |-> Status(j)], [j \in Jobs |-> Attempts(j)]>>
  BY ExclusiveStep, MoveIsAbstractStep
<1> QED
  BY <1>1, AbstractInit, ExclusiveInvariant, PTL DEF Spec, ImplementsReliableDelivery, Abstract!Spec

=============================================================================
