------------------------- MODULE TelemetryRetention -------------------------
(***************************************************************************)
(* The retention job of internal/db/telemetry_retention.go over the        *)
(* telemetry_samples table.  A run is one transaction at PostgreSQL's      *)
(* default isolation, READ COMMITTED: each statement reads its own         *)
(* snapshot, now() is the transaction's start, and an upsert waits for     *)
(* another transaction that has written the same bucket.  All samples here *)
(* fall into one bucket.  Nothing keeps two jobs apart.                    *)
(***************************************************************************)
EXTENDS Naturals

CONSTANTS
    Sample,      \* telemetry_samples rows
    Job,         \* retention jobs that can run at once
    Threshold,   \* retentionThreshold
    MaxTime,     \* bound: last clock value
    NoJob

ASSUME ThresholdAssumption == Threshold \in Nat /\ MaxTime \in Nat
ASSUME NoJobAssumption == NoJob \notin Job

VARIABLES
    now,
    raw,        \* committed rows of telemetry_samples
    sampledAt,  \* sampled_at of each row, 0 while there is none
    inserting,  \* rows whose INSERT has its now() and has not ended
    counted,    \* how often the committed aggregate counts each sample
    job,        \* each job's step and cutoff
    picked,     \* what a job's aggregation has read
    pruned,     \* the rows it has deleted and not yet committed
    bucket,     \* the job whose upsert holds the bucket's row
    overlap     \* history: two jobs were open at once

retentionVars == <<now, raw, sampledAt, inserting, counted, job, picked, pruned,
                   bucket, overlap>>

Created == {s \in Sample : sampledAt[s] > 0} \ inserting
IdleJob == [pc |-> "idle", start |-> 0]

RetentionInit ==
    /\ now = 1
    /\ raw = {}
    /\ sampledAt = [s \in Sample |-> 0]
    /\ inserting = {}
    /\ counted = [s \in Sample |-> 0]
    /\ job = [j \in Job |-> IdleJob]
    /\ picked = [j \in Job |-> {}]
    /\ pruned = [j \in Job |-> {}]
    /\ bucket = NoJob
    /\ overlap = FALSE

Step(j, pc) == job' = [job EXCEPT ![j].pc = pc]

\* Create: the INSERT begins, and sampled_at defaults to its now().
Create(s) ==
    /\ sampledAt[s] = 0
    /\ sampledAt' = [sampledAt EXCEPT ![s] = now]
    /\ inserting' = inserting \cup {s}
    /\ UNCHANGED <<now, raw, counted, job, picked, pruned, bucket, overlap>>

\* The row commits, later than its stamp.
CreateCommits(s) ==
    /\ s \in inserting
    /\ raw' = raw \cup {s}
    /\ inserting' = inserting \ {s}
    /\ UNCHANGED <<now, sampledAt, counted, job, picked, pruned, bucket, overlap>>

\* The INSERT fails and leaves no row.
CreateFails(s) ==
    /\ s \in inserting
    /\ sampledAt' = [sampledAt EXCEPT ![s] = 0]
    /\ inserting' = inserting \ {s}
    /\ UNCHANGED <<now, raw, counted, job, picked, pruned, bucket, overlap>>

\* Bound: an INSERT ends before its row is older than the threshold.
Tick ==
    /\ now < MaxTime
    /\ \A s \in inserting : now < sampledAt[s] + Threshold
    /\ now' = now + 1
    /\ UNCHANGED <<raw, sampledAt, inserting, counted, job, picked, pruned, bucket, overlap>>

\* The committed rows older than the threshold when the transaction began.
Old(j) == {s \in raw : sampledAt[s] + Threshold < job[j].start}

\* What the DELETE finds. The mutant measures the age when the statement runs.
ExpiredByNow(j) == {s \in raw : sampledAt[s] + Threshold < now}
Expired(j) == Old(j)

Begin(j) ==
    /\ job[j].pc = "idle"
    /\ job' = [job EXCEPT ![j] = [pc |-> "aggregate", start |-> now]]
    /\ overlap' = (overlap \/ \E k \in Job \ {j} : job[k].pc # "idle")
    /\ UNCHANGED <<now, raw, sampledAt, inserting, counted, picked, pruned, bucket>>

\* The SELECT under the INSERT.
Aggregate(j) ==
    /\ job[j].pc = "aggregate"
    /\ picked' = [picked EXCEPT ![j] = Old(j)]
    /\ Step(j, IF Old(j) = {} THEN "prune" ELSE "upsert")
    /\ UNCHANGED <<now, raw, sampledAt, inserting, counted, pruned, bucket, overlap>>

\* The INSERT proceeds once no other transaction has the bucket.
Upsert(j) ==
    /\ job[j].pc = "upsert"
    /\ bucket = NoJob
    /\ bucket' = j
    /\ Step(j, "prune")
    /\ UNCHANGED <<now, raw, sampledAt, inserting, counted, picked, pruned, overlap>>

\* The DELETE, which waits for rows another transaction has deleted.
Prune(j) ==
    /\ job[j].pc = "prune"
    /\ \A k \in Job \ {j} : Expired(j) \cap pruned[k] = {}
    /\ pruned' = [pruned EXCEPT ![j] = Expired(j)]
    /\ Step(j, "commit")
    /\ UNCHANGED <<now, raw, sampledAt, inserting, counted, picked, bucket, overlap>>

\* The transaction ends and lets go of the bucket.
EndTx(j) ==
    /\ job' = [job EXCEPT ![j] = IdleJob]
    /\ picked' = [picked EXCEPT ![j] = {}]
    /\ pruned' = [pruned EXCEPT ![j] = {}]
    /\ bucket' = IF bucket = j THEN NoJob ELSE bucket
    /\ UNCHANGED <<now, sampledAt, inserting, overlap>>

Commit(j) ==
    /\ job[j].pc = "commit"
    /\ raw' = raw \ pruned[j]
    /\ counted' = [s \in Sample |->
                     IF s \in picked[j] THEN counted[s] + 1 ELSE counted[s]]
    /\ EndTx(j)

\* A statement fails or the process dies: everything is rolled back.
Rollback(j) ==
    /\ job[j].pc # "idle"
    /\ EndTx(j)
    /\ UNCHANGED <<raw, counted>>

RetentionNext ==
    \/ Tick
    \/ \E s \in Sample : Create(s) \/ CreateCommits(s) \/ CreateFails(s)
    \/ \E j \in Job : Begin(j) \/ Aggregate(j) \/ Upsert(j) \/ Prune(j)
                         \/ Commit(j) \/ Rollback(j)

-----------------------------------------------------------------------------
(* Properties.                                                             *)

\* Every sample recorded is still raw or counted in its bucket, across failed,
\* repeated and overlapping runs, with samples that grow old or are committed,
\* later than their stamp, during a run;
\* and it is not both, or counted twice, unless two jobs overlapped
\* (telemetry_retention.go Run: "never lose data that was pruned without
\* first being durably aggregated").
NoSampleLost ==
    \A s \in Created :
        /\ s \in raw \/ counted[s] > 0
        /\ ~overlap => counted[s] = IF s \in raw THEN 0 ELSE 1
=============================================================================
