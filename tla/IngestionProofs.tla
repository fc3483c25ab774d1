-------------------------- MODULE IngestionProofs --------------------------
(***************************************************************************)
(* Theorems about Ingestion, for any jobs, inputs, commits, attempts and   *)
(* any number of failing calls, pushes and process exits.                  *)
(*                                                                         *)
(* The invariant is proved per kind of step: one that rewrites the row and *)
(* the locals of a single handler (JobStep), one that inserts a model, and *)
(* the steps of queue, clients and environment.                            *)
(***************************************************************************)
EXTENDS Ingestion, TLAPS

\* What IngestInv says of one row, and of one handler over its row.
RowGood(n) ==
    /\ n.model \in 0..Len(models)
    /\ n.state = "cached" => n.model > 0
    /\ n.state = "failed" => n.error
    /\ n.state = "verifying" => n.bytes = "all"
    /\ n.state \in {"none", "queued"} => n.bytes = "zero" /\ ~n.error
    /\ moves = 0 /\ n.model > 0 => models[n.model].sha = upstream[Parse[n.input]]

RunKnows(r, n) ==
    /\ r.step = "verify" => n.bytes = "all"
    /\ r.step = "complete" => r.model \in 1..Len(models)
    /\ r.step = "ack" => n.state = "cached" \/ Parse[n.input] = Malformed
    /\ r.step = "reject" => Parse[n.input] = Malformed
    /\ r.step \in Parsed => Parse[n.input] # Malformed

RunFetched(r) ==
    /\ r.step \in Parsed \ {"revision", "fail"} => r.sha # NoCommit
    /\ r.step \in {"downloaded", "verify", "config", "license", "create"} => r.header # NoCommit
    /\ r.step \in {"license", "create"} => r.config # NoCommit

RunSame(r, n) ==
    moves = 0 =>
        /\ r.sha # NoCommit => r.sha = upstream[Parse[n.input]]
        /\ r.header # NoCommit => r.header = upstream[Parse[n.input]]
        /\ r.config # NoCommit => r.config = upstream[Parse[n.input]]
        /\ r.step = "complete" => models[r.model].sha = upstream[Parse[n.input]]

RunGood(r, n) == RunKnows(r, n) /\ RunFetched(r) /\ RunSame(r, n)

AllGood == \A j \in Jobs : RowGood(row[j]) /\ RunGood(run[j], row[j])

\* The invariant, job by job.
JobInv ==
    /\ TypeOK
    /\ AckedMeansDone
    /\ OneModelPerCommit
    /\ HeldWhileRun
    /\ AllGood

USE DEF Steps, RowStates, ClientStates, Fetched, At, RefOf, Queue!Statuses

\* The two forms of the invariant are the same.
LEMMA SameInv == JobInv <=> IngestInv
<1> USE DEF AllGood, RowGood, RunGood, RunKnows, RunFetched, RunSame
<1>1. AllGood <=> RowCoherent /\ LinkedToItsCommit /\ StepKnows /\ HasFetched /\ FetchedSame
  BY DEF RowCoherent, LinkedToItsCommit, StepKnows, HasFetched, FetchedSame
<1> QED
  BY <1>1 DEF JobInv, IngestInv

\* NoRun, a fresh run and the rows the statements write have their types.
LEMMA RecordTypes ==
    /\ NoRun \in Run /\ NoRun.step = "idle"
    /\ [NoRun EXCEPT !.step = "lookup"] \in Run
    /\ \A r \in Row :
         /\ \A b \in {"zero", "all"} : UpdateProgress(r, b) \in Row
         /\ \A s \in RowStates : UpdateState(r, s) \in Row
         /\ \A m \in Nat : Complete(r, m) \in Row
         /\ Fail(r) \in Row
  BY IngestionAssumption
  DEF NoRun, Run, Row, UpdateProgress, UpdateState, Complete, Fail

\* What each statement leaves in the columns.
LEMMA RowFields ==
    ASSUME NEW r \in Row
    PROVE  /\ \A b \in {"zero", "all"} :
                /\ UpdateProgress(r, b).state = "downloading" /\ UpdateProgress(r, b).bytes = b
                /\ UpdateProgress(r, b).input = r.input /\ UpdateProgress(r, b).model = r.model
           /\ \A s \in RowStates :
                /\ UpdateState(r, s).state = s /\ UpdateState(r, s).bytes = r.bytes
                /\ UpdateState(r, s).input = r.input /\ UpdateState(r, s).model = r.model
           /\ \A m \in Nat :
                /\ Complete(r, m).state = "cached" /\ Complete(r, m).model = m
                /\ Complete(r, m).input = r.input
           /\ Fail(r).state = "failed" /\ Fail(r).error /\ Fail(r).input = r.input
           /\ Fail(r).model = r.model
  BY DEF Row, UpdateProgress, UpdateState, Complete, Fail

\* Moving a handler to another step that asks for no new knowledge.
LEMMA StepGood ==
    ASSUME NEW r \in Run, NEW n, NEW m, NEW s \in Steps \ {"complete", "reject"},
           RunGood(r, n), m.input = n.input,
           s = "verify" => m.bytes = "all",
           s = "ack" => m.state = "cached" \/ Parse[m.input] = Malformed,
           s \in Parsed => r.step \in Parsed,
           s \in Parsed \ {"revision", "fail"} => r.sha # NoCommit,
           s \in {"downloaded", "verify", "config", "license", "create"} => r.header # NoCommit,
           s \in {"license", "create"} => r.config # NoCommit
    PROVE  [r EXCEPT !.step = s] \in Run /\ RunGood([r EXCEPT !.step = s], m)
<1> DEFINE t == [r EXCEPT !.step = s]
<1>1. t \in Run /\ t.step = s /\ t.sha = r.sha /\ t.header = r.header /\ t.config = r.config
  BY DEF Run
<1> HIDE DEF t
<1>2. RunGood(t, m)
  BY <1>1 DEF RunGood, RunKnows, RunFetched, RunSame
<1> QED
  BY <1>1, <1>2 DEF t

\* A handler in the middle of its job rewrites its own row and locals.
LEMMA JobStep ==
    ASSUME JobInv, NEW j \in Jobs, NEW n \in Row, NEW r \in Run,
           row' = [row EXCEPT ![j] = n], run' = [run EXCEPT ![j] = r],
           UNCHANGED <<queue, client, models, upstream, moves>>,
           faults' \in Nat, outages' \in Nat, crashes' \in Nat,
           run[j].step # "idle", n.input = row[j].input, n.state # "none" \/ n = row[j],
           RowGood(n), RunGood(r, n)
    PROVE  JobInv'
<1> USE DEF JobInv
<1>1. TypeOK'
  BY DEF TypeOK, queue
<1>2. status[j] = "held"
  BY DEF HeldWhileRun
<1>3. AckedMeansDone'
  BY <1>2 DEF AckedMeansDone, TypeOK, queue
<1>4. OneModelPerCommit'
  BY DEF OneModelPerCommit
<1>5. HeldWhileRun'
  BY <1>2 DEF HeldWhileRun, TypeOK, queue
<1>6. AllGood'
  <2>1. \A k \in Jobs : row'[k] = IF k = j THEN n ELSE row[k]
    BY DEF TypeOK
  <2>2. \A k \in Jobs : run'[k] = IF k = j THEN r ELSE run[k]
    BY DEF TypeOK
  <2> QED
    BY <2>1, <2>2 DEF AllGood, RowGood, RunGood, RunKnows, RunFetched, RunSame
<1> QED
  BY <1>1, <1>3, <1>4, <1>5, <1>6

\* An UPDATE of the handler's row, executed or not, error or not.
LEMMA UpdateStep ==
    ASSUME JobInv, NEW j \in Jobs, NEW n \in Row, NEW ok \in Steps, NEW err \in {"nack", "ack"},
           Update(j, n, ok, err),
           run[j].step # "idle", n.input = row[j].input, n.state # "none",
           RowGood(n),
           RunGood([run[j] EXCEPT !.step = ok], n),
           err = "ack" => Parse[n.input] = Malformed
    PROVE  JobInv'
<1> DEFINE Ok == [run[j] EXCEPT !.step = ok]
           Err == [run[j] EXCEPT !.step = err]
<1>1. Ok \in Run /\ Err \in Run /\ row[j] \in Row
  BY DEF JobInv, TypeOK, Run
<1>2. RunGood(Err, n) /\ RunGood(Err, row[j]) /\ RowGood(row[j])
  BY <1>1 DEF JobInv, AllGood, RunGood, RunKnows, RunFetched, RunSame, Parsed, Run
<1>3. UNCHANGED <<queue, client, models, upstream, moves>>
  BY DEF Update, Fault, trouble
<1>4. faults' \in Nat /\ outages' \in Nat /\ crashes' \in Nat
  BY DEF Update, Fault, trouble, JobInv, TypeOK
<1>5. run' = [run EXCEPT ![j] = Ok] \/ run' = [run EXCEPT ![j] = Err]
  BY DEF Update, Goto
<1>6. CASE row' = [row EXCEPT ![j] = n]
  <2>1. CASE run' = [run EXCEPT ![j] = Ok]
    BY <1>1, <1>3, <1>4, <1>6, <2>1, JobStep
  <2>2. CASE run' = [run EXCEPT ![j] = Err]
    BY <1>1, <1>2, <1>3, <1>4, <1>6, <2>2, JobStep
  <2> QED
    BY <1>5, <2>1, <2>2
<1>7. CASE row' = row /\ run' = [run EXCEPT ![j] = Err]
  <2>1. row' = [row EXCEPT ![j] = row[j]]
    BY <1>7 DEF JobInv, TypeOK
  <2> QED
    BY <1>1, <1>2, <1>3, <1>4, <1>7, <2>1, JobStep
<1> QED
  BY <1>6, <1>7 DEF Update, Goto

\* A step that only moves the locals of one handler.
LEMMA LocalStep ==
    ASSUME JobInv, NEW j \in Jobs, NEW r \in Run, run' = [run EXCEPT ![j] = r],
           UNCHANGED <<queue, client, tables, upstream, moves>>,
           faults' \in Nat, outages' \in Nat, crashes' \in Nat,
           run[j].step # "idle", RunGood(r, row[j])
    PROVE  JobInv'
<1>1. row' = [row EXCEPT ![j] = row[j]] /\ row[j] \in Row
  BY DEF JobInv, TypeOK, tables
<1>2. RowGood(row[j])
  BY DEF JobInv, AllGood
<1>3. UNCHANGED models
  BY DEF tables
<1> QED
  BY <1>1, <1>2, <1>3, JobStep

\* A read or an upstream request that fails moves the handler to nack or fail.
LEMMA ErrorStep ==
    ASSUME JobInv, NEW j \in Jobs, NEW err \in {"nack", "fail"}, Goto(j, err),
           Fault \/ Outage, UNCHANGED <<queue, client, tables, upstream>>,
           run[j].step # "idle", err = "fail" => run[j].step \in Parsed
    PROVE  JobInv'
<1> DEFINE Err == [run[j] EXCEPT !.step = err]
<1>1. Err \in Run /\ row[j] \in Row
  BY DEF JobInv, TypeOK, Run
<1>2. RunGood(Err, row[j])
  BY <1>1 DEF JobInv, AllGood, RunGood, RunKnows, RunFetched, RunSame, Parsed, Run
<1>3. UNCHANGED moves /\ faults' \in Nat /\ outages' \in Nat /\ crashes' \in Nat
  BY DEF Fault, Outage, JobInv, TypeOK
<1>4. run' = [run EXCEPT ![j] = Err]
  BY DEF Goto
<1> QED
  BY <1>1, <1>2, <1>3, <1>4, LocalStep

\* The same for a reply that arrives.
LEMMA ReplyStep ==
    ASSUME JobInv, NEW j \in Jobs, NEW r \in Run, run' = [run EXCEPT ![j] = r],
           UNCHANGED trouble, UNCHANGED <<queue, client, tables, upstream>>,
           run[j].step # "idle", RunGood(r, row[j])
    PROVE  JobInv'
<1>1. UNCHANGED moves /\ faults' \in Nat /\ outages' \in Nat /\ crashes' \in Nat
  BY DEF trouble, JobInv, TypeOK
<1> QED
  BY <1>1, LocalStep

\* The INSERT of a model whose digest is new.
LEMMA InsertStep ==
    ASSUME JobInv, NEW j \in Jobs, run[j].step = "create",
           models' = Append(models, NewModel(j)), WithSHA(run[j].sha) = {},
           run' = [run EXCEPT ![j].step = "complete", ![j].model = Len(models) + 1]
             \/ run' = [run EXCEPT ![j].step = "fail"],
           UNCHANGED <<queue, client, row, upstream, moves>>,
           faults' \in Nat, outages' \in Nat, crashes' \in Nat
    PROVE  JobInv'
<1> DEFINE m == NewModel(j)
<1> USE DEF JobInv
<1>1. m \in Model
  <2>1. row[j] \in Row /\ run[j] \in Run
    BY DEF TypeOK
  <2>2. RefOf(j) \in Refs
    BY <2>1, IngestionAssumption DEF AllGood, RunGood, RunKnows, Parsed, Row
  <2>3. run[j].sha \in Commits /\ run[j].header \in Commits /\ run[j].config \in Commits
    BY <2>1 DEF AllGood, RunGood, RunFetched, Parsed, Run
  <2> QED
    BY <2>2, <2>3 DEF NewModel, Model
<1>2. /\ models' \in Seq(Model)
      /\ Len(models') = Len(models) + 1
      /\ Len(models) \in Nat
      /\ DOMAIN models = 1..Len(models)
      /\ DOMAIN models' = 1..(Len(models) + 1)
      /\ \A i \in 1..Len(models) : models'[i] = models[i]
      /\ models'[Len(models) + 1] = m
  BY <1>1 DEF TypeOK
<1>3. run' \in [Jobs -> Run]
  <2>1. run[j] \in Run /\ Len(models) + 1 \in Nat
    BY <1>2 DEF TypeOK
  <2>2. /\ [run[j] EXCEPT !.step = "complete", !.model = Len(models) + 1] \in Run
        /\ [run[j] EXCEPT !.step = "fail"] \in Run
    BY <2>1 DEF Run
  <2>3. \/ run' = [run EXCEPT ![j] = [run[j] EXCEPT !.step = "complete", !.model = Len(models) + 1]]
        \/ run' = [run EXCEPT ![j] = [run[j] EXCEPT !.step = "fail"]]
    OBVIOUS
  <2> QED
    BY <2>2, <2>3 DEF TypeOK
<1>4. TypeOK'
  BY <1>2, <1>3 DEF TypeOK, queue
<1>5. AckedMeansDone'
  BY DEF AckedMeansDone, queue
<1>6. OneModelPerCommit'
  <2>1. \A i \in 1..Len(models) : models[i].sha # m.sha
    BY <1>2 DEF WithSHA, NewModel
  <2>2. moves = 0 => m.header = m.sha /\ m.config = m.sha
    BY DEF AllGood, RunGood, RunSame, RunFetched, Parsed, NewModel
  <2> QED
    BY <1>2, <2>1, <2>2 DEF OneModelPerCommit
<1>7. HeldWhileRun'
  BY DEF HeldWhileRun, TypeOK, queue
<1>8. ASSUME NEW k \in Jobs PROVE RowGood(row[k])'
  BY <1>2 DEF AllGood, RowGood, TypeOK
<1>9. ASSUME NEW k \in Jobs, k # j PROVE RunGood(run[k], row[k])'
  <2>1. run'[k] = run[k]
    BY <1>9 DEF TypeOK
  <2> QED
    BY <1>2, <1>9, <2>1 DEF AllGood, RunGood, RunKnows, RunFetched, RunSame, TypeOK
<1>10. RunGood(run[j], row[j])'
  <2>1. run[j] \in Run /\ m.sha = run[j].sha
    BY DEF TypeOK, NewModel
  <2>2. /\ run'[j].step \in {"complete", "fail"}
        /\ run'[j].step = "complete" => run'[j].model = Len(models) + 1
        /\ run'[j].sha = run[j].sha /\ run'[j].header = run[j].header
        /\ run'[j].config = run[j].config
    BY <2>1 DEF TypeOK, Run
  <2>3. RunGood(run[j], row[j])
    BY DEF AllGood
  <2> QED
    BY <1>2, <2>1, <2>2, <2>3 DEF RunGood, RunKnows, RunFetched, RunSame, Parsed
<1> QED
  BY <1>4, <1>5, <1>6, <1>7, <1>8, <1>9, <1>10 DEF AllGood

-----------------------------------------------------------------------------
\* Every database, upstream and local step of a handler keeps the invariant.
LEMMA OrchestratorStep ==
    ASSUME JobInv, NEW j \in Jobs,
           \/ LookUp(j) \/ Reject(j)
           \/ FetchRevisionSHA(j) \/ FetchFileTree(j) \/ FindExistingArtifact(j)
           \/ RecordDownloadStart(j) \/ FetchHeader(j) \/ RecordDownloadComplete(j)
           \/ EnterVerifying(j) \/ FetchConfig(j) \/ FetchLicense(j) \/ CreateModel(j)
           \/ CompleteJob(j) \/ FailJob(j)
    PROVE  JobInv'
<1>0. row[j] \in Row /\ run[j] \in Run /\ RowGood(row[j]) /\ RunGood(run[j], row[j])
  BY DEF JobInv, TypeOK, AllGood
<1>h. RefOf(j) # Malformed => RefOf(j) \in Refs /\ upstream[RefOf(j)] \in Commits
  BY <1>0, IngestionAssumption DEF JobInv, TypeOK, Row
<1>l. Len(models) \in Nat /\ DOMAIN models = 1..Len(models)
  BY DEF JobInv, TypeOK
<1> USE DEF RunGood, RunKnows, RunFetched, RunSame, Parsed
<1>1. CASE LookUp(j)
  <2>1. CASE Goto(j, "nack") /\ Fault
    BY <1>1, <2>1, ErrorStep DEF LookUp, Read
  <2>2. CASE Goto(j, IF RefOf(j) = Malformed THEN "reject" ELSE "revision") /\ UNCHANGED trouble
    <3> DEFINE r == [run[j] EXCEPT !.step = IF RefOf(j) = Malformed THEN "reject" ELSE "revision"]
    <3>1. r \in Run /\ RunGood(r, row[j])
      BY <1>0 DEF Run
    <3>2. run' = [run EXCEPT ![j] = r]
      BY <2>2 DEF Goto
    <3>3. run[j].step # "idle" /\ UNCHANGED <<queue, client, tables, upstream>>
      BY <1>1 DEF LookUp, Read
    <3> HIDE DEF r
    <3> QED
      BY <2>2, <3>1, <3>2, <3>3, ReplyStep
  <2> QED
    BY <1>1, <2>1, <2>2 DEF LookUp, Read
<1>2. CASE FetchRevisionSHA(j)
  <2> DEFINE r == [run[j] EXCEPT !.step = "tree", !.sha = upstream[RefOf(j)]]
  <2>1. r \in Run /\ RunGood(r, row[j])
    BY <1>0, <1>h, <1>2, IngestionAssumption DEF Run, FetchRevisionSHA
  <2>2. CASE Goto(j, "fail") /\ Outage
    BY <1>2, <2>2, ErrorStep DEF FetchRevisionSHA, Fetch
  <2>3. CASE run' = [run EXCEPT ![j] = r] /\ UNCHANGED trouble
    BY <1>2, <2>1, <2>3, ReplyStep DEF FetchRevisionSHA, Fetch
  <2> QED
    BY <1>2, <2>2, <2>3 DEF FetchRevisionSHA, Fetch
<1>3. CASE FetchFileTree(j)
  <2> DEFINE t == upstream[RefOf(j)]
             r == [run[j] EXCEPT !.tree = t, !.step = IF EnforceQuota(t) THEN "dedup" ELSE "fail"]
  <2>1. r \in Run /\ RunGood(r, row[j])
    BY <1>0, <1>h, <1>3 DEF Run, FetchFileTree
  <2>2. CASE Goto(j, "fail") /\ Outage
    BY <1>3, <2>2, ErrorStep DEF FetchFileTree, Fetch
  <2>3. CASE run' = [run EXCEPT ![j] = r] /\ UNCHANGED trouble
    <3>1. run[j].step # "idle" /\ UNCHANGED <<queue, client, tables, upstream>>
      BY <1>3 DEF FetchFileTree, Fetch
    <3> HIDE DEF r
    <3> QED
      BY <2>1, <2>3, <3>1, ReplyStep
  <2> QED
    BY <1>3, <2>2, <2>3 DEF FetchFileTree, Fetch
<1>4. CASE FetchHeader(j)
  <2> DEFINE r == [run[j] EXCEPT !.step = "downloaded", !.header = upstream[RefOf(j)]]
  <2>1. r \in Run /\ RunGood(r, row[j])
    BY <1>0, <1>h, <1>4, IngestionAssumption DEF Run, FetchHeader
  <2>2. CASE Goto(j, "fail") /\ Outage
    BY <1>4, <2>2, ErrorStep DEF FetchHeader, Fetch
  <2>3. CASE run' = [run EXCEPT ![j] = r] /\ UNCHANGED trouble
    BY <1>4, <2>1, <2>3, ReplyStep DEF FetchHeader, Fetch
  <2> QED
    BY <1>4, <2>2, <2>3 DEF FetchHeader, Fetch
<1>5. CASE FetchConfig(j)
  <2> DEFINE r == [run[j] EXCEPT !.step = "license", !.config = upstream[RefOf(j)]]
  <2>1. r \in Run /\ RunGood(r, row[j])
    BY <1>0, <1>h, <1>5, IngestionAssumption DEF Run, FetchConfig
  <2>2. CASE Goto(j, "fail") /\ Outage
    BY <1>5, <2>2, ErrorStep DEF FetchConfig, Fetch
  <2>3. CASE run' = [run EXCEPT ![j] = r] /\ UNCHANGED trouble
    BY <1>5, <2>1, <2>3, ReplyStep DEF FetchConfig, Fetch
  <2> QED
    BY <1>5, <2>2, <2>3 DEF FetchConfig, Fetch
<1>5a. CASE FetchLicense(j)
  <2> DEFINE r == [run[j] EXCEPT !.step = "create"]
  <2>1. r \in Run /\ RunGood(r, row[j])
    BY <1>0, <1>5a DEF Run, FetchLicense
  <2>2. CASE Goto(j, "fail") /\ Outage
    BY <1>5a, <2>2, ErrorStep DEF FetchLicense, Fetch
  <2>3. CASE run' = [run EXCEPT ![j] = r] /\ UNCHANGED trouble
    BY <1>5a, <2>1, <2>3, ReplyStep DEF FetchLicense, Fetch
  <2> QED
    BY <1>5a, <2>2, <2>3 DEF FetchLicense, Fetch, Goto
<1>6. CASE FindExistingArtifact(j)
  <2>1. CASE Goto(j, "fail") /\ Fault
    BY <1>6, <2>1, ErrorStep DEF FindExistingArtifact, Read
  <2>2. ASSUME NEW i \in WithSHA(run[j].sha), UNCHANGED trouble,
               run' = [run EXCEPT ![j].step = "complete", ![j].model = i]
        PROVE  JobInv'
    <3> DEFINE r == [run[j] EXCEPT !.step = "complete", !.model = i]
    <3>1. i \in 1..Len(models) /\ models[i].sha = run[j].sha
      BY <1>l DEF WithSHA
    <3>2. i \in Nat /\ run[j] \in Run
      BY <1>0, <1>l, <3>1
    <3>5. /\ r \in Run /\ r.step = "complete" /\ r.model = i
          /\ r.sha = run[j].sha /\ r.header = run[j].header /\ r.config = run[j].config
      BY ONLY <3>2 DEF Run, Steps, Fetched
    <3>3. run[j].step = "dedup"
      BY <1>6 DEF FindExistingArtifact
    <3> HIDE DEF r
    <3>4. RunGood(r, row[j])
      BY <1>0, <1>l, <3>1, <3>5, <3>3
    <3>6. run' = [run EXCEPT ![j] = r]
      BY <2>2 DEF r
    <3>7. UNCHANGED <<queue, client, tables, upstream>>
      BY <1>6 DEF FindExistingArtifact, Read
    <3> QED
      BY <2>2, <3>3, <3>4, <3>5, <3>6, <3>7, ReplyStep
  <2>3. CASE /\ Goto(j, IF findWeightFile(run[j].tree) THEN "begin" ELSE "fail")
             /\ UNCHANGED trouble
    <3> DEFINE r == [run[j] EXCEPT !.step = IF findWeightFile(run[j].tree) THEN "begin" ELSE "fail"]
    <3>1. r \in Run /\ RunGood(r, row[j])
      BY <1>0, <1>6 DEF Run, FindExistingArtifact
    <3>2. run' = [run EXCEPT ![j] = r]
      BY <2>3 DEF Goto
    <3>3. run[j].step # "idle" /\ UNCHANGED <<queue, client, tables, upstream>>
      BY <1>6 DEF FindExistingArtifact, Read
    <3> HIDE DEF r
    <3> QED
      BY <2>3, <3>1, <3>2, <3>3, ReplyStep
  <2> QED
    BY <1>6, <2>1, <2>2, <2>3 DEF FindExistingArtifact, Read
<1> HIDE DEF RunGood
<1>7. CASE Reject(j)
  <2> DEFINE n == Fail(row[j])
  <2>1. n \in Row /\ n.input = row[j].input /\ n.state # "none" /\ n.state = "failed"
    BY <1>0, RecordTypes, RowFields
  <2>2. RowGood(n)
    BY <1>0, RowFields DEF RowGood
  <2>3. run[j].step = "reject" /\ Parse[n.input] = Malformed
    BY <1>0, <1>7, <2>1 DEF Reject, RunGood
  <2>4. RunGood([run[j] EXCEPT !.step = "ack"], n)
    BY <1>0, <2>1, <2>3, StepGood
  <2>5. Update(j, n, "ack", "ack")
    BY <1>7 DEF Reject
  <2> HIDE DEF n
  <2> QED
    BY <2>1, <2>2, <2>3, <2>4, <2>5, UpdateStep
<1>8. CASE RecordDownloadStart(j)
  <2> DEFINE n == UpdateProgress(row[j], "zero")
  <2>1. n \in Row /\ n.input = row[j].input /\ n.state = "downloading"
    BY <1>0, RecordTypes, RowFields
  <2>2. RowGood(n)
    BY <1>0, RowFields DEF RowGood
  <2>k. run[j].step = "begin"
    BY <1>8 DEF RecordDownloadStart
  <2>3. RunGood([run[j] EXCEPT !.step = "header"], n)
    BY <1>0, <2>1, <2>k, StepGood DEF RunGood
  <2>4. Update(j, n, "header", "nack")
    BY <1>8 DEF RecordDownloadStart
  <2> HIDE DEF n
  <2> QED
    BY <2>1, <2>2, <2>3, <2>4, <2>k, UpdateStep
<1>9. CASE RecordDownloadComplete(j)
  <2> DEFINE n == UpdateProgress(row[j], "all")
  <2>1. n \in Row /\ n.input = row[j].input /\ n.state = "downloading" /\ n.bytes = "all"
    BY <1>0, RecordTypes, RowFields
  <2>2. RowGood(n)
    BY <1>0, RowFields DEF RowGood
  <2>k. run[j].step = "downloaded"
    BY <1>9 DEF RecordDownloadComplete
  <2>3. RunGood([run[j] EXCEPT !.step = "verify"], n)
    BY <1>0, <2>1, <2>k, StepGood DEF RunGood
  <2>4. Update(j, n, "verify", "nack")
    BY <1>9 DEF RecordDownloadComplete
  <2> HIDE DEF n
  <2> QED
    BY <2>1, <2>2, <2>3, <2>4, <2>k, UpdateStep
<1>10. CASE EnterVerifying(j)
  <2> DEFINE n == UpdateState(row[j], "verifying")
  <2>1. n \in Row /\ n.input = row[j].input /\ n.state = "verifying" /\ n.bytes = row[j].bytes
    BY <1>0, RecordTypes, RowFields
  <2>2. run[j].step = "verify" /\ row[j].bytes = "all"
    BY <1>0, <1>10 DEF EnterVerifying, RunGood
  <2>3. RowGood(n)
    BY <1>0, <2>1, <2>2, RowFields DEF RowGood
  <2>4. RunGood([run[j] EXCEPT !.step = "config"], n)
    BY <1>0, <2>1, <2>2, StepGood DEF RunGood
  <2>5. Update(j, n, "config", "nack")
    BY <1>10 DEF EnterVerifying
  <2> HIDE DEF n
  <2> QED
    BY <2>1, <2>2, <2>3, <2>4, <2>5, UpdateStep
<1>11. CASE CompleteJob(j)
  <2> DEFINE n == Complete(row[j], run[j].model)
  <2>1. run[j].step = "complete" /\ run[j].model \in 1..Len(models) /\ run[j].model \in Nat
    BY <1>0, <1>l, <1>11 DEF CompleteJob, RunGood, Run
  <2>2. n \in Row /\ n.input = row[j].input /\ n.state = "cached" /\ n.model = run[j].model
    <3>1. /\ \A m \in Nat : Complete(row[j], m) \in Row
          /\ \A m \in Nat :
               /\ Complete(row[j], m).state = "cached" /\ Complete(row[j], m).model = m
               /\ Complete(row[j], m).input = row[j].input
      <4>0. row[j] \in Row
        BY <1>0
      <4>1. \A m \in Nat : Complete(row[j], m) \in Row
        BY <4>0, RecordTypes
      <4>2. \A m \in Nat :
               /\ Complete(row[j], m).state = "cached" /\ Complete(row[j], m).model = m
               /\ Complete(row[j], m).input = row[j].input
        BY ONLY <4>0, RowFields
      <4> QED
        BY <4>1, <4>2
    <3> HIDE DEF n
    <3> DEFINE m0 == run[j].model
    <3>2. m0 \in Nat /\ n = Complete(row[j], m0)
      BY <2>1 DEF n
    <3> HIDE DEF m0
    <3>3. n \in Row /\ n.input = row[j].input /\ n.state = "cached" /\ n.model = m0
      BY <3>1, <3>2
    <3> QED
      BY <3>3 DEF m0
  <2>5. Update(j, n, "ack", "nack")
    BY <1>11 DEF CompleteJob
  <2> HIDE DEF n
  <2>6. moves = 0 => models[run[j].model].sha = upstream[Parse[row[j].input]]
    BY <1>0, <2>1 DEF RunGood
  <2>3. RowGood(n)
    BY <1>l, <2>1, <2>2, <2>6 DEF RowGood
  <2>4. RunGood([run[j] EXCEPT !.step = "ack"], n)
    BY <1>0, <2>1, <2>2, StepGood DEF RunGood
  <2> QED
    BY <2>1, <2>2, <2>3, <2>4, <2>5, UpdateStep
<1>12. CASE FailJob(j)
  <2> DEFINE n == Fail(row[j])
  <2>1. n \in Row /\ n.input = row[j].input /\ n.state = "failed"
    BY <1>0, RecordTypes, RowFields
  <2>2. RowGood(n)
    BY <1>0, RowFields DEF RowGood
  <2>k. run[j].step = "fail"
    BY <1>12 DEF FailJob
  <2>3. RunGood([run[j] EXCEPT !.step = "nack"], n)
    BY <1>0, <2>1, <2>k, StepGood DEF RunGood
  <2>4. Update(j, n, "nack", "nack")
    BY <1>12 DEF FailJob
  <2> HIDE DEF n
  <2> QED
    BY <2>1, <2>2, <2>3, <2>4, <2>k, UpdateStep
<1>13. CASE CreateModel(j)
  <2>1. run[j].step = "create"
    BY <1>13 DEF CreateModel
  <2>2. UNCHANGED moves /\ faults' \in Nat /\ outages' \in Nat /\ crashes' \in Nat
    BY <1>13 DEF CreateModel, InsertModel, trouble, Fault, JobInv, TypeOK
  <2>3. UNCHANGED <<queue, client, row, upstream>>
    BY <1>13 DEF CreateModel, InsertModel
  <2>4. CASE models' = models /\ Goto(j, "fail")
    <3> DEFINE r == [run[j] EXCEPT !.step = "fail"]
    <3>1. r \in Run /\ RunGood(r, row[j])
      BY <1>0, <2>1, StepGood
    <3>2. run' = [run EXCEPT ![j] = r] /\ UNCHANGED tables
      BY <2>3, <2>4 DEF Goto, tables
    <3> HIDE DEF r
    <3> QED
      BY <2>1, <2>2, <2>3, <3>1, <3>2, LocalStep
  <2>5. CASE models' = Append(models, NewModel(j)) /\ WithSHA(run[j].sha) = {}
    <3>1. \/ run' = [run EXCEPT ![j].step = "complete", ![j].model = Len(models) + 1]
          \/ run' = [run EXCEPT ![j].step = "fail"]
      BY <1>13 DEF CreateModel, InsertModel, Goto
    <3> QED
      BY <2>1, <2>2, <2>3, <2>5, <3>1, InsertStep
  <2> QED
    BY <1>13, <2>4, <2>5 DEF CreateModel, InsertModel
<1> QED
  BY <1>1, <1>2, <1>3, <1>4, <1>5, <1>5a, <1>6, <1>7, <1>8, <1>9, <1>10, <1>11, <1>12, <1>13

-----------------------------------------------------------------------------
\* A step that leaves the tables, the upstream and the handlers' locals alone.
LEMMA FrameAllGood ==
    ASSUME JobInv, UNCHANGED <<tables, upstream, moves>>,
           \A k \in Jobs : run'[k] = run[k] \/ RunGood(run'[k], row[k])
    PROVE  AllGood'
<1>1. UNCHANGED <<row, models>>
  BY DEF tables
<1> QED
  BY <1>1 DEF JobInv, AllGood, RowGood, RunGood, RunKnows, RunFetched, RunSame

\* A handler that has not started or is over knows nothing.
LEMMA IdleGood ==
    ASSUME NEW n PROVE RunGood(NoRun, n) /\ RunGood([NoRun EXCEPT !.step = "lookup"], n)
  BY DEF NoRun, RunGood, RunKnows, RunFetched, RunSame, Parsed

\* POST /v1/ingestions.
LEMMA ClientStep ==
    ASSUME JobInv, NEW j \in Jobs, CreateRow(j) \/ Dispatch(j) PROVE JobInv'
<1> USE DEF JobInv
<1>1. CASE CreateRow(j)
  <2> DEFINE n == [row[j] EXCEPT !.state = "queued"]
  <2>1. row[j] \in Row /\ status[j] = "unsent" /\ row[j].state = "none" /\ RowGood(row[j])
    BY <1>1 DEF TypeOK, HeldWhileRun, AllGood, CreateRow
  <2>2. /\ n \in Row /\ n.state = "queued" /\ n.input = row[j].input /\ n.model = 0
        /\ n.bytes = "zero" /\ ~n.error
    BY <1>1, <2>1 DEF Row, HeldWhileRun, CreateRow
  <2>3. row' = row \/ row' = [row EXCEPT ![j] = n]
    BY <1>1 DEF CreateRow
  <2>4. /\ UNCHANGED <<queue, models, run, upstream, moves>>
        /\ faults' \in Nat /\ outages' \in Nat /\ crashes' \in Nat
    BY <1>1 DEF CreateRow, Fault, trouble, TypeOK
  <2>5. client' \in [Jobs -> ClientStates]
    BY <1>1 DEF CreateRow, TypeOK
  <2>6. /\ \A k \in Jobs \ {j} : client'[k] = client[k]
        /\ client'[j] \in {"created", "failed"}
    BY <1>1 DEF CreateRow, TypeOK
  <2> HIDE DEF n
  <2>7. /\ \A k \in Jobs \ {j} : row'[k] = row[k]
        /\ row'[j] = row[j] \/ row'[j] = n
        /\ row' \in [Jobs -> Row]
    BY <2>1, <2>2, <2>3 DEF TypeOK
  <2>8. TypeOK'
    BY <2>4, <2>5, <2>7 DEF TypeOK, queue
  <2>9. AckedMeansDone'
    BY <2>1, <2>4, <2>7 DEF AckedMeansDone, queue
  <2>10. OneModelPerCommit'
    BY <2>4 DEF OneModelPerCommit
  <2>11. HeldWhileRun'
    BY <2>1, <2>2, <2>4, <2>6, <2>7 DEF HeldWhileRun, queue
  <2>12. RowGood(n)
    BY <2>1, <2>2 DEF RowGood, TypeOK
  <2>13. ASSUME NEW k \in Jobs PROVE RowGood(row[k])'
    BY <2>1, <2>4, <2>7, <2>12 DEF RowGood, AllGood
  <2>14. run[j].step = "idle"
    BY <2>1 DEF HeldWhileRun
  <2>15. ASSUME NEW k \in Jobs PROVE RunGood(run[k], row[k])'
    <3>1. RunGood(run[k], row[k]) /\ row'[k].input = row[k].input
      BY <2>2, <2>7 DEF AllGood
    <3> QED
      BY <2>4, <2>7, <2>14, <3>1 DEF RunGood, RunKnows, RunFetched, RunSame, Parsed
  <2> QED
    BY <2>8, <2>9, <2>10, <2>11, <2>13, <2>15 DEF AllGood
<1>2. CASE Dispatch(j)
  <2>1. /\ UNCHANGED <<tables, run, upstream, moves>>
        /\ faults' \in Nat /\ outages' \in Nat /\ crashes' \in Nat
    BY <1>2 DEF Dispatch, Fault, trouble, TypeOK
  <2>2. status' = status \/ status' = [status EXCEPT ![j] = "waiting"]
    BY <1>2 DEF Dispatch, Queue!Send, Queue!Move, queue
  <2>3. tries' = tries /\ status[j] = "unsent"
    BY <1>2 DEF Dispatch, Queue!Send, queue, HeldWhileRun
  <2>4. client' = [client EXCEPT ![j] = "done"] \/ client' = [client EXCEPT ![j] = "failed"]
    BY <1>2 DEF Dispatch
  <2>5. TypeOK'
    BY <2>1, <2>2, <2>3, <2>4 DEF TypeOK, tables
  <2>6. AckedMeansDone'
    BY <2>1, <2>2, <2>3 DEF AckedMeansDone, tables, TypeOK
  <2>7. OneModelPerCommit'
    BY <2>1 DEF OneModelPerCommit, tables
  <2>8. HeldWhileRun'
    BY <2>1, <2>2, <2>3, <2>4 DEF HeldWhileRun, tables, TypeOK
  <2>9. AllGood'
    BY <2>1, FrameAllGood
  <2> QED
    BY <2>5, <2>6, <2>7, <2>8, <2>9
<1> QED
  BY <1>1, <1>2

\* A step of the queue that starts, ends or takes back the work on a job.
LEMMA QueueStep ==
    ASSUME JobInv, NEW j \in Jobs, Deliver(j) \/ Ack(j) \/ Nack(j) \/ Reap(j)
    PROVE  JobInv'
<1> USE DEF JobInv
<1>1. /\ UNCHANGED <<client, tables, upstream, moves>>
      /\ faults' \in Nat /\ outages' \in Nat /\ crashes' \in Nat
  BY DEF Deliver, Ack, Nack, Reap, Settling, Fault, trouble, TypeOK
<1>2. PICK s \in Queue!Statuses : status' = [status EXCEPT ![j] = s]
  <2>1. CASE status' = status
    BY <2>1 DEF TypeOK
  <2>2. CASE status' # status
    BY <2>2 DEF Deliver, Ack, Nack, Reap, Settling, NackScript, Queue!Deliver, Queue!Settle,
                Queue!Return, Queue!Bury, Queue!Move, queue
  <2> QED
    BY <2>1, <2>2
<1>3. tries' \in [Jobs -> Nat]
  <2>1. tries \in [Jobs -> Nat] /\ tries[j] \in Nat
    BY DEF TypeOK
  <2>2. \/ tries' = tries
        \/ tries' = [tries EXCEPT ![j] = 0]
        \/ tries' = [tries EXCEPT ![j] = tries[j] + 1]
    BY DEF Deliver, Ack, Nack, Reap, Settling, NackScript, Queue!Deliver, Queue!Settle,
           Queue!Return, Queue!Bury, queue
  <2> QED
    BY ONLY <2>1, <2>2
<1>4. /\ s # "unsent" /\ status[j] # "unsent"
      /\ s = "acked" => row[j].state = "cached" \/ RefOf(j) = Malformed
  <2>1. CASE Ack(j)
    <3>1. row[j].state = "cached" \/ RefOf(j) = Malformed
      BY <2>1 DEF Ack, AllGood, RunGood, RunKnows
    <3>2. status[j] = "held"
      BY <2>1 DEF Ack, HeldWhileRun
    <3>3. s \in {"acked", "held"}
      BY <1>2, <2>1, <3>2 DEF Ack, Settling, Queue!Settle, Queue!Move, queue, TypeOK
    <3> QED
      BY <3>1, <3>2, <3>3
  <2>2. CASE Nack(j) \/ Reap(j)
    <3>1. status[j] = "held"
      BY <2>2 DEF Nack, Reap, NackScript, Queue!Return, Queue!Bury, Queue!Move, HeldWhileRun
    <3>2. s \in {"waiting", "dead", "held"}
      BY <1>2, <2>2, <3>1 DEF Nack, Reap, Settling, NackScript, Queue!Return, Queue!Bury,
                              Queue!Move, queue, TypeOK
    <3> QED
      BY <3>1, <3>2
  <2>3. CASE Deliver(j)
    BY <1>2, <2>3 DEF Deliver, Queue!Deliver, Queue!Move, TypeOK
  <2> QED
    BY <2>1, <2>2, <2>3
<1>5. \/ run' = [run EXCEPT ![j] = NoRun]
      \/ run' = [run EXCEPT ![j] = [NoRun EXCEPT !.step = "lookup"]] /\ s = "held"
      \/ run' = run /\ run[j].step = "idle"
  BY <1>2 DEF Deliver, Ack, Nack, Reap, Settling, Queue!Deliver, Queue!Move, TypeOK
<1>6. TypeOK'
  BY <1>1, <1>2, <1>3, <1>5, RecordTypes DEF TypeOK, tables
<1>7. AckedMeansDone'
  BY <1>1, <1>2, <1>4 DEF AckedMeansDone, tables, TypeOK
<1>8. OneModelPerCommit'
  BY <1>1 DEF OneModelPerCommit, tables
<1>9. HeldWhileRun'
  BY <1>1, <1>2, <1>4, <1>5, RecordTypes DEF HeldWhileRun, tables, TypeOK
<1>10. AllGood'
  <2>1. \A k \in Jobs : run'[k] = run[k] \/ RunGood(run'[k], row[k])
    BY <1>5, IdleGood DEF TypeOK
  <2> QED
    BY <1>1, <2>1, FrameAllGood
<1> QED
  BY <1>6, <1>7, <1>8, <1>9, <1>10

\* The process exits, or a branch moves.
LEMMA EnvironmentStep ==
    ASSUME JobInv, Exit \/ \E r \in Refs, commit \in Commits : Push(r, commit)
    PROVE  JobInv'
<1> USE DEF JobInv
<1>1. CASE Exit
  <2>1. UNCHANGED <<queue, tables, upstream, moves>>
    BY <1>1 DEF Exit
  <2>2. TypeOK'
    BY <1>1, RecordTypes DEF Exit, TypeOK, queue, tables
  <2>3. AckedMeansDone'
    BY <2>1 DEF AckedMeansDone, queue, tables
  <2>4. OneModelPerCommit'
    BY <2>1 DEF OneModelPerCommit, tables
  <2>5. HeldWhileRun'
    BY <1>1, <2>1, RecordTypes DEF Exit, HeldWhileRun, queue, tables, TypeOK
  <2>6. AllGood'
    <3>1. \A k \in Jobs : run'[k] = run[k] \/ RunGood(run'[k], row[k])
      BY <1>1, IdleGood DEF Exit
    <3> QED
      BY <2>1, <3>1, FrameAllGood
  <2> QED
    BY <2>2, <2>3, <2>4, <2>5, <2>6
<1>2. ASSUME NEW r \in Refs, NEW commit \in Commits, Push(r, commit) PROVE JobInv'
  <2>1. moves' # 0 /\ UNCHANGED <<queue, client, row, models, run>>
    BY <1>2 DEF Push, TypeOK, tables
  <2>2. TypeOK'
    BY <1>2, <2>1 DEF Push, TypeOK, queue
  <2>3. AckedMeansDone' /\ OneModelPerCommit' /\ HeldWhileRun'
    BY <2>1 DEF AckedMeansDone, OneModelPerCommit, HeldWhileRun, queue
  <2>4. AllGood'
    BY <2>1 DEF AllGood, RowGood, RunGood, RunKnows, RunFetched, RunSame
  <2> QED
    BY <2>2, <2>3, <2>4
<1> QED
  BY <1>1, <1>2

-----------------------------------------------------------------------------
\* Initially no job is known to anybody.
LEMMA InitInv == Init => JobInv
<1> SUFFICES ASSUME Init PROVE JobInv
  OBVIOUS
<1>1. ASSUME NEW j \in Jobs
      PROVE  /\ row[j] \in Row /\ row[j].state = "none" /\ row[j].bytes = "zero"
             /\ row[j].error = FALSE /\ row[j].model = 0
  <2>1. PICK i \in Inputs : row[j] = [NewRow(i) EXCEPT !.state = "none"]
    BY <1>1 DEF Init
  <2>2. row[j] = [state |-> "none", input |-> i, bytes |-> "zero", error |-> FALSE, model |-> 0]
    BY <2>1 DEF NewRow
  <2>3. row[j] \in Row
    <3>1. ASSUME NEW b \in BOOLEAN
          PROVE  [state |-> "none", input |-> i, bytes |-> "zero", error |-> b, model |-> 0] \in Row
      BY <3>1 DEF Row
    <3> QED
      BY <2>2, <3>1, Zenon
  <2> QED
    BY <2>2, <2>3
<1>2. TypeOK
  <2>1. row \in [Jobs -> Row]
    BY <1>1 DEF Init
  <2>2. upstream \in [Refs -> Commits]
    BY IngestionAssumption DEF Init
  <2> QED
    BY <2>1, <2>2, RecordTypes DEF Init, TypeOK, Queue!Init
<1>3. AckedMeansDone /\ OneModelPerCommit
  BY DEF Init, Queue!Init, AckedMeansDone, OneModelPerCommit
<1>4. HeldWhileRun
  BY <1>1, RecordTypes DEF Init, Queue!Init, HeldWhileRun
<1>5. AllGood
  <2>0. Len(models) = 0
    BY DEF Init
  <2>1. ASSUME NEW j \in Jobs PROVE RowGood(row[j])
    <3> DEFINE n == row[j]
    <3>1. n.state = "none" /\ n.bytes = "zero" /\ n.error = FALSE /\ n.model = 0
      BY <1>1
    <3>2. ~n.error
      BY <3>1
    <3> HIDE DEF n
    <3> QED
      BY <2>0, <3>1, <3>2 DEF RowGood, n
  <2> QED
    BY <2>1, IdleGood DEF AllGood, Init
<1> QED
  BY <1>2, <1>3, <1>4, <1>5 DEF JobInv

\* Every step keeps the invariant.
LEMMA StepInv == JobInv /\ [Next]_vars => JobInv'
<1> SUFFICES ASSUME JobInv, [Next]_vars PROVE JobInv'
  OBVIOUS
<1>1. CASE UNCHANGED vars
  BY <1>1 DEF vars, queue, tables, trouble, JobInv, TypeOK, AckedMeansDone, OneModelPerCommit,
              HeldWhileRun, AllGood, RowGood, RunGood, RunKnows, RunFetched, RunSame
<1>2. ASSUME NEW j \in Jobs,
             CreateRow(j) \/ Dispatch(j) \/ Deliver(j) \/ Handler(j) \/ Reap(j)
      PROVE  JobInv'
  BY <1>2, ClientStep, QueueStep, OrchestratorStep DEF Handler
<1> QED
  BY <1>1, <1>2, EnvironmentStep DEF Next

\* What the tables, the queue and the handlers of app.go and orchestrator.go
\* agree on, at every step.
THEOREM IngestInvariant == Spec => []IngestInv
<1>1. JobInv => IngestInv
  BY SameInv
<1> QED
  BY <1>1, InitInv, StepInv, PTL DEF Spec

\* The row a client polls is coherent however often its job is run again.
THEOREM RowsCoherent == Spec => []RowCoherent
<1>1. IngestInv => RowCoherent
  BY DEF IngestInv
<1> QED
  BY <1>1, IngestInvariant, PTL

\* No failure is acknowledged away: an acked job is cached or was malformed.
THEOREM AckedIsDone == Spec => []AckedMeansDone
<1>1. IngestInv => AckedMeansDone
  BY DEF IngestInv
<1> QED
  BY <1>1, IngestInvariant, PTL

\* Jobs that race for a commit create one model for it.
THEOREM CommitsUnique == Spec => []OneModelPerCommit
<1>1. IngestInv => OneModelPerCommit
  BY DEF IngestInv
<1> QED
  BY <1>1, IngestInvariant, PTL

\* While no branch moves, a job is linked to the commit its ref points to.
THEOREM LinksRight == Spec => []LinkedToItsCommit
<1>1. IngestInv => LinkedToItsCommit
  BY DEF IngestInv
<1> QED
  BY <1>1, IngestInvariant, PTL

=============================================================================
