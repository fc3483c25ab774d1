------------------------------ MODULE Ingestion ------------------------------
(***************************************************************************)
(* Model ingestion: POST /v1/ingestions (api/ingestions.go), the queue     *)
(* handler (app.go, ingestionJobHandler) and Orchestrator.Run              *)
(* (ingest/orchestrator.go) over the ingestion_jobs and models tables.     *)
(*                                                                         *)
(* The queue between them is the abstract ReliableDelivery, which JobQueue *)
(* implements.  Every database and upstream call is one step, so the       *)
(* handlers of different jobs, a moving upstream branch, lost replies and  *)
(* process exits interleave between any two of them.                       *)
(***************************************************************************)
EXTENDS Naturals, Sequences, FiniteSets

CONSTANTS
    Jobs,        \* ingestion job ids, also the queue's job ids and payloads
    Inputs,      \* repo_url and revision as clients write them
    Refs,        \* canonical (owner/name, revision) pairs
    Malformed,   \* what ParseReference makes of an input it rejects
    Parse,       \* ParseReference: [Inputs -> Refs \cup {Malformed}]
    Commits,     \* upstream revision digests
    Heads,       \* what the refs may point to at first: a subset of [Refs -> Commits]
    Oversized,   \* commits whose file tree exceeds the quota
    Weightless,  \* commits without a .safetensors file
    NoCommit,    \* nothing fetched yet
    Workers,     \* concurrency of the ingestion pool
    MaxAttempts, \* queue.Options.MaxAttempts
    MaxTrouble   \* bound: failing calls, pushes upstream and process exits together

ASSUME IngestionAssumption ==
    /\ Malformed \notin Refs
    /\ Parse \in [Inputs -> Refs \cup {Malformed}]
    /\ NoCommit \notin Commits
    /\ Heads \subseteq [Refs -> Commits]
    /\ Oversized \subseteq Commits
    /\ Weightless \subseteq Commits
    /\ Workers \in Nat
    /\ MaxAttempts \in Nat \ {0}
    /\ MaxTrouble \in Nat

VARIABLES
    status, tries, \* the queue, as ReliableDelivery
    client,      \* where each CreateIngestionHandler call is
    row,         \* the ingestion_jobs table
    models,      \* the models table; a model's id is its position
    run,         \* where each job's handler is and what it has fetched
    upstream,    \* the commit each ref points to
    faults,      \* database and queue calls that returned an error so far
    outages,     \* upstream calls that failed so far
    moves,       \* pushes to an upstream branch so far
    crashes      \* exits of the gateway process so far

queue == <<status, tries>>
tables == <<row, models>>
trouble == <<faults, outages, moves, crashes>>
vars == <<queue, client, tables, run, upstream, trouble>>

RowStates == {"none", "queued", "downloading", "verifying", "cached", "failed"}
ClientStates == {"new", "created", "done", "failed"}
Steps == {"idle", "lookup", "reject", "revision", "tree", "dedup", "begin", "header",
          "downloaded", "verify", "config", "license", "create", "complete", "fail", "ack", "nack"}

\* error_message and model_id are NULL as FALSE and 0; bytes is what
\* bytes_downloaded says of the weight file.
Row == [state : RowStates, input : Inputs, bytes : {"zero", "all"}, error : BOOLEAN, model : Nat]
NewRow(input) == [state |-> "queued", input |-> input, bytes |-> "zero", error |-> FALSE, model |-> 0]

\* A model row: its two unique keys, and the commits its parameter count
\* (header) and its geometry (config) were computed from.
Model == [ref : Refs, sha : Commits, header : Commits, config : Commits]

Fetched == Commits \cup {NoCommit}
Run == [step : Steps, sha : Fetched, tree : Fetched, header : Fetched, config : Fetched, model : Nat]
NoRun == [step |-> "idle", sha |-> NoCommit, tree |-> NoCommit,
          header |-> NoCommit, config |-> NoCommit, model |-> 0]

Queue == INSTANCE ReliableDelivery

\* The statements of IngestionJobRepository, on one row.
UpdateProgress(r, bytes) == [r EXCEPT !.state = "downloading", !.bytes = bytes]
UpdateState(r, state) == [r EXCEPT !.state = state]
Complete(r, model) == [r EXCEPT !.state = "cached", !.model = model]
Fail(r) == [r EXCEPT !.state = "failed", !.error = TRUE]

\* What EnforceQuota and findWeightFile say of a commit's file tree.
EnforceQuota(tree) == tree \notin Oversized
findWeightFile(tree) == tree \notin Weightless

Init ==
    /\ Queue!Init
    /\ client = [j \in Jobs |-> "new"]
    /\ row \in [Jobs -> {[NewRow(i) EXCEPT !.state = "none"] : i \in Inputs}]
    /\ models = <<>>
    /\ run = [j \in Jobs |-> NoRun]
    /\ upstream \in Heads
    /\ faults = 0 /\ outages = 0 /\ moves = 0 /\ crashes = 0

-----------------------------------------------------------------------------
(* How calls end.                                                          *)

Trouble == faults + outages + moves + crashes

Goto(j, step) == run' = [run EXCEPT ![j].step = step]

\* A database or queue call returned an error.
Fault ==
    /\ Trouble < MaxTrouble
    /\ faults' = faults + 1
    /\ UNCHANGED <<outages, moves, crashes>>

\* An upstream call failed.
Outage ==
    /\ Trouble < MaxTrouble
    /\ outages' = outages + 1
    /\ UNCHANGED <<faults, moves, crashes>>

\* UPDATE ingestion_jobs of the handler of j: it succeeds, or an error is
\* reported although the statement may have been executed.
Update(j, new, ok, err) ==
    /\ \/ /\ row' = [row EXCEPT ![j] = new]
          /\ Goto(j, ok)
          /\ UNCHANGED trouble
       \/ /\ row' \in {row, [row EXCEPT ![j] = new]}
          /\ Goto(j, err)
          /\ Fault
    /\ UNCHANGED <<queue, client, models, upstream>>

\* A read: its reply arrives or an error is reported.
Read(j, reply, err) ==
    /\ \/ reply /\ UNCHANGED trouble
       \/ Goto(j, err) /\ Fault
    /\ UNCHANGED <<queue, client, tables, upstream>>

\* A request to the upstream host.
Fetch(j, reply, err) ==
    /\ \/ reply /\ UNCHANGED trouble
       \/ Goto(j, err) /\ Outage
    /\ UNCHANGED <<queue, client, tables, upstream>>

-----------------------------------------------------------------------------
(* POST /v1/ingestions.                                                    *)

\* IngestionJobRepository.Create.
CreateRow(j) ==
    /\ client[j] = "new"
    /\ LET new == [row EXCEPT ![j].state = "queued"] IN
       \/ row' = new /\ client' = [client EXCEPT ![j] = "created"] /\ UNCHANGED trouble
       \/ row' \in {row, new} /\ client' = [client EXCEPT ![j] = "failed"] /\ Fault
    /\ UNCHANGED <<queue, models, run, upstream>>

\* dispatcher.Enqueue; when it fails the row stays queued.
Dispatch(j) ==
    /\ client[j] = "created"
    /\ \/ Queue!Send(j) /\ client' = [client EXCEPT ![j] = "done"] /\ UNCHANGED trouble
       \/ /\ Queue!Send(j) \/ UNCHANGED queue
          /\ client' = [client EXCEPT ![j] = "failed"]
          /\ Fault
    /\ UNCHANGED <<tables, run, upstream>>

-----------------------------------------------------------------------------
(* The queue handler and Orchestrator.Run.                                 *)

At(j, step) == run[j].step = step

Busy == {j \in Jobs : ~At(j, "idle")}

\* A free worker of the pool dequeues the job and calls the handler.
Deliver(j) ==
    /\ Cardinality(Busy) < Workers
    /\ At(j, "idle")
    /\ Queue!Deliver(j)
    /\ run' = [run EXCEPT ![j] = [NoRun EXCEPT !.step = "lookup"]]
    /\ UNCHANGED <<client, tables, upstream, trouble>>

RefOf(j) == Parse[row[j].input]

\* GetByID and ParseReference.
LookUp(j) ==
    /\ At(j, "lookup")
    /\ Read(j, Goto(j, IF RefOf(j) = Malformed THEN "reject" ELSE "revision"), "nack")

\* An input that does not parse: Fail, whose error is ignored, and nil.
Reject(j) ==
    /\ At(j, "reject")
    /\ Update(j, Fail(row[j]), "ack", "ack")

\* FetchManifest's first request: the digest the ref points to now.
FetchRevisionSHA(j) ==
    /\ At(j, "revision")
    /\ Fetch(j, run' = [run EXCEPT ![j].step = "tree", ![j].sha = upstream[RefOf(j)]], "fail")

\* FetchManifest's second request and EnforceQuota.
FetchFileTree(j) ==
    /\ At(j, "tree")
    /\ LET tree == upstream[RefOf(j)] IN
       Fetch(j, run' = [run EXCEPT ![j].tree = tree,
                                   ![j].step = IF EnforceQuota(tree) THEN "dedup" ELSE "fail"],
             "fail")

WithSHA(sha) == {i \in DOMAIN models : models[i].sha = sha}

\* GetByRevisionSHA, and findWeightFile when it finds nothing.
FindExistingArtifact(j) ==
    /\ At(j, "dedup")
    /\ LET same == WithSHA(run[j].sha) IN
       Read(j, \/ \E i \in same : run' = [run EXCEPT ![j].step = "complete", ![j].model = i]
               \/ same = {} /\ Goto(j, IF findWeightFile(run[j].tree) THEN "begin" ELSE "fail"),
            "fail")

\* UpdateProgress(total, 0); an error is returned without Fail.
RecordDownloadStart(j) ==
    /\ At(j, "begin")
    /\ Update(j, UpdateProgress(row[j], "zero"), "header", "nack")

\* FetchHeader reads FileURL(ref, ..), which names the ref and not the digest.
FetchHeader(j) ==
    /\ At(j, "header")
    /\ Fetch(j, run' = [run EXCEPT ![j].step = "downloaded", ![j].header = upstream[RefOf(j)]], "fail")

\* UpdateProgress(total, total).
RecordDownloadComplete(j) ==
    /\ At(j, "downloaded")
    /\ Update(j, UpdateProgress(row[j], "all"), "verify", "nack")

\* UpdateState(verifying).
EnterVerifying(j) ==
    /\ At(j, "verify")
    /\ Update(j, UpdateState(row[j], "verifying"), "config", "nack")

\* FetchConfig, by the ref again; an absent file is no error.
FetchConfig(j) ==
    /\ At(j, "config")
    /\ Fetch(j, run' = [run EXCEPT ![j].step = "license", ![j].config = upstream[RefOf(j)]], "fail")

\* FetchLicense asks for the repository, whatever its refs point to.
FetchLicense(j) ==
    /\ At(j, "license")
    /\ Fetch(j, Goto(j, "create"), "fail")

NewModel(j) ==
    [ref |-> RefOf(j), sha |-> run[j].sha, header |-> run[j].header, config |-> run[j].config]

\* The INSERT of ModelRepository.Create under the table's unique indexes.
InsertModel(j, conflict) ==
    /\ \/ /\ conflict
          /\ Goto(j, "fail")
          /\ UNCHANGED <<models, trouble>>
       \/ /\ ~conflict
          /\ models' = Append(models, NewModel(j))
          /\ run' = [run EXCEPT ![j].step = "complete", ![j].model = Len(models) + 1]
          /\ UNCHANGED trouble
       \/ /\ models' \in {models} \cup (IF conflict THEN {} ELSE {Append(models, NewModel(j))})
          /\ Goto(j, "fail")
          /\ Fault
    /\ UNCHANGED <<queue, client, row, upstream>>

SameRef(j) == \E i \in DOMAIN models : models[i].ref = RefOf(j)

\* A unique violation, of (repo_url, revision) or of revision_sha, is an error.
CreateModel(j) ==
    /\ At(j, "create")
    /\ InsertModel(j, SameRef(j) \/ WithSHA(run[j].sha) # {})

\* Mutants: Complete without its model_id, and with the newest model's.
CompleteJobUnlinked(j) ==
    /\ At(j, "complete")
    /\ Update(j, UpdateState(row[j], "cached"), "ack", "nack")

CompleteJobNewest(j) ==
    /\ At(j, "complete")
    /\ Update(j, Complete(row[j], Len(models)), "ack", "nack")

\* Complete: state and model_id; error_message keeps its value.
CompleteJob(j) ==
    /\ At(j, "complete")
    /\ Update(j, Complete(row[j], run[j].model), "ack", "nack")

\* Mutant: fail swallows its cause, so the failed job is acked.
FailJobSwallows(j) ==
    /\ At(j, "fail")
    /\ Update(j, Fail(row[j]), "ack", "nack")

\* Orchestrator.fail: Fail, whose error is ignored, and the cause is returned.
FailJob(j) ==
    /\ At(j, "fail")
    /\ Update(j, Fail(row[j]), "nack", "nack")

\* A settling call of the worker pool: its script runs, or an error is
\* reported although it may have run; the worker lets go of the job either way.
Settling(j, script) ==
    /\ \/ script /\ UNCHANGED trouble
       \/ (script \/ UNCHANGED queue) /\ Fault
    /\ run' = [run EXCEPT ![j] = NoRun]
    /\ UNCHANGED <<client, tables, upstream>>

\* Mutant: a nacked job goes to the dead letters at once.
NackScriptBuries(j) ==
    /\ Queue!Move(j, "held", "dead")
    /\ tries' = [tries EXCEPT ![j] = @ + 1]

NackScript(j) == Queue!Return(j) \/ Queue!Bury(j)

Ack(j) == At(j, "ack") /\ Settling(j, Queue!Settle(j))

Nack(j) == At(j, "nack") /\ Settling(j, NackScript(j))

\* Queue.Reap: a held job nobody works on any more comes back.  Nothing in the
\* program calls it, so it may happen, by an operator's hand, and need not.
Reap(j) ==
    /\ At(j, "idle")
    /\ NackScript(j)
    /\ UNCHANGED <<client, tables, run, upstream, trouble>>

-----------------------------------------------------------------------------
(* The environment.                                                        *)

\* The process exits: it does not wait for the pool, and open requests die.
Exit ==
    /\ Trouble < MaxTrouble
    /\ crashes' = crashes + 1
    /\ run' = [j \in Jobs |-> NoRun]
    /\ client' = [j \in Jobs |-> IF client[j] = "created" THEN "failed" ELSE client[j]]
    /\ UNCHANGED <<queue, tables, upstream, faults, outages, moves>>

\* Somebody pushes to a branch.
Push(r, commit) ==
    /\ Trouble < MaxTrouble
    /\ commit # upstream[r]
    /\ moves' = moves + 1
    /\ upstream' = [upstream EXCEPT ![r] = commit]
    /\ UNCHANGED <<queue, client, tables, run, faults, outages, crashes>>

Handler(j) ==
    \/ LookUp(j) \/ Reject(j)
    \/ FetchRevisionSHA(j) \/ FetchFileTree(j) \/ FindExistingArtifact(j)
    \/ RecordDownloadStart(j) \/ FetchHeader(j) \/ RecordDownloadComplete(j)
    \/ EnterVerifying(j) \/ FetchConfig(j) \/ FetchLicense(j)
    \/ CreateModel(j)
    \/ CompleteJob(j) \/ FailJob(j)
    \/ Ack(j) \/ Nack(j)

Next ==
    \/ \E j \in Jobs :
         CreateRow(j) \/ Dispatch(j) \/ Deliver(j) \/ Handler(j) \/ Reap(j)
    \/ \E r \in Refs, commit \in Commits : Push(r, commit)
    \/ Exit

Spec == Init /\ [][Next]_vars

\* Requests and handlers run to their end and idle workers poll; nothing makes
\* anybody call Reap, the upstream move, a call fail or the process exit.
FairSpec ==
    /\ Spec
    /\ \A j \in Jobs :
         /\ WF_vars(Dispatch(j))
         /\ WF_vars(Deliver(j))
         /\ WF_vars(Handler(j))

-----------------------------------------------------------------------------
(* Properties.                                                             *)

TypeOK ==
    /\ status \in [Jobs -> Queue!Statuses]
    /\ tries \in [Jobs -> Nat]
    /\ client \in [Jobs -> ClientStates]
    /\ row \in [Jobs -> Row]
    /\ models \in Seq(Model)
    /\ run \in [Jobs -> Run]
    /\ upstream \in [Refs -> Commits]
    /\ faults \in Nat /\ outages \in Nat /\ moves \in Nat /\ crashes \in Nat

\* What the row a client polls says is true, however often the job is run
\* again: a link leads to a model that exists, a cached job has one, a failed
\* job has its error, and verification starts only on a complete download.
RowCoherent ==
    \A j \in Jobs :
        /\ row[j].model \in 0..Len(models)
        /\ row[j].state = "cached" => row[j].model > 0
        /\ row[j].state = "failed" => row[j].error
        /\ row[j].state = "verifying" => row[j].bytes = "all"
        /\ row[j].state \in {"none", "queued"} => row[j].bytes = "zero" /\ ~row[j].error

\* A job leaves the queue as done only when its row is cached, or when its
\* input can never be parsed: no failure is acknowledged away.
AckedMeansDone ==
    \A j \in Jobs : status[j] = "acked" => row[j].state = "cached" \/ RefOf(j) = Malformed

\* Jobs that race for the same commit end up with one model: a commit has at
\* most one row in models, and what was computed from other commits is filed
\* under it only if a branch moved while the job ran.
OneModelPerCommit ==
    /\ \A i, k \in DOMAIN models : models[i].sha = models[k].sha => i = k
    /\ moves = 0 => \A i \in DOMAIN models :
         models[i].header = models[i].sha /\ models[i].config = models[i].sha

\* A cached job is linked to the commit its own ref pointed to, also when
\* another ref's job created the model.
LinkedToItsCommit ==
    \A j \in Jobs : moves = 0 /\ row[j].model > 0 =>
        models[row[j].model].sha = upstream[RefOf(j)]

\* What the properties above need to be inductive.  A job is worked on only
\* while the queue says it is held, and never before its row was created; the
\* steps of a handler know what the earlier ones left in the row.
HeldWhileRun ==
    \A j \in Jobs :
        /\ ~At(j, "idle") => status[j] = "held"
        /\ client[j] \in {"new", "created"} => status[j] = "unsent"
        /\ client[j] = "new" => row[j].state = "none"
        /\ row[j].state = "none" => row[j].bytes = "zero" /\ ~row[j].error /\ row[j].model = 0

Parsed == {"revision", "tree", "dedup", "begin", "header", "downloaded",
           "verify", "config", "license", "create", "complete", "fail"}

StepKnows ==
    \A j \in Jobs :
        /\ At(j, "verify") => row[j].bytes = "all"
        /\ At(j, "complete") => run[j].model \in 1..Len(models)
        /\ At(j, "ack") => row[j].state = "cached" \/ RefOf(j) = Malformed
        /\ At(j, "reject") => RefOf(j) = Malformed
        /\ run[j].step \in Parsed => RefOf(j) # Malformed

\* While no branch moves, whatever a handler fetched is of the commit its ref
\* points to, and it has fetched what its step needs.
FetchedSame ==
    moves = 0 => \A j \in Jobs :
        /\ run[j].sha # NoCommit => run[j].sha = upstream[RefOf(j)]
        /\ run[j].header # NoCommit => run[j].header = upstream[RefOf(j)]
        /\ run[j].config # NoCommit => run[j].config = upstream[RefOf(j)]
        /\ At(j, "complete") => models[run[j].model].sha = upstream[RefOf(j)]

HasFetched ==
    \A j \in Jobs :
        /\ run[j].step \in Parsed \ {"revision", "fail"} => run[j].sha # NoCommit
        /\ run[j].step \in {"downloaded", "verify", "config", "license", "create"} => run[j].header # NoCommit
        /\ run[j].step \in {"license", "create"} => run[j].config # NoCommit

\* The inductive invariant.
IngestInv ==
    /\ TypeOK
    /\ RowCoherent
    /\ AckedMeansDone
    /\ OneModelPerCommit
    /\ LinkedToItsCommit
    /\ HeldWhileRun
    /\ StepKnows
    /\ HasFetched
    /\ FetchedSame

Ingestible(j) == RefOf(j) # Malformed /\ upstream[RefOf(j)] \notin Oversized \cup Weightless

\* A job the queue will not deliver again by itself: it was acked or dead-
\* lettered, or it is held with nobody at work on it, and nothing calls Reap.
GivenUp(j) == status[j] \in {"acked", "dead"} \/ (status[j] = "held" /\ At(j, "idle"))

\* What a client polls comes to rest.  However calls fail and branches move, a
\* queued job's row ends up cached or failed and stays so, through all its
\* redeliveries; a row may be left in between only by a database or queue call
\* that failed or a process that exited, and only once the queue has given the
\* job up.  And of jobs that race for one commit, the loser's unique violation
\* is not its end: while nothing goes wrong every ingestible job is cached.
EventuallyResolved ==
    \A j \in Jobs :
        /\ client[j] = "done" ~>
             [](\/ row[j].state \in {"cached", "failed"}
                \/ faults + crashes > 0 /\ GivenUp(j))
        /\ client[j] = "done" /\ Ingestible(j) ~>
             [](row[j].state = "cached") \/ Trouble > 0

=============================================================================
