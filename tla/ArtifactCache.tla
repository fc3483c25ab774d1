---------------------------- MODULE ArtifactCache ----------------------------
(***************************************************************************)
(* The way of one artifact into the object store: RetryingDownload         *)
(* (ingest/retrying_download.go) around CachePipeline.DownloadToCache      *)
(* (ingest/pipeline.go), the multipart ChunkedUploader (cache/upload.go)   *)
(* with its concurrent part uploads, and Quarantine (cache/client.go).     *)
(*                                                                         *)
(* Every request to the upstream host or to the object store is one step.  *)
(* An artifact's bytes are abstracted to whether they have the expected    *)
(* digest; a truncated transfer has fewer parts and the wrong digest.      *)
(***************************************************************************)
EXTENDS Naturals, Sequences, FiniteSets, SequencesExt

CONSTANTS
    Downloads,   \* calls of RetryingDownload
    Keys,        \* object keys
    NoKey,       \* a call that has not begun
    Parts,       \* parts of an intact artifact
    Concurrency, \* part uploads in flight at once
    MaxAttempts, \* RetryPolicy.MaxAttempts
    MaxFaults    \* bound: failing requests and cancelled contexts together

ASSUME ArtifactAssumption ==
    /\ NoKey \notin Keys
    /\ Parts \in Nat \ {0}
    /\ Concurrency \in Nat \ {0}
    /\ MaxAttempts \in Nat \ {0}
    /\ MaxFaults \in Nat

VARIABLES
    object,      \* what is stored at each key
    quarantined, \* what is stored at quarantine/<key>
    uploads,     \* calls whose latest multipart upload is still open
    call,        \* where each RetryingDownload call is
    cancelled,   \* calls whose context is done
    faults,      \* failing requests and cancellations so far
    last,        \* history: the last call that began on each key
    shared       \* history: keys that two calls worked on at the same time

store == <<object, quarantined, uploads>>
history == <<last, shared>>
vars == <<store, call, cancelled, faults, history>>

Contents == {"none", "good", "corrupt"}
Steps == {"new", "get", "start", "read", "drain", "complete", "abort", "verify",
          "copy", "purge", "retry", "done", "failed", "mismatch"}
Returned == {"done", "failed", "mismatch"}

\* A call: its attempt, the body it is streaming and how many parts that has,
\* parts read, parts being uploaded, accepted parts in the order of their
\* replies, whether the errgroup has an error, and whether the last mismatch
\* was quarantined.
Call == [step : Steps, key : Keys \cup {NoKey}, attempt : Nat, body : Contents, total : 0..Parts,
         read : 0..Parts, inFlight : SUBSET (1..Parts), sent : Seq(1..Parts),
         broken : BOOLEAN, aside : BOOLEAN]

\* DownloadToCache's locals when it is called for the given attempt.
Attempt(k, n) ==
    [step |-> "get", key |-> k, attempt |-> n, body |-> "none", total |-> 0,
     read |-> 0, inFlight |-> {}, sent |-> <<>>, broken |-> FALSE, aside |-> FALSE]

Init ==
    /\ object = [k \in Keys |-> "none"]
    /\ quarantined = [k \in Keys |-> "none"]
    /\ uploads = {}
    /\ call = [d \in Downloads |-> [Attempt(NoKey, 0) EXCEPT !.step = "new"]]
    /\ cancelled = {}
    /\ faults = 0
    /\ last = [k \in Keys |-> {}]
    /\ shared = {}

-----------------------------------------------------------------------------
At(d, step) == call[d].step = step
Goto(d, step) == call' = [call EXCEPT ![d].step = step]

\* A request fails because of the network or the store, or because the call's
\* context is done; while it is, every request made with it fails.
Fails(d) ==
    \/ d \in cancelled /\ UNCHANGED faults
    \/ faults < MaxFaults /\ faults' = faults + 1

Works(d) == d \notin cancelled /\ UNCHANGED faults

Working(k) == {d \in Downloads : call[d].key = k /\ call[d].step \notin Returned}

\* RetryingDownload is called for key k.
Begin(d, k) ==
    /\ At(d, "new")
    /\ call' = [call EXCEPT ![d] = Attempt(k, 1)]
    /\ last' = [last EXCEPT ![k] = {d}]
    /\ shared' = IF Working(k) = {} THEN shared ELSE shared \cup {k}
    /\ UNCHANGED <<store, cancelled, faults>>

\* The GET: an intact body, or one damaged or cut short on the way; io.ReadFull
\* reports a short body as an end of file, so it is streamed like any other.
Get(d) ==
    /\ At(d, "get")
    /\ \/ /\ \E body \in {"good", "corrupt"}, total \in 0..Parts :
               /\ body = "good" => total = Parts
               /\ call' = [call EXCEPT ![d].step = "start", ![d].body = body, ![d].total = total]
          /\ Works(d)
       \/ Goto(d, "failed") /\ Fails(d)
    /\ UNCHANGED <<store, cancelled, history>>

\* StartUpload.
StartUpload(d) ==
    /\ At(d, "start")
    /\ \/ Goto(d, "read") /\ uploads' = uploads \cup {d} /\ Works(d)
       \/ Goto(d, "failed") /\ uploads' \in {uploads, uploads \cup {d}} /\ Fails(d)
    /\ UNCHANGED <<object, quarantined, cancelled, history>>

\* One turn of the read loop: the next part is read and, once the errgroup
\* has room, handed to a goroutine.
ReadPart(d) ==
    /\ At(d, "read")
    /\ call[d].read < call[d].total
    /\ Cardinality(call[d].inFlight) < Concurrency
    /\ call' = [call EXCEPT ![d].read = @ + 1, ![d].inFlight = @ \cup {call[d].read + 1}]
    /\ UNCHANGED <<store, cancelled, faults, history>>

\* The body fails with another error: wait for the parts, then give up.
ReadError(d) ==
    /\ At(d, "read")
    /\ Goto(d, "drain")
    /\ Fails(d)
    /\ UNCHANGED <<store, cancelled, history>>

\* PutObjectPart of part p returns.
PutPart(d, p) ==
    /\ p \in call[d].inFlight
    /\ \/ /\ call' = [call EXCEPT ![d].inFlight = @ \ {p}, ![d].sent = Append(@, p)]
          /\ Works(d)
       \/ /\ call' = [call EXCEPT ![d].inFlight = @ \ {p}, ![d].broken = TRUE]
          /\ \/ Fails(d)
             \/ call[d].broken /\ UNCHANGED faults
    /\ UNCHANGED <<store, cancelled, history>>

\* End of file and g.Wait.
Wait(d) ==
    /\ At(d, "read")
    /\ call[d].read = call[d].total
    /\ call[d].inFlight = {}
    /\ Goto(d, IF call[d].broken THEN "abort" ELSE "complete")
    /\ UNCHANGED <<store, cancelled, faults, history>>

\* g.Wait after a read error.
Drain(d) ==
    /\ At(d, "drain")
    /\ call[d].inFlight = {}
    /\ Goto(d, "abort")
    /\ UNCHANGED <<store, cancelled, faults, history>>

\* The object store assembles the parts it is given, in ascending order and at
\* least one, and forgets the upload.
Assemble(d, parts) ==
    /\ parts # <<>>
    /\ parts = [i \in 1..Len(parts) |-> i]
    /\ object' = [object EXCEPT ![call[d].key] = call[d].body]
    /\ uploads' = uploads \ {d}
    /\ UNCHANGED quarantined

Sorted(parts) == SortSeq(parts, LAMBDA p, q : p < q)

\* Mutant: the parts are named in the order their uploads ended.
CompleteUploadUnsorted(d) ==
    /\ At(d, "complete")
    /\ \/ Assemble(d, call[d].sent) /\ Goto(d, "verify") /\ Works(d)
       \/ UNCHANGED <<store, faults>> /\ Goto(d, "abort") /\ call[d].sent # Sorted(call[d].sent)
    /\ UNCHANGED <<cancelled, history>>

\* CompleteMultipartUpload with the sorted parts; an error is reported when
\* there are none, and may be reported although the parts were assembled.
CompleteUpload(d) ==
    /\ At(d, "complete")
    /\ LET parts == Sorted(call[d].sent) IN
       \/ Assemble(d, parts) /\ Goto(d, "verify") /\ Works(d)
       \/ call[d].sent = <<>> /\ UNCHANGED store /\ Goto(d, "abort") /\ UNCHANGED faults
       \/ (Assemble(d, parts) \/ UNCHANGED store) /\ Goto(d, "abort") /\ Fails(d)
    /\ UNCHANGED <<cancelled, history>>

\* The deferred AbortMultipartUpload, on a context of its own; its error is
\* ignored.  An upload error is returned without a retry.
AbortUpload(d) ==
    /\ At(d, "abort")
    /\ \/ uploads' = uploads \ {d} /\ UNCHANGED faults
       \/ uploads' \in {uploads, uploads \ {d}} /\ faults < MaxFaults /\ faults' = faults + 1
    /\ Goto(d, "failed")
    /\ UNCHANGED <<object, quarantined, cancelled, history>>

\* Mutant: the digest is not compared.
VerifyNothing(d) ==
    /\ At(d, "verify")
    /\ Goto(d, "done")
    /\ UNCHANGED <<store, cancelled, faults, history>>

\* The digest of the streamed body is compared with the expected one.
Verify(d) ==
    /\ At(d, "verify")
    /\ Goto(d, IF call[d].body = "good" THEN "done" ELSE "copy")
    /\ UNCHANGED <<store, cancelled, faults, history>>

\* Mutant: Quarantine purges without copying.
QuarantineCopySkipped(d) ==
    /\ At(d, "copy")
    /\ Goto(d, "purge")
    /\ UNCHANGED <<store, cancelled, faults, history>>

\* Quarantine's CopyObject; it fails when the key holds nothing.
QuarantineCopy(d) ==
    /\ At(d, "copy")
    /\ LET k == call[d].key IN
       LET copied == [quarantined EXCEPT ![k] = object[k]] IN
       \/ /\ object[k] # "none"
          /\ quarantined' = copied
          /\ Goto(d, "purge")
          /\ Works(d)
       \/ object[k] = "none" /\ Goto(d, "retry") /\ UNCHANGED <<quarantined, faults>>
       \/ /\ quarantined' \in {quarantined} \cup (IF object[k] # "none" THEN {copied} ELSE {})
          /\ Goto(d, "retry")
          /\ Fails(d)
    /\ UNCHANGED <<object, uploads, cancelled, history>>

\* Quarantine's RemoveObject.
QuarantinePurge(d) ==
    /\ At(d, "purge")
    /\ LET removed == [object EXCEPT ![call[d].key] = "none"] IN
       \/ /\ object' = removed
          /\ call' = [call EXCEPT ![d].step = "retry", ![d].aside = TRUE]
          /\ Works(d)
       \/ object' \in {object, removed} /\ Goto(d, "retry") /\ Fails(d)
    /\ UNCHANGED <<quarantined, uploads, cancelled, history>>

\* After a mismatch: give up, notice the cancelled context, or back off and
\* fetch again.
Retry(d) ==
    /\ At(d, "retry")
    /\ LET c == call[d] IN
       \/ c.attempt >= MaxAttempts /\ Goto(d, "mismatch")
       \/ c.attempt < MaxAttempts /\ d \in cancelled /\ Goto(d, "failed")
       \/ c.attempt < MaxAttempts /\ call' = [call EXCEPT ![d] = Attempt(c.key, c.attempt + 1)]
    /\ UNCHANGED <<store, cancelled, faults, history>>

-----------------------------------------------------------------------------
\* The caller's context is cancelled or times out.
Cancel(d) ==
    /\ call[d].step \notin Returned \cup {"new"}
    /\ d \notin cancelled
    /\ faults < MaxFaults
    /\ faults' = faults + 1
    /\ cancelled' = cancelled \cup {d}
    /\ UNCHANGED <<store, call, history>>

Progress(d) ==
    \/ Get(d) \/ StartUpload(d)
    \/ ReadPart(d) \/ ReadError(d) \/ Wait(d) \/ Drain(d)
    \/ \E p \in 1..Parts : PutPart(d, p)
    \/ CompleteUpload(d) \/ AbortUpload(d)
    \/ Verify(d) \/ QuarantineCopy(d) \/ QuarantinePurge(d) \/ Retry(d)

Next ==
    \E d \in Downloads :
        \/ \E k \in Keys : Begin(d, k)
        \/ Progress(d)
        \/ Cancel(d)

Spec == Init /\ [][Next]_vars

-----------------------------------------------------------------------------
(* Properties.                                                             *)

TypeOK ==
    /\ object \in [Keys -> Contents]
    /\ quarantined \in [Keys -> Contents]
    /\ uploads \subseteq Downloads
    /\ call \in [Downloads -> Call]
    /\ cancelled \subseteq Downloads
    /\ faults \in Nat
    /\ last \in [Keys -> SUBSET Downloads]
    /\ shared \subseteq Keys

\* The pipeline leaves nothing corrupted live in the cache: an object with the
\* wrong digest has a call at work that is about to quarantine it, also when
\* calls overlap on a key.  A failing request or a cancelled context voids
\* this: see README.
CorruptIsTemporary ==
    \A k \in Keys : object[k] = "corrupt" /\ faults = 0 =>
        \E d \in Working(k) : call[d].step \in {"verify", "copy", "purge"} /\ call[d].body = "corrupt"

\* No call ever overlapped with d on its key and none began there after it.
Sole(d) == call[d].key \notin shared /\ last[call[d].key] = {d}

\* A download that reported success left the intact artifact at its key, until
\* a later call begins on that key: nothing its failed attempts, its part
\* uploads or its quarantines did takes it away again.
SuccessIsLive ==
    \A d \in Downloads : At(d, "done") /\ Sole(d) => object[call[d].key] = "good"

\* What a call that returned leaves behind is in order: if it gave up on a
\* mismatch it quarantined, the corrupted bytes are at quarantine/<key> and
\* nothing is at the key; and Upload aborts on any failure, so no multipart
\* upload stays open unless a request to the store failed.
LeftInOrder ==
    \A d \in Downloads :
        /\ At(d, "mismatch") /\ call[d].aside /\ Sole(d) =>
             object[call[d].key] = "none" /\ quarantined[call[d].key] = "corrupt"
        /\ call[d].step \in Returned /\ d \in uploads => faults > 0

\* Parts whose uploads end out of order, retries and quarantines do not fail an
\* upload: without a failing request only an empty body does.
NoSpuriousFailure ==
    \A d \in Downloads : At(d, "failed") /\ faults = 0 => call[d].total = 0

=============================================================================
