------------------------------ MODULE Serving ------------------------------
(***************************************************************************)
(* Chat requests from the middleware to the last byte of the stream, with  *)
(* the watchdog that looks for silent ones (internal/api/handler.go,       *)
(* internal/inference, internal/resilience).  Each request runs up to      *)
(* three goroutines: the handler, the backend's producer, which hands it   *)
(* events over an unbuffered channel, and the watcher that cancels the     *)
(* backend once the request's context is done.  The reaper sweeps beside   *)
(* them.  The watchdog and the backend keep their requests by id, and the  *)
(* id is the caller's X-Request-Id header when there is one: two requests  *)
(* may carry the same id.                                                  *)
(*                                                                         *)
(* Time is abstract: an entry of the watchdog turns silent once its last   *)
(* token is older than the threshold.  A generation is NTokens tokens.     *)
(***************************************************************************)
EXTENDS Naturals

CONSTANTS
    Request,   \* handler invocations
    Id,        \* request ids
    None,
    NTokens    \* tokens of one generation

ASSUME NoneAssumption == None \notin Request
ASSUME NTokensAssumption == NTokens \in Nat \ {0}

VARIABLES
    engine,    \* the backend: mock or vllm
    id,        \* the id of each request
    handler,   \* where each handler is
    ctx,       \* the request's generation context is done
    watcher,   \* the goroutine that cancels on ctx.Done
    producer,  \* where the goroutine behind Stream is
    event,     \* what the producer offers
    stopped,   \* how often Cancel closed the request's cancel channel
    inFlight,  \* the backend's registry, by id
    tracked,   \* Watchdog.requests: whose payload, by id
    silent,    \* the tracked ids past the threshold
    stuck,     \* payloads the sweep has still to cancel
    current,   \* the payload it is requeuing
    taken,     \* history: how often a sweep took the request
    relayed,   \* tokens written to the client
    finish,    \* the finish reason written to the client
    done       \* requests whose client has read [DONE]

clientVars == <<relayed, finish, done>>
sweepVars == <<stuck, current, taken>>
watchdogVars == <<tracked, silent>>
backendVars == <<inFlight, stopped>>
vars == <<engine, id, handler, ctx, watcher, producer, event, backendVars,
          watchdogVars, sweepVars, clientVars>>

\* The ids RequestID can give: the caller's header, so any two requests may
\* carry the same, or one of its own.
RequestID == [Request -> Id]

NoEvent == [kind |-> "none", finish |-> "none"]
Token == [kind |-> "token", finish |-> "none"]
Failure == [kind |-> "err", finish |-> "none"]
Done(reason) == [kind |-> "done", finish |-> reason]

Init ==
    /\ engine \in {"mock", "vllm"}
    /\ id \in RequestID
    /\ handler = [r \in Request |-> "new"]
    /\ ctx = [r \in Request |-> FALSE]
    /\ watcher = [r \in Request |-> "off"]
    /\ producer = [r \in Request |-> "off"]
    /\ event = [r \in Request |-> NoEvent]
    /\ stopped = [r \in Request |-> 0]
    /\ inFlight = [i \in Id |-> None]
    /\ tracked = [i \in Id |-> None]
    /\ silent = {}
    /\ stuck = {}
    /\ current = None
    /\ taken = [r \in Request |-> 0]
    /\ relayed = [r \in Request |-> 0]
    /\ finish = [r \in Request |-> "none"]
    /\ done = {}

Goto(r, pc) == handler' = [handler EXCEPT ![r] = pc]

-----------------------------------------------------------------------------
(* The watchdog.                                                           *)

\* Start replaces whatever entry the id had.
WatchdogStart(r) ==
    /\ tracked' = [tracked EXCEPT ![id[r]] = r]
    /\ silent' = silent \ {id[r]}

Touch(r) == silent' = silent \ {id[r]} /\ UNCHANGED tracked

Forget(r) ==
    /\ tracked' = [tracked EXCEPT ![id[r]] = None]
    /\ silent' = silent \ {id[r]}

\* The threshold passes without a token.
TurnSilent(i) ==
    /\ tracked[i] # None
    /\ i \notin silent
    /\ silent' = silent \cup {i}
    /\ UNCHANGED <<engine, id, handler, ctx, watcher, producer, event,
                   backendVars, tracked, sweepVars, clientVars>>

\* The ids Stuck drops. The mutant drops them all.
RemoveAll == Id
RemoveStuck == silent

\* Stuck at the start of a sweep; a sweep runs to its end before the next.
Stuck ==
    /\ stuck = {}
    /\ current = None
    /\ silent # {}
    /\ LET found == {tracked[i] : i \in silent} IN
          /\ stuck' = found
          /\ taken' = [r \in Request |->
                          IF r \in found THEN taken[r] + 1 ELSE taken[r]]
    /\ tracked' = [i \in Id |-> IF i \in RemoveStuck THEN None ELSE tracked[i]]
    /\ silent' = {}
    /\ UNCHANGED <<engine, id, handler, ctx, watcher, producer, event,
                   backendVars, current, clientVars>>

-----------------------------------------------------------------------------
(* The backend's registry.                                                 *)

Register(r) == inFlight' = [inFlight EXCEPT ![id[r]] = r]

Unregister(r) == inFlight' = [inFlight EXCEPT ![id[r]] = None]

\* The context or channel the id names now is closed.
StopStream(i) ==
    stopped' = [r \in Request |->
                  IF r = inFlight[i] THEN stopped[r] + 1 ELSE stopped[r]]

\* Cancel stops whichever stream the id names now. The mutant leaves it
\* registered.
CancelKeeps(i) == StopStream(i) /\ UNCHANGED inFlight
Cancel(i) ==
    /\ StopStream(i)
    /\ inFlight' = [inFlight EXCEPT ![i] = None]

-----------------------------------------------------------------------------
(* The handler.                                                            *)

\* resilience.Middleware. Its request id is never empty: RequestID, further
\* out, has set one.
Start(r) ==
    /\ handler[r] = "new"
    /\ Goto(r, "admit")
    /\ WatchdogStart(r)
    /\ UNCHANGED <<engine, id, ctx, watcher, producer, event, backendVars,
                   sweepVars, clientVars>>

\* Authentication, abuse guard, rate limit and validation; then Complete or
\* Stream is called under the generation deadline.
Admit(r) ==
    /\ handler[r] = "admit"
    /\ \E pc \in {"return", "complete", "open"} : Goto(r, pc)
    /\ UNCHANGED <<engine, id, ctx, watcher, producer, event, backendVars,
                   watchdogVars, sweepVars, clientVars>>

\* Complete returns a result or an error; no registry knows of it.
Complete(r) ==
    /\ handler[r] = "complete"
    /\ Goto(r, "return")
    /\ UNCHANGED <<engine, id, ctx, watcher, producer, event, backendVars,
                   watchdogVars, sweepVars, clientVars>>

\* Stream registers the request, for vllm only once the engine has answered
\* 200, and starts the producer; the handler starts the watcher.
Stream(r) ==
    /\ handler[r] = "open"
    /\ Goto(r, "relay")
    /\ Register(r)
    /\ producer' = [producer EXCEPT ![r] = "read"]
    /\ watcher' = [watcher EXCEPT ![r] = "wait"]
    /\ UNCHANGED <<engine, id, ctx, event, stopped, watchdogVars, sweepVars,
                   clientVars>>

\* The engine cannot be reached, answers something else, or the context ends
\* before it answers.
StreamFails(r) ==
    /\ handler[r] = "open"
    /\ engine = "vllm"
    /\ Goto(r, "return")
    /\ UNCHANGED <<engine, id, ctx, watcher, producer, event, backendVars,
                   watchdogVars, sweepVars, clientVars>>

\* A token's chunk. Writing to a client that has gone is not noticed.
writeSSEChunk(r) == relayed' = [relayed EXCEPT ![r] = @ + 1]

\* The handler takes a token: Touch, and a chunk to the client.
RelayToken(r) ==
    /\ handler[r] = "relay"
    /\ producer[r] = "offer"
    /\ event[r] = Token
    /\ Touch(r)
    /\ writeSSEChunk(r)
    /\ producer' = [producer EXCEPT ![r] = "read"]
    /\ event' = [event EXCEPT ![r] = NoEvent]
    /\ UNCHANGED <<engine, id, handler, ctx, watcher, backendVars, sweepVars,
                   finish, done>>

\* The handler takes the Done event: a chunk with its finish reason.
RelayDone(r) ==
    /\ handler[r] = "relay"
    /\ producer[r] = "offer"
    /\ event[r].kind = "done"
    /\ finish' = [finish EXCEPT ![r] = event[r].finish]
    /\ producer' = [producer EXCEPT ![r] = "end"]
    /\ event' = [event EXCEPT ![r] = NoEvent]
    /\ UNCHANGED <<engine, id, handler, ctx, watcher, backendVars,
                   watchdogVars, sweepVars, relayed, done>>

\* The handler takes an error and returns: no [DONE].
RelayErr(r) ==
    /\ handler[r] = "relay"
    /\ producer[r] = "offer"
    /\ event[r] = Failure
    /\ Goto(r, "return")
    /\ producer' = [producer EXCEPT ![r] = "end"]
    /\ event' = [event EXCEPT ![r] = NoEvent]
    /\ UNCHANGED <<engine, id, ctx, watcher, backendVars, watchdogVars,
                   sweepVars, clientVars>>

\* The handler sees the channel closed. The mutant also leaves the loop when
\* it finds the client gone.
SeesEndOrGone(r) == handler[r] = "relay" /\ (producer[r] = "gone" \/ ctx[r])
SeesEnd(r) == handler[r] = "relay" /\ producer[r] = "gone"

StreamEnds(r) ==
    /\ SeesEnd(r)
    /\ done' = done \cup {r}
    /\ Goto(r, "return")
    /\ UNCHANGED <<engine, id, ctx, watcher, producer, event, backendVars,
                   watchdogVars, sweepVars, relayed, finish>>

\* The handler's deferred cancel and the middleware's deferred Forget.
Return(r) ==
    /\ handler[r] = "return"
    /\ Goto(r, "gone")
    /\ ctx' = [ctx EXCEPT ![r] = TRUE]
    /\ Forget(r)
    /\ UNCHANGED <<engine, id, watcher, producer, event, backendVars,
                   sweepVars, clientVars>>

\* The client disconnects or the generation deadline passes.
ContextEnds(r) ==
    /\ handler[r] \in {"admit", "open", "complete", "relay"}
    /\ ~ctx[r]
    /\ ctx' = [ctx EXCEPT ![r] = TRUE]
    /\ UNCHANGED <<engine, id, handler, watcher, producer, event, backendVars,
                   watchdogVars, sweepVars, clientVars>>

\* The watcher: Cancel by id, whoever owns that id by now.
Watch(r) ==
    /\ watcher[r] = "wait"
    /\ ctx[r]
    /\ watcher' = [watcher EXCEPT ![r] = "gone"]
    /\ Cancel(id[r])
    /\ UNCHANGED <<engine, id, handler, ctx, producer, event, watchdogVars,
                   sweepVars, clientVars>>

-----------------------------------------------------------------------------
(* The producer.                                                           *)

Offer(r, ev) ==
    /\ producer[r] = "read"
    /\ producer' = [producer EXCEPT ![r] = "offer"]
    /\ event' = [event EXCEPT ![r] = ev]
    /\ UNCHANGED <<engine, id, handler, ctx, watcher, backendVars,
                   watchdogVars, sweepVars, clientVars>>

\* The engine's next token, when the last one has been taken; it may be ready
\* although the stream was cancelled.
Generate(r) == relayed[r] < NTokens /\ Offer(r, Token)

Finish(r) == relayed[r] = NTokens /\ Offer(r, Done("stop"))

\* The body ends cleanly without a finish reason: consumeStream reports Done
\* all the same.
EndEarly(r) == engine = "vllm" /\ Offer(r, Done(""))

\* A chunk cannot be decoded or the connection breaks.
Break(r) == engine = "vllm" /\ Offer(r, Failure)

\* What a cancelled producer offers. The mutant leaves the
\* loop instead of returning.
AbortQuietly == Done("stop")
AbortEvent == Failure

\* ctx.Done or cancel is selected; the mock looks only between tokens.
Abort(r) ==
    /\ ctx[r] \/ stopped[r] > 0
    /\ engine = "vllm" \/ relayed[r] < NTokens
    /\ Offer(r, AbortEvent)

\* The deferred unregister, by id, and close; nobody else looks at the
\* registry and the channel together.
EndProducer(r) ==
    /\ producer[r] = "end"
    /\ producer' = [producer EXCEPT ![r] = "gone"]
    /\ Unregister(r)
    /\ UNCHANGED <<engine, id, handler, ctx, watcher, event, stopped,
                   watchdogVars, sweepVars, clientVars>>

-----------------------------------------------------------------------------
(* The sweep.                                                              *)

SweepCancel ==
    /\ current = None
    /\ \E r \in stuck :
          /\ Cancel(id[r])
          /\ stuck' = stuck \ {r}
          /\ current' = r
    /\ UNCHANGED <<engine, id, handler, ctx, watcher, producer, event,
                   watchdogVars, taken, clientVars>>

\* Enqueue to the retry queue, which nothing reads yet; an error is dropped
\* and the sweep goes on.
SweepEnqueue ==
    /\ current # None
    /\ current' = None
    /\ UNCHANGED <<engine, id, handler, ctx, watcher, producer, event,
                   backendVars, watchdogVars, stuck, taken, clientVars>>

-----------------------------------------------------------------------------
HandlerStep(r) ==
    \/ Start(r) \/ Admit(r) \/ Complete(r) \/ Stream(r) \/ StreamFails(r)
    \/ RelayToken(r) \/ RelayDone(r) \/ RelayErr(r) \/ StreamEnds(r)
    \/ Return(r)

ProducerStep(r) ==
    \/ Generate(r) \/ Finish(r) \/ EndEarly(r) \/ Break(r) \/ Abort(r)
    \/ EndProducer(r)

Next ==
    \/ \E r \in Request :
          HandlerStep(r) \/ ProducerStep(r) \/ ContextEnds(r) \/ Watch(r)
    \/ \E i \in Id : TurnSilent(i)
    \/ Stuck \/ SweepCancel \/ SweepEnqueue

\* Goroutines run and deadlines pass. The engine promises nothing: it may
\* leave the calls Complete and Do and the reading of a stream hanging until
\* the context ends or the stream is cancelled.
EngineAnswers(r) ==
    \/ ctx[r] /\ Complete(r)
    \/ (engine = "mock" \/ ctx[r]) /\ (Stream(r) \/ StreamFails(r))

Fairness ==
    \A r \in Request :
        /\ WF_vars(\/ Admit(r) \/ EngineAnswers(r) \/ RelayToken(r)
                   \/ RelayDone(r) \/ RelayErr(r) \/ StreamEnds(r)
                   \/ Return(r))
        /\ WF_vars(\/ Abort(r) \/ EndProducer(r)
                   \/ engine = "mock" /\ Finish(r))
        /\ WF_vars(handler[r] # "admit" /\ ContextEnds(r))
        /\ WF_vars(Watch(r))

Spec == Init /\ [][Next]_vars /\ Fairness

-----------------------------------------------------------------------------
(* Properties.                                                             *)

Unshared(r) == \A s \in Request \ {r} : id[s] # id[r]
InHandler(r) == handler[r] \notin {"new", "gone"}

\* Whatever is cancelled, times out, disconnects or is swept meanwhile, a
\* client that reads [DONE] has read a finish reason, and the reason "stop"
\* comes after every token; only an engine that ends its stream early leaves
\* the reason empty (streamChatCompletion: a failed generation "simply ends
\* without its normal chunks").
DoneIsWhole ==
    \A r \in done :
        /\ finish[r] \in {"stop", ""}
        /\ finish[r] = "stop" => relayed[r] = NTokens
        /\ engine = "mock" => finish[r] = "stop"

\* The watcher, the sweep and a second request with the same id never close
\* one cancel channel twice, which would panic, and the registry names only
\* producers that are still there to be cancelled (mock.go Cancel, register,
\* unregister).
CancelOnce ==
    /\ \A r \in Request : stopped[r] <= 1
    /\ \A i \in Id : inFlight[i] # None =>
          /\ producer[inFlight[i]] \in {"read", "offer", "end"}
          /\ stopped[inFlight[i]] = 0

\* The watchdog follows only requests that are still in their handler, and
\* each of those, as long as nobody else uses its id, until one sweep takes
\* it, once (watchdog.go Stuck: "handed to the caller exactly once"). A
\* request that finished before the sweep began is never requeued.
Watched ==
    /\ \A i \in Id : tracked[i] # None => InHandler(tracked[i])
    /\ \A r \in Request :
          /\ taken[r] <= 1
          /\ InHandler(r) /\ Unshared(r) /\ taken[r] = 0
                => tracked[id[r]] = r

\* Every request ends, and its handler, its producer and its watcher with it:
\* no goroutine stays blocked on the channel or the context, whatever the
\* engine does and even if another request with the same id unregisters or
\* cancels its stream (handler.go streamChatCompletion, mock.go Stream,
\* vllm.go consumeStream).
StreamsEnd ==
    <>[](\A r \in Request :
            \/ handler[r] = "new"
            \/ /\ handler[r] = "gone"
               /\ producer[r] \in {"off", "gone"}
               /\ watcher[r] \in {"off", "gone"})
=============================================================================
