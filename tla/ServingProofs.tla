--------------------------- MODULE ServingProofs ---------------------------
(***************************************************************************)
(* Theorems about Serving, for any number of requests and ids, any sharing *)
(* of ids and any length of a generation: what the client reads, what is   *)
(* cancelled and what the watchdog follows, however the goroutines of all  *)
(* requests and the sweep interleave.                                      *)
(***************************************************************************)
EXTENDS Serving, TLAPS

(* The inductive invariant, in named parts.                                *)

Before == {"new", "admit", "complete", "open"}
HandlerSteps == Before \cup {"relay", "return", "gone"}
Events == [kind : {"none", "token", "err", "done"}, finish : {"none", "stop", ""}]

Types ==
    /\ engine \in {"mock", "vllm"}
    /\ id \in [Request -> Id]
    /\ handler \in [Request -> HandlerSteps]
    /\ watcher \in [Request -> {"off", "wait", "gone"}]
    /\ producer \in [Request -> {"off", "read", "offer", "end", "gone"}]
    /\ event \in [Request -> Events]
    /\ stopped \in [Request -> Nat]
    /\ inFlight \in [Id -> Request \cup {None}]
    /\ tracked \in [Id -> Request \cup {None}]
    /\ silent \subseteq Id
    /\ stuck \subseteq Request
    /\ current \in Request \cup {None}
    /\ taken \in [Request -> Nat]
    /\ relayed \in [Request -> Nat]
    /\ finish \in [Request -> {"none", "stop", ""}]
    /\ done \subseteq Request

\* Only entries of the watchdog turn silent.
SilentIsTracked == \A i \in silent : tracked[i] # None

\* The reason the client has read, or is about to, is true of the stream.
Whole(r) ==
    /\ finish[r] = "stop" => relayed[r] = NTokens
    /\ engine = "mock" => finish[r] = "stop"
Offered(r) ==
    \/ event[r] = Token \/ event[r] = Failure
    \/ event[r] = Done("stop") /\ relayed[r] = NTokens
    \/ event[r] = Done("") /\ engine = "vllm"

\* One stream: once the reason is written nothing more is relayed, and a
\* handler that finds the channel closed has written it.
StreamOf(r) ==
    /\ handler[r] \in Before => producer[r] = "off"
    /\ handler[r] = "relay" => producer[r] # "off"
    /\ producer[r] = "offer" => Offered(r)
    /\ finish[r] # "none" => producer[r] \in {"end", "gone"} /\ Whole(r)
    /\ handler[r] = "relay" /\ producer[r] \in {"end", "gone"} => finish[r] # "none"
    /\ r \in done => finish[r] # "none"
Streaming == \A r \in Request : StreamOf(r)

\* The registry has a stream under its own id only, and a stream that has not
\* begun was never cancelled.
Registry ==
    /\ \A i \in Id : inFlight[i] # None => id[inFlight[i]] = i
    /\ \A r \in Request : producer[r] = "off" => stopped[r] = 0

\* The watchdog has a request under its own id only, and none that a sweep
\* has taken or that has yet to start.
Watchdog ==
    /\ \A i \in Id : tracked[i] # None => id[tracked[i]] = i /\ taken[tracked[i]] = 0
    /\ \A r \in Request : handler[r] = "new" => taken[r] = 0

ServingInv == Types /\ SilentIsTracked /\ Streaming /\ Registry /\ CancelOnce
              /\ Watchdog /\ Watched

-----------------------------------------------------------------------------
(* The steps.                                                              *)

\* The five ways a producer comes to offer an event.
Produce(r) == Generate(r) \/ Finish(r) \/ EndEarly(r) \/ Break(r) \/ Abort(r)

\* What they have in common.
LEMMA ProducerOffers ==
    ASSUME Types, NEW r \in Request, Produce(r)
    PROVE  \E ev \in Events :
             /\ Offer(r, ev)
             /\ \/ ev = Token \/ ev = Failure
                \/ ev = Done("stop") /\ relayed[r] = NTokens
                \/ ev = Done("") /\ engine = "vllm"
<1>1. Token \in Events /\ Failure \in Events /\ Done("stop") \in Events /\ Done("") \in Events
  BY DEF Events, Token, Failure, Done
<1> QED
  BY <1>1 DEF Produce, Generate, Finish, EndEarly, Break, Abort, AbortEvent

\* Cancel counts.
LEMMA CancelTypes ==
    ASSUME stopped \in [Request -> Nat], NEW i, Cancel(i)
    PROVE  stopped' \in [Request -> Nat]
  BY DEF Cancel, StopStream

\* Every step keeps the types, and only what the watchdog has turns silent.
LEMMA NextTypes ==
    ASSUME Types, SilentIsTracked, [Next]_vars
    PROVE  Types' /\ SilentIsTracked'
<1>1. CASE UNCHANGED vars
  BY <1>1 DEF vars, Types, SilentIsTracked, clientVars, sweepVars, watchdogVars, backendVars
<1>2. ASSUME NEW r \in Request, Start(r) \/ Return(r)
      PROVE  Types' /\ SilentIsTracked'
  <2>1. handler' \in [Request -> HandlerSteps]
    <3>1. handler \in [Request -> HandlerSteps] /\ "admit" \in HandlerSteps /\ "gone" \in HandlerSteps
      BY DEF Types, Before, HandlerSteps
    <3>2. \E pc \in {"admit", "gone"} : handler' = [handler EXCEPT ![r] = pc]
      BY <1>2 DEF Start, Return, Goto
    <3> QED
      BY <3>1, <3>2
  <2>2. tracked' \in [Id -> Request \cup {None}]
    BY <1>2 DEF Start, Return, Goto, WatchdogStart, Forget, Types
  <2>3. silent' \subseteq Id
    BY <1>2 DEF Start, Return, Goto, WatchdogStart, Forget, Types
  <2>4. UNCHANGED <<engine, id, watcher, producer, event, stopped, inFlight, stuck, current, taken, relayed, finish, done>>
    BY <1>2 DEF Start, Return, Goto, WatchdogStart, Forget, clientVars, sweepVars, watchdogVars, backendVars
  <2>5. SilentIsTracked'
    BY <1>2, NoneAssumption DEF Start, Return, Goto, WatchdogStart, Forget, SilentIsTracked, Types
  <2> QED
    BY <2>1, <2>2, <2>3, <2>4, <2>5 DEF Types
<1>3. ASSUME NEW r \in Request, Admit(r) \/ Complete(r) \/ StreamFails(r)
      PROVE  Types' /\ SilentIsTracked'
  <2>1. handler' \in [Request -> HandlerSteps]
    BY <1>3 DEF Admit, Complete, StreamFails, Goto, Types, Before, HandlerSteps
  <2>2. UNCHANGED <<engine, id, watcher, producer, event, stopped, inFlight, tracked, silent, stuck, current, taken, relayed, finish, done>>
    BY <1>3 DEF Admit, Complete, StreamFails, Goto, clientVars, sweepVars, watchdogVars, backendVars
  <2>3. SilentIsTracked'
    BY <2>2 DEF SilentIsTracked
  <2> QED
    BY <2>1, <2>2, <2>3 DEF Types
<1>4. ASSUME NEW r \in Request, StreamEnds(r)
      PROVE  Types' /\ SilentIsTracked'
  <2>1. handler' \in [Request -> HandlerSteps]
    BY <1>4 DEF StreamEnds, Goto, Types, Before, HandlerSteps
  <2>2. done' \subseteq Request
    BY <1>4 DEF StreamEnds, Goto, Types
  <2>3. UNCHANGED <<engine, id, watcher, producer, event, stopped, inFlight, tracked, silent, stuck, current, taken, relayed, finish>>
    BY <1>4 DEF StreamEnds, Goto, clientVars, sweepVars, watchdogVars, backendVars
  <2>4. SilentIsTracked'
    BY <2>3 DEF SilentIsTracked
  <2> QED
    BY <2>1, <2>2, <2>3, <2>4 DEF Types
<1>5. ASSUME NEW r \in Request, Stream(r)
      PROVE  Types' /\ SilentIsTracked'
  <2>1. handler' \in [Request -> HandlerSteps]
    BY <1>5 DEF Stream, Goto, Register, Types, Before, HandlerSteps
  <2>2. watcher' \in [Request -> {"off", "wait", "gone"}]
    BY <1>5 DEF Stream, Goto, Register, Types
  <2>3. producer' \in [Request -> {"off", "read", "offer", "end", "gone"}]
    BY <1>5 DEF Stream, Goto, Register, Types
  <2>4. inFlight' \in [Id -> Request \cup {None}]
    BY <1>5 DEF Stream, Goto, Register, Types
  <2>5. UNCHANGED <<engine, id, event, stopped, tracked, silent, stuck, current, taken, relayed, finish, done>>
    BY <1>5 DEF Stream, Goto, Register, clientVars, sweepVars, watchdogVars, backendVars
  <2>6. SilentIsTracked'
    BY <2>5 DEF SilentIsTracked
  <2> QED
    BY <2>1, <2>2, <2>3, <2>4, <2>5, <2>6 DEF Types
<1>6. ASSUME NEW r \in Request, EndProducer(r)
      PROVE  Types' /\ SilentIsTracked'
  <2>1. producer' \in [Request -> {"off", "read", "offer", "end", "gone"}]
    BY <1>6 DEF EndProducer, Unregister, Types
  <2>2. inFlight' \in [Id -> Request \cup {None}]
    BY <1>6 DEF EndProducer, Unregister, Types
  <2>3. UNCHANGED <<engine, id, handler, watcher, event, stopped, tracked, silent, stuck, current, taken, relayed, finish, done>>
    BY <1>6 DEF EndProducer, Unregister, clientVars, sweepVars, watchdogVars, backendVars
  <2>4. SilentIsTracked'
    BY <2>3 DEF SilentIsTracked
  <2> QED
    BY <2>1, <2>2, <2>3, <2>4 DEF Types
<1>7. ASSUME NEW r \in Request, RelayToken(r)
      PROVE  Types' /\ SilentIsTracked'
  <2>1. NoEvent \in Events
    BY DEF NoEvent, Events
  <2>2. producer' \in [Request -> {"off", "read", "offer", "end", "gone"}]
    BY <1>7, <2>1 DEF RelayToken, Touch, writeSSEChunk, Types
  <2>3. event' \in [Request -> Events]
    BY <1>7, <2>1 DEF RelayToken, Touch, writeSSEChunk, Types
  <2>4. relayed' \in [Request -> Nat]
    <3>1. relayed \in [Request -> Nat]
      BY DEF Types
    <3>2. relayed' = [relayed EXCEPT ![r] = @ + 1]
      BY <1>7 DEF RelayToken, writeSSEChunk
    <3> QED
      BY <3>1, <3>2
  <2>5. silent' \subseteq Id
    BY <1>7, <2>1 DEF RelayToken, Touch, writeSSEChunk, Types
  <2>6. UNCHANGED <<engine, id, handler, watcher, stopped, inFlight, tracked, stuck, current, taken, finish, done>>
    BY <1>7 DEF RelayToken, Touch, writeSSEChunk, clientVars, sweepVars, watchdogVars, backendVars
  <2>7. SilentIsTracked'
    BY <1>7 DEF RelayToken, Touch, writeSSEChunk, SilentIsTracked, Types
  <2> QED
    BY <2>2, <2>3, <2>4, <2>5, <2>6, <2>7 DEF Types
<1>8. ASSUME NEW r \in Request, RelayDone(r)
      PROVE  Types' /\ SilentIsTracked'
  <2>1. NoEvent \in Events /\ event[r].finish \in {"none", "stop", ""}
    BY DEF NoEvent, Events, Types
  <2>2. producer' \in [Request -> {"off", "read", "offer", "end", "gone"}]
    BY <1>8, <2>1 DEF RelayDone, Types
  <2>3. event' \in [Request -> Events]
    BY <1>8, <2>1 DEF RelayDone, Types
  <2>4. finish' \in [Request -> {"none", "stop", ""}]
    BY <1>8, <2>1 DEF RelayDone, Types
  <2>5. UNCHANGED <<engine, id, handler, watcher, stopped, inFlight, tracked, silent, stuck, current, taken, relayed, done>>
    BY <1>8 DEF RelayDone, clientVars, sweepVars, watchdogVars, backendVars
  <2>6. SilentIsTracked'
    BY <2>5 DEF SilentIsTracked
  <2> QED
    BY <2>2, <2>3, <2>4, <2>5, <2>6 DEF Types
<1>9. ASSUME NEW r \in Request, RelayErr(r)
      PROVE  Types' /\ SilentIsTracked'
  <2>1. NoEvent \in Events
    BY DEF NoEvent, Events
  <2>2. handler' \in [Request -> HandlerSteps]
    BY <1>9, <2>1 DEF RelayErr, Goto, Types, Before, HandlerSteps
  <2>3. producer' \in [Request -> {"off", "read", "offer", "end", "gone"}]
    BY <1>9, <2>1 DEF RelayErr, Goto, Types
  <2>4. event' \in [Request -> Events]
    BY <1>9, <2>1 DEF RelayErr, Goto, Types
  <2>5. UNCHANGED <<engine, id, watcher, stopped, inFlight, tracked, silent, stuck, current, taken, relayed, finish, done>>
    BY <1>9 DEF RelayErr, Goto, clientVars, sweepVars, watchdogVars, backendVars
  <2>6. SilentIsTracked'
    BY <2>5 DEF SilentIsTracked
  <2> QED
    BY <2>2, <2>3, <2>4, <2>5, <2>6 DEF Types
<1>10. ASSUME NEW r \in Request, Produce(r)
      PROVE  Types' /\ SilentIsTracked'
  <2>1. producer' \in [Request -> {"off", "read", "offer", "end", "gone"}]
    BY <1>10, ProducerOffers DEF Offer, Types
  <2>2. event' \in [Request -> Events]
    BY <1>10, ProducerOffers DEF Offer, Types
  <2>3. UNCHANGED <<engine, id, handler, watcher, stopped, inFlight, tracked, silent, stuck, current, taken, relayed, finish, done>>
    BY <1>10, ProducerOffers DEF Offer, clientVars, sweepVars, watchdogVars, backendVars
  <2>4. SilentIsTracked'
    BY <2>3 DEF SilentIsTracked
  <2> QED
    BY <2>1, <2>2, <2>3, <2>4 DEF Types
<1>11. ASSUME NEW r \in Request, ContextEnds(r)
      PROVE  Types' /\ SilentIsTracked'
  <2>1. UNCHANGED <<engine, id, handler, watcher, producer, event, stopped, inFlight, tracked, silent, stuck, current, taken, relayed, finish, done>>
    BY <1>11 DEF ContextEnds, clientVars, sweepVars, watchdogVars, backendVars
  <2>2. SilentIsTracked'
    BY <2>1 DEF SilentIsTracked
  <2> QED
    BY <2>1, <2>2 DEF Types
<1>12. ASSUME NEW r \in Request, Watch(r)
      PROVE  Types' /\ SilentIsTracked'
  <2>1. watcher' \in [Request -> {"off", "wait", "gone"}]
    BY <1>12 DEF Watch, Cancel, StopStream, Types
  <2>2. stopped' \in [Request -> Nat]
    BY <1>12, CancelTypes DEF Watch, Types
  <2>3. inFlight' \in [Id -> Request \cup {None}]
    BY <1>12 DEF Watch, Cancel, StopStream, Types
  <2>4. UNCHANGED <<engine, id, handler, producer, event, tracked, silent, stuck, current, taken, relayed, finish, done>>
    BY <1>12 DEF Watch, Cancel, StopStream, clientVars, sweepVars, watchdogVars, backendVars
  <2>5. SilentIsTracked'
    BY <2>4 DEF SilentIsTracked
  <2> QED
    BY <2>1, <2>2, <2>3, <2>4, <2>5 DEF Types
<1>13. CASE SweepCancel
  <2>1. stopped' \in [Request -> Nat]
    BY <1>13, CancelTypes DEF SweepCancel, Types
  <2>2. inFlight' \in [Id -> Request \cup {None}]
    BY <1>13 DEF SweepCancel, Cancel, StopStream, Types
  <2>3. stuck' \subseteq Request
    BY <1>13 DEF SweepCancel, Cancel, StopStream, Types
  <2>4. current' \in Request \cup {None}
    BY <1>13 DEF SweepCancel, Cancel, StopStream, Types
  <2>5. UNCHANGED <<engine, id, handler, watcher, producer, event, tracked, silent, taken, relayed, finish, done>>
    BY <1>13 DEF SweepCancel, Cancel, StopStream, clientVars, sweepVars, watchdogVars, backendVars
  <2>6. SilentIsTracked'
    BY <2>5 DEF SilentIsTracked
  <2> QED
    BY <2>1, <2>2, <2>3, <2>4, <2>5, <2>6 DEF Types
<1>14. CASE SweepEnqueue
  <2>1. current' \in Request \cup {None}
    BY <1>14 DEF SweepEnqueue, Types
  <2>2. UNCHANGED <<engine, id, handler, watcher, producer, event, stopped, inFlight, tracked, silent, stuck, taken, relayed, finish, done>>
    BY <1>14 DEF SweepEnqueue, clientVars, sweepVars, watchdogVars, backendVars
  <2>3. SilentIsTracked'
    BY <2>2 DEF SilentIsTracked
  <2> QED
    BY <2>1, <2>2, <2>3 DEF Types
<1>15. ASSUME NEW i \in Id, TurnSilent(i)
      PROVE  Types' /\ SilentIsTracked'
  <2>1. silent' \subseteq Id
    BY <1>15 DEF TurnSilent, Types
  <2>2. UNCHANGED <<engine, id, handler, watcher, producer, event, stopped, inFlight, tracked, stuck, current, taken, relayed, finish, done>>
    BY <1>15 DEF TurnSilent, clientVars, sweepVars, watchdogVars, backendVars
  <2>3. SilentIsTracked'
    BY <1>15 DEF TurnSilent, SilentIsTracked, Types
  <2> QED
    BY <2>1, <2>2, <2>3 DEF Types
<1>16. CASE Stuck
  <2>1. tracked' \in [Id -> Request \cup {None}]
    BY <1>16 DEF Stuck, RemoveStuck, Types
  <2>2. silent' \subseteq Id
    BY <1>16 DEF Stuck, RemoveStuck, Types
  <2>3. stuck' \subseteq Request
    <3>1. \A i \in silent : tracked[i] \in Request
      BY DEF Types, SilentIsTracked
    <3>2. stuck' = {tracked[i] : i \in silent}
      BY <1>16 DEF Stuck
    <3> QED
      BY <3>1, <3>2
  <2>4. taken' \in [Request -> Nat]
    <3>1. taken \in [Request -> Nat]
      BY DEF Types
    <3>2. \E found : taken' = [r \in Request |-> IF r \in found THEN taken[r] + 1 ELSE taken[r]]
      BY <1>16 DEF Stuck
    <3> QED
      BY <3>1, <3>2
  <2>5. UNCHANGED <<engine, id, handler, watcher, producer, event, stopped, inFlight, current, relayed, finish, done>>
    BY <1>16 DEF Stuck, RemoveStuck, clientVars, sweepVars, watchdogVars, backendVars
  <2>6. SilentIsTracked'
    BY <1>16, NoneAssumption DEF Stuck, RemoveStuck, SilentIsTracked, Types
  <2> QED
    BY <2>1, <2>2, <2>3, <2>4, <2>5, <2>6 DEF Types
<1> QED
  BY <1>1, <1>2, <1>3, <1>4, <1>5, <1>6, <1>7, <1>8, <1>9, <1>10, <1>11, <1>12, <1>13, <1>14, <1>15, <1>16
  DEF Next, HandlerStep, ProducerStep, Produce

-----------------------------------------------------------------------------
(* What the client reads.                                                  *)

\* Every step keeps each stream true to its finish reason.
LEMMA NextStreaming ==
    ASSUME Types, Streaming, [Next]_vars
    PROVE  Streaming'
<1> USE DEF StreamOf, clientVars, sweepVars, watchdogVars, backendVars
<1>t. /\ handler \in [Request -> HandlerSteps] /\ relayed \in [Request -> Nat]
      /\ producer \in [Request -> {"off", "read", "offer", "end", "gone"}]
      /\ event \in [Request -> Events] /\ finish \in [Request -> {"none", "stop", ""}]
      /\ done \subseteq Request
  BY DEF Types
<1>1. CASE \/ UNCHANGED vars \/ Stuck \/ SweepCancel \/ SweepEnqueue
           \/ (\E i \in Id : TurnSilent(i)) \/ (\E r \in Request : ContextEnds(r) \/ Watch(r))
  <2>1. UNCHANGED <<engine, handler, producer, event, relayed, finish, done>>
    BY <1>1, <1>t DEF vars, Stuck, SweepCancel, SweepEnqueue, TurnSilent, ContextEnds, Watch
  <2> QED
    BY <1>t, <2>1 DEF Streaming, Whole, Offered, Before
<1>2. ASSUME NEW r \in Request,
             \/ Start(r) \/ Return(r) \/ Admit(r) \/ Complete(r) \/ StreamFails(r)
      PROVE  Streaming'
  <2>1. UNCHANGED <<engine, producer, event, relayed, finish, done>>
    BY <1>2, <1>t DEF Start, Return, Admit, Complete, StreamFails
  <2>2. /\ \A q \in Request \ {r} : handler'[q] = handler[q]
        /\ handler'[r] # "relay"
        /\ handler'[r] \in Before => handler[r] \in Before
    BY <1>t, <1>2 DEF Start, Return, Admit, Complete, StreamFails, Goto, Before
  <2> QED
    BY <1>t, <2>1, <2>2 DEF Streaming, Whole, Offered, Before
<1>3. ASSUME NEW r \in Request, Stream(r)
      PROVE  Streaming'
  <2>1. /\ \A q \in Request \ {r} : handler'[q] = handler[q] /\ producer'[q] = producer[q]
        /\ handler[r] \in Before /\ handler'[r] = "relay" /\ producer'[r] = "read"
        /\ UNCHANGED <<engine, event, relayed, finish, done>>
    BY <1>3, <1>t DEF Stream, Goto, Before
  <2> QED
    BY <1>t, <2>1 DEF Streaming, Whole, Offered, Before
<1>4. ASSUME NEW r \in Request, RelayToken(r)
      PROVE  Streaming'
  <2>1. /\ \A q \in Request \ {r} : /\ producer'[q] = producer[q] /\ event'[q] = event[q]
                                    /\ relayed'[q] = relayed[q]
        /\ handler[r] = "relay" /\ producer[r] = "offer" /\ producer'[r] = "read"
        /\ UNCHANGED <<engine, handler, finish, done>>
    BY <1>4, <1>t DEF RelayToken, writeSSEChunk
  <2> QED
    BY <1>t, <2>1 DEF Streaming, Whole, Offered, Before
<1>5. ASSUME NEW r \in Request, RelayDone(r)
      PROVE  Streaming'
  <2>1. /\ \A q \in Request \ {r} : /\ producer'[q] = producer[q] /\ event'[q] = event[q]
                                    /\ finish'[q] = finish[q]
        /\ handler[r] = "relay" /\ producer[r] = "offer" /\ producer'[r] = "end"
        /\ finish'[r] = event[r].finish /\ event[r].kind = "done"
        /\ UNCHANGED <<engine, handler, relayed, done>>
    BY <1>5, <1>t DEF RelayDone
  <2>2. \/ finish'[r] = "stop" /\ relayed[r] = NTokens
        \/ finish'[r] = "" /\ engine = "vllm"
    <3>1. Offered(r)
      BY <2>1 DEF Streaming
    <3>2. Token.kind = "token" /\ Failure.kind = "err"
      BY DEF Token, Failure
    <3>3. Done("stop").finish = "stop" /\ Done("").finish = ""
      BY DEF Done
    <3> QED
      BY <2>1, <3>1, <3>2, <3>3 DEF Offered
  <2>3. StreamOf(r)'
    BY <1>t, <2>1, <2>2 DEF Whole, Before
  <2>4. ASSUME NEW q \in Request \ {r}
        PROVE  StreamOf(q)'
    BY <2>1 DEF Streaming, Whole, Offered
  <2> QED
    BY <2>3, <2>4 DEF Streaming
<1>6. ASSUME NEW r \in Request, RelayErr(r)
      PROVE  Streaming'
  <2>1. /\ \A q \in Request \ {r} : /\ producer'[q] = producer[q] /\ event'[q] = event[q]
                                    /\ handler'[q] = handler[q]
        /\ handler'[r] = "return" /\ producer[r] = "offer" /\ producer'[r] = "end"
        /\ UNCHANGED <<engine, finish, relayed, done>>
    BY <1>6, <1>t DEF RelayErr, Goto
  <2> QED
    BY <1>t, <2>1 DEF Streaming, Whole, Offered, Before
<1>7. ASSUME NEW r \in Request, StreamEnds(r)
      PROVE  Streaming'
  <2>1. /\ \A q \in Request \ {r} : handler'[q] = handler[q]
        /\ handler[r] = "relay" /\ producer[r] = "gone" /\ handler'[r] = "return"
        /\ done' = done \cup {r}
        /\ UNCHANGED <<engine, producer, event, finish, relayed>>
    BY <1>7, <1>t DEF StreamEnds, SeesEnd, Goto
  <2> QED
    BY <1>t, <2>1 DEF Streaming, Whole, Offered, Before
<1>8. ASSUME NEW r \in Request, Produce(r)
      PROVE  Streaming'
  <2>1. PICK ev \in Events :
             /\ Offer(r, ev)
             /\ \/ ev = Token \/ ev = Failure
                \/ ev = Done("stop") /\ relayed[r] = NTokens
                \/ ev = Done("") /\ engine = "vllm"
    BY <1>8, ProducerOffers
  <2>2. /\ \A q \in Request \ {r} : producer'[q] = producer[q] /\ event'[q] = event[q]
        /\ producer[r] = "read" /\ producer'[r] = "offer" /\ event'[r] = ev
        /\ UNCHANGED <<engine, handler, finish, relayed, done>>
    BY <1>t, <2>1 DEF Offer
  <2> QED
    BY <1>t, <2>1, <2>2 DEF Streaming, Whole, Offered, Before
<1>9. ASSUME NEW r \in Request, EndProducer(r)
      PROVE  Streaming'
  <2>1. /\ \A q \in Request \ {r} : producer'[q] = producer[q]
        /\ producer[r] = "end" /\ producer'[r] = "gone"
        /\ UNCHANGED <<engine, handler, event, finish, relayed, done>>
    BY <1>9, <1>t DEF EndProducer
  <2> QED
    BY <1>t, <2>1 DEF Streaming, Whole, Offered, Before
<1> QED
  BY <1>1, <1>2, <1>3, <1>4, <1>5, <1>6, <1>7, <1>8, <1>9
  DEF Next, HandlerStep, ProducerStep, Produce

-----------------------------------------------------------------------------
(* What is cancelled.                                                      *)

\* Cancel closes the channel the id names, which was open, and forgets it.
LEMMA CancelStep ==
    ASSUME Types, Registry, CancelOnce, NEW i \in Id, Cancel(i), UNCHANGED <<id, producer>>
    PROVE  Registry' /\ CancelOnce'
<1>t. /\ id \in [Request -> Id] /\ inFlight \in [Id -> Request \cup {None}]
      /\ stopped \in [Request -> Nat]
  BY DEF Types
<1>1. /\ inFlight'[i] = None /\ \A j \in Id \ {i} : inFlight'[j] = inFlight[j]
      /\ \A r \in Request : stopped'[r] = IF r = inFlight[i] THEN stopped[r] + 1 ELSE stopped[r]
  BY <1>t DEF Cancel, StopStream
<1>2. \A j \in Id \ {i} : inFlight[j] # None => inFlight[j] # inFlight[i]
  BY <1>t DEF Registry
<1>3. \A r \in Request : r = inFlight[i] => stopped[r] = 0 /\ producer[r] # "off"
  BY NoneAssumption DEF CancelOnce
<1>4. \A r \in Request : stopped'[r] <= 1 /\ (producer[r] = "off" => stopped'[r] = 0)
  BY <1>t, <1>1, <1>3 DEF Registry, CancelOnce
<1>5. \A j \in Id : inFlight'[j] # None =>
        /\ inFlight'[j] = inFlight[j] /\ inFlight[j] \in Request
        /\ stopped'[inFlight[j]] = stopped[inFlight[j]]
  BY <1>t, <1>1, <1>2
<1>6. Registry'
  BY <1>4, <1>5 DEF Registry
<1>7. CancelOnce'
  BY <1>4, <1>5 DEF CancelOnce
<1> QED
  BY <1>6, <1>7

\* Every step keeps the registry and closes no channel twice.
LEMMA NextRegistry ==
    ASSUME Types, Streaming, Registry, CancelOnce, [Next]_vars
    PROVE  Registry' /\ CancelOnce'
<1> USE DEF clientVars, sweepVars, watchdogVars, backendVars
<1>t. /\ id \in [Request -> Id] /\ inFlight \in [Id -> Request \cup {None}]
      /\ producer \in [Request -> {"off", "read", "offer", "end", "gone"}]
      /\ stopped \in [Request -> Nat]
  BY DEF Types
<1>1. CASE \/ UNCHANGED vars \/ Stuck \/ SweepEnqueue \/ (\E i \in Id : TurnSilent(i))
           \/ \E r \in Request : \/ Start(r) \/ Return(r) \/ Admit(r) \/ Complete(r) \/ StreamFails(r)
                                 \/ StreamEnds(r) \/ ContextEnds(r)
  <2>1. UNCHANGED <<id, producer, inFlight, stopped>>
    BY <1>1 DEF vars, Stuck, SweepEnqueue, TurnSilent, Start, Return, Admit, Complete, StreamFails,
       StreamEnds, ContextEnds
  <2> QED
    BY <2>1 DEF Registry, CancelOnce
<1>2. ASSUME NEW r \in Request, RelayToken(r) \/ RelayDone(r) \/ RelayErr(r) \/ Produce(r)
      PROVE  Registry' /\ CancelOnce'
  <2>1. UNCHANGED <<id, inFlight, stopped>> /\ producer' \in [Request -> {"off", "read", "offer", "end", "gone"}]
    BY <1>t, <1>2, ProducerOffers DEF RelayToken, RelayDone, RelayErr, Offer
  <2>2. /\ \A q \in Request \ {r} : producer'[q] = producer[q]
        /\ producer'[r] \in {"read", "offer", "end"} /\ producer[r] \in {"read", "offer"}
    BY <1>t, <1>2, ProducerOffers DEF RelayToken, RelayDone, RelayErr, Offer
  <2> QED
    BY <1>t, <2>1, <2>2 DEF Registry, CancelOnce
<1>3. ASSUME NEW r \in Request, Stream(r)
      PROVE  Registry' /\ CancelOnce'
  <2>1. /\ UNCHANGED <<id, stopped>> /\ handler[r] = "open"
        /\ inFlight'[id[r]] = r /\ \A j \in Id \ {id[r]} : inFlight'[j] = inFlight[j]
        /\ producer'[r] = "read" /\ \A q \in Request \ {r} : producer'[q] = producer[q]
    BY <1>t, <1>3 DEF Stream, Register
  <2>2. producer[r] = "off" /\ stopped[r] = 0
    BY <2>1 DEF Streaming, StreamOf, Before, Registry
  <2> QED
    BY <1>t, <2>1, <2>2 DEF Registry, CancelOnce
<1>4. ASSUME NEW r \in Request, EndProducer(r)
      PROVE  Registry' /\ CancelOnce'
  <2>1. /\ UNCHANGED <<id, stopped>>
        /\ inFlight'[id[r]] = None /\ \A j \in Id \ {id[r]} : inFlight'[j] = inFlight[j]
        /\ producer'[r] = "gone" /\ \A q \in Request \ {r} : producer'[q] = producer[q]
    BY <1>t, <1>4 DEF EndProducer, Unregister
  <2>2. \A j \in Id : inFlight'[j] # None => inFlight'[j] = inFlight[j] /\ inFlight'[j] # r
    BY <2>1 DEF Registry
  <2> QED
    BY <1>t, <2>1, <2>2 DEF Registry, CancelOnce
<1>5. CASE SweepCancel \/ \E r \in Request : Watch(r)
  <2>1. UNCHANGED <<id, producer>> /\ \E i \in Id : Cancel(i)
    BY <1>5 DEF SweepCancel, Watch, Types
  <2> QED
    BY <2>1, CancelStep
<1> QED
  BY <1>1, <1>2, <1>3, <1>4, <1>5 DEF Next, HandlerStep, ProducerStep, Produce

-----------------------------------------------------------------------------
(* What the watchdog follows.                                              *)

\* Every step keeps the watchdog's entries true to the handlers.
LEMMA NextWatchdog ==
    ASSUME Types, SilentIsTracked, Watchdog, Watched, [Next]_vars
    PROVE  Watchdog' /\ Watched'
<1> USE DEF clientVars, sweepVars, watchdogVars, backendVars
<1>t. /\ id \in [Request -> Id] /\ tracked \in [Id -> Request \cup {None}]
      /\ handler \in [Request -> HandlerSteps] /\ taken \in [Request -> Nat] /\ silent \subseteq Id
  BY DEF Types
<1>1. CASE \/ UNCHANGED vars \/ SweepCancel \/ SweepEnqueue \/ (\E i \in Id : TurnSilent(i))
           \/ \E r \in Request : \/ RelayToken(r) \/ RelayDone(r) \/ EndProducer(r) \/ ContextEnds(r)
                                 \/ Watch(r) \/ Produce(r)
  <2>1. UNCHANGED <<id, handler, tracked, taken>>
    BY <1>1, ProducerOffers DEF vars, SweepCancel, SweepEnqueue, TurnSilent, RelayToken, RelayDone,
       EndProducer, ContextEnds, Watch, Touch, Offer
  <2> QED
    BY <2>1 DEF Watchdog, Watched, InHandler, Unshared
<1>2. ASSUME NEW r \in Request,
             \/ Admit(r) \/ Complete(r) \/ Stream(r) \/ StreamFails(r) \/ RelayErr(r) \/ StreamEnds(r)
      PROVE  Watchdog' /\ Watched'
  <2>1. /\ UNCHANGED <<id, tracked, taken>>
        /\ \A q \in Request \ {r} : handler'[q] = handler[q]
        /\ InHandler(r) /\ InHandler(r)'
    BY <1>t, <1>2 DEF Admit, Complete, Stream, StreamFails, RelayErr, StreamEnds, SeesEnd, Goto, InHandler
  <2>2. \A q \in Request : (InHandler(q)' <=> InHandler(q)) /\ (handler'[q] = "new" => handler[q] = "new")
    BY <2>1 DEF InHandler
  <2> QED
    BY <1>t, <2>1, <2>2 DEF Watchdog, Watched, Unshared
<1>3. ASSUME NEW r \in Request, Start(r)
      PROVE  Watchdog' /\ Watched'
  <2>1. /\ UNCHANGED <<id, taken>> /\ handler[r] = "new" /\ handler'[r] = "admit"
        /\ \A q \in Request \ {r} : handler'[q] = handler[q]
        /\ tracked'[id[r]] = r /\ \A i \in Id \ {id[r]} : tracked'[i] = tracked[i]
    BY <1>t, <1>3 DEF Start, WatchdogStart, Goto
  <2>2. InHandler(r)' /\ \A q \in Request \ {r} : InHandler(q)' <=> InHandler(q)
    BY <2>1 DEF InHandler
  <2> QED
    BY <1>t, <2>1, <2>2 DEF Watchdog, Watched, Unshared
<1>4. ASSUME NEW r \in Request, Return(r)
      PROVE  Watchdog' /\ Watched'
  <2>1. /\ UNCHANGED <<id, taken>> /\ handler'[r] = "gone"
        /\ \A q \in Request \ {r} : handler'[q] = handler[q]
        /\ tracked'[id[r]] = None /\ \A i \in Id \ {id[r]} : tracked'[i] = tracked[i]
    BY <1>t, <1>4 DEF Return, Forget, Goto
  <2>2. ~InHandler(r)' /\ \A q \in Request \ {r} : InHandler(q)' <=> InHandler(q)
    BY <2>1 DEF InHandler
  <2>3. \A i \in Id : tracked'[i] # None => tracked'[i] = tracked[i] /\ tracked[i] # r
    BY <2>1 DEF Watchdog
  <2> QED
    BY <1>t, <2>1, <2>2, <2>3 DEF Watchdog, Watched, Unshared
<1>5. CASE Stuck
  <2> DEFINE found == {tracked[i] : i \in silent}
  <2>1. /\ UNCHANGED <<id, handler>>
        /\ \A r \in Request : taken'[r] = IF r \in found THEN taken[r] + 1 ELSE taken[r]
        /\ \A i \in Id : tracked'[i] = IF i \in silent THEN None ELSE tracked[i]
    BY <1>t, <1>5 DEF Stuck, RemoveStuck
  <2>2. \A r \in Request : r \in found => taken[r] = 0 /\ InHandler(r) /\ handler[r] # "new"
                                         /\ tracked[id[r]] = r /\ id[r] \in silent
    BY <1>t, NoneAssumption DEF SilentIsTracked, Watchdog, Watched, InHandler
  <2>3. \A r \in Request : r \notin found => tracked[id[r]] # r \/ id[r] \notin silent
    BY <1>t
  <2> HIDE DEF found
  <2>4. \A i \in Id : tracked'[i] # None => tracked'[i] = tracked[i] /\ tracked[i] \notin found
    BY <1>t, <2>1, <2>2 DEF Watchdog
  <2>5. \A r \in Request : /\ taken'[r] <= 1
                           /\ handler[r] = "new" => taken'[r] = 0
                           /\ taken'[r] = 0 => r \notin found /\ taken[r] = 0
    BY <1>t, <2>1, <2>2 DEF Watchdog, Watched
  <2>6. Watchdog'
    BY <1>t, <2>1, <2>4, <2>5 DEF Watchdog
  <2>7. Watched'
    BY <1>t, <2>1, <2>3, <2>4, <2>5 DEF Watched, InHandler, Unshared
  <2> QED
    BY <2>6, <2>7
<1> QED
  BY <1>1, <1>2, <1>3, <1>4, <1>5 DEF Next, HandlerStep, ProducerStep, Produce

-----------------------------------------------------------------------------
(* Theorems.                                                               *)

\* The inductive invariant holds in every behaviour.
THEOREM ServingInvariant == Spec => []ServingInv
<1>1. Init => ServingInv
  <2> SUFFICES ASSUME Init PROVE ServingInv
    OBVIOUS
  <2>1. Types /\ SilentIsTracked
    BY DEF Init, Types, SilentIsTracked, HandlerSteps, Before, Events, NoEvent, RequestID
  <2>2. Streaming
    BY DEF Init, Streaming, StreamOf
  <2>3. Registry /\ CancelOnce /\ Watchdog /\ Watched
    BY DEF Init, Registry, CancelOnce, Watchdog, Watched, InHandler
  <2> QED
    BY <2>1, <2>2, <2>3 DEF ServingInv
<1>2. ServingInv /\ [Next]_vars => ServingInv'
  BY NextTypes, NextStreaming, NextRegistry, NextWatchdog DEF ServingInv
<1> QED
  BY <1>1, <1>2, PTL DEF Spec

\* Whatever is cancelled, times out, disconnects or is swept, a client that
\* reads [DONE] has read a finish reason that is true of its stream
\* (handler.go streamChatCompletion, mock.go and vllm.go Stream).
THEOREM DoneMeansWhole == Spec => []DoneIsWhole
<1>1. ServingInv => DoneIsWhole
  BY DEF ServingInv, Types, Streaming, StreamOf, Whole, DoneIsWhole
<1> QED
  BY <1>1, ServingInvariant, PTL

\* No cancel channel is closed twice, and the registry names only producers
\* that are still there (mock.go Cancel, register, unregister).
THEOREM CancelledOnce == Spec => []CancelOnce
<1>1. ServingInv => CancelOnce
  BY DEF ServingInv
<1> QED
  BY <1>1, ServingInvariant, PTL

\* The watchdog follows the requests in their handlers and hands each to one
\* sweep at most (resilience/watchdog.go Start, Touch, Forget, Stuck).
THEOREM WatchdogIsExact == Spec => []Watched
<1>1. ServingInv => Watched
  BY DEF ServingInv
<1> QED
  BY <1>1, ServingInvariant, PTL

=============================================================================
