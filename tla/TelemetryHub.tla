---------------------------- MODULE TelemetryHub ----------------------------
(***************************************************************************)
(* Live telemetry to dashboards (internal/telemetry): publishers hand      *)
(* samples to the hub, which copies each into the buffer of every          *)
(* subscribed connection, and one handler with one reader goroutine per    *)
(* WebSocket writes them out.  Only how many samples a buffer holds is     *)
(* kept.  A client can close its connection, which the reader notices, or  *)
(* vanish, which only a write or a ping notices.                           *)
(***************************************************************************)
EXTENDS Naturals

CONSTANTS
    Conn,        \* WebSocket connections
    BufferSize   \* subscriberBufferSize

ASSUME BufferSizeAssumption == BufferSize \in Nat \ {0}

VARIABLES
    client,    \* each client: away, here, closed or vanished
    handler,   \* where each connection's handler is
    reader,    \* the goroutine that reads from the connection
    ctx,       \* the connection's context is cancelled
    subs,      \* Hub.subs
    buffered,  \* samples in each subscriber's channel
    closed     \* connections whose channel was closed

hubVars == <<client, handler, reader, ctx, subs, buffered, closed>>

HubInit ==
    /\ client = [c \in Conn |-> "away"]
    /\ handler = [c \in Conn |-> "off"]
    /\ reader = [c \in Conn |-> "off"]
    /\ ctx = [c \in Conn |-> FALSE]
    /\ subs = {}
    /\ buffered = [c \in Conn |-> 0]
    /\ closed = {}

Goto(c, pc) == handler' = [handler EXCEPT ![c] = pc]

-----------------------------------------------------------------------------
(* The hub.                                                                *)

\* Publish, for a latency or a GPU reading: a full buffer loses the sample,
\* nobody waits.
Publish ==
    /\ subs # {}
    /\ buffered' = [c \in Conn |-> IF c \in subs /\ buffered[c] < BufferSize
                                     THEN buffered[c] + 1 ELSE buffered[c]]
    /\ UNCHANGED <<client, handler, reader, ctx, subs, closed>>

Subscribe(c) ==
    /\ handler[c] = "accepted"
    /\ Goto(c, "select")
    /\ subs' = subs \cup {c}
    /\ UNCHANGED <<client, reader, ctx, buffered, closed>>

\* unsubscribe in its two steps: out of the map under the lock, then close.
\* The mutants swap them.
CloseFirst(c) == closed' = closed \cup {c} /\ UNCHANGED subs
DeleteSub(c) == subs' = subs \ {c} /\ UNCHANGED closed

Unsubscribe(c) ==
    /\ handler[c] = "leave"
    /\ Goto(c, "close")
    /\ DeleteSub(c)
    /\ UNCHANGED <<client, reader, ctx, buffered>>

\* The deferred calls that follow: cancel and CloseNow, which ends the read.
CloseChannel(c) ==
    /\ handler[c] = "close"
    /\ Goto(c, "gone")
    /\ subs' = subs \ {c}
    /\ closed' = closed \cup {c}
    /\ ctx' = [ctx EXCEPT ![c] = TRUE]
    /\ UNCHANGED <<client, reader, buffered>>

-----------------------------------------------------------------------------
(* The connection.                                                         *)

\* websocket.Accept, and the reader starts.
Accept(c) ==
    /\ handler[c] = "off"
    /\ client' = [client EXCEPT ![c] = "here"]
    /\ Goto(c, "accepted")
    /\ reader' = [reader EXCEPT ![c] = "read"]
    /\ UNCHANGED <<ctx, subs, buffered, closed>>

ClientGoes(c) ==
    /\ client[c] = "here"
    /\ client' \in {[client EXCEPT ![c] = s] : s \in {"closed", "vanished"}}
    /\ UNCHANGED <<handler, reader, ctx, subs, buffered, closed>>

\* conn.Read fails: the peer closed, or the handler is done.
ReaderEnds(c) ==
    /\ reader[c] = "read"
    /\ client[c] = "closed" \/ ctx[c]
    /\ reader' = [reader EXCEPT ![c] = "gone"]
    /\ ctx' = [ctx EXCEPT ![c] = TRUE]
    /\ UNCHANGED <<client, handler, subs, buffered, closed>>

SelectDone(c) ==
    /\ handler[c] = "select"
    /\ ctx[c]
    /\ Goto(c, "leave")
    /\ UNCHANGED <<client, reader, ctx, subs, buffered, closed>>

SelectSample(c) ==
    /\ handler[c] = "select"
    /\ buffered[c] > 0
    /\ buffered' = [buffered EXCEPT ![c] = @ - 1]
    /\ Goto(c, "write")
    /\ UNCHANGED <<client, reader, ctx, subs, closed>>

SelectHeartbeat(c) ==
    /\ handler[c] = "select"
    /\ Goto(c, "ping")
    /\ UNCHANGED <<client, reader, ctx, subs, buffered, closed>>

\* The write reaches the client, or enters the socket's buffer although
\* nobody is there to read it.
WriteSucceeds(c) ==
    /\ handler[c] = "write"
    /\ Goto(c, "select")
    /\ UNCHANGED <<client, reader, ctx, subs, buffered, closed>>

\* A ping needs the client's pong. The mutant does not wait for it.
PingSent(c) == handler[c] = "ping"
PingAnswered(c) == handler[c] = "ping" /\ client[c] = "here"

PingSucceeds(c) ==
    /\ PingAnswered(c)
    /\ Goto(c, "select")
    /\ UNCHANGED <<client, reader, ctx, subs, buffered, closed>>

\* An error, or writeTimeout.
CallFails(c) ==
    /\ handler[c] \in {"write", "ping"}
    /\ Goto(c, "leave")
    /\ UNCHANGED <<client, reader, ctx, subs, buffered, closed>>

HandlerStep(c) ==
    \/ Subscribe(c) \/ SelectDone(c) \/ SelectSample(c) \/ SelectHeartbeat(c)
    \/ WriteSucceeds(c) \/ PingSucceeds(c) \/ CallFails(c)
    \/ Unsubscribe(c) \/ CloseChannel(c)

HubNext ==
    \/ Publish
    \/ \E c \in Conn : Accept(c) \/ ClientGoes(c) \/ ReaderEnds(c)
                          \/ HandlerStep(c)

\* Goroutines run. The ticker fires again and again, and select chooses at
\* random among the ready cases, so none is passed over for ever.
HubFairness ==
    \A c \in Conn :
        /\ WF_hubVars(ReaderEnds(c))
        /\ WF_hubVars(HandlerStep(c))
        /\ SF_hubVars(SelectHeartbeat(c))
        /\ SF_hubVars(SelectDone(c))

-----------------------------------------------------------------------------
(* Properties.                                                             *)

\* The hub never has a subscriber whose channel is closed: Publish would
\* panic on it, under the lock and in the request that reports a token
\* (hub.go Subscribe, Publish).
OpenWhileSubscribed == subs \cap closed = {}

\* A client that closes or silently vanishes is unsubscribed in the end, and
\* its goroutines end, whether or not samples are published meanwhile
\* (ws_handler.go: a dead connection "otherwise never gets cleaned up").
GoneIsUnsubscribed ==
    \A c \in Conn :
        client[c] \in {"closed", "vanished"}
            ~> handler[c] = "gone" /\ reader[c] = "gone" /\ c \notin subs
=============================================================================
