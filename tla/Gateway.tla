------------------------------ MODULE Gateway ------------------------------
(***************************************************************************)
(* The life of one gateway process (cmd/gateway, App.Run, App.Close):      *)
(* start, serve, drain on a signal, close the database pool and exit.      *)
(* Beside the main goroutine run the HTTP handlers, some of them under     *)
(* http.TimeoutHandler, which may answer while the handler goes on, and    *)
(* the ingestion worker, which finishes its job whatever the signal and    *)
(* which nobody waits for.  A closed pool refuses new statements, and      *)
(* Close waits for those that run.                                         *)
(***************************************************************************)
EXTENDS Naturals

CONSTANTS
    Call,     \* HTTP requests
    Exempt    \* those of the chat routes, which the timeout leaves alone

ASSUME ExemptAssumption == Exempt \subseteq Call

VARIABLES
    main,      \* where the main goroutine is
    code,      \* what Run, or a step before it, returned
    signalled, \* the process's ctx is done
    open,      \* the listener accepts
    pool,      \* the database pool: none, open, closing or closed
    busy,      \* who has a statement running
    serve,     \* the handler of each request: none, running or gone
    reply,     \* what each client got: none, done, failed or timeout
    worker     \* the ingestion worker: off, poll, job or stopped

gatewayVars == <<main, code, signalled, open, pool, busy, serve, reply, worker>>

Worker == "worker"

GatewayInit ==
    /\ main = "off"
    /\ code = "none"
    /\ signalled = FALSE
    /\ open = FALSE
    /\ pool = "none"
    /\ busy = {}
    /\ serve = [c \in Call |-> "none"]
    /\ reply = [c \in Call |-> "none"]
    /\ worker = "off"

-----------------------------------------------------------------------------
(* The main goroutine.                                                     *)

\* Somebody starts the process.
Launch ==
    /\ main = "off"
    /\ main' = "load"
    /\ UNCHANGED <<code, signalled, open, pool, busy, serve, reply, worker>>

\* run: config.Load and App.New, which creates the pool; an error exits.
New ==
    /\ main = "load"
    /\ \/ main' = "migrate" /\ pool' = "open" /\ UNCHANGED code
       \/ main' = "exited" /\ code' = "error" /\ UNCHANGED pool
    /\ UNCHANGED <<signalled, open, busy, serve, reply, worker>>

\* Run's or Migrate's error, returned to run; the deferred Close follows.
Returns(result) == main' = "close" /\ code' = result

\* App.Migrate, under ctx.
MigrateReturns ==
    /\ main = "migrate"
    /\ \/ ~signalled /\ main' = "listen" /\ UNCHANGED code
       \/ Returns("error")
    /\ UNCHANGED <<signalled, open, pool, busy, serve, reply, worker>>

\* Both listeners are opened and the goroutines started, or Run returns.
Listen ==
    /\ main = "listen"
    /\ \/ main' = "serve" /\ open' = TRUE /\ worker' = "poll" /\ UNCHANGED code
       \/ Returns("error") /\ UNCHANGED <<open, worker>>
    /\ UNCHANGED <<signalled, pool, busy, serve, reply>>

\* One of the servers fails. If it is the one for metrics, the other goes on
\* accepting until the process exits.
ServeFails ==
    /\ main = "serve"
    /\ Returns("error")
    /\ open' \in BOOLEAN
    /\ UNCHANGED <<signalled, pool, busy, serve, reply, worker>>

\* ctx.Done: Shutdown closes the listener and waits.
ShutdownStarts ==
    /\ main = "serve"
    /\ signalled
    /\ main' = "drain"
    /\ open' = FALSE
    /\ UNCHANGED <<code, signalled, pool, busy, serve, reply, worker>>

\* A connection is active until its request has been answered.
Active(c) == serve[c] # "none" /\ reply[c] = "none"

Drained == \A c \in Call : ~Active(c)

\* Both servers are shut down.
ShutdownEnds ==
    /\ main = "drain"
    /\ Drained
    /\ Returns("ok")
    /\ UNCHANGED <<signalled, open, pool, busy, serve, reply, worker>>

\* The ten seconds of shutdownCtx have passed. The mutant waits for Shutdown
\* under context.Background().
NeverExpires == FALSE
Expires == main = "drain"

ShutdownExpires ==
    /\ Expires
    /\ Returns("error")
    /\ UNCHANGED <<signalled, open, pool, busy, serve, reply, worker>>

\* App.Close: no statement starts any more.
CloseStarts ==
    /\ main = "close"
    /\ main' = "closing"
    /\ pool' = "closing"
    /\ UNCHANGED <<code, signalled, open, busy, serve, reply, worker>>

\* The last statement has ended: main returns and the process is gone, with
\* every goroutine that is left.
CloseEnds ==
    /\ main = "closing"
    /\ busy = {}
    /\ main' = "exited"
    /\ pool' = "closed"
    /\ open' = FALSE
    /\ UNCHANGED <<code, signalled, busy, serve, reply, worker>>

Alive == main \notin {"off", "exited"}

\* SIGINT or SIGTERM.
Signal ==
    /\ Alive
    /\ ~signalled
    /\ signalled' = TRUE
    /\ UNCHANGED <<main, code, open, pool, busy, serve, reply, worker>>

-----------------------------------------------------------------------------
(* Handlers and the worker.                                                *)

AcceptCall(c) ==
    /\ open
    /\ serve[c] = "none"
    /\ serve' = [serve EXCEPT ![c] = "running"]
    /\ UNCHANGED <<main, code, signalled, open, pool, busy, reply, worker>>

\* Those that may use the pool now.
Users == {c \in Call : serve[c] = "running"}
             \cup (IF worker = "job" THEN {Worker} ELSE {})

Query(u) ==
    /\ Alive
    /\ u \in Users \ busy
    /\ pool = "open"
    /\ busy' = busy \cup {u}
    /\ UNCHANGED <<main, code, signalled, open, pool, serve, reply, worker>>

QueryEnds(u) ==
    /\ u \in busy
    /\ busy' = busy \ {u}
    /\ UNCHANGED <<main, code, signalled, open, pool, serve, reply, worker>>

\* The handler returns, with its answer if nobody has answered before: what
\* it found out, or, after a statement the pool refused, an error.
HandlerReturns(c, answer) ==
    /\ Alive
    /\ serve[c] = "running"
    /\ c \notin busy
    /\ answer = "failed" => pool # "open"
    /\ serve' = [serve EXCEPT ![c] = "gone"]
    /\ reply' = [reply EXCEPT ![c] = IF @ = "none" THEN answer ELSE @]
    /\ UNCHANGED <<main, code, signalled, open, pool, busy, worker>>

\* TimeoutHandler answers 503; the handler's goroutine goes on.
Timeout(c) ==
    /\ Alive
    /\ c \notin Exempt
    /\ serve[c] = "running"
    /\ reply[c] = "none"
    /\ reply' = [reply EXCEPT ![c] = "timeout"]
    /\ UNCHANGED <<main, code, signalled, open, pool, busy, serve, worker>>

\* workerLoop: a job is taken only before the signal, and runs to its end.
TakeJob ==
    /\ Alive
    /\ worker = "poll"
    /\ worker' = IF signalled THEN "stopped" ELSE "job"
    /\ UNCHANGED <<main, code, signalled, open, pool, busy, serve, reply>>

JobEnds ==
    /\ Alive
    /\ worker = "job"
    /\ Worker \notin busy
    /\ worker' = "poll"
    /\ UNCHANGED <<main, code, signalled, open, pool, busy, serve, reply>>

-----------------------------------------------------------------------------
MainStep ==
    \/ New \/ MigrateReturns \/ Listen \/ ShutdownStarts \/ ShutdownEnds
    \/ ShutdownExpires \/ CloseStarts \/ CloseEnds

GatewayNext ==
    \/ Launch \/ MainStep \/ ServeFails \/ Signal
    \/ \E c \in Call :
          \/ AcceptCall(c) \/ Timeout(c)
          \/ \E answer \in {"done", "failed"} : HandlerReturns(c, answer)
    \/ \E u \in Call \cup {Worker} : Query(u) \/ QueryEnds(u)
    \/ TakeJob \/ JobEnds

\* The main goroutine runs, the shutdown deadline passes, and the database
\* answers the statements it has accepted.  Nothing is assumed of handlers,
\* jobs and streams: they may go on for as long as they like.
GatewayFairness ==
    /\ WF_gatewayVars(MainStep)
    /\ \A u \in Call \cup {Worker} : WF_gatewayVars(QueryEnds(u))

-----------------------------------------------------------------------------
(* Properties.                                                             *)

\* When Run has reported success nothing is accepted any more, and every request
\* that was accepted has been answered, none of them with an error for a pool
\* that was closed under it.
AllServed ==
    code = "ok" =>
        /\ ~open
        /\ \A c \in Call : serve[c] # "none" => reply[c] \in {"done", "timeout"}

\* Told to stop, the gateway exits, however long a stream, a handler that
\* outlived its timeout or an ingestion job goes on, and then all were served
\* if it reports success (app.go Run "gracefully shuts the server down").
StopsGracefully == signalled ~> main = "exited" /\ AllServed
=============================================================================
