----------------------------- MODULE Admission -----------------------------
(***************************************************************************)
(* The guard in front of the chat routes for one principal: the sliding    *)
(* window limiter that measures request cadence (internal/ratelimit) and   *)
(* the escalation of flagged requests (internal/policy): count violations, *)
(* cut the rate, suspend.  Every Redis call is one step; Redis runs a      *)
(* script atomically.  The gateway reads its clock before it sends the     *)
(* script, so scripts run with stamps up to Delay old and out of order.    *)
(*                                                                         *)
(* The Redis client retries a command whose reply timed out, so a command  *)
(* can take effect twice for one call; a call can also fail with or        *)
(* without effect.  The guard ignores every error.  The reduced budget,    *)
(* prompt entropy and allocation churn use the same limiter under other    *)
(* keys: here their answers are left open.                                 *)
(***************************************************************************)
EXTENDS Naturals, FiniteSets, FiniteSetsExt

CONSTANTS
    Request,          \* requests of the principal in flight at once
    Limit,            \* CadenceLimit
    Window,           \* CadenceWindow
    Second,           \* clock units in a second
    Delay,            \* bound: a call reaches Redis within Delay
    ReduceAt,         \* EscalationThresholds
    SuspendAt,
    ViolationWindow,
    ReducedRateTTL,
    MaxTime,          \* bound: last clock value
    MaxRequests,      \* bound: requests in one behaviour
    MaxFaults         \* bound: calls that misbehave

ASSUME TimeAssumption ==
    /\ {Limit, Window, Second, ViolationWindow, ReducedRateTTL} \subseteq Nat \ {0}
    /\ Delay \in 0 .. Window - 1
    /\ {MaxTime, MaxRequests, MaxFaults} \subseteq Nat
ASSUME ThresholdAssumption ==
    ReduceAt \in Nat \ {0} /\ SuspendAt \in Nat /\ ReduceAt <= SuspendAt

VARIABLES
    clock,
    entries,     \* the sorted set: scores by member
    entriesTTL,  \* when Redis drops the sorted set
    counter,     \* the violation counter, 0 when the key is absent
    counterTTL,  \* when Redis drops the counter; 0: no expiry
    reducedTTL,  \* the rate reduction ends then
    suspended,   \* Enforcer.Suspend succeeded
    req,         \* the requests in flight
    arrived,     \* requests so far
    faults,      \* misbehaving calls so far
    admitted,    \* history: recent admissions, member and time of the script
    violations,  \* history: recent violations, member and time
    skewed       \* history: a fault made the present counter wrong

limiterVars == <<entries, entriesTTL, admitted>>
counterVars == <<counter, counterTTL, violations, skewed>>
vars == <<clock, limiterVars, counterVars, reducedTTL, suspended, req, arrived,
          faults>>

Idle == [pc |-> "idle", member |-> 0, at |-> 0, count |-> 0]
Steps == {"idle", "eval", "incr", "expire", "act"}

Init ==
    /\ clock = 0
    /\ entries = {}
    /\ entriesTTL = 0
    /\ counter = 0
    /\ counterTTL = 0
    /\ reducedTTL = 0
    /\ suspended = FALSE
    /\ req = [r \in Request |-> Idle]
    /\ arrived = 0
    /\ faults = 0
    /\ admitted = {}
    /\ violations = {}
    /\ skewed = FALSE

-----------------------------------------------------------------------------
(* The guard.                                                              *)

Goto(r, pc) == req' = [req EXCEPT ![r].pc = pc]

\* The request reaches the next handler, or is answered 429.
Leave(r) == req' = [req EXCEPT ![r] = Idle]

Fault == faults < MaxFaults /\ faults' = faults + 1

IsReduced == clock < reducedTTL

Reduce(ttl) == reducedTTL' = clock + ttl

\* AbuseGuardMiddleware up to the cadence check, for which Allow reads the
\* clock. A reduced account may be over its reduced budget and answered 429
\* before that; nothing here depends on how long the reduced check took.
Arrive(r) ==
    /\ req[r] = Idle
    /\ arrived < MaxRequests
    /\ arrived' = arrived + 1
    /\ \/ req' = [req EXCEPT ![r] = [Idle EXCEPT !.pc = "eval", !.at = clock,
                                        !.member = arrived + 1]]
       \/ IsReduced /\ UNCHANGED req
    /\ UNCHANGED <<clock, limiterVars, counterVars, reducedTTL, suspended,
                   faults>>

-----------------------------------------------------------------------------
(* The script.                                                             *)

\* ZREMRANGEBYSCORE -inf (now - window): what is left. The mutant excludes
\* the bound.
KeptExclusive(now) == {e \in entries : e.score + Window >= now}
Kept(now) == {e \in entries : e.score + Window > now}

\* count < limit. The mutant is off by one.
RoomForOneMore(now) == Cardinality(Kept(now)) <= Limit
HasRoom(now) == Cardinality(Kept(now)) < Limit

\* ZADD (a member is there once) and PEXPIRE.
Record(now, member) ==
    /\ entries' = {e \in Kept(now) : e.member # member}
                      \cup {[score |-> now, member |-> member]}
    /\ entriesTTL' = clock + Window
    /\ admitted' = {a \in admitted : a.member # member}
                      \cup {[member |-> member, at |-> clock]}

Reject(now) == entries' = Kept(now) /\ UNCHANGED <<entriesTTL, admitted>>

\* One execution of slidingWindowScript.
Script(r) == IF HasRoom(req[r].at) THEN Record(req[r].at, req[r].member)
                                   ELSE Reject(req[r].at)

\* retry_after_ms of a rejection at now.
RetryAfter(now) == Min({e.score : e \in Kept(now)}) + Window - now

\* The Retry-After header RateLimit makes of a wait: whole seconds, rounded to
\* the nearest, and at least one.
RetryAfterSeconds(wait) ==
    LET nearest == (2 * wait + Second) \div (2 * Second) IN
    IF nearest = 0 THEN 1 ELSE nearest

\* A request cadence did not flag may be flagged for its prompt.
CheckPromptEntropy(r) == Goto(r, "incr") \/ Leave(r)

\* A rejection flags the request.
CheckRequestCadence(r) == ~HasRoom(req[r].at)

\* The script and what its answer leads to.
Eval(r) ==
    /\ req[r].pc = "eval"
    /\ Script(r)
    /\ IF CheckRequestCadence(r) THEN Goto(r, "incr") ELSE CheckPromptEntropy(r)
    /\ UNCHANGED <<clock, counterVars, reducedTTL, suspended, arrived, faults>>

\* The reply is late: the client sends the same command again.
EvalAgain(r) ==
    /\ req[r].pc = "eval"
    /\ Fault
    /\ Script(r)
    /\ UNCHANGED <<clock, counterVars, reducedTTL, suspended, req, arrived>>

\* The call fails: the error is dropped and the request not flagged.
EvalFails(r) ==
    /\ req[r].pc = "eval"
    /\ Fault
    /\ CheckPromptEntropy(r)
    /\ Script(r) \/ UNCHANGED limiterVars
    /\ UNCHANGED <<clock, counterVars, reducedTTL, suspended, arrived>>

-----------------------------------------------------------------------------
(* Escalator.RecordViolation.                                              *)

\* INCR, run n times for r's violation.
Incr(r, n) ==
    /\ counter' = counter + n
    /\ violations' = violations \cup
          {[member |-> req[r].member, at |-> clock]}

\* The counts after which the expiry is set. The mutant sets it every time.
ArmsExpiryAlways(count) == count >= 1
ArmsExpiry(count) == count = 1

RecordViolation(r) ==
    /\ req[r].pc = "incr"
    /\ Incr(r, 1)
    /\ req' = [req EXCEPT ![r].count = counter + 1, ![r].at = clock,
                 ![r].pc = IF ArmsExpiry(counter + 1) THEN "expire" ELSE "act"]
    /\ UNCHANGED <<counterTTL, skewed, clock, limiterVars, reducedTTL,
                   suspended, arrived, faults>>

\* INCR is retried after a late reply: the caller sees the second result.
IncrAgain(r) ==
    /\ req[r].pc = "incr"
    /\ Fault
    /\ Incr(r, 2)
    /\ skewed' = TRUE
    /\ req' = [req EXCEPT ![r].count = counter + 2, ![r].at = clock,
                 ![r].pc = IF ArmsExpiry(counter + 2) THEN "expire" ELSE "act"]
    /\ UNCHANGED <<counterTTL, clock, limiterVars, reducedTTL, suspended,
                   arrived>>

\* INCR fails, with or without effect; the violation goes no further.
IncrFails(r) ==
    /\ req[r].pc = "incr"
    /\ Fault
    /\ Leave(r)
    /\ \/ Incr(r, 1) /\ skewed' = TRUE
       \/ UNCHANGED <<counter, violations, skewed>>
    /\ UNCHANGED <<counterTTL, clock, limiterVars, reducedTTL, suspended,
                   arrived>>

\* EXPIRE; without a key it does nothing.
Expire(r) ==
    /\ req[r].pc = "expire"
    /\ counterTTL' = IF counter = 0 THEN counterTTL ELSE clock + ViolationWindow
    /\ Goto(r, "act")
    /\ UNCHANGED <<counter, violations, skewed, clock, limiterVars, reducedTTL,
                   suspended, arrived, faults>>

\* EXPIRE fails: RecordViolation returns and no later call sets an expiry.
ExpireFails(r) ==
    /\ req[r].pc = "expire"
    /\ Fault
    /\ Leave(r)
    /\ skewed' = TRUE
    /\ UNCHANGED <<counter, counterTTL, violations, clock, limiterVars,
                   reducedTTL, suspended, arrived>>

\* The level a count of violations has reached.
EscalationLevel(count) ==
    CASE count >= SuspendAt -> "suspended"
      [] count \in ReduceAt .. SuspendAt - 1 -> "reduced"
      [] OTHER -> "none"

\* What the level asks for.
Act(r) ==
    /\ req[r].pc = "act"
    /\ Leave(r)
    /\ \/ /\ EscalationLevel(req[r].count) = "suspended"
          /\ suspended' = TRUE
          /\ UNCHANGED reducedTTL
       \/ /\ EscalationLevel(req[r].count) = "reduced"
          /\ Reduce(ReducedRateTTL)
          /\ UNCHANGED suspended
       \/ /\ EscalationLevel(req[r].count) = "none"
          /\ UNCHANGED <<reducedTTL, suspended>>
    /\ UNCHANGED <<clock, limiterVars, counterVars, arrived, faults>>

\* Reduce or Suspend fails without effect, and nobody tries it again.
ActFails(r) ==
    /\ req[r].pc = "act"
    /\ EscalationLevel(req[r].count) # "none"
    /\ Fault
    /\ Leave(r)
    /\ UNCHANGED <<clock, limiterVars, counterVars, reducedTTL, suspended,
                   arrived>>

-----------------------------------------------------------------------------
\* Time passes, except past a call that Redis must have seen by now; Redis
\* drops the keys whose time has come. What is too old for the properties is
\* forgotten.
Tick ==
    /\ clock < MaxTime
    /\ \A r \in Request : req[r].pc \in {"eval", "expire"}
                             => clock < req[r].at + Delay
    /\ clock' = clock + 1
    /\ entries' = IF entriesTTL <= clock + 1 THEN {} ELSE entries
    /\ LET gone == counterTTL \in 1 .. clock + 1 IN
          /\ counter' = IF gone THEN 0 ELSE counter
          /\ counterTTL' = IF gone THEN 0 ELSE counterTTL
          /\ skewed' = (skewed /\ ~gone)
    /\ admitted' = {a \in admitted : a.at + Window > clock + 1}
    /\ violations' = {v \in violations :
                        v.at + ViolationWindow + Delay > clock + 1}
    /\ UNCHANGED <<entriesTTL, reducedTTL, suspended, req, arrived, faults>>

Next ==
    \/ \E r \in Request :
          \/ Arrive(r) \/ Eval(r) \/ EvalAgain(r) \/ EvalFails(r)
          \/ RecordViolation(r) \/ IncrAgain(r) \/ IncrFails(r)
          \/ Expire(r) \/ ExpireFails(r) \/ Act(r) \/ ActFails(r)
    \/ Tick

Spec == Init /\ [][Next]_vars

-----------------------------------------------------------------------------
(* Properties.                                                             *)

\* Stamps that arrive late or out of order, retried scripts and the expiry of
\* the whole set do not let more than Limit requests through in any stretch
\* of Window - Delay; with no delay that is the promised window
\* (ratelimit/limiter.go Allow: "admitting at most limit requests").
BoundedAdmission ==
    Cardinality({a \in admitted : a.at + Window > clock + Delay}) <= Limit

\* The wait a rejected client is told is right to half a second.  If it comes
\* back half a second after the time in its Retry-After header, and nobody else
\* came, it is admitted; and it is never told half a second too much, unless
\* it is told the least wait there is (limiter.go retry_after_ms and
\* httpmw/ratelimit.go, which rounds: exactly on time may be too early).
RetryAfterIsClose ==
    \A r \in Request : req[r].pc = "eval" /\ ~HasRoom(req[r].at) =>
        LET wait == RetryAfter(req[r].at)
            told == Second * RetryAfterSeconds(wait)
        IN  /\ HasRoom(req[r].at + told + Second \div 2)
            /\ told = Second \/ told <= wait + Second \div 2

\* Reaching the suspension threshold takes SuspendAt violations within the
\* violation window, counted from when its expiry was set, unless a Redis
\* fault left the counter without expiry or counted twice (escalation.go:
\* "suspend outright after 6 within the same window").
SuspendedForCause ==
    \A r \in Request :
        /\ req[r].pc = "act"
        /\ req[r].count >= SuspendAt
        /\ req[r].at = clock
        /\ ~skewed
        => Cardinality({v \in violations :
                v.at + ViolationWindow + Delay > clock}) >= SuspendAt
=============================================================================
