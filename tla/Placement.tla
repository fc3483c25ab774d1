----------------------------- MODULE Placement -----------------------------
(***************************************************************************)
(* The scheduler's decisions, which keep no state: on which node and at    *)
(* which precision a model is placed (internal/scheduler/binpacking.go,    *)
(* internal/quant/placement.go), and whether and after how long a failed   *)
(* attempt is repeated (internal/scheduler/retry.go).  A question is asked *)
(* and answered; the property compares the answers of the code's loops     *)
(* with what they are for.  Durations wrap around past MaxInt.             *)
(***************************************************************************)
EXTENDS Integers, Sequences, FiniteSetsExt

CONSTANTS
    MaxNodes,       \* bound: nodes in a snapshot
    MaxFree,        \* bound: bytes free or needed
    MaxInt,         \* the largest duration: math.MaxInt64
    MaxAttempts,    \* bound: attempts at a placement
    DefaultPolicy   \* DefaultRetryPolicy

ASSUME BoundsAssumption == {MaxNodes, MaxFree, MaxAttempts, MaxInt} \subseteq Nat
ASSUME PolicyAssumption ==
    \A f \in {"base", "max", "attempts"} : DefaultPolicy[f] \in 1 .. MaxInt - 1

VARIABLES
    asked,      \* "none", "place" or "retry"
    question,
    answer

decisionVars == <<asked, question, answer>>

-----------------------------------------------------------------------------
(* Where to place.                                                         *)

\* Whether node i replaces the best node so far, 0 being none.
Improves(free, required, best, i) ==
    free[i] >= required /\ (best = 0 \/ free[i] < free[best])

\* SelectNode walks the nodes and keeps the best so far; 0 is ErrNoCapacity.
SelectNode(free, required) ==
    LET best[i \in 0 .. Len(free)] ==
            IF i = 0 THEN 0
            ELSE IF Improves(free, required, best[i - 1], i) THEN i ELSE best[i - 1]
    IN  best[Len(free)]

NoCapacity == [precision |-> "none", node |-> 0]

\* fp16 where a node holds it, else fp8 where that is supported.
SelectPlacement(fp8Supported, footprint, free) ==
    LET fp16Node == SelectNode(free, footprint.fp16)
        fp8Node == SelectNode(free, footprint.fp8)
    IN  IF fp16Node # 0 THEN [precision |-> "fp16", node |-> fp16Node]
        ELSE IF fp8Supported /\ fp8Node # 0
          THEN [precision |-> "fp8", node |-> fp8Node]
          ELSE NoCapacity

-----------------------------------------------------------------------------
(* Whether and when to try again.                                          *)

\* Two's complement.
Wrap(n) == ((n + MaxInt + 1) % (2 * (MaxInt + 1))) - MaxInt - 1

Normalize(policy) ==
    [f \in {"base", "max", "attempts"} |->
        IF policy[f] <= 0 THEN DefaultPolicy[f] ELSE policy[f]]

\* One round of NextDelay's loop.  The mutant does not look for overflow.
DoubleBlindly(backoff, cap) == IF backoff < cap THEN Wrap(backoff * 2) ELSE backoff

Double(backoff, cap) ==
    IF backoff >= cap THEN backoff
    ELSE IF Wrap(backoff * 2) <= 0 THEN cap
    ELSE Wrap(backoff * 2)

\* The longest delay NextDelay can draw: it draws uniformly from 0 to this.
Backoff(policy, attempt) ==
    LET p == Normalize(policy)
        backoff[i \in 0 .. attempt - 1] ==
            IF i = 0 THEN p.base ELSE Double(backoff[i - 1], p.max)
        grown == backoff[attempt - 1]
    IN  IF grown > p.max THEN p.max ELSE IF grown <= 0 THEN 0 ELSE grown

IsRetryable(class) == class = "placement"

Decide(policy, class, attempt) ==
    LET retry == IsRetryable(class) /\ attempt < Normalize(policy).attempts
    IN  [retry |-> retry, longest |-> IF retry THEN Backoff(policy, attempt) ELSE 0]

-----------------------------------------------------------------------------
(* Questions.                                                              *)

Bytes == 0 .. MaxFree

\* A footprint at fp8 is at most that at fp16.
PlacementQuestions ==
    [fp8Supported : BOOLEAN,
     footprint : {f \in [fp16 : Bytes, fp8 : Bytes] : f.fp8 <= f.fp16},
     free : UNION {[1 .. n -> Bytes] : n \in 0 .. MaxNodes}]

\* No cap is the largest integer: NextDelay adds one to what it draws below.
RetryQuestions ==
    [class : {"none", "placement", "oom_killed"},
     policy : [base : -1 .. MaxInt, max : -1 .. MaxInt - 1, attempts : 0 .. MaxAttempts],
     attempt : 1 .. MaxAttempts]

DecisionInit ==
    /\ asked = "none"
    /\ question = <<>>
    /\ answer = <<>>

Place ==
    /\ asked = "none"
    /\ asked' = "place"
    /\ question' \in PlacementQuestions
    /\ answer' = SelectPlacement(question'.fp8Supported, question'.footprint,
                                 question'.free)

Retry ==
    /\ asked = "none"
    /\ asked' = "retry"
    /\ question' \in RetryQuestions
    /\ answer' = Decide(question'.policy, question'.class, question'.attempt)

DecisionNext == Place \/ Retry

-----------------------------------------------------------------------------
(* Properties.                                                             *)

Fitting(required) == {i \in DOMAIN question.free : question.free[i] >= required}

\* The node wastes least, and is the first of those.
BestFit(node, required) ==
    /\ node \in Fitting(required)
    /\ \A i \in Fitting(required) :
          \/ question.free[node] < question.free[i]
          \/ question.free[node] = question.free[i] /\ node <= i

PlacedWell ==
    LET fp16 == question.footprint.fp16
        fp8 == question.footprint.fp8
    IN  CASE Fitting(fp16) # {} -> answer.precision = "fp16" /\ BestFit(answer.node, fp16)
          [] Fitting(fp16) = {} /\ question.fp8Supported /\ Fitting(fp8) # {} ->
                answer.precision = "fp8" /\ BestFit(answer.node, fp8)
          [] OTHER -> answer = NoCapacity

\* 2 ^ n.
Power(n) ==
    LET power[i \in 0 .. n] == IF i = 0 THEN 1 ELSE 2 * power[i - 1]
    IN  power[n]

RetriedWell ==
    LET p == Normalize(question.policy)
    IN  /\ answer.retry <=> question.class = "placement" /\ question.attempt < p.attempts
        /\ answer.retry =>
             answer.longest = Min({p.base * Power(question.attempt - 1), p.max})

\* A model is placed at the best precision any node holds, on the node that
\* wastes least, and refused only if none fits; a failed placement is retried
\* with a delay that doubles up to the cap, also where doubling overflows
\* (binpacking.go "minimizing wasted capacity", retry.go "saturating at cap64
\* rather than overflowing").
DecisionsRight ==
    /\ asked = "place" => PlacedWell
    /\ asked = "retry" => RetriedWell
=============================================================================
