-------------------------- MODULE AdmissionProofs --------------------------
(***************************************************************************)
(* Theorems about Admission, for any number of requests, any limits and    *)
(* windows, and any delay shorter than the window.                         *)
(***************************************************************************)
EXTENDS Admission, FiniteSetTheorems, TLAPS

(* The inductive invariant, in named parts.                                *)

Types ==
    /\ {clock, entriesTTL, counter, counterTTL, reducedTTL, arrived, faults}
          \subseteq Nat
    /\ suspended \in BOOLEAN /\ skewed \in BOOLEAN
    /\ req \in [Request -> [pc : Steps, member : Nat, at : Nat, count : Nat]]
    /\ entries \subseteq [score : Nat, member : Nat] /\ IsFiniteSet(entries)
    /\ admitted \subseteq [member : Nat, at : Nat] /\ IsFiniteSet(admitted)
    /\ violations \subseteq [member : Nat, at : Nat] /\ IsFiniteSet(violations)

\* A stamp is never ahead of the clock, and Redis sees a call within Delay.
OnTime ==
    \A r \in Request :
        /\ req[r].at <= clock
        /\ req[r].pc \in {"eval", "expire"} => clock <= req[r].at + Delay

\* Requests in flight have numbers of their own, and one that has not reached
\* the counter is no violation yet.
Numbered ==
    /\ \A v \in violations : v.member <= arrived
    /\ \A r \in Request : req[r].pc # "idle" =>
          /\ req[r].member <= arrived
          /\ \A q \in Request \ {r} :
                req[q].pc # "idle" => req[q].member # req[r].member
          /\ req[r].pc \in {"eval", "incr"} =>
                \A v \in violations : v.member # req[r].member

\* The sorted set: one score per member, at most Limit of them, alive as long
\* as any admission in it is recent.
SortedSet ==
    /\ \A e, f \in entries : e.member = f.member => e = f
    /\ \A a, b \in admitted : a.member = b.member => a = b
    /\ \A a \in admitted : a.at <= clock /\ a.at + Window <= entriesTTL
    /\ Cardinality(entries) <= Limit

\* An admission within Window - Delay is still an entry, and its score is at
\* most Delay older than it.
Covered ==
    \A a \in admitted : a.at + Window > clock + Delay =>
        \E e \in entries : e.member = a.member /\ e.score + Delay >= a.at

LimiterInv == Types /\ OnTime /\ SortedSet /\ Covered

\* The counter's key expires with its value, within the violation window.
CounterKey ==
    /\ counter = 0 => counterTTL = 0
    /\ counterTTL # 0 => counterTTL \in clock + 1 .. clock + ViolationWindow

\* Only the caller whose INCR made the key sets its expiry, and until it does
\* the key has none.
OneExpirer ==
    \A r \in Request : req[r].pc = "expire" =>
        /\ counter > 0
        /\ counterTTL = 0
        /\ \A q \in Request : req[q].pc = "expire" => q = r

\* Without a fault a key with no expiry is about to get one.
ExpiryPending ==
    counter > 0 /\ counterTTL = 0 /\ ~skewed
        => \E r \in Request : req[r].pc = "expire"

\* The count a request acts on at once is not above the counter.
Answered ==
    \A r \in Request :
        req[r].pc \in {"expire", "act"} /\ req[r].at = clock => req[r].count <= counter

\* The violations of the present key, and that there are enough of them.
Current ==
    {v \in violations :
        IF counterTTL # 0 THEN v.at + ViolationWindow + Delay >= counterTTL
        ELSE \A r \in Request : req[r].pc = "expire" => v.at >= req[r].at}
Counted == ~skewed => Cardinality(Current) >= counter

CounterInv ==
    Types /\ OnTime /\ Numbered /\ CounterKey /\ OneExpirer /\ ExpiryPending
        /\ Answered /\ Counted

-----------------------------------------------------------------------------
(* Types and stamps.                                                       *)

\* The limits, windows and delay are numbers, and the delay is the smaller.
LEMMA Numbers ==
    /\ {Limit, Window, ViolationWindow, ReducedRateTTL} \subseteq Nat \ {0}
    /\ Delay \in Nat
    /\ Delay < Window
    /\ SuspendAt \in Nat
  BY TimeAssumption, ThresholdAssumption

\* A request in flight is a record of its step, number, stamp and count.
LEMMA RequestFields ==
    ASSUME Types, NEW r \in Request
    PROVE  /\ req[r].pc \in Steps
           /\ req[r].member \in Nat
           /\ req[r].at \in Nat
           /\ req[r].count \in Nat
  BY DEF Types

\* A set with one more element.
LEMMA AddOne ==
    ASSUME NEW S, IsFiniteSet(S), NEW x
    PROVE  /\ IsFiniteSet(S \cup {x})
           /\ Cardinality(S) \in Nat /\ Cardinality(S \cup {x}) \in Nat
           /\ Cardinality(S \cup {x}) <= Cardinality(S) + 1
           /\ x \notin S => Cardinality(S \cup {x}) = Cardinality(S) + 1
<1>1. Cardinality(S) \in Nat
  BY FS_CardinalityType
<1> QED
  BY <1>1, FS_AddElement

\* What an arrival adds.
Arrival == [pc |-> "eval", member |-> arrived + 1, at |-> clock, count |-> 0]

\* An arrival changes its own request only, if anything.
LEMMA ArriveEffect ==
    ASSUME Types, NEW r \in Request, Arrive(r)
    PROVE  req' = req \/ req' = [req EXCEPT ![r] = Arrival]
  BY DEF Arrive, Arrival, Idle

\* The script (limiter.go slidingWindowScript) keeps the sorted set a finite
\* set of entries, and the admissions a finite set.
LEMMA ScriptTypes ==
    ASSUME Types, NEW r \in Request, Script(r)
    PROVE  /\ entries' \subseteq [score : Nat, member : Nat]
           /\ IsFiniteSet(entries')
           /\ admitted' \subseteq [member : Nat, at : Nat]
           /\ IsFiniteSet(admitted')
           /\ entriesTTL' \in Nat
<1>1. IsFiniteSet(Kept(req[r].at)) /\ Kept(req[r].at) \subseteq entries
  BY FS_Subset DEF Types, Kept
<1>2. CASE Record(req[r].at, req[r].member)
  <2>1. IsFiniteSet({e \in Kept(req[r].at) : e.member # req[r].member})
    BY <1>1, FS_Subset
  <2>2. IsFiniteSet({a \in admitted : a.member # req[r].member})
    BY FS_Subset DEF Types
  <2>3. IsFiniteSet(entries')
    BY <1>2, <2>1, FS_AddElement DEF Record
  <2>4. IsFiniteSet(admitted')
    BY <1>2, <2>2, FS_AddElement DEF Record
  <2> QED
    BY <1>1, <1>2, <2>3, <2>4, RequestFields, Numbers DEF Record, Types
<1>3. CASE Reject(req[r].at)
  BY <1>1, <1>3 DEF Reject, Types
<1> QED
  BY <1>2, <1>3 DEF Script

\* INCR keeps the violations a finite set.
LEMMA IncrTypes ==
    ASSUME Types, NEW r \in Request, NEW n \in Nat, Incr(r, n)
    PROVE  /\ counter' \in Nat
           /\ violations' \subseteq [member : Nat, at : Nat]
           /\ IsFiniteSet(violations')
<1>1. IsFiniteSet(violations')
  BY FS_AddElement DEF Incr, Types
<1> QED
  BY <1>1, RequestFields DEF Incr, Types

\* Time only drops entries, admissions and violations.
LEMMA TickTypes ==
    ASSUME Types, Tick
    PROVE  Types'
<1>1. IsFiniteSet(entries') /\ entries' \subseteq entries
  BY FS_EmptySet DEF Tick, Types
<1>2. IsFiniteSet(admitted') /\ admitted' \subseteq admitted
  BY FS_Subset DEF Tick, Types
<1>3. IsFiniteSet(violations') /\ violations' \subseteq violations
  BY FS_Subset DEF Tick, Types
<1>4. {clock, entriesTTL, counter, counterTTL, reducedTTL, arrived, faults}'
          \subseteq Nat
  BY DEF Tick, Types
<1>5. suspended' \in BOOLEAN /\ skewed' \in BOOLEAN
  BY DEF Tick, Types
<1> QED
  BY <1>1, <1>2, <1>3, <1>4, <1>5 DEF Tick, Types

\* Every step keeps the types.
LEMMA TypeStep == Types /\ [Next]_vars => Types'
<1> SUFFICES ASSUME Types, [Next]_vars PROVE Types'
  OBVIOUS
<1> USE RequestFields, Numbers
<1>a. ASSUME NEW r \in Request, Arrive(r) PROVE Types'
  <2>1. req' \in [Request -> [pc : Steps, member : Nat, at : Nat, count : Nat]]
    BY <1>a, ArriveEffect DEF Arrival, Steps, Types
  <2> QED
    BY <1>a, <2>1 DEF Arrive, Types, limiterVars, counterVars
<1>b. ASSUME NEW r \in Request, Eval(r) PROVE Types'
  BY <1>b, ScriptTypes DEF Eval, CheckPromptEntropy, Goto, Leave, Idle, Steps,
        Types, counterVars
<1>c. ASSUME NEW r \in Request, EvalAgain(r) PROVE Types'
  BY <1>c, ScriptTypes DEF EvalAgain, Fault, Types, counterVars
<1>d. ASSUME NEW r \in Request, EvalFails(r) PROVE Types'
  BY <1>d, ScriptTypes DEF EvalFails, Fault, CheckPromptEntropy, Goto, Leave, Idle,
        Steps, Types, limiterVars, counterVars
<1>e. ASSUME NEW r \in Request, RecordViolation(r) PROVE Types'
  BY <1>e, IncrTypes DEF RecordViolation, Steps, Types, limiterVars
<1>f. ASSUME NEW r \in Request, IncrAgain(r) PROVE Types'
  BY <1>f, IncrTypes DEF IncrAgain, Fault, Steps, Types, limiterVars
<1>g. ASSUME NEW r \in Request, IncrFails(r) PROVE Types'
  <2>1. req' \in [Request -> [pc : Steps, member : Nat, at : Nat, count : Nat]]
    BY <1>g DEF IncrFails, Leave, Idle, Steps, Types
  <2>2. /\ counter' \in Nat
        /\ violations' \subseteq [member : Nat, at : Nat]
        /\ IsFiniteSet(violations')
    <3>1. CASE Incr(r, 1)
      BY <3>1, IncrTypes
    <3>2. CASE UNCHANGED <<counter, violations, skewed>>
      BY <3>2 DEF Types
    <3> QED
      BY <1>g, <3>1, <3>2 DEF IncrFails
  <2>3. skewed' \in BOOLEAN
    BY <1>g DEF IncrFails, Types
  <2> QED
    BY <1>g, <2>1, <2>2, <2>3 DEF IncrFails, Fault, Types, limiterVars
<1>h. ASSUME NEW r \in Request, Expire(r) PROVE Types'
  BY <1>h DEF Expire, Goto, Steps, Types, limiterVars
<1>i. ASSUME NEW r \in Request, ExpireFails(r) PROVE Types'
  BY <1>i DEF ExpireFails, Fault, Leave, Idle, Steps, Types, limiterVars
<1>j. ASSUME NEW r \in Request, Act(r) PROVE Types'
  <2>1. req' \in [Request -> [pc : Steps, member : Nat, at : Nat, count : Nat]]
    BY <1>j DEF Act, Leave, Idle, Steps, Types
  <2>2. reducedTTL' \in Nat
    BY <1>j DEF Act, Reduce, Types
  <2>3. suspended' \in BOOLEAN
    BY <1>j DEF Act, Types
  <2> QED
    BY <1>j, <2>1, <2>2, <2>3 DEF Act, Types, limiterVars, counterVars
<1>k. ASSUME NEW r \in Request, ActFails(r) PROVE Types'
  BY <1>k DEF ActFails, Fault, Leave, Idle, Steps, Types, limiterVars, counterVars
<1>l. ASSUME UNCHANGED vars PROVE Types'
  BY <1>l DEF vars, Types, limiterVars, counterVars
<1> QED
  BY <1>a, <1>b, <1>c, <1>d, <1>e, <1>f, <1>g, <1>h, <1>i, <1>j, <1>k, <1>l,
     TickTypes DEF Next

\* Every step keeps the stamps in time: a call is stamped with the clock, and
\* the clock does not pass a call by more than Delay.
LEMMA OnTimeStep == Types /\ OnTime /\ [Next]_vars => OnTime'
<1> SUFFICES ASSUME Types, OnTime, [Next]_vars PROVE OnTime'
  OBVIOUS
<1> USE RequestFields, Numbers DEF OnTime
<1>a. ASSUME NEW r \in Request, Arrive(r) PROVE OnTime'
  <2>1. clock' = clock /\ clock \in Nat
    BY <1>a DEF Arrive, Types
  <2>2. req \in [Request -> [pc : Steps, member : Nat, at : Nat, count : Nat]]
    BY DEF Types
  <2> QED
    BY <1>a, <2>1, <2>2, ArriveEffect DEF Arrival
<1>b. ASSUME NEW r \in Request, Eval(r) \/ EvalFails(r) PROVE OnTime'
  BY <1>b DEF Eval, EvalFails, CheckPromptEntropy, Goto, Leave, Idle, Types
<1>c. ASSUME NEW r \in Request, EvalAgain(r) PROVE OnTime'
  BY <1>c DEF EvalAgain
<1>e. ASSUME NEW r \in Request, RecordViolation(r) \/ IncrAgain(r) PROVE OnTime'
  BY <1>e DEF RecordViolation, IncrAgain, Types
<1>g. ASSUME NEW r \in Request,
             IncrFails(r) \/ ExpireFails(r) \/ Act(r) \/ ActFails(r)
      PROVE  OnTime'
  BY <1>g DEF IncrFails, ExpireFails, Act, ActFails, Leave, Idle, Types
<1>h. ASSUME NEW r \in Request, Expire(r) PROVE OnTime'
  BY <1>h DEF Expire, Goto, Types
<1>t. ASSUME Tick PROVE OnTime'
  BY <1>t DEF Tick, Types
<1>l. ASSUME UNCHANGED vars PROVE OnTime'
  BY <1>l DEF vars
<1> QED
  BY <1>a, <1>b, <1>c, <1>e, <1>g, <1>h, <1>l, <1>t DEF Next

-----------------------------------------------------------------------------
(* The limiter.                                                            *)

\* The script keeps one score per member and at most Limit of them, and drops
\* no entry of a recent admission: what it removes is older than Window by
\* its own stamp, which is not ahead of the clock.
LEMMA ScriptStep ==
    ASSUME LimiterInv, NEW r \in Request, req[r].pc = "eval", Script(r),
           clock' = clock
    PROVE  SortedSet' /\ Covered'
<1> DEFINE now == req[r].at
           m == req[r].member
           New == [score |-> now, member |-> m]
           Others == {e \in Kept(now) : e.member # m}
<1>1. /\ now \in Nat /\ m \in Nat /\ clock \in Nat /\ entriesTTL \in Nat
      /\ now <= clock /\ clock <= now + Delay
  BY RequestFields DEF LimiterInv, OnTime, Types
<1>2. /\ IsFiniteSet(Kept(now)) /\ Kept(now) \subseteq entries
      /\ Cardinality(Kept(now)) <= Cardinality(entries)
      /\ Cardinality(Kept(now)) \in Nat /\ Cardinality(entries) \in Nat
  BY FS_Subset, FS_CardinalityType DEF LimiterInv, Types, Kept
<1>3. ASSUME NEW a \in admitted, a.at + Window > clock + Delay
      PROVE  \E e \in Kept(now) : e.member = a.member /\ e.score + Delay >= a.at
  <2>1. PICK e \in entries : e.member = a.member /\ e.score + Delay >= a.at
    BY <1>3 DEF LimiterInv, Covered
  <2>2. e.score \in Nat /\ a.at \in Nat
    BY DEF LimiterInv, Types
  <2>3. e.score + Window > now
    BY <1>1, <1>3, <2>1, <2>2, Numbers
  <2> QED
    BY <2>1, <2>3 DEF Kept
<1>4. CASE HasRoom(now)
  <2>1. /\ entries' = Others \cup {New}
        /\ entriesTTL' = clock + Window
        /\ admitted' = {a \in admitted : a.member # m}
                          \cup {[member |-> m, at |-> clock]}
    BY <1>4 DEF Script, Record
  <2>2. Cardinality(entries') <= Limit
    <3>1. IsFiniteSet(Others) /\ Cardinality(Others) <= Cardinality(Kept(now))
      BY <1>2, FS_Subset
    <3> HIDE DEF Others, New
    <3>2. /\ Cardinality(entries') <= Cardinality(Others) + 1
          /\ Cardinality(Others) \in Nat /\ Cardinality(entries') \in Nat
      BY <3>1, <2>1, AddOne
    <3> QED
      BY <3>1, <3>2, <1>2, <1>4, Numbers DEF HasRoom
  <2>3. \A e, f \in entries' : e.member = f.member => e = f
    BY <1>2, <2>1 DEF LimiterInv, SortedSet
  <2>4. \A a, b \in admitted' : a.member = b.member => a = b
    BY <2>1 DEF LimiterInv, SortedSet
  <2>5. \A a \in admitted' : a.at <= clock' /\ a.at + Window <= entriesTTL'
    BY <1>1, <2>1, Numbers DEF LimiterInv, SortedSet, Types
  <2>6. Covered'
    <3> SUFFICES ASSUME NEW a \in admitted', a.at + Window > clock + Delay
                 PROVE  \E e \in entries' :
                           e.member = a.member /\ e.score + Delay >= a.at
      BY DEF Covered
    <3>1. CASE a \in admitted /\ a.member # m
      BY <3>1, <1>3, <2>1
    <3>2. CASE a = [member |-> m, at |-> clock]
      <4>1. New \in entries' /\ New.member = a.member /\ New.score + Delay >= a.at
        BY <3>2, <1>1, <2>1
      <4> QED
        BY <4>1
    <3> QED
      BY <3>1, <3>2, <2>1
  <2> QED
    BY <2>2, <2>3, <2>4, <2>5, <2>6 DEF SortedSet
<1>5. CASE ~HasRoom(now)
  <2>1. entries' = Kept(now) /\ UNCHANGED <<entriesTTL, admitted>>
    BY <1>5 DEF Script, Reject
  <2>2. SortedSet'
    BY <1>2, <2>1, Numbers DEF LimiterInv, SortedSet
  <2>3. Covered'
    BY <1>3, <2>1 DEF Covered
  <2> QED
    BY <2>2, <2>3
<1> QED
  BY <1>4, <1>5

\* Time keeps them: the whole set expires only when no admission is recent.
LEMMA SortedSetTick ==
    ASSUME LimiterInv, Tick
    PROVE  SortedSet' /\ Covered'
<1>1. /\ clock \in Nat /\ clock' = clock + 1 /\ entriesTTL \in Nat
      /\ entriesTTL' = entriesTTL
      /\ admitted' \subseteq admitted
      /\ entries' = IF entriesTTL <= clock + 1 THEN {} ELSE entries
  BY DEF LimiterInv, Types, Tick
<1>2. Cardinality(entries') <= Limit
  BY <1>1, FS_EmptySet, Numbers DEF LimiterInv, SortedSet
<1>3. \A a \in admitted : a.at \in Nat
  BY DEF LimiterInv, Types
<1>4. SortedSet'
  BY <1>1, <1>2, <1>3 DEF LimiterInv, SortedSet
<1>5. Covered'
  <2> SUFFICES ASSUME NEW a \in admitted', a.at + Window > clock' + Delay
               PROVE  \E e \in entries' :
                         e.member = a.member /\ e.score + Delay >= a.at
    BY DEF Covered
  <2>1. a \in admitted /\ a.at + Window <= entriesTTL
    BY <1>1 DEF LimiterInv, SortedSet
  <2>2. entries' = entries
    BY <1>1, <1>3, <2>1, Numbers
  <2> QED
    BY <1>1, <1>3, <2>1, <2>2, Numbers DEF LimiterInv, Covered
<1> QED
  BY <1>4, <1>5

\* The limiter's invariant is inductive.
LEMMA LimiterStep == LimiterInv /\ [Next]_vars => LimiterInv'
<1> SUFFICES ASSUME LimiterInv, [Next]_vars PROVE LimiterInv'
  OBVIOUS
<1>1. Types' /\ OnTime'
  BY TypeStep, OnTimeStep DEF LimiterInv
<1>2. ASSUME UNCHANGED limiterVars, clock' = clock PROVE SortedSet' /\ Covered'
  BY <1>2 DEF limiterVars, LimiterInv, SortedSet, Covered
<1>3. ASSUME NEW r \in Request, Eval(r) \/ EvalAgain(r) \/ EvalFails(r)
      PROVE  SortedSet' /\ Covered'
  BY <1>2, <1>3, ScriptStep DEF Eval, EvalAgain, EvalFails
<1>4. ASSUME NEW r \in Request,
             \/ Arrive(r) \/ RecordViolation(r) \/ IncrAgain(r) \/ IncrFails(r)
             \/ Expire(r) \/ ExpireFails(r) \/ Act(r) \/ ActFails(r)
      PROVE  SortedSet' /\ Covered'
  BY <1>2, <1>4 DEF Arrive, RecordViolation, IncrAgain, IncrFails, Expire,
        ExpireFails, Act, ActFails
<1>5. SortedSet' /\ Covered'
  BY <1>2, <1>3, <1>4, SortedSetTick DEF Next, vars
<1> QED
  BY <1>1, <1>5 DEF LimiterInv

\* And holds when the gateway starts.
LEMMA LimiterInit == Init => LimiterInv
<1> SUFFICES ASSUME Init PROVE LimiterInv
  OBVIOUS
<1>1. Types
  <2>1. req \in [Request -> [pc : Steps, member : Nat, at : Nat, count : Nat]]
    BY DEF Init, Idle, Steps
  <2>2. /\ entries \subseteq [score : Nat, member : Nat]
        /\ admitted \subseteq [member : Nat, at : Nat]
        /\ violations \subseteq [member : Nat, at : Nat]
        /\ suspended \in BOOLEAN /\ skewed \in BOOLEAN
    BY DEF Init
  <2> QED
    BY <2>1, <2>2, FS_EmptySet DEF Init, Types
<1>2. OnTime
  BY DEF Init, OnTime, Idle
<1>3. SortedSet /\ Covered
  BY FS_EmptySet, Numbers DEF Init, SortedSet, Covered
<1> QED
  BY <1>1, <1>2, <1>3 DEF LimiterInv

\* Whatever the stamps, retries and failures, the sorted set has at most
\* Limit members and an entry for every recent admission.
THEOREM LimiterInvariant == Spec => []LimiterInv
  BY LimiterInit, LimiterStep, PTL DEF Spec

\* Recent admissions map one to one into the entries of the sorted set.
LEMMA AdmittedFit ==
    ASSUME LimiterInv
    PROVE  BoundedAdmission
<1> DEFINE Recent == {a \in admitted : a.at + Window > clock + Delay}
           EntryOf == [a \in Recent |-> CHOOSE e \in entries : e.member = a.member]
<1>1. \A a \in Recent : EntryOf[a] \in entries /\ EntryOf[a].member = a.member
  BY DEF LimiterInv, Covered
<1>2. EntryOf \in Injection(Recent, entries)
  BY <1>1 DEF LimiterInv, SortedSet, Injection, IsInjective
<1>3. IsFiniteSet(Recent) /\ Cardinality(Recent) <= Cardinality(entries)
  BY <1>2, FS_Injection DEF LimiterInv, Types
<1>4. Cardinality(Recent) \in Nat /\ Cardinality(entries) \in Nat
  BY <1>3, FS_CardinalityType DEF LimiterInv, Types
<1> QED
  BY <1>3, <1>4, Numbers DEF LimiterInv, SortedSet, BoundedAdmission

\* Never more than Limit admissions in any stretch of Window - Delay
\* (ratelimit/limiter.go Allow).
THEOREM AdmissionIsBounded == Spec => []BoundedAdmission
  BY LimiterInvariant, AdmittedFit, PTL

-----------------------------------------------------------------------------
(* The wait a rejection is told.                                           *)

\* A set of numbers that is not empty has a least one.
LEMMA LeastExists ==
    ASSUME NEW S \in SUBSET Nat, S # {}
    PROVE  Min(S) \in S /\ \A y \in S : Min(S) <= y
<1>1. \E x \in S : \A y \in S : ~(<<y, x>> \in OpToRel(<, Nat))
  BY NatLessThanWellFounded, WFMin
<1>2. PICK x \in S : \A y \in S : ~(<<y, x>> \in OpToRel(<, Nat))
  BY <1>1
<1>3. \A y \in S : ~(y < x)
  BY <1>2 DEF OpToRel
<1>4. \A y \in S : x <= y
  BY <1>3
<1> QED
  BY <1>4 DEF Min

\* Division leaves a remainder below the divisor.
LEMMA Division ==
    ASSUME NEW a \in Nat, NEW b \in Nat \ {0}
    PROVE  /\ a \div b \in Nat
           /\ b * (a \div b) <= a
           /\ a < b * (a \div b) + b
  BY SMT

\* The header is within half a second of the wait, or the least there is.
LEMMA Rounding ==
    ASSUME NEW wait \in Nat \ {0}
    PROVE  LET told == Second * RetryAfterSeconds(wait) IN
           /\ told \in Nat
           /\ told + Second \div 2 >= wait
           /\ told = Second \/ told <= wait + Second \div 2
<1> DEFINE q == (2 * wait + Second) \div (2 * Second)
           h == Second \div 2
           p == Second * q
<1>1. Second \in Nat \ {0}
  BY TimeAssumption
<1>2. /\ q \in Nat
      /\ (2 * Second) * q <= 2 * wait + Second
      /\ 2 * wait + Second < (2 * Second) * q + 2 * Second
  <2>1. 2 * Second \in Nat \ {0} /\ 2 * wait + Second \in Nat
    BY <1>1
  <2> DEFINE a == 2 * wait + Second
             b == 2 * Second
  <2>2. a \div b \in Nat /\ b * (a \div b) <= a /\ a < b * (a \div b) + b
    <3> HIDE DEF a, b
    <3>1. a \in Nat /\ b \in Nat \ {0}
      BY <2>1 DEF a, b
    <3> QED
      BY <3>1, Division
  <2> QED
    BY <2>2
<1>3. h \in Nat /\ 2 * h <= Second /\ Second <= 2 * h + 1
  BY <1>1
<1>4. p \in Nat /\ (2 * Second) * q = 2 * p /\ (q = 0 => p = 0)
  BY <1>1, <1>2
<1>5. RetryAfterSeconds(wait) = IF q = 0 THEN 1 ELSE q
  BY DEF RetryAfterSeconds
<1>6. Second * RetryAfterSeconds(wait) = IF q = 0 THEN Second ELSE p
  BY <1>1, <1>5
<1> HIDE DEF q, h, p
<1>7. p + h >= wait /\ p <= wait + h
  BY <1>1, <1>2, <1>3, <1>4
<1>8. Second + h >= wait \/ q # 0
  BY <1>1, <1>3, <1>4, <1>7
<1> QED
  BY <1>1, <1>3, <1>4, <1>6, <1>7, <1>8 DEF h

\* When the wait is over the oldest entry has left for good, and there were at
\* most Limit.
LEMMA WaitIsEnough ==
    ASSUME LimiterInv, NEW r \in Request, req[r].pc = "eval", ~HasRoom(req[r].at)
    PROVE  LET wait == RetryAfter(req[r].at) IN
           /\ wait \in Nat \ {0}
           /\ \A late \in Nat : late >= wait => HasRoom(req[r].at + late)
<1> DEFINE now == req[r].at
           Scores == {e.score : e \in Kept(now)}
           least == Min(Scores)
<1>1. /\ now \in Nat
      /\ \A e \in entries : e.score \in Nat
      /\ IsFiniteSet(entries)
      /\ Cardinality(entries) \in Nat /\ Cardinality(entries) <= Limit
  BY RequestFields, FS_CardinalityType DEF LimiterInv, Types, SortedSet
<1>2. Kept(now) \subseteq entries /\ Kept(now) # {}
  <2>1. ASSUME Kept(now) = {} PROVE FALSE
    BY <2>1, FS_EmptySet, Numbers DEF HasRoom
  <2> QED
    BY <2>1 DEF Kept
<1>3. Scores \subseteq Nat /\ Scores # {}
  BY <1>1, <1>2
<1>4. least \in Scores /\ \A y \in Scores : least <= y
  BY <1>3, LeastExists
<1>5. PICK first \in Kept(now) : first.score = least
  BY <1>4
<1>6. least \in Nat /\ least + Window > now
  BY <1>1, <1>2, <1>5 DEF Kept
<1>7. RetryAfter(now) = least + Window - now
  BY DEF RetryAfter
<1>8. RetryAfter(now) \in Nat \ {0}
  BY <1>1, <1>6, <1>7, Numbers
<1>9. ASSUME NEW late \in Nat, late >= RetryAfter(now) PROVE HasRoom(now + late)
  <2> DEFINE then == now + late
  <2>1. then \in Nat /\ then >= least + Window
    BY <1>1, <1>6, <1>7, <1>9, Numbers
  <2> HIDE DEF then
  <2>2. Kept(then) \subseteq entries /\ first \in entries /\ first \notin Kept(then)
    BY <1>2, <1>5, <1>6, <2>1, Numbers DEF Kept
  <2>3. /\ Cardinality(Kept(then)) <= Cardinality(entries)
        /\ Cardinality(Kept(then)) # Cardinality(entries)
        /\ Cardinality(Kept(then)) \in Nat
    BY <1>1, <2>2, FS_Subset, FS_CardinalityType
  <2>4. HasRoom(then)
    BY <1>1, <2>3, Numbers DEF HasRoom
  <2> QED
    BY <2>4 DEF then
<1> QED
  BY <1>8, <1>9

\* The wait in the Retry-After header is right to half a second: a rejected
\* request that comes back half a second after it finds room (limiter.go
\* retry_after_ms, httpmw/ratelimit.go).
THEOREM RetryAfterRounded == Spec => []RetryAfterIsClose
<1>1. ASSUME LimiterInv PROVE RetryAfterIsClose
  <2> SUFFICES ASSUME NEW r \in Request, req[r].pc = "eval", ~HasRoom(req[r].at)
               PROVE  LET wait == RetryAfter(req[r].at)
                          told == Second * RetryAfterSeconds(wait)
                      IN  /\ HasRoom(req[r].at + told + Second \div 2)
                          /\ told = Second \/ told <= wait + Second \div 2
    BY DEF RetryAfterIsClose
  <2> DEFINE wait == RetryAfter(req[r].at)
             told == Second * RetryAfterSeconds(wait)
             half == Second \div 2
  <2>1. wait \in Nat \ {0} /\ \A late \in Nat : late >= wait => HasRoom(req[r].at + late)
    BY <1>1, WaitIsEnough
  <2>2. told \in Nat /\ told + half >= wait /\ (told = Second \/ told <= wait + half)
    BY <2>1, Rounding
  <2>3. half \in Nat /\ req[r].at \in Nat
    BY <1>1, TimeAssumption, RequestFields DEF LimiterInv, Types
  <2> HIDE DEF wait, told, half
  <2>4. req[r].at + told + half = req[r].at + (told + half) /\ told + half \in Nat
    BY <2>2, <2>3
  <2>5. HasRoom(req[r].at + told + half)
    BY <2>1, <2>2, <2>4
  <2> QED
    BY <2>2, <2>5 DEF wait, told, half
<1> QED
  BY <1>1, LimiterInvariant, PTL

-----------------------------------------------------------------------------
(* The violation counter.                                                  *)

\* Every step keeps the numbers of requests apart, and a request becomes a
\* violation only when it reaches the counter.
LEMMA NumberedStep == Types /\ Numbered /\ [Next]_vars => Numbered'
<1> SUFFICES ASSUME Types, Numbered, [Next]_vars PROVE Numbered'
  OBVIOUS
<1>1. /\ arrived \in Nat /\ \A v \in violations : v.member \in Nat
      /\ req \in [Request -> [pc : Steps, member : Nat, at : Nat, count : Nat]]
  BY DEF Types
<1> USE RequestFields, <1>1 DEF Numbered
<1>a. ASSUME NEW r \in Request, Arrive(r) PROVE Numbered'
  <2>1. arrived' = arrived + 1 /\ violations' = violations
    BY <1>a DEF Arrive, counterVars
  <2>2. CASE req' = req
    BY <2>1, <2>2
  <2>3. CASE req' = [req EXCEPT ![r] = Arrival]
    BY <2>1, <2>3 DEF Arrival
  <2> QED
    BY <1>a, <2>2, <2>3, ArriveEffect
<1>b. ASSUME NEW r \in Request, Eval(r) \/ EvalFails(r) PROVE Numbered'
  BY <1>b DEF Eval, EvalFails, CheckPromptEntropy, Goto, Leave, Idle, counterVars
<1>c. ASSUME NEW r \in Request, EvalAgain(r) PROVE Numbered'
  BY <1>c DEF EvalAgain, counterVars
<1>e. ASSUME NEW r \in Request, RecordViolation(r) \/ IncrAgain(r) PROVE Numbered'
  <2>1. /\ req[r].pc = "incr" /\ arrived' = arrived
        /\ violations' = violations \cup {[member |-> req[r].member, at |-> clock]}
    BY <1>e DEF RecordViolation, IncrAgain, Incr
  <2>2. /\ \A q \in Request : req'[q].member = req[q].member
        /\ \A q \in Request \ {r} : req'[q] = req[q]
        /\ req'[r].pc \in {"expire", "act"}
    BY <1>e DEF RecordViolation, IncrAgain
  <2> QED
    BY <2>1, <2>2
<1>g. ASSUME NEW r \in Request, IncrFails(r) PROVE Numbered'
  <2>1. /\ req[r].pc = "incr" /\ arrived' = arrived
        /\ violations' \subseteq
              violations \cup {[member |-> req[r].member, at |-> clock]}
    BY <1>g DEF IncrFails, Incr
  <2>2. /\ \A q \in Request \ {r} : req'[q] = req[q]
        /\ req'[r].pc = "idle"
    BY <1>g DEF IncrFails, Leave, Idle
  <2> QED
    BY <2>1, <2>2
<1>h. ASSUME NEW r \in Request, Expire(r) PROVE Numbered'
  BY <1>h DEF Expire, Goto
<1>i. ASSUME NEW r \in Request, ExpireFails(r) \/ Act(r) \/ ActFails(r)
      PROVE  Numbered'
  BY <1>i DEF ExpireFails, Act, ActFails, Leave, Idle, counterVars
<1>t. ASSUME Tick PROVE Numbered'
  BY <1>t DEF Tick
<1>l. ASSUME UNCHANGED vars PROVE Numbered'
  BY <1>l DEF vars, counterVars
<1> QED
  BY <1>a, <1>b, <1>c, <1>e, <1>g, <1>h, <1>i, <1>l, <1>t DEF Next

Counting == CounterKey /\ OneExpirer /\ ExpiryPending /\ Answered /\ Counted

\* A step that leaves the counter alone, and moves no request to or from the
\* expiry, keeps what is known of the counter.
LEMMA QuietStep ==
    ASSUME CounterInv, UNCHANGED <<counterVars, clock>>, NEW r \in Request,
           \A q \in Request \ {r} : req'[q] = req[q],
           req'[r] = req[r] \/ (/\ req[r].pc # "expire"
                               /\ req'[r].pc \notin {"expire", "act"})
    PROVE  Counting'
<1> USE DEF counterVars, Counting, CounterInv
<1>1. CounterKey' /\ OneExpirer' /\ ExpiryPending' /\ Answered'
  BY DEF CounterKey, OneExpirer, ExpiryPending, Answered
<1>2. \A v : (\A q \in Request : req'[q].pc = "expire" => v.at >= req'[q].at)
           <=> (\A q \in Request : req[q].pc = "expire" => v.at >= req[q].at)
  OBVIOUS
<1>3. Current' = Current
  BY <1>2 DEF Current
<1> QED
  BY <1>1, <1>3 DEF Counted

\* The first INCR makes the key and its caller the one to set the expiry.
LEMMA FirstViolation ==
    ASSUME CounterInv, NEW r \in Request, RecordViolation(r), counter = 0
    PROVE  Counting'
<1> DEFINE New == [member |-> req[r].member, at |-> clock]
<1>1. /\ counter' = 1 /\ counterTTL' = 0 /\ skewed' = skewed /\ clock' = clock
      /\ violations' = violations \cup {New}
      /\ \A q \in Request \ {r} : req'[q] = req[q]
      /\ req'[r].pc = "expire" /\ req'[r].at = clock /\ req'[r].count = 1
  BY DEF RecordViolation, Incr, ArmsExpiry, CounterInv, CounterKey, Types
<1>2. \A q \in Request : req[q].pc # "expire"
  BY DEF CounterInv, OneExpirer
<1>3. CounterKey' /\ OneExpirer' /\ ExpiryPending'
  BY <1>1, <1>2 DEF CounterKey, OneExpirer, ExpiryPending
<1>4. Answered'
  BY <1>1, RequestFields DEF Answered, CounterInv, Types
<1>5. New \in Current'
  BY <1>1, <1>2 DEF Current, CounterInv, Types
<1>6. IsFiniteSet(Current')
  <2>1. Types' BY TypeStep DEF CounterInv, Next
  <2> QED BY <2>1, FS_Subset DEF Types, Current
<1>7. Cardinality(Current') >= 1
  BY <1>5, <1>6, FS_EmptySet, FS_CardinalityType
<1> QED
  BY <1>1, <1>3, <1>4, <1>7 DEF Counting, Counted

\* A later INCR counts one more violation of the same key.
LEMMA LaterViolation ==
    ASSUME CounterInv, NEW r \in Request, RecordViolation(r), counter # 0
    PROVE  Counting'
<1> DEFINE New == [member |-> req[r].member, at |-> clock]
<1>0. counter \in Nat /\ counterTTL \in Nat /\ clock \in Nat /\ req[r].pc = "incr"
  BY DEF RecordViolation, CounterInv, Types
<1>1. /\ counter' = counter + 1 /\ counterTTL' = counterTTL
      /\ skewed' = skewed /\ clock' = clock
      /\ violations' = violations \cup {New}
      /\ \A q \in Request \ {r} : req'[q] = req[q]
      /\ req'[r].pc = "act" /\ req'[r].at = clock /\ req'[r].count = counter + 1
  BY <1>0 DEF RecordViolation, Incr, ArmsExpiry, CounterInv, Types
<1>2. CounterKey' /\ OneExpirer' /\ ExpiryPending'
  BY <1>0, <1>1 DEF CounterInv, CounterKey, OneExpirer, ExpiryPending
<1>3. Answered'
  BY <1>0, <1>1, RequestFields DEF CounterInv, Answered
<1>4. New \notin violations
  BY <1>0 DEF CounterInv, Numbered
<1>5. \A q \in Request : req[q].pc = "expire" => clock >= req[q].at
  BY DEF CounterInv, OnTime
<1>6. counterTTL # 0 => clock + ViolationWindow + Delay >= counterTTL
  BY <1>0, Numbers DEF CounterInv, CounterKey
<1>7. Current' = Current \cup {New}
  <2>1. \A v : (\A q \in Request : req'[q].pc = "expire" => v.at >= req'[q].at)
             <=> (\A q \in Request : req[q].pc = "expire" => v.at >= req[q].at)
    BY <1>0, <1>1
  <2> QED
    BY <2>1, <1>1, <1>5, <1>6 DEF Current
<1>8. IsFiniteSet(Current) /\ New \notin Current
  BY <1>4, FS_Subset DEF CounterInv, Types, Current
<1>9. /\ Cardinality(Current') = Cardinality(Current) + 1
      /\ Cardinality(Current) \in Nat
  BY <1>7, <1>8, AddOne
<1>10. Counted'
  BY <1>0, <1>1, <1>9 DEF CounterInv, Counted
<1> QED
  BY <1>2, <1>3, <1>10 DEF Counting

\* A repeated or unanswered INCR is a fault the history remembers.
LEMMA FaultyViolation ==
    ASSUME CounterInv, NEW r \in Request, IncrAgain(r) \/ IncrFails(r)
    PROVE  Counting'
<1>0. counter \in Nat /\ counterTTL \in Nat /\ clock \in Nat /\ req[r].pc = "incr"
  BY DEF IncrAgain, IncrFails, CounterInv, Types
<1>1. CASE UNCHANGED <<counter, violations, skewed>> /\ IncrFails(r)
  <2>1. UNCHANGED <<counterVars, clock>>
    BY <1>1 DEF IncrFails, counterVars
  <2>2. \A q \in Request \ {r} : req'[q] = req[q]
    BY <1>1 DEF IncrFails, Leave, CounterInv, Types
  <2>3. req'[r].pc = "idle"
    BY <1>1 DEF IncrFails, Leave, Idle, CounterInv, Types
  <2> QED
    BY <1>0, <2>1, <2>2, <2>3, QuietStep
<1>2. CASE counter' \in Nat /\ counter' > counter /\ skewed' = TRUE
  <2>1. /\ counterTTL' = counterTTL /\ clock' = clock
        /\ \A q \in Request \ {r} : req'[q] = req[q]
        /\ req'[r].pc = "idle" \/ (req'[r].pc = "act" /\ req'[r].count = counter')
    BY <1>0 DEF IncrAgain, IncrFails, Leave, Idle, Incr, ArmsExpiry, CounterInv, Types
  <2>2. CounterKey' /\ OneExpirer' /\ ExpiryPending' /\ Counted'
    BY <1>0, <1>2, <2>1 DEF CounterInv, CounterKey, OneExpirer, ExpiryPending, Counted
  <2>3. Answered'
    BY <1>0, <1>2, <2>1, RequestFields DEF CounterInv, Answered
  <2> QED
    BY <2>2, <2>3 DEF Counting
<1>3. CASE Incr(r, 1) /\ skewed' = TRUE
  BY <1>0, <1>2, <1>3 DEF Incr
<1>4. CASE Incr(r, 2) /\ skewed' = TRUE
  BY <1>0, <1>2, <1>4 DEF Incr
<1> QED
  BY <1>1, <1>3, <1>4, Zenon DEF IncrAgain, IncrFails

\* EXPIRE reaches Redis within Delay of the INCR, so every violation of the
\* key is still young enough; when it fails, the history remembers.
LEMMA ExpiryStep ==
    ASSUME CounterInv, NEW r \in Request, Expire(r) \/ ExpireFails(r)
    PROVE  Counting'
<1>0. /\ counter \in Nat /\ counter > 0 /\ counterTTL = 0 /\ clock \in Nat
      /\ req[r].pc = "expire"
      /\ \A q \in Request : req[q].pc = "expire" => q = r
  BY DEF Expire, ExpireFails, CounterInv, OneExpirer, Types
<1>1. /\ counter' = counter /\ violations' = violations /\ clock' = clock
      /\ \A q \in Request \ {r} : req'[q] = req[q]
      /\ req'[r].pc # "expire"
  BY DEF Expire, ExpireFails, Goto, Leave, Idle, CounterInv, Types
<1>2. OneExpirer'
  BY <1>0, <1>1 DEF OneExpirer
<1>3. CASE Expire(r)
  <2>1. counterTTL' = clock + ViolationWindow /\ skewed' = skewed
    BY <1>0, <1>3 DEF Expire
  <2>2. req'[r].at = req[r].at /\ req'[r].count = req[r].count
    BY <1>3 DEF Expire, Goto, CounterInv, Types
  <2>3. CounterKey' /\ ExpiryPending'
    BY <1>0, <1>1, <2>1, Numbers DEF CounterKey, ExpiryPending
  <2>4. Answered'
    BY <1>0, <1>1, <2>2 DEF CounterInv, Answered
  <2>5. req[r].at \in Nat /\ clock <= req[r].at + Delay
    BY <1>0, RequestFields DEF CounterInv, OnTime
  <2>6. Current \subseteq Current'
    BY <1>0, <1>1, <2>1, <2>5, Numbers DEF CounterInv, Types, Current
  <2>7. IsFiniteSet(Current')
    BY <1>1, FS_Subset DEF CounterInv, Types, Current
  <2>8. /\ Cardinality(Current) <= Cardinality(Current')
        /\ Cardinality(Current) \in Nat /\ Cardinality(Current') \in Nat
    BY <2>6, <2>7, FS_Subset, FS_CardinalityType
  <2>9. Counted'
    BY <1>0, <1>1, <2>1, <2>8 DEF CounterInv, Counted
  <2> QED
    BY <1>2, <2>3, <2>4, <2>9 DEF Counting
<1>4. CASE ExpireFails(r)
  <2>1. counterTTL' = 0 /\ skewed' = TRUE /\ req'[r].pc = "idle"
    BY <1>0, <1>4 DEF ExpireFails, Leave, Idle, CounterInv, Types
  <2> QED
    BY <1>0, <1>1, <1>2, <2>1 DEF CounterInv, Counting, CounterKey, ExpiryPending,
          Answered, Counted
<1> QED
  BY <1>3, <1>4

\* Time drops the key before any violation it counts is too old.
LEMMA CounterTick ==
    ASSUME CounterInv, Tick
    PROVE  Counting'
<1>0. /\ counter \in Nat /\ counterTTL \in Nat /\ clock \in Nat
      /\ clock' = clock + 1 /\ req' = req
      /\ violations' = {v \in violations : v.at + ViolationWindow + Delay > clock + 1}
      /\ \A v \in violations : v.at \in Nat
  BY DEF CounterInv, Types, Tick
<1>1. Answered'
  BY <1>0, RequestFields DEF CounterInv, OnTime, Answered
<1>2. CASE counterTTL \in 1 .. clock + 1
  <2>1. counter' = 0 /\ counterTTL' = 0 /\ skewed' = FALSE
    BY <1>2 DEF Tick
  <2>2. CounterKey' /\ ExpiryPending'
    BY <2>1 DEF CounterKey, ExpiryPending
  <2>3. OneExpirer'
    BY <1>0, <1>2 DEF CounterInv, OneExpirer
  <2>4. IsFiniteSet(Current')
    <3>1. Types' BY TickTypes DEF CounterInv
    <3> QED BY <3>1, FS_Subset DEF Types, Current
  <2>5. Counted'
    BY <2>1, <2>4, FS_CardinalityType DEF Counted
  <2> QED
    BY <1>1, <2>2, <2>3, <2>5 DEF Counting
<1>3. CASE counterTTL \notin 1 .. clock + 1
  <2>1. counter' = counter /\ counterTTL' = counterTTL /\ skewed' = skewed
    <3>1. skewed \in BOOLEAN BY DEF CounterInv, Types
    <3> QED BY <3>1, <1>3, Zenon DEF Tick
  <2>2. CounterKey' /\ ExpiryPending' /\ OneExpirer'
    BY <1>0, <1>3, <2>1, Numbers DEF CounterInv, CounterKey, ExpiryPending, OneExpirer
  <2>3. ASSUME ~skewed, counter > 0 PROVE Current' = Current
    <3>1. CASE counterTTL # 0
      BY <3>1, <1>0, <1>3, <2>1, Numbers DEF Current
    <3>2. CASE counterTTL = 0
      <4>1. PICK r \in Request : req[r].pc = "expire"
        BY <2>3, <3>2 DEF CounterInv, ExpiryPending
      <4>2. req[r].at \in Nat /\ clock < req[r].at + Delay
        BY <4>1, RequestFields DEF CounterInv, Tick
      <4>3. ASSUME NEW v \in violations, v.at >= req[r].at
            PROVE  v.at + ViolationWindow + Delay > clock + 1
        BY <1>0, <4>2, <4>3, Numbers
      <4> QED
        BY <4>1, <4>3, <1>0, <2>1, <3>2 DEF Current
    <3> QED
      BY <3>1, <3>2
  <2>4. Counted'
    <3>1. CASE counter > 0
      BY <3>1, <2>1, <2>3 DEF CounterInv, Counted
    <3>2. CASE counter = 0
      <4>1. IsFiniteSet(Current')
        <5>1. Types' BY TickTypes DEF CounterInv
        <5> QED BY <5>1, FS_Subset DEF Types, Current
      <4> QED
        BY <3>2, <2>1, <4>1, FS_CardinalityType DEF Counted
    <3> QED
      BY <1>0, <3>1, <3>2
  <2> QED
    BY <1>1, <2>2, <2>4 DEF Counting
<1> QED
  BY <1>2, <1>3

\* The counter's invariant is inductive.
LEMMA CounterStep == CounterInv /\ [Next]_vars => CounterInv'
<1> SUFFICES ASSUME CounterInv, [Next]_vars PROVE CounterInv'
  OBVIOUS
<1>1. Types' /\ OnTime' /\ Numbered'
  BY TypeStep, OnTimeStep, NumberedStep DEF CounterInv
<1>0. req \in [Request -> [pc : Steps, member : Nat, at : Nat, count : Nat]]
  BY DEF CounterInv, Types
<1>a. ASSUME NEW r \in Request, Arrive(r) PROVE Counting'
  <2>1. UNCHANGED <<counterVars, clock>> /\ req[r].pc = "idle"
    BY <1>a DEF Arrive, Idle
  <2>2. /\ \A q \in Request \ {r} : req'[q] = req[q]
        /\ req'[r] = req[r] \/ req'[r].pc = "eval"
    BY <1>a, <1>0, ArriveEffect DEF CounterInv, Arrival
  <2> QED
    BY <2>1, <2>2, QuietStep
<1>b. ASSUME NEW r \in Request, Eval(r) \/ EvalAgain(r) \/ EvalFails(r) PROVE Counting'
  <2>1. UNCHANGED <<counterVars, clock>> /\ req[r].pc = "eval"
    BY <1>b DEF Eval, EvalAgain, EvalFails
  <2>2. /\ \A q \in Request \ {r} : req'[q] = req[q]
        /\ req'[r] = req[r] \/ req'[r].pc \in {"incr", "idle"}
    BY <1>b, <1>0 DEF Eval, EvalAgain, EvalFails, CheckPromptEntropy, Goto, Leave, Idle
  <2> QED
    BY <2>1, <2>2, QuietStep
<1>c. ASSUME NEW r \in Request, Act(r) \/ ActFails(r) PROVE Counting'
  <2>1. UNCHANGED <<counterVars, clock>> /\ req[r].pc = "act"
    BY <1>c DEF Act, ActFails
  <2>2. (\A q \in Request \ {r} : req'[q] = req[q]) /\ req'[r].pc = "idle"
    BY <1>c, <1>0 DEF Act, ActFails, Leave, Idle
  <2> QED
    BY <2>1, <2>2, QuietStep
<1>d. ASSUME NEW r \in Request, RecordViolation(r) PROVE Counting'
  BY <1>d, FirstViolation, LaterViolation
<1>e. ASSUME UNCHANGED vars PROVE Counting'
  <2>1. Current' = Current
    BY <1>e DEF vars, counterVars, Current
  <2> QED
    BY <1>e, <2>1 DEF vars, counterVars, Counting, CounterInv, CounterKey, OneExpirer,
          ExpiryPending, Answered, Counted
<1>2. Counting'
  BY <1>a, <1>b, <1>c, <1>d, <1>e, FaultyViolation, ExpiryStep, CounterTick DEF Next
<1> QED
  BY <1>1, <1>2 DEF Counting, CounterInv

\* And holds when the gateway starts.
LEMMA CounterInit == Init => CounterInv
<1> SUFFICES ASSUME Init PROVE CounterInv
  OBVIOUS
<1>1. Types /\ OnTime
  BY LimiterInit DEF LimiterInv
<1>2. Numbered /\ CounterKey /\ OneExpirer /\ ExpiryPending /\ Answered
  BY DEF Init, Idle, Numbered, CounterKey, OneExpirer, ExpiryPending, Answered
<1>3. IsFiniteSet(Current)
  BY <1>1, FS_Subset DEF Types, Current
<1>4. Counted
  BY <1>3, FS_CardinalityType DEF Init, Counted
<1> QED
  BY <1>1, <1>2, <1>4 DEF CounterInv

\* The counter never exceeds the violations of its own key, unless a fault
\* touched that key.
THEOREM CounterInvariant == Spec => []CounterInv
  BY CounterInit, CounterStep, PTL DEF Spec

\* A count just read is at most the counter, and what the counter counts is
\* within the window.
LEMMA CauseIsReal ==
    ASSUME CounterInv
    PROVE  SuspendedForCause
<1> SUFFICES ASSUME NEW r \in Request, req[r].pc = "act", req[r].count >= SuspendAt,
                    req[r].at = clock, ~skewed
             PROVE  Cardinality({v \in violations :
                        v.at + ViolationWindow + Delay > clock}) >= SuspendAt
  BY DEF SuspendedForCause
<1> DEFINE Recent == {v \in violations : v.at + ViolationWindow + Delay > clock}
<1>0. /\ counter \in Nat /\ counterTTL \in Nat /\ clock \in Nat
      /\ req[r].count \in Nat /\ \A v \in violations : v.at \in Nat
  BY RequestFields DEF CounterInv, Types
<1>1. req[r].count <= counter /\ counter <= Cardinality(Current)
  BY DEF CounterInv, Answered, Counted
<1>2. IsFiniteSet(Recent) /\ IsFiniteSet(Current)
  BY FS_Subset DEF CounterInv, Types, Current
<1>3. CASE counter > 0
  <2>1. Current \subseteq Recent
    <3>1. CASE counterTTL # 0
      BY <1>0, <3>1, Numbers DEF CounterInv, CounterKey, Current
    <3>2. CASE counterTTL = 0
      <4>1. PICK q \in Request : req[q].pc = "expire"
        BY <1>3, <3>2 DEF CounterInv, ExpiryPending
      <4>2. req[q].at \in Nat /\ clock <= req[q].at + Delay
        BY <4>1, RequestFields DEF CounterInv, OnTime
      <4> QED
        BY <1>0, <3>2, <4>1, <4>2, Numbers DEF Current
    <3> QED
      BY <3>1, <3>2
  <2>2. /\ Cardinality(Current) <= Cardinality(Recent)
        /\ Cardinality(Current) \in Nat /\ Cardinality(Recent) \in Nat
    BY <1>2, <2>1, FS_Subset, FS_CardinalityType
  <2> HIDE DEF Recent
  <2>3. Cardinality(Recent) >= SuspendAt
    BY <1>0, <1>1, <2>2, Numbers
  <2> QED
    BY <2>3 DEF Recent
<1>4. CASE counter = 0
  <2>1. Cardinality(Recent) \in Nat
    BY <1>2, FS_CardinalityType
  <2> HIDE DEF Recent
  <2>2. Cardinality(Recent) >= SuspendAt
    BY <1>0, <1>1, <1>4, <2>1, Numbers
  <2> QED
    BY <2>2 DEF Recent
<1> QED
  BY <1>0, <1>3, <1>4

\* An account is suspended only after SuspendAt violations within the window
\* (policy/escalation.go), unless a Redis fault touched the counter.
THEOREM SuspensionHasCause == Spec => []SuspendedForCause
  BY CounterInvariant, CauseIsReal, PTL

=============================================================================
