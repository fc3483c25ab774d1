-------------------------- MODULE ReliableDelivery --------------------------
(***************************************************************************)
(* What the package comment of internal/queue promises of every job,       *)
(* without lists, scripts or clocks: a job waits, is held by one consumer, *)
(* comes back a bounded number of times, and ends acked or dead-lettered.  *)
(* A job may go astray instead, when a step on it is repeated or overtaken: *)
(* nothing more is promised of it, and the other jobs do not notice.       *)
(***************************************************************************)
EXTENDS Naturals

CONSTANTS Jobs, MaxAttempts
VARIABLES status, tries

Statuses == {"unsent", "waiting", "held", "acked", "dead", "astray"}

Init ==
    /\ status = [j \in Jobs |-> "unsent"]
    /\ tries = [j \in Jobs |-> 0]

Move(j, from, to) ==
    /\ status[j] = from
    /\ status' = [status EXCEPT ![j] = to]

Send(j) == Move(j, "unsent", "waiting") /\ UNCHANGED tries

Deliver(j) == Move(j, "waiting", "held") /\ UNCHANGED tries

\* Acking removes the job and its count.
Settle(j) == Move(j, "held", "acked") /\ tries' = [tries EXCEPT ![j] = 0]

Return(j) ==
    /\ tries[j] + 1 < MaxAttempts
    /\ Move(j, "held", "waiting")
    /\ tries' = [tries EXCEPT ![j] = @ + 1]

Bury(j) ==
    /\ tries[j] + 1 >= MaxAttempts
    /\ Move(j, "held", "dead")
    /\ tries' = [tries EXCEPT ![j] = @ + 1]

\* Jobs go astray only while they are being sent or are held: one that waits,
\* was acked or was buried does not.
Stray(js) ==
    /\ \A j \in js : status[j] \in {"unsent", "held"}
    /\ status' = [j \in Jobs |-> IF j \in js THEN "astray" ELSE status[j]]
    /\ tries' = [j \in Jobs |-> IF j \in js THEN 0 ELSE tries[j]]

Next ==
    \/ \E j \in Jobs : Send(j) \/ Deliver(j) \/ Settle(j) \/ Return(j) \/ Bury(j)
    \/ \E js \in SUBSET Jobs : Stray(js)

Spec == Init /\ [][Next]_<<status, tries>>

=============================================================================
