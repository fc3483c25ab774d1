----------------------------- MODULE MCServing -----------------------------
(* Serving on a small instance. Only which requests share an id matters,   *)
(* so the first request gets the first id.                                 *)
EXTENDS Serving

MCInit ==
    /\ Init
    /\ id[CHOOSE r \in Request : TRUE] = CHOOSE i \in Id : TRUE

MCSpec == MCInit /\ [][Next]_vars /\ Fairness
=============================================================================
