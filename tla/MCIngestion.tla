----------------------------- MODULE MCIngestion -----------------------------
(* A small instance of Ingestion for TLC.                                  *)
EXTENDS Ingestion, TLC

CONSTANTS one, other, bad, r1, r2, c1, c2, c3, c4

\* Two repositories, which may be forks with a common commit, and an input
\* that ParseReference rejects.
MCParse == (one :> r1) @@ (other :> r2) @@ (bad :> Malformed)

\* Forks at one commit, two repositories, and a repository beside one whose
\* tree is over the quota or holds no weights.
MCHeads == {(r1 :> a) @@ (r2 :> c1) : a \in {c1, c2, c3, c4}}

=============================================================================
