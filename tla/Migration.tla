----------------------------- MODULE Migration -----------------------------
(***************************************************************************)
(* Schema migration at start-up (internal/db/migrate.go): gateway replicas *)
(* of different releases start at once, each applies the migrations its    *)
(* release knows and the database does not, one transaction per migration, *)
(* under a session-level advisory lock.                                    *)
(*                                                                         *)
(* A call can fail without effect, a COMMIT can take effect although its   *)
(* caller sees an error, and a replica can die anywhere: the server        *)
(* notices later, and until then the dead session keeps the lock and may   *)
(* still finish a COMMIT it was sent.  A migration's SQL is not idempotent *)
(* (a second CREATE TABLE fails).                                          *)
(***************************************************************************)
EXTENDS Naturals, Sequences, SequencesExt

CONSTANTS
    Replica,
    Nobody,     \* no session holds the lock
    Ghost,      \* the session of a replica that died
    Files,      \* the migration files of each replica's release
    MaxTroubles \* bound: failed calls and deaths

ASSUME SessionAssumption == Nobody # Ghost /\ {Nobody, Ghost} \cap Replica = {}
ASSUME FilesAssumption ==
    Files \in [Replica -> SUBSET [wellNamed : BOOLEAN, version : Nat \ {0}, place : Nat]]
ASSUME MaxTroublesAssumption == MaxTroubles \in Nat

VARIABLES
    phase,    \* where each replica is in App.Migrate
    todo,     \* the files it still has to apply
    lock,     \* external: the session that holds the advisory lock
    sent,     \* external: the version whose COMMIT the ghost was sent, or 0
    recorded, \* schema_migrations
    schema,   \* external: the migrations whose SQL has been committed, in order
    troubles, \* failed calls and deaths so far
    struck    \* history: replicas a trouble has struck since they started

migrationVars == <<phase, todo, lock, sent, recorded, schema, troubles, struck>>

Phases == {"down", "lock", "read", "apply", "commit", "up", "failed"}

-----------------------------------------------------------------------------
(* LoadMigrations.                                                         *)

\* A malformed name or a version that occurs twice is an error.  A file is a
\* record: is it named NNN_name.sql, its version and its place in the listing.
Loadable(dir) ==
    \A f, g \in dir : f.wellNamed /\ (f.version = g.version => f = g)

\* sort.Slice. The mutant forgets to sort and goes by the listing.
SortedAsListed(f, g) == f.place < g.place
Sorted(f, g) == f.version < g.version

\* The loop over what LoadMigrations returned comes to this one of files first.
Foremost(files) == CHOOSE f \in files : \A g \in files \ {f} : Sorted(f, g)

Versions(r) == {f.version : f \in Files[r]}

-----------------------------------------------------------------------------

MigrationInit ==
    /\ phase = [r \in Replica |-> "down"]
    /\ todo = [r \in Replica |-> {}]
    /\ lock = Nobody
    /\ sent = 0
    /\ recorded = {}
    /\ schema = <<>>
    /\ troubles = 0
    /\ struck = {}

Enter(r, p) == phase' = [phase EXCEPT ![r] = p]

\* The deferred unlock: whoever returns gives the lock back.
Unlock(r) == lock' = IF lock = r THEN Nobody ELSE lock

\* A process starts, loads its files and waits for the lock.
Load(r) ==
    /\ phase[r] \in {"down", "failed"}
    /\ Loadable(Files[r])
    /\ Enter(r, "lock")
    /\ struck' = struck \ {r}
    /\ UNCHANGED <<todo, lock, sent, recorded, schema, troubles>>

LoadRejected(r) ==
    /\ phase[r] = "down"
    /\ ~Loadable(Files[r])
    /\ Enter(r, "failed")
    /\ UNCHANGED <<todo, lock, sent, recorded, schema, troubles, struck>>

\* SELECT pg_advisory_lock blocks while another session holds it.
\* The mutant does not look at the answer of a non-blocking attempt.
LockUnchecked(r) ==
    /\ phase[r] = "lock"
    /\ lock' = IF lock = Nobody THEN r ELSE lock
    /\ Enter(r, "read")
    /\ UNCHANGED <<todo, sent, recorded, schema, troubles, struck>>

Lock(r) ==
    /\ phase[r] = "lock"
    /\ lock = Nobody
    /\ lock' = r
    /\ Enter(r, "read")
    /\ UNCHANGED <<todo, sent, recorded, schema, troubles, struck>>

AppliedVersions == recorded

\* The version r is about to apply.
Upcoming(r) == Foremost(todo[r]).version

\* CREATE TABLE IF NOT EXISTS, then appliedVersions: the replica decides once
\* what it is going to apply.
Read(r) ==
    /\ phase[r] = "read"
    /\ todo' = [todo EXCEPT ![r] = {f \in Files[r] : f.version \notin AppliedVersions}]
    /\ Enter(r, "apply")
    /\ UNCHANGED <<lock, sent, recorded, schema, troubles, struck>>

\* applyMigration up to the COMMIT: the SQL and the insert into
\* schema_migrations fail where either is there already.
Apply(r) ==
    /\ phase[r] = "apply"
    /\ todo[r] # {}
    /\ IF Upcoming(r) \in ToSet(schema) \cup recorded
          THEN Enter(r, "failed") /\ Unlock(r)
          ELSE Enter(r, "commit") /\ UNCHANGED lock
    /\ UNCHANGED <<todo, sent, recorded, schema, troubles, struck>>

Committed(v) ==
    /\ schema' = Append(schema, v)
    /\ recorded' = recorded \cup {v}

CommitMigration(r) ==
    /\ phase[r] = "commit"
    /\ Committed(Upcoming(r))
    /\ todo' = [todo EXCEPT ![r] = @ \ {Foremost(@)}]
    /\ Enter(r, "apply")
    /\ UNCHANGED <<lock, sent, troubles, struck>>

\* Nothing is left to apply: unlock, and the gateway starts serving.
Serve(r) ==
    /\ phase[r] = "apply"
    /\ todo[r] = {}
    /\ Enter(r, "up")
    /\ Unlock(r)
    /\ UNCHANGED <<todo, sent, recorded, schema, troubles, struck>>

-----------------------------------------------------------------------------
(* Troubles.                                                               *)

Trouble(r) ==
    /\ troubles < MaxTroubles
    /\ troubles' = troubles + 1
    /\ struck' = struck \cup {r}

\* A call fails: roll back, unlock and return the error; main exits.
Fails(r) ==
    /\ phase[r] \in {"lock", "read", "apply", "commit"}
    /\ Trouble(r)
    /\ Enter(r, "failed")
    /\ Unlock(r)
    /\ UNCHANGED <<todo, sent, recorded, schema>>

\* The COMMIT took effect and its answer was lost.
CommitUnanswered(r) ==
    /\ phase[r] = "commit"
    /\ Trouble(r)
    /\ Committed(Upcoming(r))
    /\ Enter(r, "failed")
    /\ Unlock(r)
    /\ UNCHANGED <<todo, sent>>

\* The process dies; its session, with what it holds, lives on for a while.
Dies(r) ==
    /\ phase[r] \notin {"down", "failed"}
    /\ Trouble(r)
    /\ Enter(r, "down")
    /\ lock' = IF lock = r THEN Ghost ELSE lock
    /\ sent' \in IF phase[r] = "commit" /\ lock = r THEN {0, Upcoming(r)} ELSE {sent}
    /\ UNCHANGED <<todo, recorded, schema>>

\* The server ends the session: its transaction ends with it, one way or the
\* other, before the lock is free.
SessionEnds ==
    /\ lock = Ghost
    /\ lock' = Nobody
    /\ sent' = 0
    /\ IF sent = 0 THEN UNCHANGED <<recorded, schema>> ELSE Committed(sent)
    /\ UNCHANGED <<phase, todo, troubles, struck>>

MigrationNext ==
    \/ \E r \in Replica :
          \/ Load(r) \/ LoadRejected(r) \/ Lock(r) \/ Read(r) \/ Apply(r)
          \/ CommitMigration(r) \/ Serve(r)
          \/ Fails(r) \/ CommitUnanswered(r) \/ Dies(r)
    \/ SessionEnds

-----------------------------------------------------------------------------
(* Properties.                                                             *)

MigrationTypeOK ==
    /\ phase \in [Replica -> Phases]
    /\ lock \in Replica \cup {Nobody, Ghost}
    /\ struck \subseteq Replica
    /\ ToSet(schema) \subseteq UNION {Versions(r) : r \in Replica}

\* Whatever fails, dies or starts together, the migrations take effect in the
\* order of their versions, none twice, the table records exactly those that
\* did, and a replica that serves has all of its own (migrate.go Migrator:
\* "applies pending migrations to a database exactly once").
MigratedInOrder ==
    /\ \A i, j \in 1 .. Len(schema) : i < j => schema[i] < schema[j]
    /\ recorded = ToSet(schema)
    /\ \A r \in Replica : phase[r] = "up" => Versions(r) \subseteq recorded

\* Replicas that start together do not make one another fail: the start of a
\* replica whose own calls succeed succeeds (migrate.go: "so concurrent
\* gateway replicas cannot race the same migration").
StartsUndisturbed ==
    \A r \in Replica : phase[r] = "failed" => r \in struck \/ ~Loadable(Files[r])
=============================================================================
