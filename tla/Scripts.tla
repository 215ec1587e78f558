------------------------------ MODULE Scripts ------------------------------
(***************************************************************************)
(* scripts/migrate.ts and scripts/seed-inventory.ts, run by hand: again    *)
(* after any end, in any order, and for one database or all of them.       *)
(*                                                                         *)
(* A migration is a list of statements that run one by one, outside a      *)
(* transaction and without a record of what was applied.                   *)
(***************************************************************************)
EXTENDS Naturals, Sequences, FiniteSets

CONSTANTS
    Script,      \* the databases in the order migrate:all takes them, each a
                 \* record: its name, the number of statements of each of its
                 \* migrations, and which of them creates outbox_events
    Items,       \* SKUs of the seed
    MaxFailures  \* bound: connection errors and kills

\* Every database has a migration, and every migration a statement.
ScriptShape ==
    /\ Script \in Seq([name : STRING, statements : Seq(Nat \ {0}), outbox : Seq(Nat)])
    /\ Script # <<>>
    /\ \A d \in DOMAIN Script : Script[d].statements # <<>>

ASSUME ScriptAssumption == ScriptShape
ASSUME MaxFailuresAssumption == MaxFailures \in Nat

VARIABLES
    objects,   \* objects[d][m]: statements of its migration m that took effect
    migrate,   \* migrate.ts: stage ("idle" before it runs and after it failed),
               \* target, and database, migration and statement to run
    seed,      \* seed-inventory.ts: stage and items still to insert
    stock,     \* items that have a row
    cut,       \* history: databases a migration was cut off in
    failures   \* failures so far

scripts == <<objects, migrate, seed, stock, cut>>

Databases == 1 .. Len(Script)
Migrated(d) == objects[d] = Script[d].statements
HasStock == \E d \in Databases : Script[d].name = "inventory" /\ Migrated(d)

Failure == failures < MaxFailures /\ failures' = failures + 1

\* The scripts while they do not run.
Resting(stage, target) == [stage |-> stage, target |-> target, db |-> 1, m |-> 1, k |-> 1]
NotSeeding == [stage |-> "idle", todo |-> Items]

ScriptsInit ==
    /\ objects = [d \in Databases |-> [m \in DOMAIN Script[d].statements |-> 0]]
    /\ migrate = Resting("idle", {})
    /\ seed = NotSeeding
    /\ stock = {}
    /\ cut = {}
    /\ failures = 0

----------------------------------------------------------------------------
\* migrate.ts

\* Of the database that is named, or of all of them; again after any end.
StartMigrate ==
    /\ migrate.stage # "run"
    /\ \E first, last \in Databases :
          /\ first = last \/ (first = 1 /\ last = Len(Script))
          /\ migrate' = [Resting("run", first .. last) EXCEPT !.db = first]
    /\ UNCHANGED <<objects, seed, stock, cut, failures>>

\* What runs after statement k of migration m of the database, or after the
\* migration when the rest of it is skipped.
After(at, skip) ==
    IF ~skip /\ at.k < Script[at.db].statements[at.m] THEN [at EXCEPT !.k = @ + 1]
    ELSE IF at.m < Len(Script[at.db].statements) THEN [at EXCEPT !.m = @ + 1, !.k = 1]
    ELSE IF at.db + 1 \in at.target THEN [at EXCEPT !.db = @ + 1, !.m = 1, !.k = 1]
    ELSE Resting("completed", at.target)

\* Variant: any error skips the migration.
StatementFailsQuietly ==
    /\ Failure
    /\ migrate.stage = "run"
    /\ migrate' = After(migrate, TRUE)
    /\ UNCHANGED <<objects, seed, stock, cut>>

\* A statement whose object is there throws "already exists", upon which the
\* whole migration counts as applied.
Statement ==
    /\ migrate.stage = "run"
    /\ LET d == migrate.db  m == migrate.m
           exists == objects[d][m] >= migrate.k
       IN  /\ migrate' = After(migrate, exists)
           /\ objects' = IF exists THEN objects ELSE [objects EXCEPT ![d][m] = migrate.k]
    /\ UNCHANGED <<seed, stock, cut, failures>>

\* Any other error ends the run with exit code 1, as does a kill; the databases
\* and statements that would follow are left.
StatementFails ==
    /\ Failure
    /\ migrate.stage = "run"
    /\ migrate' = Resting("idle", {})
    /\ cut' = IF migrate.k > 1 THEN cut \cup {migrate.db} ELSE cut
    /\ UNCHANGED <<objects, seed, stock>>

----------------------------------------------------------------------------
\* seed-inventory.ts

StartSeed ==
    /\ seed = NotSeeding
    /\ seed' = [seed EXCEPT !.stage = "run"]
    /\ UNCHANGED <<objects, migrate, stock, cut, failures>>

\* INSERT ... ON CONFLICT (sku) DO NOTHING, item by item.
InsertItem ==
    /\ seed.stage = "run" /\ HasStock
    /\ \E i \in seed.todo :
          /\ stock' = stock \cup {i}
          /\ seed' = [stage |-> IF seed.todo = {i} THEN "completed" ELSE "run",
                      todo |-> seed.todo \ {i}]
    /\ UNCHANGED <<objects, migrate, cut, failures>>

\* The table or its price column is not there yet.
InsertRefused ==
    /\ seed.stage = "run" /\ ~HasStock
    /\ seed' = NotSeeding
    /\ UNCHANGED <<objects, migrate, stock, cut, failures>>

InsertFails ==
    /\ Failure
    /\ seed.stage = "run"
    /\ seed' = NotSeeding
    /\ UNCHANGED <<objects, migrate, stock, cut>>

----------------------------------------------------------------------------
ScriptsNext ==
    \/ StartMigrate \/ Statement \/ StatementFails
    \/ StartSeed \/ InsertItem \/ InsertRefused \/ InsertFails

\* Failures that hit something else leave the scripts alone.
ScriptsSpec == ScriptsInit /\ [][ScriptsNext]_scripts

\* "All migrations completed" and "Seed complete" (migrate.ts:133,
\* seed-inventory.ts:84) are true however the scripts and the errors interleave,
\* except for a database in which an earlier run was cut off in the middle of a
\* migration: the rest of that migration is never made up for.
ScriptsDoWhatTheyReport ==
    /\ migrate.stage = "completed" => \A d \in migrate.target \ cut : Migrated(d)
    /\ seed.stage = "completed" => stock = Items

============================================================================
