--------------------------- MODULE ProcessProofs ---------------------------
(***************************************************************************)
(* Machine-checked proofs about what one process does by itself: the API   *)
(* with an idempotency key (HttpIdempotency), for every set of requests    *)
(* with that key, every number of failures and every number of expiries;   *)
(* and migrate.ts and seed-inventory.ts (Scripts), for every list of       *)
(* databases, migrations, statements and items, and every number of        *)
(* failures.                                                               *)
(***************************************************************************)
EXTENDS HttpIdempotency, Scripts, FiniteSetTheorems, TLAPS

\* What Deployment adds to Scripts.
CONSTANTS Processes, DbModules, Tasks
VARIABLES pending, process, closed, task, early

Deploy == INSTANCE Deployment

----------------------------------------------------------------------------
\* The migration and seed scripts

Stages == {"idle", "run", "completed"}
Migrations(d) == DOMAIN Script[d].statements

\* The statements of migration m of database d.
Full(d, m) == Script[d].statements[m]

ObjectsType ==
    /\ objects = [d \in Databases |-> [m \in Migrations(d) |-> objects[d][m]]]
    /\ \A d \in Databases : \A m \in Migrations(d) : objects[d][m] \in 0 .. Full(d, m)

Interval(target) == \E first, last \in Databases : target = first .. last
Positions == [stage : Stages, target : SUBSET Databases, db : Databases,
              m : Nat, k : Nat]

\* A statement of the script: where migrate.ts is, or where it stopped.
\* While it runs it goes through an interval of the databases.
Position(here) ==
    /\ here \in Positions
    /\ here.stage = "run" =>
          /\ here.db \in here.target
          /\ Interval(here.target)
    /\ here.m \in Migrations(here.db)
    /\ here.k \in 1 .. Full(here.db, here.m)

\* migrate.ts is in the middle of this migration.
Within(d, m) == migrate.stage = "run" /\ migrate.db = d /\ migrate.m = m /\ migrate.k > 1

\* A migration of a database that saw no cut is there as a whole or not at all,
\* but for the one migrate.ts is in the middle of.
WholeOrNothing ==
    \A d \in Databases \ cut : \A m \in Migrations(d) :
        IF Within(d, m) THEN objects[d][m] = migrate.k - 1
                        ELSE objects[d][m] \in {0, Full(d, m)}

\* The run of migrate.ts has passed the migration.
Passed(here, d, m) ==
    /\ d \in here.target
    /\ \/ here.stage = "completed"
       \/ here.stage = "run" /\ d < here.db
       \/ here.stage = "run" /\ d = here.db /\ m < here.m

PassedIsThere ==
    \A d \in Databases \ cut : \A m \in Migrations(d) :
        Passed(migrate, d, m) => objects[d][m] = Full(d, m)

\* What the seed still has to insert is known.
SeedAccounted ==
    /\ seed \in [stage : Stages, todo : SUBSET Items]
    /\ stock \subseteq Items
    /\ seed.stage \in {"run", "completed"} => Items \subseteq stock \cup seed.todo
    /\ seed.stage = "completed" => seed.todo = {}

ScriptsInv ==
    /\ ObjectsType
    /\ Position(migrate)
    /\ WholeOrNothing
    /\ PassedIsThere
    /\ SeedAccounted

LEMMA ScriptTypes ==
    ASSUME ScriptShape
    PROVE  /\ Databases = DOMAIN Script
           /\ Len(Script) \in Nat \ {0}
           /\ \A d \in Databases : /\ Script[d].statements \in Seq(Nat \ {0})
                                          /\ Script[d].statements # <<>>
<1> DEFINE R == [name : STRING, statements : Seq(Nat \ {0}), outbox : Seq(Nat)]
<1>1. Script \in Seq(R) /\ Script # <<>>
  BY DEF ScriptShape
<1>2. \A r \in R : r.statements \in Seq(Nat \ {0})
  OBVIOUS
<1> HIDE DEF R
<1>3. /\ DOMAIN Script = 1 .. Len(Script) /\ Len(Script) \in Nat \ {0}
      /\ \A d \in DOMAIN Script : Script[d] \in R
  BY <1>1
<1> QED BY <1>2, <1>3 DEF Databases, ScriptShape

LEMMA ScriptFacts ==
    ASSUME ScriptShape
    PROVE  /\ Databases = 1 .. Len(Script)
           /\ Len(Script) \in Nat \ {0}
           /\ \A d \in Databases :
                 /\ Len(Script[d].statements) \in Nat \ {0}
                 /\ Migrations(d) = 1 .. Len(Script[d].statements)
                 /\ \A m \in Migrations(d) : Full(d, m) \in Nat \ {0}
<1>1. ASSUME NEW d \in Databases
      PROVE  /\ Len(Script[d].statements) \in Nat \ {0}
             /\ Migrations(d) = 1 .. Len(Script[d].statements)
             /\ \A m \in Migrations(d) : Full(d, m) \in Nat \ {0}
  <2>1. Script[d].statements \in Seq(Nat \ {0}) /\ Script[d].statements # <<>>
    BY ScriptTypes
  <2> QED BY <2>1 DEF Migrations, Full
<1> QED BY <1>1, ScriptTypes DEF Databases

LEMMA StatementsAreFull ==
    ASSUME ScriptShape, NEW d \in Databases
    PROVE  Script[d].statements = [m \in Migrations(d) |-> Full(d, m)]
<1>1. Script[d].statements \in Seq(Nat \ {0})
  BY ScriptTypes
<1> QED BY <1>1 DEF Migrations, Full

LEMMA FirstStatement ==
    ASSUME ScriptShape, NEW d \in Databases
    PROVE  1 \in Migrations(d) /\ 1 \in 1 .. Full(d, 1)
<1>1. 1 \in Migrations(d)
  BY ScriptFacts
<1>2. Full(d, 1) \in Nat \ {0}
  BY <1>1, ScriptFacts
<1> QED BY <1>1, <1>2

LEMMA RestingPosition ==
    ASSUME ScriptShape, NEW stage \in Stages \ {"run"},
           NEW target \in SUBSET Databases
    PROVE  Position(Resting(stage, target))
<1>1. 1 \in Databases
  BY ScriptFacts
<1> QED BY <1>1, FirstStatement DEF Position, Positions, Resting

\* At the last migration of a database everything up to there has been passed.
LEMMA PassedUpTo ==
    ASSUME ScriptShape,
           NEW here, Position(here), here.stage = "run",
           ~(here.m < Len(Script[here.db].statements)),
           NEW d \in here.target, d < here.db + 1, NEW m \in Migrations(d)
    PROVE  Passed(here, d, m) \/ (d = here.db /\ m = here.m)
<1>1. here.db \in Databases /\ d \in Databases /\ here.m \in Migrations(here.db)
  BY DEF Position, Positions
<1>2. here.db \in Nat /\ d \in Nat
  BY <1>1, ScriptFacts
<1>3. CASE d = here.db
  <2>1. /\ Len(Script[d].statements) \in Nat
        /\ here.m \in 1 .. Len(Script[d].statements) /\ m \in 1 .. Len(Script[d].statements)
    BY <1>1, <1>3, ScriptFacts
  <2>2. m < here.m \/ m = here.m
    BY <1>3, <2>1
  <2> QED BY <1>3, <2>2 DEF Passed
<1>4. CASE d # here.db
  <2>1. d < here.db
    BY <1>2, <1>4
  <2> QED BY <2>1 DEF Passed
<1> QED BY <1>3, <1>4

\* What migrate.ts comes to next: the next statement of the migration, or the
\* first of the next migration, or the end, having passed what it passed before
\* and the migration it was at.
LEMMA AfterFacts ==
    ASSUME ScriptShape,
           NEW here, Position(here), here.stage = "run", NEW skip \in BOOLEAN
    PROVE  LET next == After(here, skip) IN
           /\ Position(next)
           /\ \/ /\ ~skip /\ here.k < Full(here.db, here.m)
                 /\ next = [here EXCEPT !.k = @ + 1]
              \/ /\ skip \/ here.k = Full(here.db, here.m)
                 /\ next.stage = "run" => next.k = 1
                 /\ \A d \in Databases : \A m \in Migrations(d) :
                       Passed(next, d, m) => Passed(here, d, m) \/ (d = here.db /\ m = here.m)
<1> DEFINE next == After(here, skip)
           n == Len(Script[here.db].statements)
<1>0. /\ here \in Positions
      /\ here.stage \in Stages /\ here.target \subseteq Databases
      /\ here.db \in Databases /\ here.m \in Nat
  BY DEF Position, Positions
<1>1. /\ here \in Positions
      /\ here.db \in 1 .. Len(Script) /\ Len(Script) \in Nat \ {0}
      /\ n \in Nat \ {0} /\ here.m \in 1 .. n
      /\ Full(here.db, here.m) \in Nat \ {0} /\ here.k \in 1 .. Full(here.db, here.m)
  BY ScriptFacts DEF Position, Positions
<1>2. CASE ~skip /\ here.k < Full(here.db, here.m)
  <2>1. next = [here EXCEPT !.k = @ + 1]
    BY <1>1, <1>2 DEF After, Full
  <2>2. Position(next)
    BY <1>1, <1>2, <2>1 DEF Position, Positions, Stages
  <2> QED BY <1>2, <2>1, <2>2
<1>3. CASE skip \/ here.k = Full(here.db, here.m)
  <2>0. ~(~skip /\ here.k < Full(here.db, here.m))
    BY <1>1, <1>3
  <2>1. CASE here.m < n
    <3>1. next = [here EXCEPT !.m = @ + 1, !.k = 1]
      BY <1>1, <2>0, <2>1 DEF After, Full
    <3>2. here.m + 1 \in 1 .. n /\ here.m + 1 \in Migrations(here.db)
      BY <1>1, <2>1, ScriptFacts
    <3>3. Full(here.db, here.m + 1) \in Nat \ {0}
      BY <1>1, <3>2, ScriptFacts
    <3>4. Position(next)
      <4>1. /\ next \in Positions
            /\ next.db = here.db /\ next.m = here.m + 1 /\ next.k = 1 /\ next.target = here.target
        <5>1. next = [stage |-> here.stage, target |-> here.target, db |-> here.db,
                     m |-> here.m + 1, k |-> 1]
          BY <1>0, <3>1 DEF Positions
        <5> HIDE DEF next
        <5> QED BY <1>0, <5>1 DEF Positions
      <4> HIDE DEF next
      <4> QED BY <3>2, <3>3, <4>1 DEF Position
    <3>5. ASSUME NEW d \in Databases, NEW m \in Migrations(d), Passed(next, d, m)
          PROVE  Passed(here, d, m) \/ (d = here.db /\ m = here.m)
      <4>1. m \in Nat /\ d \in Nat
        BY ScriptFacts
      <4> QED BY <1>1, <3>1, <3>5, <4>1 DEF Passed
    <3> QED BY <1>1, <1>3, <3>1, <3>4, <3>5
  <2>2. CASE ~(here.m < n) /\ here.db + 1 \in here.target
    <3>1. next = [here EXCEPT !.db = @ + 1, !.m = 1, !.k = 1]
      BY <1>1, <2>0, <2>2 DEF After, Full
    <3>2. here.db + 1 \in Databases
      BY <1>0, <2>2
    <3>3. 1 \in Migrations(here.db + 1)
      BY <3>2, ScriptFacts
    <3>4. Full(here.db + 1, 1) \in Nat \ {0}
      BY <3>2, <3>3, ScriptFacts
    <3>5. next = [stage |-> here.stage, target |-> here.target, db |-> here.db + 1,
                  m |-> 1, k |-> 1]
      BY <1>0, <3>1 DEF Positions
    <3>6. Position(next)
      <4> HIDE DEF next
      <4>1. /\ next \in Positions
            /\ next.db = here.db + 1 /\ next.m = 1 /\ next.k = 1 /\ next.target = here.target
        BY <1>0, <3>2, <3>5 DEF Positions
      <4> QED BY <2>2, <3>3, <3>4, <4>1 DEF Position
    <3>7. ASSUME NEW d \in Databases, NEW m \in Migrations(d), Passed(next, d, m)
          PROVE  Passed(here, d, m) \/ (d = here.db /\ m = here.m)
      <4> HIDE DEF next
      <4>1. d \in here.target /\ here.stage = "run"
        BY <3>5, <3>7 DEF Passed
      <4>2. m \in Nat /\ d \in Nat /\ m >= 1
        BY ScriptFacts
      <4>3. d < here.db + 1
        BY <1>1, <3>5, <3>7, <4>2 DEF Passed
      <4> QED BY <2>2, <4>1, <4>3, PassedUpTo
    <3>8. next.k = 1
      BY <3>5
    <3> QED BY <1>3, <3>6, <3>7, <3>8
  <2>3. CASE ~(here.m < n) /\ here.db + 1 \notin here.target
    <3>1. next = Resting("completed", here.target)
      BY <1>1, <2>0, <2>3 DEF After, Full
    <3>2. Position(next)
      BY <1>0, <3>1, RestingPosition DEF Stages
    <3>3. ASSUME NEW d \in Databases, NEW m \in Migrations(d), Passed(next, d, m)
          PROVE  Passed(here, d, m) \/ (d = here.db /\ m = here.m)
      <4>0. here.db \in here.target
        BY DEF Position
      <4>1. d \in here.target
        BY <3>1, <3>3 DEF Passed, Resting
      <4>2. PICK first, last \in Databases : here.target = first .. last
        BY DEF Position, Interval
      <4>3. first \in Nat /\ last \in Nat /\ d \in Nat /\ here.db \in Nat
        BY <1>1, ScriptFacts
      <4>4. d < here.db + 1
        BY <2>3, <4>0, <4>1, <4>2, <4>3
      <4> QED BY <2>3, <4>1, <4>4, PassedUpTo
    <3>4. next.stage = "completed"
      BY <3>1 DEF Resting
    <3> QED BY <1>3, <3>2, <3>3, <3>4
  <2> QED BY <2>1, <2>2, <2>3
<1> QED BY <1>1, <1>2, <1>3

LEMMA InitScripts == ASSUME ScriptShape, ScriptsInit PROVE ScriptsInv
<1>1. \A d \in Databases : \A m \in Migrations(d) : Full(d, m) \in Nat
  BY ScriptFacts
<1>2. objects = [d \in Databases |-> [m \in Migrations(d) |-> 0]]
  BY DEF ScriptsInit, Migrations
<1>3. ObjectsType
  BY <1>1, <1>2 DEF ObjectsType
<1>4. migrate = Resting("idle", {})
  BY DEF ScriptsInit
<1>5. Position(migrate)
  BY <1>4, RestingPosition DEF Stages
<1>6. WholeOrNothing
  BY <1>2, <1>4 DEF WholeOrNothing, Within, Resting
<1>7. PassedIsThere
  BY <1>4 DEF PassedIsThere, Passed, Resting
<1>8. SeedAccounted
  BY DEF ScriptsInit, NotSeeding, SeedAccounted, Stages
<1> QED BY <1>3, <1>5, <1>6, <1>7, <1>8 DEF ScriptsInv

LEMMA StartMigrateKeeps ==
    ASSUME ScriptShape, ScriptsInv, StartMigrate PROVE ScriptsInv'
<1> USE DEF ScriptsInv
<1>1. migrate.stage # "run" /\ UNCHANGED <<objects, seed, stock, cut>>
  BY DEF StartMigrate
<1>2. PICK first, last \in Databases :
         /\ first = last \/ (first = 1 /\ last = Len(Script))
         /\ migrate' = [Resting("run", first .. last) EXCEPT !.db = first]
  BY DEF StartMigrate
<1>3. migrate' = [stage |-> "run", target |-> first .. last, db |-> first, m |-> 1, k |-> 1]
  BY <1>2 DEF Resting
<1>4. first .. last \subseteq Databases /\ first \in first .. last
  BY <1>2, ScriptFacts
<1>5. migrate' \in Positions
  BY <1>3, <1>4 DEF Positions, Stages
<1>6. Position(migrate)'
  BY <1>3, <1>4, <1>5, FirstStatement DEF Position, Positions, Interval
<1>7. ObjectsType' /\ SeedAccounted'
  BY <1>1 DEF ObjectsType, SeedAccounted
<1>8. WholeOrNothing'
  BY <1>1, <1>3 DEF WholeOrNothing, Within
<1>9. ASSUME NEW d \in Databases, NEW m \in Migrations(d) PROVE ~Passed(migrate', d, m)
  <2>1. first \in Nat /\ d \in Nat /\ m \in Nat /\ m >= 1
    BY ScriptFacts
  <2>2. d \in first .. last => ~(d < first)
    BY <1>2, <2>1, ScriptFacts
  <2> QED BY <1>3, <2>1, <2>2 DEF Passed
<1>10. PassedIsThere'
  BY <1>9 DEF PassedIsThere, Passed
<1> QED BY <1>6, <1>7, <1>8, <1>10

\* A statement that is skipped finds its migration whole, and one that runs is
\* the first that is missing.
LEMMA StatementKeeps ==
    ASSUME ScriptShape, ScriptsInv, Statement PROVE ScriptsInv'
<1> USE DEF ScriptsInv
<1> DEFINE d0 == migrate.db
           m0 == migrate.m
           exists == objects[d0][m0] >= migrate.k
<1>1. /\ migrate.stage = "run"
      /\ migrate' = After(migrate, exists)
      /\ objects' = IF exists THEN objects ELSE [objects EXCEPT ![d0][m0] = migrate.k]
      /\ UNCHANGED <<seed, stock, cut>>
  BY DEF Statement
<1>2. /\ d0 \in Databases /\ m0 \in Migrations(d0)
      /\ Full(d0, m0) \in Nat \ {0} /\ migrate.k \in 1 .. Full(d0, m0)
      /\ objects[d0][m0] \in 0 .. Full(d0, m0)
  BY ScriptFacts DEF Position, Positions, ObjectsType
<1>3. exists \in BOOLEAN
  OBVIOUS
<1>4. /\ Position(migrate')
      /\ \/ /\ ~exists /\ migrate.k < Full(d0, m0)
            /\ migrate' = [migrate EXCEPT !.k = @ + 1]
         \/ /\ exists \/ migrate.k = Full(d0, m0)
            /\ migrate'.stage = "run" => migrate'.k = 1
            /\ \A d \in Databases : \A m \in Migrations(d) :
                  Passed(migrate', d, m) => Passed(migrate, d, m) \/ (d = d0 /\ m = m0)
  BY <1>1, <1>3, AfterFacts
<1>5. /\ \A d \in Databases : \A m \in Migrations(d) :
            d # d0 \/ m # m0 => objects'[d][m] = objects[d][m]
      /\ objects'[d0][m0] = IF exists THEN objects[d0][m0] ELSE migrate.k
      /\ ObjectsType'
  <2>1. CASE exists
    BY <1>1, <2>1 DEF ObjectsType
  <2>2. CASE ~exists
    <3>1. objects = [d \in Databases |-> [m \in Migrations(d) |-> objects[d][m]]]
      BY DEF ObjectsType
    <3>2. objects' = [d \in Databases |-> [m \in Migrations(d) |->
                         IF d = d0 /\ m = m0 THEN migrate.k ELSE objects[d][m]]]
      BY <1>1, <1>2, <2>2, <3>1
    <3>3. \A d \in Databases : \A m \in Migrations(d) :
             objects'[d][m] = IF d = d0 /\ m = m0 THEN migrate.k ELSE objects[d][m]
      BY <3>2
    <3>4. objects' = [d \in Databases |-> [m \in Migrations(d) |-> objects'[d][m]]]
      BY <3>2, <3>3
    <3>5. ObjectsType'
      BY <1>2, <3>3, <3>4 DEF ObjectsType
    <3> QED BY <1>2, <2>2, <3>3, <3>5
  <2> QED BY <2>1, <2>2
<1>6. Position(migrate)'
  BY <1>4 DEF Position, Positions, Stages
<1>7. SeedAccounted'
  BY <1>1 DEF SeedAccounted
<1>8. d0 \notin cut =>
        objects[d0][m0] = IF migrate.k > 1 THEN migrate.k - 1 ELSE objects[d0][m0]
  BY <1>1, <1>2 DEF WholeOrNothing, Within
<1>9. d0 \notin cut /\ exists => objects[d0][m0] = Full(d0, m0) /\ migrate.k = 1
  BY <1>1, <1>2, <1>8 DEF WholeOrNothing, Within
<1>10. WholeOrNothing'
  <2> SUFFICES ASSUME NEW d \in Databases \ cut, NEW m \in Migrations(d)
               PROVE  IF Within(d, m)' THEN objects'[d][m] = migrate'.k - 1
                                       ELSE objects'[d][m] \in {0, Full(d, m)}
    BY <1>1 DEF WholeOrNothing
  <2>1. d # d0 \/ m # m0 => objects[d][m] \in {0, Full(d, m)}
    BY DEF WholeOrNothing, Within
  <2>2. CASE d = d0 /\ m = m0
    BY <1>1, <1>2, <1>4, <1>5, <1>9, <2>2 DEF Within, Position, Positions
  <2>3. CASE d # d0 \/ m # m0
    BY <1>4, <1>5, <2>1, <2>3 DEF Within, Position, Positions
  <2> QED BY <2>2, <2>3
<1>11. PassedIsThere'
  <2> SUFFICES ASSUME NEW d \in Databases \ cut, NEW m \in Migrations(d),
                      Passed(migrate', d, m)
               PROVE  objects'[d][m] = Full(d, m)
    BY <1>1 DEF PassedIsThere, Passed
  <2>1. CASE ~exists /\ migrate.k < Full(d0, m0) /\ migrate' = [migrate EXCEPT !.k = @ + 1]
    <3>1. Passed(migrate, d, m) /\ (d # d0 \/ m # m0)
      BY <1>1, <1>2, <2>1, ScriptFacts DEF Passed, Position, Positions
    <3> QED BY <1>5, <3>1 DEF PassedIsThere
  <2>2. CASE /\ exists \/ migrate.k = Full(d0, m0)
             /\ Passed(migrate, d, m) \/ (d = d0 /\ m = m0)
    <3>1. CASE d = d0 /\ m = m0
      BY <1>5, <1>9, <2>2, <3>1
    <3>2. CASE d # d0 \/ m # m0
      BY <1>5, <2>2, <3>2 DEF PassedIsThere
    <3> QED BY <3>1, <3>2
  <2> QED BY <1>4, <2>1, <2>2
<1> QED BY <1>5, <1>6, <1>7, <1>10, <1>11

\* A run that ends in the middle of a migration is remembered as a cut.
LEMMA StatementFailsKeeps ==
    ASSUME ScriptShape, ScriptsInv, StatementFails PROVE ScriptsInv'
<1> USE DEF ScriptsInv
<1>1. /\ migrate.stage = "run"
      /\ migrate' = Resting("idle", {})
      /\ cut' = IF migrate.k > 1 THEN cut \cup {migrate.db} ELSE cut
      /\ UNCHANGED <<objects, seed, stock>>
  BY DEF StatementFails
<1>2. Position(migrate')
  BY <1>1, RestingPosition DEF Stages
<1>3. Position(migrate)'
  BY <1>2 DEF Position, Positions
<1>4. migrate'.stage = "idle"
  BY <1>1 DEF Resting
<1>5. ObjectsType' /\ SeedAccounted'
  BY <1>1 DEF ObjectsType, SeedAccounted
<1>6. \A d \in Databases \ cut' : d \notin cut /\ (d = migrate.db => ~(migrate.k > 1))
  BY <1>1
<1>7. WholeOrNothing'
  BY <1>1, <1>4, <1>6 DEF WholeOrNothing, Within
<1>8. PassedIsThere'
  BY <1>4 DEF PassedIsThere, Passed
<1> QED BY <1>3, <1>5, <1>7, <1>8

LEMMA SeedKeeps ==
    ASSUME ScriptsInv,
           StartSeed \/ InsertItem \/ InsertRefused \/ InsertFails
    PROVE  ScriptsInv'
<1>1. UNCHANGED <<objects, migrate, cut>>
  BY DEF StartSeed, InsertItem, InsertRefused, InsertFails
<1>2. ObjectsType' /\ Position(migrate)' /\ WholeOrNothing' /\ PassedIsThere'
  BY <1>1 DEF ScriptsInv, ObjectsType, Position, WholeOrNothing, Within, PassedIsThere, Passed
<1>3. SeedAccounted
  BY DEF ScriptsInv
<1>4. SeedAccounted'
  <2>1. CASE StartSeed
    BY <1>3, <2>1 DEF SeedAccounted, Stages, StartSeed, NotSeeding
  <2>2. CASE InsertItem
    <3>1. PICK i \in seed.todo :
             /\ seed.stage = "run"
             /\ stock' = stock \cup {i}
             /\ seed' = [stage |-> IF seed.todo = {i} THEN "completed" ELSE "run",
                         todo |-> seed.todo \ {i}]
      BY <2>2 DEF InsertItem
    <3> QED BY <1>3, <3>1 DEF SeedAccounted, Stages
  <2>3. CASE InsertRefused
    BY <1>3, <2>3 DEF SeedAccounted, Stages, InsertRefused, NotSeeding
  <2>4. CASE InsertFails
    BY <1>3, <2>4 DEF SeedAccounted, Stages, InsertFails, NotSeeding
  <2> QED BY <2>1, <2>2, <2>3, <2>4
<1> QED BY <1>2, <1>4 DEF ScriptsInv

LEMMA ScriptsAlone ==
    ASSUME ScriptsInv, UNCHANGED scripts PROVE ScriptsInv'
BY DEF ScriptsInv, ObjectsType, Position, WholeOrNothing, Within, PassedIsThere, Passed,
       SeedAccounted, scripts

LEMMA NextScripts ==
    ASSUME ScriptShape, ScriptsInv, [ScriptsNext]_scripts PROVE ScriptsInv'
<1>1. CASE StartMigrate \/ Statement \/ StatementFails
  BY <1>1, StartMigrateKeeps, StatementKeeps, StatementFailsKeeps
<1>2. CASE StartSeed \/ InsertItem \/ InsertRefused \/ InsertFails
  BY <1>2, SeedKeeps
<1>3. CASE UNCHANGED scripts
  BY <1>3, ScriptsAlone
<1> QED BY <1>1, <1>2, <1>3 DEF ScriptsNext

\* The inductive invariant of the scripts, in whatever order they, the errors
\* and the processes take their steps.
THEOREM ScriptsInvariant == ScriptsSpec => []ScriptsInv
<1>0. ScriptShape
  BY ScriptAssumption
<1>1. ScriptsInit => ScriptsInv
  BY <1>0, InitScripts
<1>2. ScriptsInv /\ [ScriptsNext]_scripts => ScriptsInv'
  BY <1>0, NextScripts
<1> QED BY <1>1, <1>2, PTL DEF ScriptsSpec

\* For every script, however often it is run, fails or is killed: "All migrations
\* completed" and "Seed complete" are true, but of databases in which an earlier
\* run was cut off in the middle of a migration.
THEOREM ReportsAreTrue == ScriptsSpec => []ScriptsDoWhatTheyReport
<1>0. ScriptShape
  BY ScriptAssumption
<1>1. ScriptsInv => ScriptsDoWhatTheyReport
  <2> SUFFICES ASSUME ScriptsInv PROVE ScriptsDoWhatTheyReport
    OBVIOUS
  <2>1. ASSUME migrate.stage = "completed", NEW d \in migrate.target \ cut
        PROVE  Migrated(d)
    <3>0. d \in Databases
      BY DEF ScriptsInv, Position, Positions
    <3>1. \A m \in Migrations(d) : objects[d][m] = Full(d, m)
      BY <2>1, <3>0 DEF ScriptsInv, PassedIsThere, Passed
    <3>2. objects[d] = [m \in Migrations(d) |-> objects[d][m]]
      BY <3>0 DEF ScriptsInv, ObjectsType
    <3>3. Script[d].statements = [m \in Migrations(d) |-> Full(d, m)]
      BY <1>0, <3>0, StatementsAreFull
    <3> QED BY <3>1, <3>2, <3>3 DEF Migrated
  <2>2. seed.stage = "completed" => stock = Items
    BY DEF ScriptsInv, SeedAccounted
  <2> QED BY <2>1, <2>2 DEF ScriptsDoWhatTheyReport
<1> QED BY <1>1, ScriptsInvariant, PTL

\* Processes that start, poll, are killed or shut down, and the failures that hit
\* them, leave the scripts alone, and so the reports hold in all of Deployment.
THEOREM DeploymentRunsScripts == Deploy!Spec => ScriptsSpec
<1> USE DEF Deploy!StartMigrate, StartMigrate, Deploy!Resting, Resting,
            Deploy!Databases, Databases
<1>1. Deploy!Init => ScriptsInit
  BY DEF Deploy!Init, Deploy!ScriptsInit, ScriptsInit, Deploy!NotSeeding, NotSeeding
<1>2. [Deploy!Next]_(Deploy!vars) => [ScriptsNext]_scripts
  <2> SUFFICES ASSUME [Deploy!Next]_(Deploy!vars) PROVE [ScriptsNext]_scripts
    OBVIOUS
  <2>1. CASE Deploy!StartMigrate
    BY <2>1 DEF ScriptsNext
  <2>2. CASE Deploy!Statement
    BY <2>2 DEF ScriptsNext, Deploy!Statement, Statement, Deploy!After, After
  <2>3. CASE Deploy!StatementFails
    BY <2>3 DEF ScriptsNext, Deploy!StatementFails, StatementFails, Deploy!Failure, Failure
  <2>4. CASE Deploy!StartSeed \/ Deploy!InsertRefused \/ Deploy!InsertFails \/ Deploy!InsertItem
    BY <2>4 DEF ScriptsNext, Deploy!StartSeed, StartSeed, Deploy!InsertItem, InsertItem,
       Deploy!InsertRefused, InsertRefused, Deploy!InsertFails, InsertFails,
       Deploy!HasStock, HasStock, Deploy!Migrated, Migrated, Deploy!NotSeeding, NotSeeding,
       Deploy!Failure, Failure
  <2>5. ASSUME NEW p \in Processes, Deploy!Start(p) \/ Deploy!Kill(p) PROVE UNCHANGED scripts
    BY <2>5 DEF Deploy!Start, Deploy!Kill, Deploy!scripts, scripts
  <2>6. ASSUME NEW p \in Processes, NEW d \in Databases,
               Deploy!Tick(p, d) \/ Deploy!TickFails(p, d)
        PROVE  UNCHANGED scripts
    BY <2>6 DEF Deploy!Tick, Deploy!TickFails, Deploy!scripts, scripts
  <2>7. ASSUME NEW d \in Databases, Deploy!Commit(d) PROVE UNCHANGED scripts
    BY <2>7 DEF Deploy!Commit, Deploy!scripts, scripts
  <2>8. ASSUME NEW t \in Tasks, Deploy!Take(t) \/ Deploy!Query(t) \/ Deploy!Returned(t)
        PROVE  UNCHANGED scripts
    BY <2>8 DEF Deploy!Take, Deploy!Query, Deploy!Returned, Deploy!scripts, scripts
  <2>9. CASE Deploy!Signal \/ Deploy!EndPool \/ Deploy!Exit
    BY <2>9 DEF Deploy!Signal, Deploy!EndPool, Deploy!Exit, Deploy!scripts, scripts
  <2>10. CASE UNCHANGED Deploy!vars
    BY <2>10 DEF Deploy!vars, Deploy!scripts, scripts
  <2> QED
    BY <2>1, <2>2, <2>3, <2>4, <2>5, <2>6, <2>7, <2>8, <2>9, <2>10 DEF Deploy!Next
<1> QED BY <1>1, <1>2, PTL DEF Deploy!Spec, ScriptsSpec

\* What the scripts report is so in every behaviour of Deployment.
THEOREM ReportsStayTrue == Deploy!Spec => []ScriptsDoWhatTheyReport
BY ReportsAreTrue, DeploymentRunsScripts, PTL

----------------------------------------------------------------------------
\* One idempotency key

USE NoRequestAssumption, MaxFaultsAssumption, MaxExpiriesAssumption

Places ==
    /\ store \in Requests \cup {NoRequest}
    /\ processing \in BOOLEAN
    /\ at \in [Requests -> {"idle"} \cup InFlight \cup Answered]
    /\ answer \in [Requests -> Requests \cup {NoRequest}]
    /\ saved \subseteq Requests
    /\ started \subseteq saved

Counters ==
    /\ undone \in Nat
    /\ faults \in 0..MaxFaults
    /\ expiries \in 0..MaxExpiries

\* The key has one holder, and while it has one no response is cached.
OneHolder ==
    /\ \A r, q \in Requests : at[r] \in InFlight /\ at[q] \in InFlight => r = q
    /\ processing <=> \E r \in Requests : at[r] \in InFlight
    /\ processing => store = NoRequest

\* How far a request got says what it has done.
Done ==
    \A r \in Requests :
        /\ at[r] \in {"idle", "save"} => r \notin saved
        /\ at[r] \in {"start", "answer", "created"} => r \in saved
        /\ at[r] \in {"answer", "created"} => r \in started

\* Only the response of a request that went through is cached.
CachedIsCreated == store # NoRequest => at[store] = "created"

\* The program knows of an order of this key.
Known == store # NoRequest \/ \E r \in Requests : at[r] \in {"start", "answer"}

\* Every order but the known one was forgotten, each by an event of its own.
Accounted ==
    /\ IsFiniteSet(saved)
    /\ Cardinality(saved) <= undone + (IF Known THEN 1 ELSE 0)
    /\ undone <= faults + expiries

IInv ==
    /\ Places
    /\ Counters
    /\ OneHolder
    /\ Done
    /\ CachedIsCreated
    /\ ReplaysAnOrderInProgress
    /\ Accounted

----------------------------------------------------------------------------
LEMMA InitInv == Init => IInv
<1> SUFFICES ASSUME Init PROVE IInv
  OBVIOUS
<1>1. IsFiniteSet({}) /\ Cardinality({}) = 0
  BY FS_EmptySet
<1>2. Accounted
  BY <1>1 DEF Init, Accounted, Known
<1>3. Places
  BY DEF Init, Places
<1>4. Counters
  BY DEF Init, Counters
<1>5. OneHolder /\ Done /\ CachedIsCreated /\ ReplaysAnOrderInProgress
  BY DEF Init, OneHolder, Done, CachedIsCreated, ReplaysAnOrderInProgress, InFlight
<1> QED
  BY <1>2, <1>3, <1>4, <1>5 DEF IInv

LEMMA CountersNat ==
    ASSUME Counters PROVE undone \in Nat /\ faults \in Nat /\ expiries \in Nat
BY DEF Counters

\* A step that stores no order and forgets none keeps the account.
LEMMA AccountKept ==
    ASSUME Accounted, Counters, saved' = saved, undone' = undone,
           expiries' = expiries, faults' = faults \/ faults' = faults + 1,
           Known => Known'
    PROVE  Accounted'
<1>1. Cardinality(saved) \in Nat
  BY FS_CardinalityType DEF Accounted
<1>2. IsFiniteSet(saved') /\ Cardinality(saved') <= undone' + (IF Known' THEN 1 ELSE 0)
  BY <1>1, CountersNat DEF Accounted
<1>3. undone' <= faults' + expiries'
  BY CountersNat DEF Accounted
<1> QED BY <1>2, <1>3 DEF Accounted

\* A step that may forget the known order counts itself.
LEMMA AccountForgets ==
    ASSUME Accounted, Counters, saved' = saved, undone' = undone + 1,
           \/ faults' = faults + 1 /\ expiries' = expiries
           \/ faults' = faults /\ expiries' = expiries + 1
    PROVE  Accounted'
<1>1. Cardinality(saved) \in Nat
  BY FS_CardinalityType DEF Accounted
<1>2. IsFiniteSet(saved') /\ Cardinality(saved') <= undone' + (IF Known' THEN 1 ELSE 0)
  BY <1>1, CountersNat DEF Accounted
<1>3. undone' <= faults' + expiries'
  BY CountersNat DEF Accounted
<1> QED BY <1>2, <1>3 DEF Accounted

LEMMA ArriveInv ==
    ASSUME IInv, NEW r \in Requests,
           Replay(r) \/ Conflict(r) \/ StartProcessing(r)
    PROVE  IInv'
<1> USE DEF IInv, Places, Counters, InFlight, Answered
<1>1. Places'
  <2>1. CASE Replay(r)
    BY <2>1 DEF Replay
  <2>2. CASE Conflict(r)
    BY <2>2 DEF Conflict
  <2>3. CASE StartProcessing(r)
    BY <2>3 DEF StartProcessing
  <2> QED BY <2>1, <2>2, <2>3
<1>2. Counters'
  BY DEF Replay, Conflict, StartProcessing
<1>3. OneHolder'
  BY DEF Replay, Conflict, StartProcessing, OneHolder
<1>4. Done'
  BY DEF Replay, Conflict, StartProcessing, Done
<1>5. CachedIsCreated'
  BY DEF Replay, Conflict, StartProcessing, CachedIsCreated
<1>6. ReplaysAnOrderInProgress'
  BY DEF Replay, Conflict, StartProcessing, ReplaysAnOrderInProgress,
     CachedIsCreated, Done
<1>7. Known => Known'
  BY DEF Replay, Conflict, StartProcessing, Known
<1>8. Accounted'
  BY <1>7, AccountKept DEF Replay, Conflict, StartProcessing
<1> QED BY <1>1, <1>2, <1>3, <1>4, <1>5, <1>6, <1>8

LEMMA SaveInv == ASSUME IInv, NEW r \in Requests, SaveOrder(r) PROVE IInv'
<1> USE DEF IInv, Places, Counters, InFlight, Answered, SaveOrder
<1>1. Places'
  OBVIOUS
<1>2. Counters'
  OBVIOUS
<1>3. OneHolder'
  BY DEF OneHolder
<1>4. Done'
  BY DEF Done
<1>5. CachedIsCreated'
  BY DEF CachedIsCreated
<1>6. ReplaysAnOrderInProgress'
  BY DEF ReplaysAnOrderInProgress
<1>7. ~Known /\ Known'
  BY DEF OneHolder, Known
<1>8. IsFiniteSet(saved') /\ Cardinality(saved') = Cardinality(saved) + 1
  BY FS_AddElement DEF Done, Accounted
<1>9. Cardinality(saved) \in Nat
  BY FS_CardinalityType DEF Accounted
<1>10. Accounted'
  BY <1>7, <1>8, <1>9 DEF Accounted
<1> QED BY <1>1, <1>2, <1>3, <1>4, <1>5, <1>6, <1>10

LEMMA StartInv == ASSUME IInv, NEW r \in Requests, StartWorkflow(r) PROVE IInv'
<1> USE DEF IInv, Places, Counters, InFlight, Answered, StartWorkflow
<1>1. Places'
  BY DEF Done
<1>2. Counters'
  BY DEF Done
<1>3. OneHolder'
  BY DEF OneHolder
<1>4. Done'
  BY DEF Done
<1>5. CachedIsCreated'
  BY DEF CachedIsCreated
<1>6. ReplaysAnOrderInProgress'
  BY DEF ReplaysAnOrderInProgress
<1>7. Known'
  BY DEF Known
<1>8. Accounted'
  BY <1>7, AccountKept
<1> QED BY <1>1, <1>2, <1>3, <1>4, <1>5, <1>6, <1>8

LEMMA AnswerInv == ASSUME IInv, NEW r \in Requests, Answer(r) PROVE IInv'
<1> USE DEF IInv, Places, Counters, InFlight, Answered, Answer
<1>1. Places'
  OBVIOUS
<1>2. Counters'
  OBVIOUS
<1>3. OneHolder'
  BY DEF OneHolder
<1>4. Done'
  BY DEF Done
<1>5. CachedIsCreated'
  BY DEF CachedIsCreated
<1>6. ReplaysAnOrderInProgress'
  BY DEF ReplaysAnOrderInProgress
<1>7. Known'
  BY DEF Known
<1>8. Accounted'
  BY <1>7, AccountKept
<1> QED BY <1>1, <1>2, <1>3, <1>4, <1>5, <1>6, <1>8

LEMMA SaveFailsInv == ASSUME IInv, NEW r \in Requests, SaveFails(r) PROVE IInv'
<1> USE DEF IInv, Places, Counters, InFlight, Answered, SaveFails, Fault
<1>1. Places'
  OBVIOUS
<1>2. Counters'
  OBVIOUS
<1>3. OneHolder'
  BY DEF OneHolder
<1>4. Done'
  BY DEF Done
<1>5. CachedIsCreated'
  BY DEF CachedIsCreated
<1>6. ReplaysAnOrderInProgress'
  BY DEF ReplaysAnOrderInProgress
<1>7. Accounted'
  <2>1. CASE saved' = saved /\ undone' = undone
    <3>1. Known => Known'
      BY DEF Known
    <3> QED BY <2>1, <3>1, AccountKept
  <2>2. CASE saved' = saved \cup {r} /\ undone' = undone + 1
    <3>1. ~Known
      BY DEF OneHolder, Known
    <3>2. IsFiniteSet(saved') /\ Cardinality(saved') = Cardinality(saved) + 1
      BY <2>2, FS_AddElement DEF Done, Accounted
    <3>3. Cardinality(saved) \in Nat
      BY FS_CardinalityType DEF Accounted
    <3> QED BY <2>2, <3>1, <3>2, <3>3 DEF Accounted
  <2> QED BY <2>1, <2>2
<1> QED BY <1>1, <1>2, <1>3, <1>4, <1>5, <1>6, <1>7

LEMMA StartFailsInv == ASSUME IInv, NEW r \in Requests, StartFails(r) PROVE IInv'
<1> USE DEF IInv, Places, Counters, InFlight, Answered, StartFails, Fault
<1>1. Places'
  BY DEF Done
<1>2. Counters'
  BY DEF Done
<1>3. OneHolder'
  BY DEF OneHolder
<1>4. Done'
  BY DEF Done
<1>5. CachedIsCreated'
  BY DEF CachedIsCreated
<1>6. ReplaysAnOrderInProgress'
  BY DEF ReplaysAnOrderInProgress
<1>7. Accounted'
  BY AccountForgets
<1> QED BY <1>1, <1>2, <1>3, <1>4, <1>5, <1>6, <1>7

LEMMA ForgetInv == ASSUME IInv, Expire \/ Restart PROVE IInv'
<1> USE DEF IInv, Places, Counters, InFlight, Answered, Expire, Restart, Fault
<1>1. Places'
  OBVIOUS
<1>2. Counters'
  OBVIOUS
<1>3. OneHolder'
  BY DEF OneHolder
<1>4. Done'
  BY DEF Done
<1>5. CachedIsCreated'
  BY DEF CachedIsCreated
<1>6. ReplaysAnOrderInProgress'
  BY DEF ReplaysAnOrderInProgress
<1>7. Accounted'
  BY AccountForgets
<1> QED BY <1>1, <1>2, <1>3, <1>4, <1>5, <1>6, <1>7

LEMMA NextInv == ASSUME IInv, [Next]_vars PROVE IInv'
<1>1. CASE UNCHANGED vars
  BY <1>1 DEF vars, IInv, Places, Counters, OneHolder, Done, CachedIsCreated, Known,
     ReplaysAnOrderInProgress, Accounted
<1>2. CASE Next
  BY <1>2, ArriveInv, SaveInv, StartInv, AnswerInv, SaveFailsInv,
     StartFailsInv, ForgetInv DEF Next, Proceed
<1> QED BY <1>1, <1>2

----------------------------------------------------------------------------
\* One holder of the key, what each request has done, and the account of the
\* orders stored and forgotten, always.
THEOREM Invariant == Spec => []IInv
<1>1. IInv /\ [Next]_vars => IInv'
  BY NextInv
<1> QED BY InitInv, <1>1, PTL DEF Spec

\* The type invariant of the guard, the store and the requests.
THEOREM TypeCorrect == Spec => []TypeOK
<1>1. IInv => TypeOK
  BY DEF IInv, Places, Counters, OneHolder, Accounted, TypeOK
<1> QED BY Invariant, <1>1, PTL

\* However many clients retry however often, one key creates one order, and one
\* more for each save that threw after its COMMIT, failed start, restart or expiry.
THEOREM OneOrder == Spec => []OneOrderUnlessForgotten
<1>1. IInv => OneOrderUnlessForgotten
  <2> SUFFICES ASSUME IInv PROVE OneOrderUnlessForgotten
    OBVIOUS
  <2>1. Cardinality(saved) \in Nat
    BY FS_CardinalityType DEF IInv, Accounted
  <2> QED
    BY <2>1 DEF IInv, Places, Counters, Accounted, OneOrderUnlessForgotten
<1> QED BY Invariant, <1>1, PTL

\* A replayed response belongs to a stored order with a workflow.
THEOREM ReplaysAreReal == Spec => []ReplaysAnOrderInProgress
<1>1. IInv => ReplaysAnOrderInProgress
  BY DEF IInv
<1> QED BY Invariant, <1>1, PTL

============================================================================
