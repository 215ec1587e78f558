----------------------------- MODULE Deployment -----------------------------
(***************************************************************************)
(* Bringing the system up and down: the scripts, the outbox pollers of     *)
(* processes that may be started before the tables are there, and the      *)
(* worker's shutdown.  External, as the code uses them: Postgres,          *)
(* node-postgres (a pool may be ended once, and ending it waits for the    *)
(* queries under way), Nest's order of destroying modules, Temporal's task *)
(* queue.                                                                  *)
(***************************************************************************)
EXTENDS Scripts

CONSTANTS
    Processes,   \* "api", "worker"
    DbModules,   \* instances of KyselyModule in the worker
    Tasks        \* bound: activity tasks

ASSUME ProcessesAssumption == "worker" \in Processes
ASSUME DbModulesAssumption == DbModules \in Nat \ {0}

VARIABLES
    pending,   \* databases with an unpublished row in outbox_events
    process,   \* process[p]: stage, pollers that run, pollers disabled
    closed,    \* pools the worker's shutdown has ended
    task,      \* task[t]: where its attempt is, and the pool it queries
    early      \* history: early[p]: databases not migrated when p was started

running == <<pending, process, closed, task, early>>
vars == <<scripts, running, failures>>

Down == [stage |-> "down", polling |-> {}, disabled |-> {}]
Queued == [stage |-> "queued", pool |-> 0]

\* The databases whose outbox p polls: the poller services of the modules that
\* AppModule and WorkerModule import; WorkerModule has no OrderModule.
Polls(p) == {d \in Databases : p = "worker" => Script[d].name # "order"}

HasOutbox(d) == objects[d][Script[d].outbox[1]] >= Script[d].outbox[2]

Init ==
    /\ ScriptsInit
    /\ pending = {}
    /\ process = [p \in Processes |-> Down]
    /\ closed = 0
    /\ task = [t \in Tasks |-> Queued]
    /\ early = [p \in Processes |-> {}]

----------------------------------------------------------------------------
\* The processes and their pollers

\* onModuleInit of the poller services: startPolling, once per database.
Start(p) ==
    /\ process[p] = Down
    /\ process' = [process EXCEPT ![p] =
                      [stage |-> "up", polling |-> Polls(p), disabled |-> {}]]
    /\ early' = [early EXCEPT ![p] = {d \in Polls(p) : ~HasOutbox(d)}]
    /\ UNCHANGED <<scripts, pending, closed, task, failures>>

\* An order, payment ... commits a row with its event.
Commit(d) ==
    /\ HasOutbox(d) /\ d \notin pending
    /\ pending' = pending \cup {d}
    /\ UNCHANGED <<scripts, process, closed, task, early, failures>>

\* A tick of the interval of p for d: publish, or notice that the table is
\* missing, after which this poller does nothing until the process is replaced.
Tick(p, d) ==
    /\ d \in process[p].polling \ process[p].disabled
    /\ IF HasOutbox(d)
         THEN /\ d \in pending
              /\ pending' = pending \ {d}
              /\ UNCHANGED process
         ELSE /\ process' = [process EXCEPT ![p].disabled = @ \cup {d}]
              /\ UNCHANGED pending
    /\ UNCHANGED <<scripts, closed, task, early, failures>>

\* Variant: any error disables the poller.
TickFailsForGood(p, d) ==
    /\ Failure
    /\ d \in process[p].polling \ process[p].disabled
    /\ process' = [process EXCEPT ![p].disabled = @ \cup {d}]
    /\ UNCHANGED <<scripts, pending, closed, task, early>>

\* Any other error is logged; the next tick tries again.
TickFails(p, d) ==
    /\ Failure
    /\ d \in process[p].polling \ process[p].disabled
    /\ UNCHANGED <<scripts, running>>

\* The attempts of its tasks go back to the queue when the worker is gone, and
\* its pools with it.
Gone(p) ==
    /\ process' = [process EXCEPT ![p] = Down]
    /\ early' = [early EXCEPT ![p] = {}]
    /\ IF p = "worker"
         THEN /\ task' = [t \in Tasks |-> IF task[t].stage = "done" THEN task[t] ELSE Queued]
              /\ closed' = 0
         ELSE UNCHANGED <<task, closed>>

\* main.ts handles no signal: the API process just ends, as the worker does
\* when it is killed or something is thrown that nobody catches.
Kill(p) ==
    /\ Failure
    /\ process[p].stage # "down"
    /\ Gone(p)
    /\ UNCHANGED <<scripts, pending>>

----------------------------------------------------------------------------
\* The worker

Worker == process["worker"].stage

\* The worker polls for tasks until worker.shutdown() is called.
Take(t) ==
    /\ Worker = "up" /\ task[t].stage = "queued"
    /\ task' = [task EXCEPT ![t].stage = "idle"]
    /\ UNCHANGED <<scripts, pending, process, closed, early, failures>>

\* An activity alternates between queries and waiting; a query of a pool that
\* is being ended throws, and the attempt has failed.
Query(t) ==
    /\ Worker # "down" /\ task[t].stage = "idle"
    /\ \E pool \in 1 .. DbModules :
          task' = [task EXCEPT ![t] = IF pool > closed THEN [stage |-> "query", pool |-> pool]
                                                      ELSE Queued]
    /\ UNCHANGED <<scripts, pending, process, closed, early, failures>>

Returned(t) ==
    /\ Worker # "down" /\ task[t].stage = "query"
    /\ \E s \in {"idle", "done"} : task' = [task EXCEPT ![t] = [stage |-> s, pool |-> 0]]
    /\ UNCHANGED <<scripts, pending, process, closed, early, failures>>

\* SIGINT or SIGTERM: worker.shutdown(), not awaited, then app.close().
Signal ==
    /\ Worker = "up"
    /\ process' = [process EXCEPT !["worker"].stage = "closing"]
    /\ UNCHANGED <<scripts, pending, closed, task, early, failures>>

\* Nothing is under way on the pool that was ended last.
Quiet == \A t \in Tasks : task[t].stage = "query" => task[t].pool # closed

\* onModuleDestroy of the first KyselyModule ends every pool of the process,
\* one when the queries of the one before have returned.
EndPool ==
    /\ Worker = "closing" /\ closed < DbModules /\ Quiet
    /\ closed' = closed + 1
    /\ UNCHANGED <<scripts, pending, process, task, early, failures>>

\* Variant: the worker exits only when app.close() has succeeded.
ExitWhenClosed ==
    /\ Worker = "closing" /\ closed = DbModules /\ Quiet
    /\ DbModules = 1
    /\ Gone("worker")
    /\ UNCHANGED <<scripts, pending, failures>>

\* The next instance ends the same pools again, which rejects: app.close()
\* fails, and the unhandled rejection makes the worker exit with code 1.  With
\* a single instance it would exit with 0.  Neither waits for the tasks.
Exit ==
    /\ Worker = "closing" /\ closed = DbModules /\ Quiet
    /\ Gone("worker")
    /\ UNCHANGED <<scripts, pending, failures>>

----------------------------------------------------------------------------
Next ==
    \/ StartMigrate /\ UNCHANGED running
    \/ Statement /\ UNCHANGED running
    \/ StatementFails /\ UNCHANGED running
    \/ StartSeed /\ UNCHANGED running
    \/ InsertItem /\ UNCHANGED running
    \/ InsertRefused /\ UNCHANGED running
    \/ InsertFails /\ UNCHANGED running
    \/ \E p \in Processes : Start(p) \/ Kill(p)
    \/ \E p \in Processes, d \in Databases : Tick(p, d) \/ TickFails(p, d)
    \/ \E d \in Databases : Commit(d)
    \/ \E t \in Tasks : Take(t) \/ Query(t) \/ Returned(t)
    \/ Signal \/ EndPool \/ Exit

\* The timers of a process that is up fire, and its promises are served;
\* nobody need run a script, start a process or send a signal.
Spec ==
    /\ Init /\ [][Next]_vars
    /\ \A p \in Processes, d \in Databases : WF_vars(Tick(p, d))
    /\ \A t \in Tasks : WF_vars(Query(t)) /\ WF_vars(Returned(t))
    /\ WF_vars(EndPool) /\ WF_vars(Exit)

----------------------------------------------------------------------------
\* Properties

TypeOK ==
    /\ \A d \in Databases : \A m \in DOMAIN objects[d] :
          objects[d][m] \in 0 .. Script[d].statements[m]
    /\ migrate.stage \in {"idle", "run", "completed"} /\ migrate.target \subseteq Databases
    /\ seed.stage \in {"idle", "run", "completed"} /\ seed.todo \subseteq Items
    /\ stock \subseteq Items
    /\ pending \subseteq Databases
    /\ process \in [Processes -> [stage : {"down", "up", "closing"},
                                  polling : SUBSET Databases, disabled : SUBSET Databases]]
    /\ closed \in 0 .. DbModules
    /\ task \in [Tasks -> [stage : {"queued", "idle", "query", "done"}, pool : 0 .. DbModules]]
    /\ cut \subseteq Databases

\* A committed event is published unless no process that polls its database
\* stays up, or all that do were started before outbox_events was there ("Run
\* the corresponding database migration before starting this service").
PendingGetsOut ==
    \A d \in Databases :
        d \in pending ~>
            \/ d \notin pending
            \/ \A p \in Processes : d \in Polls(p) => \/ process[p].stage = "down"
                                                      \/ d \in early[p]

\* A worker that got a signal comes to its end, whatever its tasks are doing.
SignalledWorkerExits == Worker = "closing" ~> Worker = "down"

============================================================================
