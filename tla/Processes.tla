------------------------------- MODULE Processes --------------------------------
(***************************************************************************)
(* The two processes that serve on the pool: the API and the worker.       *)
(*                                                                         *)
(* Source: apps/api/src/server.ts, apps/worker/src/main.ts and             *)
(* packages/database/src/runtime-posture.ts.                               *)
(*                                                                         *)
(* Both refuse to start in production on a database login that is not the  *)
(* restricted one.  The API serves requests, each one a transaction here,  *)
(* until a signal closes the server and then the pool, with a deadline on  *)
(* the whole.  The worker runs its registered jobs one after another, a    *)
(* transaction each, once or again after every interval until a signal.    *)
(*                                                                         *)
(* Node ends a process when nothing that is referenced is left to wait     *)
(* for: signal handlers and unref'd timers do not count, a pool's clients  *)
(* do.  Timers have no durations here: any order of the worker's interval  *)
(* and the pool's idle bound is possible, as their settings allow.         *)
(***************************************************************************)
EXTENDS Transactions

CONSTANTS
    Posture,   \* what readRuntimePosture may find of the connection
    LastJob,   \* how many jobs are registered
    Sweeper    \* the caller that the worker's jobs are

\* What readRuntimePosture can find out about the connection.
RuntimePosture ==
    [sessionUser : STRING, currentUser : STRING, isSuperuser : BOOLEAN,
     assumableOwners : SUBSET STRING, canWriteLedger : BOOLEAN,
     canInsertChildEvidence : BOOLEAN, canInsertParentDecision : BOOLEAN]

ASSUME ProcessAssumption ==
    LastJob \in Nat \ {0} /\ Sweeper \in Caller /\ Posture \subseteq RuntimePosture

VARIABLES
    role,    \* "api" or "worker"
    life,    \* "booting", "up", "closing" its pool, "done" with main, "exited"
    code,    \* the exit status
    worker,  \* the worker's loop
    api      \* the API's server

processVars == <<role, life, code, worker, api>>
vars == <<poolVars, processVars>>

--------------------------------------------------------------------------------
\* job is the job of the pass in flight, 0 between passes; timer is the variable of that
\* name in startWorker, which keeps a timer that has fired.
Mode == {"list", "once", "periodic"}
Worker == [mode : Mode, job : 0..LastJob,
           timer : {"unset", "pending", "fired"}, stopping : BOOLEAN, stopped : BOOLEAN,
           failed : SUBSET (1..LastJob)]
NewWorker(mode) == [mode |-> mode, job |-> 0, timer |-> "unset", stopping |-> FALSE,
                    stopped |-> FALSE, failed |-> {}]

\* stuck: a keep-alive connection never ends.  gone: requests whose client hung up.
Api == [server : {"none", "listening", "closing", "closed"}, signals : 0..2, stuck : BOOLEAN,
        gone : SUBSET Caller]

ProcessesInit ==
    /\ TransactionsInit
    /\ role \in {"api", "worker"}
    /\ life = "booting" /\ code = 0
    /\ worker \in {NewWorker(m) : m \in IF role = "worker" THEN Mode ELSE {"periodic"}}
    /\ api \in [server : {"none"}, signals : {0}, gone : {{}},
               stuck : IF role = "api" THEN BOOLEAN ELSE {FALSE}]

--------------------------------------------------------------------------------
(* Starting *)

\* Empty means compliant.
runtimePostureViolations(p) ==
    {v \in {"switched", "superuser", "owner", "ledger", "child", "mute"} :
        \/ v = "switched" /\ p.sessionUser # p.currentUser
        \/ v = "superuser" /\ p.isSuperuser
        \/ v = "owner" /\ p.assumableOwners # {}
        \/ v = "ledger" /\ p.canWriteLedger
        \/ v = "child" /\ p.canInsertChildEvidence
        \/ v = "mute" /\ ~p.canInsertParentDecision}

exit(status) ==
    /\ life' = "exited"
    /\ code' = status

\* --list-jobs touches no database.
listJobs ==
    /\ role = "worker" /\ life = "booting" /\ worker.mode = "list"
    /\ exit(0)
    /\ UNCHANGED <<poolVars, role, worker, api>>

assertRuntimePosture(posture, production) ==
    production => runtimePostureViolations(posture) = {}

\* The process refuses: the pool is closed and the status is not zero.
refuseToStart(posture, production) ==
    /\ life = "booting" /\ ~(role = "worker" /\ worker.mode = "list")
    /\ ~assertRuntimePosture(posture, production)
    /\ exit(1)
    /\ UNCHANGED <<poolVars, role, worker, api>>

start(posture, production) ==
    /\ life = "booting" /\ ~(role = "worker" /\ worker.mode = "list")
    /\ assertRuntimePosture(posture, production)
    /\ life' = "up"
    /\ worker' = IF role = "worker" THEN [worker EXCEPT !.job = 1] ELSE worker
    /\ api' = IF role = "api" THEN [api EXCEPT !.server = "listening"] ELSE api
    /\ pool' = IF production THEN "open" ELSE pool
    /\ UNCHANGED <<conns, tx, cuts, role, code>>

--------------------------------------------------------------------------------
(* The worker *)

startJob ==
    /\ worker.job > 0
    /\ tx[Sweeper].phase = "idle"
    /\ call(Sweeper)
    /\ UNCHANGED processVars

\* main is over: a single pass with failed jobs has thrown.
workerReturns(w) ==
    /\ life' = "done"
    /\ code' = IF w.mode = "once" /\ w.failed # {} THEN 1 ELSE 0

\* await closePool(): there may be no pool to wait for.
closing(andThen) ==
    /\ closePool
    /\ IF pool = "none" THEN andThen ELSE life' = "closing" /\ UNCHANGED code

JobAfter(w) == [w EXCEPT !.job = @ + 1]

\* tick, after its pass: the loop has stopped, or the timer is armed again.
Passed(w) ==
    IF w.stopping THEN [w EXCEPT !.job = 0, !.stopped = TRUE]
    ELSE [w EXCEPT !.job = 0, !.timer = "pending"]

\* Mutant of Caught: the error of a job ends the pass.
Caught_Skips(w, failed) ==
    IF failed THEN [w EXCEPT !.failed = @ \cup {w.job}, !.job = LastJob] ELSE w

\* The loop of runAllJobsOnce keeps the name of a job that threw, and goes on.
Caught(w, failed) == IF failed THEN [w EXCEPT !.failed = @ \cup {w.job}] ELSE w

endJob ==
    /\ worker.job > 0
    /\ tx[Sweeper].phase = "settled"
    /\ tx' = [tx EXCEPT ![Sweeper] = NoTransaction]
    /\ LET w == Caught(worker, tx[Sweeper].told # "ok")
       IN  IF w.job < LastJob
           THEN worker' = JobAfter(w) /\ UNCHANGED <<pool, conns, life, code>>
           ELSE IF w.mode = "once"
           THEN worker' = [w EXCEPT !.job = 0] /\ closing(workerReturns(w))
           ELSE worker' = Passed(w) /\ UNCHANGED <<pool, conns, life, code>>
    /\ UNCHANGED <<cuts, role, api>>

tick ==
    /\ worker.timer = "pending" /\ life # "exited"
    /\ worker' = [worker EXCEPT !.timer = "fired", !.job = 1, !.failed = {}]
    /\ UNCHANGED <<poolVars, role, life, code, api>>

\* A signal.  The variable timer still holds the timer that started the pass in flight.
stop ==
    /\ role = "worker" /\ life = "up" /\ worker.mode = "periodic"
    /\ ~worker.stopping
    /\ worker' = [worker EXCEPT !.stopping = TRUE, !.timer = "unset",
                                !.stopped = worker.timer # "unset"]
    /\ UNCHANGED <<poolVars, role, life, code, api>>

\* await handle.stopped, then closePool.
workerStopped ==
    /\ role = "worker" /\ life = "up" /\ worker.stopped
    /\ closing(workerReturns(worker))
    /\ UNCHANGED <<tx, cuts, role, worker, api>>

workerDone ==
    /\ role = "worker" /\ life = "closing"
    /\ poolEnds
    /\ workerReturns(worker)
    /\ UNCHANGED <<role, worker, api>>

\* Nothing referenced is left to wait for.  The interval's timer is unref'd.
eventLoopDrains ==
    /\ role = "worker"
    /\ life = "done" \/ (life = "up" /\ ~worker.stopped)
    /\ worker.job = 0
    /\ \A c \in Client : conns[c].state = "none"
    /\ exit(code)
    /\ UNCHANGED <<poolVars, role, worker, api>>

--------------------------------------------------------------------------------
(* The API *)

request(p) ==
    /\ role = "api" /\ life # "exited" /\ api.server = "listening"
    /\ call(p)
    /\ api' = [api EXCEPT !.gone = @ \ {p}]
    /\ UNCHANGED <<role, life, code, worker>>

\* The client hangs up; its request goes on.
hangUp(p) ==
    /\ role = "api" /\ life # "exited"
    /\ InFlight(p) /\ p \notin api.gone
    /\ api' = [api EXCEPT !.gone = @ \cup {p}]
    /\ UNCHANGED <<poolVars, role, life, code, worker>>

\* SIGTERM or SIGINT, every time one comes: the deadline starts and the server closes.
\* Once it has closed, another closePool is refused by the pool and the process exits.
shutdown ==
    /\ role = "api" /\ life \in {"up", "closing"}
    /\ api.signals < 2
    /\ api' = [api EXCEPT !.signals = @ + 1,
                          !.server = IF api.server = "listening" THEN "closing" ELSE @]
    /\ IF api.server = "closed" THEN exit(0) ELSE UNCHANGED <<life, code>>
    /\ UNCHANGED <<poolVars, role, worker>>

\* Mutant of Served: the server does not wait for the requests it still serves.
Served_NoWait == TRUE

\* server.close waits for every connection: none with a request, none stuck.
Served == ~api.stuck /\ \A p \in Caller : InFlight(p) => p \in api.gone

\* The callbacks of server.close, one for every signal: the second finds the pool ending.
serverCloses ==
    /\ role = "api" /\ life = "up" /\ api.server = "closing"
    /\ Served
    /\ api' = [api EXCEPT !.server = "closed"]
    /\ IF api.signals = 2 THEN closePool /\ exit(0) ELSE closing(exit(0))
    /\ UNCHANGED <<tx, cuts, role, worker>>

apiClosed ==
    /\ role = "api" /\ life = "closing"
    /\ poolEnds
    /\ exit(0)
    /\ UNCHANGED <<role, worker, api>>

\* SHUTDOWN_GRACE_MS after the first signal, whatever is still going on.
deadline ==
    /\ role = "api" /\ life # "exited" /\ api.signals > 0
    /\ exit(1)
    /\ UNCHANGED <<poolVars, role, worker, api>>

--------------------------------------------------------------------------------
Boot ==
    \/ listJobs
    \/ \E posture \in Posture, production \in BOOLEAN :
        start(posture, production) \/ refuseToStart(posture, production)

WorkerLoop == startJob \/ endJob \/ workerStopped \/ workerDone \/ eventLoopDrains

ApiCloses == serverCloses \/ apiClosed \/ deadline

Running == life # "exited" /\ TransactionsStep /\ UNCHANGED processVars

Next ==
    \/ Boot
    \/ Running
    \/ WorkerLoop
    \/ tick
    \/ stop
    \/ \E p \in Caller : request(p) \/ hangUp(p)
    \/ shutdown
    \/ ApiCloses

\* What Node and PostgreSQL bring about: a statement is answered or its rejection seen,
\* a timer fires, a callback runs.  No signal, request or failure has to come.
Fairness ==
    /\ WF_vars(Boot)
    /\ \A p \in Caller : WF_vars(life # "exited" /\ Progress(p) /\ UNCHANGED processVars)
    /\ \A c \in Client : WF_vars(life # "exited" /\ dropIdle(c) /\ UNCHANGED processVars)
    /\ WF_vars(WorkerLoop)
    /\ WF_vars(tick)
    /\ WF_vars(ApiCloses)

Spec == ProcessesInit /\ [][Next]_vars /\ Fairness

ProcessesTypeOK ==
    /\ TransactionsTypeOK
    /\ life \in {"booting", "up", "closing", "done", "exited"}
    /\ code \in {0, 1}
    /\ worker \in Worker
    /\ api \in Api

--------------------------------------------------------------------------------
(* What the exit status says, and that there is one.                                   *)

\* A status of zero is a promise to the supervisor: an API that exits 0 has answered every
\* request whose client still waits (server.ts, shutdown), after one signal no
\* transaction at all is still open, and a single pass that exits 0 has run every job to its end
\* (main.ts, FBL-020-R6 2.7).
ExitsAreHonest ==
    life = "exited" /\ code = 0 =>
        /\ role = "api" =>
            /\ \A p \in Caller \ api.gone : ~InFlight(p)
            /\ api.signals = 1 => \A p \in Caller : tx[p].client = Nobody
        /\ role = "worker" /\ worker.mode = "once" => worker.failed = {} /\ worker.job = 0

\* A process that is told to stop exits; a single pass ends; a pass that has begun reaches
\* the last job whatever the other jobs do; and unless the worker is stopped or its loop
\* has drained, a pass is followed by another.
ProcessesLive ==
    /\ (role = "worker" /\ worker.stopping) ~> (life = "exited")
    /\ (role = "worker" /\ worker.mode = "once") ~> (life = "exited")
    /\ (api.signals > 0) ~> (life = "exited")
    /\ \A j \in 1..LastJob : (worker.job = 1) ~> (worker.job = j \/ life = "exited")
    /\ (worker.job = LastJob) ~> (worker.job = 1 \/ life = "exited")

\* The worker runs until it is signalled (main.ts: "runs each job on its configured
\* interval until SIGTERM/SIGINT").
RunsUntilSignalled ==
    role = "worker" /\ worker.mode = "periodic" /\ life = "exited" /\ code = 0 => worker.stopping

\* The loop has stopped only once its pass is over (main.ts: "Resolves once the loop has
\* stopped and the pass in flight has finished.").
\* Refuted: see the README, section 5.
StopWaitsForThePass == worker.stopped => worker.job = 0

================================================================================
