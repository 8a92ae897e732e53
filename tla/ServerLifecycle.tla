--------------------------- MODULE ServerLifecycle ---------------------------
(***************************************************************************)
(* The life of the process: startServer(), the workers and the Redis       *)
(* client it starts, the graceful shutdown that SIGINT and SIGTERM ask     *)
(* for, and the clean-up of the two crash handlers.  Each signal and each  *)
(* crash begins a sequence of its own over the same module variables, and  *)
(* webhook requests and background jobs go on meanwhile.                   *)
(*                                                                         *)
(* A request stands for a webhook that is stored and then enqueued, a job  *)
(* for whatever a worker runs; both need Redis.                            *)
(***************************************************************************)
EXTENDS Naturals

CONSTANTS
  Workers,         \* the four BullMQ workers of workers/index.js
  Requests,        \* webhook requests that may arrive
  Signals,         \* deliveries of SIGINT or SIGTERM
  Crashes,         \* unhandled rejections and uncaught exceptions
  MaxOutages       \* bound of the model: how often Redis is lost

ASSUME LifecycleAssumption ==
  /\ Signals \cap Crashes = {}
  /\ MaxOutages \in Nat

Sequences == Signals \cup Crashes

\* The queues connect when their modules are loaded, before anything is started.
QueueClient == 1
Clients == {1, 2}

VARIABLES
  boot,                    \* how far startServer() is
  server,                  \* the HTTP server
  db,                      \* Prisma is connected
  client, conn,            \* redisClient (0 for null), connections of the clients made
  running,                 \* workersRunning
  worker, workerClient,    \* the workers, and the client they were made with
  busy,                    \* the workers that are in the middle of a job
  request, queued,         \* stage of each request, requests whose job is in Redis
  hasQueue,                \* the webhook queue could be created when its module was loaded
  refused,                 \* history: requests whose queue.add failed though Redis was connected
  step, held,              \* stage of each sequence, the client it is quitting
  timer,                   \* a forced exit is due
  exit, forced,            \* the exit code, and whether the timer caused it
  outages,
  firstAlarm               \* history: how far startServer() was at the first alarm

bootVars    == <<boot, server, db>>
redisVars   == <<client, conn>>
workerVars  == <<running, worker, workerClient>>
requestVars == <<request, queued, hasQueue, refused>>
exitVars    == <<timer, exit, forced>>
vars == <<boot, server, db, client, conn, running, worker, workerClient, busy, request, queued, hasQueue, refused,
          step, held, timer, exit, forced, outages, firstAlarm>>

BootStage == {"connecting", "verifying", "done"}
ConnState == {"none", "connecting", "ready", "lost", "quit"}
WorkerState == {"none", "running", "closing", "closed"}
RequestStage == {"none", "open", "answered"}
SequenceStage == {"off", "drain", "workers", "await", "redis", "quit", "db", "exit"}

Init ==
  /\ boot = "connecting" /\ server = "idle" /\ db = FALSE
  /\ client = QueueClient
  /\ conn = [c \in Clients |-> IF c = QueueClient THEN "connecting" ELSE "none"]
  /\ running = FALSE
  /\ worker = [w \in Workers |-> "none"] /\ workerClient = 0
  /\ busy = {}
  /\ request = [r \in Requests |-> "none"] /\ queued = {} /\ refused = {}
  /\ hasQueue \in BOOLEAN
  /\ step = [q \in Sequences |-> "off"] /\ held = [q \in Sequences |-> 0]
  /\ timer = FALSE /\ exit = "no" /\ forced = FALSE
  /\ outages = 0
  /\ firstAlarm = "none"

Goto(q, stage) == step' = [step EXCEPT ![q] = stage]

----------------------------------------------------------------------------
(* startServer().                                                          *)

\* getRedisClient(): a closed client is replaced, and only here: the queues
\* keep the one they have.
Current == IF client = 0 THEN 2 ELSE client

\* $connect() is awaited; then the workers start.  A worker whose constructor
\* throws is left out with a warning.
ConnectDatabase ==
  /\ boot = "connecting"
  /\ db' = TRUE
  /\ boot' = "verifying"
  /\ client' = Current
  /\ conn' = IF client = 0 THEN [conn EXCEPT ![Current] = "connecting"] ELSE conn
  /\ running' = TRUE
  /\ \E started \in SUBSET Workers :
       worker' = [w \in Workers |-> IF w \in started THEN "running" ELSE "none"]
  /\ workerClient' = Current
  /\ UNCHANGED <<server, busy, requestVars, step, held, exitVars, outages, firstAlarm>>

ConnectFails ==
  /\ boot = "connecting"
  /\ exit' = "1"
  /\ UNCHANGED <<bootVars, redisVars, workerVars, busy, requestVars, step, held, timer, forced,
                 outages, firstAlarm>>

\* The SMTP check is awaited whatever its answer; then the server listens.
VerifyAndListen ==
  /\ boot = "verifying"
  /\ boot' = "done"
  /\ server' = "listening"
  /\ UNCHANGED <<db, redisVars, workerVars, busy, requestVars, step, held, exitVars, outages, firstAlarm>>

----------------------------------------------------------------------------
(* The Redis clients: ioredis reconnects on its own, ten times; then the   *)
(* client is at its end and nothing makes another one.                     *)

Connected(c) ==
  /\ conn[c] = "connecting"
  /\ conn' = [conn EXCEPT ![c] = "ready"]
  /\ UNCHANGED <<bootVars, client, workerVars, busy, requestVars, step, held, exitVars, outages, firstAlarm>>

LoseConnection(c) ==
  /\ conn[c] = "ready" /\ outages < MaxOutages
  /\ outages' = outages + 1
  /\ conn' = [conn EXCEPT ![c] = "connecting"]
  /\ UNCHANGED <<bootVars, client, workerVars, busy, requestVars, step, held, exitVars, firstAlarm>>

GiveUp(c) ==
  /\ conn[c] = "connecting"
  /\ conn' = [conn EXCEPT ![c] = "lost"]
  /\ UNCHANGED <<bootVars, client, workerVars, busy, requestVars, step, held, exitVars, outages, firstAlarm>>

----------------------------------------------------------------------------
(* Background jobs and webhook requests.                                   *)

\* Faulty variant: a worker that is not there, or is closed, takes a job.
TakeJobWhenever(w) ==
  /\ w \notin busy /\ workerClient # 0 /\ conn[workerClient] = "ready"
  /\ busy' = busy \cup {w}
  /\ UNCHANGED <<bootVars, redisVars, workerVars, requestVars, step, held, exitVars, outages, firstAlarm>>

TakeJob(w) ==
  /\ worker[w] = "running" /\ w \notin busy /\ conn[workerClient] = "ready"
  /\ busy' = busy \cup {w}
  /\ UNCHANGED <<bootVars, redisVars, workerVars, requestVars, step, held, exitVars, outages, firstAlarm>>

FinishJob(w) ==
  /\ w \in busy
  /\ busy' = busy \ {w}
  /\ UNCHANGED <<bootVars, redisVars, workerVars, requestVars, step, held, exitVars, outages, firstAlarm>>

Accept(r) ==
  /\ server = "listening" /\ request[r] = "none"
  /\ request' = [request EXCEPT ![r] = "open"]
  /\ UNCHANGED <<bootVars, redisVars, workerVars, busy, queued, hasQueue, refused, step, held, exitVars,
                 outages, firstAlarm>>

\* addWebhookJob(): queue.add waits for a connection that is coming back, fails on
\* one that is at its end, and may be refused on one that is up.  Every error is
\* logged, and so is a queue that is not there; the request is answered all the same.
Enqueue(r) ==
  /\ request[r] = "open"
  /\ request' = [request EXCEPT ![r] = "answered"]
  /\ \/ /\ hasQueue /\ conn[QueueClient] = "ready"
        /\ queued' = queued \cup {r} /\ UNCHANGED refused
     \/ /\ hasQueue /\ conn[QueueClient] = "ready"
        /\ refused' = refused \cup {r} /\ UNCHANGED queued
     \/ /\ ~hasQueue \/ conn[QueueClient] \in {"lost", "quit"}
        /\ UNCHANGED <<queued, refused>>
  /\ UNCHANGED <<bootVars, redisVars, workerVars, busy, hasQueue, step, held, exitVars, outages, firstAlarm>>

InFlight == {r \in Requests : request[r] = "open"}

----------------------------------------------------------------------------
(* What begins a sequence.                                                 *)

Alarm == firstAlarm' = IF firstAlarm = "none" THEN boot ELSE firstAlarm

\* Faulty variant: the shutdown does not wait for the server to close.
SignalAtOnce(s) ==
  /\ step[s] = "off"
  /\ server' = IF server = "listening" THEN "draining" ELSE server
  /\ Goto(s, "workers")
  /\ timer' = TRUE
  /\ Alarm
  /\ UNCHANGED <<boot, db, redisVars, workerVars, busy, requestVars, held, exit, forced, outages>>

\* Faulty variant: no forced exit is scheduled.
SignalWithoutTimer(s) ==
  /\ step[s] = "off"
  /\ server' = IF server = "listening" THEN "draining" ELSE server
  /\ Goto(s, IF server = "idle" THEN "workers" ELSE "drain")
  /\ Alarm
  /\ UNCHANGED <<boot, db, redisVars, workerVars, busy, requestVars, held, exitVars, outages>>

\* server.close() calls back when the last request has been answered, and at
\* once when the server does not listen yet; the server may still listen later.
Signal(s) ==
  /\ step[s] = "off"
  /\ server' = IF server = "listening" THEN "draining" ELSE server
  /\ Goto(s, IF server = "idle" THEN "workers" ELSE "drain")
  /\ timer' = TRUE
  /\ Alarm
  /\ UNCHANGED <<boot, db, redisVars, workerVars, busy, requestVars, held, exit, forced, outages>>

\* The handlers of unhandledRejection and uncaughtException leave the server
\* as it is and set no timer.
Crash(k) ==
  /\ step[k] = "off"
  /\ Goto(k, "workers")
  /\ Alarm
  /\ UNCHANGED <<bootVars, redisVars, workerVars, busy, requestVars, held, exitVars, outages>>

Drained(s) ==
  /\ step[s] = "drain" /\ server = "draining" /\ InFlight = {}
  /\ Goto(s, "workers")
  /\ UNCHANGED <<bootVars, redisVars, workerVars, busy, requestVars, held, exitVars, outages, firstAlarm>>

ForceExit ==
  /\ timer
  /\ exit' = "1" /\ forced' = TRUE
  /\ UNCHANGED <<bootVars, redisVars, workerVars, busy, requestVars, step, held, timer, outages, firstAlarm>>

----------------------------------------------------------------------------
(* closeAllWorkers(): workers stop taking jobs, and each is closed when    *)
(* its job has ended.                                                      *)

CloseAllWorkers(q) ==
  /\ step[q] = "workers"
  /\ IF running
       THEN /\ worker' = [w \in Workers |-> IF worker[w] = "running" THEN "closing" ELSE worker[w]]
            /\ Goto(q, "await")
       ELSE UNCHANGED worker /\ Goto(q, "redis")
  /\ UNCHANGED <<bootVars, redisVars, running, workerClient, busy, requestVars, held, exitVars,
                 outages, firstAlarm>>

WorkerClosed(w) ==
  /\ worker[w] = "closing" /\ w \notin busy
  /\ worker' = [worker EXCEPT ![w] = "closed"]
  /\ UNCHANGED <<bootVars, redisVars, running, workerClient, busy, requestVars, step, held, exitVars,
                 outages, firstAlarm>>

\* Faulty variant: the closing of the workers is not awaited.
DoNotAwaitWorkers(q) ==
  /\ step[q] = "await"
  /\ running' = FALSE
  /\ Goto(q, "redis")
  /\ UNCHANGED <<bootVars, redisVars, worker, workerClient, busy, requestVars, held, exitVars,
                 outages, firstAlarm>>

AwaitWorkers(q) ==
  /\ step[q] = "await" /\ \A w \in Workers : worker[w] \in {"none", "closed"}
  /\ running' = FALSE
  /\ Goto(q, "redis")
  /\ UNCHANGED <<bootVars, redisVars, worker, workerClient, busy, requestVars, held, exitVars,
                 outages, firstAlarm>>

----------------------------------------------------------------------------
(* closeRedis(), $disconnect() and the exit.                               *)

\* quit() is sent to the client of the moment, whose connection then ends.
Quit(q) ==
  /\ step[q] = "redis"
  /\ IF client = 0
       THEN Goto(q, "db") /\ UNCHANGED <<held, conn>>
       ELSE /\ held' = [held EXCEPT ![q] = client]
            /\ conn' = [conn EXCEPT ![client] = IF @ = "lost" THEN @ ELSE "quit"]
            /\ Goto(q, "quit")
  /\ UNCHANGED <<bootVars, client, workerVars, busy, requestVars, exitVars, outages, firstAlarm>>

QuitAnswered(q) ==
  /\ step[q] = "quit" /\ conn[held[q]] # "lost"
  /\ client' = 0
  /\ Goto(q, "db")
  /\ UNCHANGED <<bootVars, conn, workerVars, busy, requestVars, held, exitVars, outages, firstAlarm>>

\* The catch block disconnects whatever redisClient is by now; another sequence
\* may have made it null, and then the error reaches the caller.
QuitRejected(q) ==
  /\ step[q] = "quit"
  /\ IF client = 0
       THEN exit' = "1" /\ UNCHANGED <<redisVars, step>>
       ELSE /\ conn' = [conn EXCEPT ![client] = IF @ = "lost" THEN @ ELSE "quit"]
            /\ client' = 0
            /\ Goto(q, "db")
            /\ UNCHANGED exit
  /\ UNCHANGED <<bootVars, workerVars, busy, requestVars, held, timer, forced, outages, firstAlarm>>

Disconnect(q) ==
  /\ step[q] = "db"
  /\ db' = FALSE
  /\ Goto(q, "exit")
  /\ UNCHANGED <<boot, server, redisVars, workerVars, busy, requestVars, held, exitVars, outages, firstAlarm>>

Exit(q) ==
  /\ step[q] = "exit"
  /\ exit' = IF q \in Signals THEN "0" ELSE "1"
  /\ UNCHANGED <<bootVars, redisVars, workerVars, busy, requestVars, step, held, timer, forced,
                 outages, firstAlarm>>

----------------------------------------------------------------------------
Shutdown(q) ==
  \/ Drained(q) \/ CloseAllWorkers(q) \/ AwaitWorkers(q)
  \/ Quit(q) \/ QuitAnswered(q) \/ QuitRejected(q) \/ Disconnect(q) \/ Exit(q)

Alive == exit = "no"

Next ==
  /\ Alive
  /\ \/ ConnectDatabase \/ ConnectFails \/ VerifyAndListen \/ ForceExit
     \/ \E c \in Clients : Connected(c) \/ LoseConnection(c) \/ GiveUp(c)
     \/ \E w \in Workers : TakeJob(w) \/ FinishJob(w) \/ WorkerClosed(w)
     \/ \E r \in Requests : Accept(r) \/ Enqueue(r)
     \/ \E s \in Signals : Signal(s)
     \/ \E k \in Crashes : Crash(k)
     \/ \E q \in Sequences : Shutdown(q)

Spec == Init /\ [][Next]_vars

(* Node resumes a sequence when what it awaits has happened, and the timer *)
(* fires as long as the process lives.  A worker whose job has ended is    *)
(* closed, but nothing makes a job end, a request arrive or Redis return.  *)
Fairness ==
  /\ \A q \in Sequences : WF_vars(Alive /\ Shutdown(q))
  /\ \A w \in Workers : WF_vars(Alive /\ WorkerClosed(w))
  /\ WF_vars(Alive /\ ForceExit)

FairSpec == Spec /\ Fairness

----------------------------------------------------------------------------
TypeOK ==
  /\ boot \in BootStage /\ server \in {"idle", "listening", "draining"} /\ db \in BOOLEAN
  /\ client \in {0} \cup Clients /\ conn \in [Clients -> ConnState]
  /\ running \in BOOLEAN
  /\ worker \in [Workers -> WorkerState] /\ workerClient \in {0} \cup Clients
  /\ busy \subseteq Workers /\ \A w \in busy : worker[w] \in {"running", "closing"}
  /\ request \in [Requests -> RequestStage] /\ queued \subseteq Requests
  /\ hasQueue \in BOOLEAN /\ refused \subseteq Requests
  /\ step \in [Sequences -> SequenceStage] /\ held \in [Sequences -> {0} \cup Clients]
  /\ timer \in BOOLEAN /\ exit \in {"no", "0", "1"} /\ forced \in BOOLEAN
  /\ outages \in Nat
  /\ firstAlarm \in {"none"} \cup BootStage

Crashed == \E k \in Crashes : step[k] # "off"

\* Closing "allow[s] in-flight jobs to finish processing before process
\* termination" (docs/queue-architecture.md:52): while a job runs, and whatever
\* signals and crashes overlap, its Redis client is not quit, the database not
\* disconnected and the process not ended, but by the timer.  The exception is
\* a process told to stop before it has started its workers.
JobsKeepTheirProcess ==
  firstAlarm # "connecting" /\ busy # {} =>
    db /\ conn[workerClient] # "quit" /\ (Alive \/ forced)

\* A graceful shutdown loses no job: it waits for the requests before it closes
\* Redis (server.js:65), so that an answered webhook is queued unless Redis had
\* refused its job or was gone for good, or there was no queue (webhook.queue.js:19
\* and :50, which answer nevertheless).  It does lose jobs beside a crash handler,
\* which closes Redis under the requests, and when it comes before the server listens.
ShutdownLosesNoJob ==
  hasQueue /\ conn[QueueClient] # "lost" /\ ~Crashed /\ firstAlarm \in {"none", "done"} =>
    \A r \in Requests : request[r] = "answered" => r \in queued \cup refused

\* "A timeout safeguard is used to prevent indefinite shutdown."
\* (README.md:760): a signal ends the process even if a job never ends.  A
\* crash, which sets no timer, ends it unless a job goes on for ever.
ShutdownEnds ==
  /\ (\E s \in Signals : step[s] # "off") ~> ~Alive
  /\ Crashed ~> (~Alive \/ [](busy # {}))
=============================================================================
