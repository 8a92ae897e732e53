------------------------ MODULE ServerLifecycleProofs ------------------------
(***************************************************************************)
(* For any number of workers, requests, signals and crashes, and however   *)
(* their sequences overlap: a job keeps its process and its connections,   *)
(* and shutting down loses no webhook's job.                               *)
(***************************************************************************)
EXTENDS ServerLifecycle, TLAPS

AllClosed == \A w \in Workers : worker[w] \in {"none", "closed"}

\* The sequence has closed the workers, or found none running.
PastWorkers(q) == step[q] \in {"redis", "quit", "db", "exit"}

Quitted == \E c \in Clients : conn[c] = "quit"

\* Nothing works before the start.
StartInv == boot = "connecting" => AllClosed /\ ~running

\* What the first alarm tells: before it nothing has been shut down.
AlarmInv ==
  /\ firstAlarm = "none" => (\A q \in Sequences : step[q] = "off") /\ ~Quitted
  /\ firstAlarm = "verifying" => boot # "connecting"
  /\ firstAlarm = "done" => boot = "done"
  /\ (server = "idle") = (boot # "done")
  /\ conn[QueueClient] # "none"

\* Workers run only after the start, and once closed never again: unless the
\* alarm came before the start, what needs them closed happens after that.
WorkersInv ==
  /\ boot # "connecting" => workerClient # 0 /\ (~running => AllClosed)
  /\ firstAlarm # "connecting" =>
       /\ (\E q \in Sequences : PastWorkers(q)) => AllClosed
       /\ Quitted => AllClosed
       /\ boot # "connecting" /\ ~db => AllClosed
       /\ ~Alive => AllClosed \/ forced

InOrder == ~Crashed /\ firstAlarm \in {"none", "done"}

\* In an orderly shutdown the requests end before anything is closed.
RequestsInv ==
  /\ InOrder /\ (Quitted \/ \E q \in Sequences : step[q] \notin {"off", "drain"}) =>
       server = "draining" /\ InFlight = {}
  /\ ShutdownLosesNoJob

LifecycleInv == TypeOK /\ StartInv /\ AlarmInv /\ WorkersInv /\ RequestsInv

----------------------------------------------------------------------------
(* Types.                                                                  *)

LEMMA InitTypes == Init => TypeOK
<1> SUFFICES ASSUME Init PROVE TypeOK
  OBVIOUS
<1>1. held \in [Sequences -> {0} \cup Clients]
  BY DEF Init
<1>2. conn \in [Clients -> ConnState]
  BY DEF Init, ConnState
<1>3. client \in {0} \cup Clients
  BY DEF Init, Clients, QueueClient
<1> QED
  BY <1>1, <1>2, <1>3 DEF Init, TypeOK, BootStage, WorkerState, RequestStage, SequenceStage

LEMMA StepTypes ==
  ASSUME TypeOK, StartInv, [Next]_vars
  PROVE  TypeOK'
<1> USE DEF Clients, QueueClient, BootStage, ConnState, WorkerState, RequestStage, SequenceStage
<1>1. CASE ConnectDatabase
  <2>1. busy = {}
    BY <1>1 DEF ConnectDatabase, StartInv, AllClosed, TypeOK
  <2>2. worker' \in [Workers -> WorkerState]
    BY <1>1 DEF ConnectDatabase
  <2>3. Current \in Clients /\ conn' \in [Clients -> ConnState]
    BY <1>1 DEF ConnectDatabase, TypeOK, Current
  <2> QED
    BY <1>1, <2>1, <2>2, <2>3 DEF ConnectDatabase, TypeOK, requestVars, exitVars
<1>2. CASE ConnectFails
  BY <1>2 DEF ConnectFails, TypeOK, bootVars, redisVars, workerVars, requestVars
<1>2a. CASE VerifyAndListen
  BY <1>2a DEF VerifyAndListen, TypeOK, redisVars, workerVars, requestVars, exitVars
<1>2b. CASE ForceExit
  BY <1>2b DEF ForceExit, TypeOK, bootVars, redisVars, workerVars, requestVars
<1>3. ASSUME NEW c \in Clients, Connected(c) \/ LoseConnection(c) \/ GiveUp(c)
      PROVE  TypeOK'
  BY <1>3 DEF Connected, LoseConnection, GiveUp, TypeOK, bootVars, workerVars, requestVars, exitVars
<1>4. ASSUME NEW w \in Workers, TakeJob(w) \/ FinishJob(w) \/ WorkerClosed(w)
      PROVE  TypeOK'
  BY <1>4 DEF TakeJob, FinishJob, WorkerClosed, TypeOK, bootVars, redisVars, workerVars, requestVars,
              exitVars
<1>5. ASSUME NEW r \in Requests, Accept(r) \/ Enqueue(r)
      PROVE  TypeOK'
  BY <1>5 DEF Accept, Enqueue, TypeOK, bootVars, redisVars, workerVars, exitVars
<1>6. ASSUME NEW s \in Signals, Signal(s)
      PROVE  TypeOK'
  BY <1>6 DEF Signal, Goto, Alarm, TypeOK, redisVars, workerVars, requestVars, Sequences
<1>7. ASSUME NEW k \in Crashes, Crash(k)
      PROVE  TypeOK'
  BY <1>7 DEF Crash, Goto, Alarm, TypeOK, bootVars, redisVars, workerVars, requestVars, exitVars, Sequences
<1>8. ASSUME NEW q \in Sequences, Shutdown(q)
      PROVE  TypeOK'
  <2>1. CASE Drained(q)
    BY <2>1 DEF Drained, Goto, TypeOK, bootVars, redisVars, workerVars, requestVars, exitVars
  <2>1a. CASE AwaitWorkers(q)
    <3>1. running' \in BOOLEAN
      BY <2>1a, Zenon DEF AwaitWorkers
    <3>2. step' \in [Sequences -> SequenceStage]
      BY <2>1a DEF AwaitWorkers, Goto, TypeOK
    <3> QED
      BY <2>1a, <3>1, <3>2 DEF AwaitWorkers, TypeOK, bootVars, redisVars, requestVars, exitVars
  <2>2. CASE CloseAllWorkers(q)
    BY <2>2 DEF CloseAllWorkers, Goto, TypeOK, bootVars, redisVars, requestVars, exitVars
  <2>3. CASE Quit(q)
    BY <2>3 DEF Quit, Goto, TypeOK, bootVars, workerVars, requestVars, exitVars
  <2>4. CASE QuitAnswered(q)
    BY <2>4 DEF QuitAnswered, Goto, TypeOK, bootVars, workerVars, requestVars, exitVars
  <2>5. CASE QuitRejected(q)
    BY <2>5 DEF QuitRejected, Goto, TypeOK, bootVars, redisVars, workerVars, requestVars
  <2>6. CASE Disconnect(q)
    <3>1. db' \in BOOLEAN
      BY <2>6, Zenon DEF Disconnect
    <3>2. step' \in [Sequences -> SequenceStage]
      BY <2>6 DEF Disconnect, Goto, TypeOK
    <3> QED
      BY <2>6, <3>1, <3>2 DEF Disconnect, TypeOK, redisVars, workerVars, requestVars, exitVars
  <2>7. CASE Exit(q)
    BY <2>7 DEF Exit, TypeOK, bootVars, redisVars, workerVars, requestVars
  <2> QED
    BY <1>8, <2>1, <2>1a, <2>2, <2>3, <2>4, <2>5, <2>6, <2>7 DEF Shutdown
<1>9. CASE UNCHANGED vars
  BY <1>9 DEF vars, TypeOK
<1> QED
  BY <1>1, <1>2, <1>2a, <1>2b, <1>3, <1>4, <1>5, <1>6, <1>7, <1>8, <1>9 DEF Next

----------------------------------------------------------------------------
(* The invariant.                                                          *)

LEMMA InitInv == Init => LifecycleInv
<1> SUFFICES ASSUME Init PROVE LifecycleInv
  OBVIOUS
<1>1. TypeOK
  BY InitTypes
<1>2. AllClosed /\ ~Quitted
  BY DEF Init, AllClosed, Quitted, Clients, QueueClient
<1>3. StartInv /\ AlarmInv /\ WorkersInv
  BY <1>2 DEF Init, StartInv, AlarmInv, WorkersInv, PastWorkers, Alive, Clients, QueueClient
<1>4. RequestsInv
  BY <1>2 DEF Init, RequestsInv, ShutdownLosesNoJob
<1> QED
  BY <1>1, <1>3, <1>4 DEF LifecycleInv

\* Once closed, workers stay closed; only the start makes others.
LEMMA ClosedStaysClosed ==
  ASSUME TypeOK, [Next]_vars, AllClosed, ~ConnectDatabase
  PROVE  AllClosed'
<1>1. CASE UNCHANGED worker
  BY <1>1 DEF AllClosed
<1>2. ASSUME NEW w \in Workers, WorkerClosed(w)
      PROVE  AllClosed'
  BY <1>2 DEF WorkerClosed, AllClosed
<1>3. ASSUME NEW q \in Sequences, CloseAllWorkers(q)
      PROVE  AllClosed'
  BY <1>3 DEF CloseAllWorkers, AllClosed
<1>4. UNCHANGED worker \/ (\E w \in Workers : WorkerClosed(w))
      \/ (\E q \in Sequences : CloseAllWorkers(q))
  BY DEF Next, vars, workerVars, Shutdown, ConnectFails, VerifyAndListen, ForceExit, Connected,
         LoseConnection, GiveUp, TakeJob, FinishJob, Accept, Enqueue, Signal, Crash, Drained,
         AwaitWorkers, Quit, QuitAnswered, QuitRejected, Disconnect, Exit
<1> QED
  BY <1>1, <1>2, <1>3, <1>4

LEMMA StepStart ==
  ASSUME TypeOK, StartInv, [Next]_vars
  PROVE  StartInv'
<1>1. CASE ConnectDatabase
  BY <1>1 DEF ConnectDatabase, StartInv
<1>2. CASE ~ConnectDatabase
  <2>1. boot' = "connecting" => boot = "connecting"
    BY <1>2 DEF Next, vars, bootVars, Shutdown, ConnectFails, VerifyAndListen, ForceExit, Connected,
         LoseConnection, GiveUp, TakeJob, FinishJob, WorkerClosed, Accept, Enqueue, Signal, Crash, Drained,
         CloseAllWorkers, AwaitWorkers, Quit, QuitAnswered, QuitRejected, Disconnect, Exit
  <2>2. ~running => ~running'
    BY <1>2 DEF Next, vars, workerVars, Shutdown, ConnectFails, VerifyAndListen, ForceExit, Connected,
         LoseConnection, GiveUp, TakeJob, FinishJob, WorkerClosed, Accept, Enqueue, Signal, Crash, Drained,
         CloseAllWorkers, AwaitWorkers, Quit, QuitAnswered, QuitRejected, Disconnect, Exit
  <2> QED
    BY <1>2, <2>1, <2>2, ClosedStaysClosed DEF StartInv
<1> QED
  BY <1>1, <1>2

\* The first alarm ends the time in which nothing has been shut down.
LEMMA StepAlarm ==
  ASSUME TypeOK, AlarmInv, [Next]_vars
  PROVE  AlarmInv'
<1> USE DEF AlarmInv, TypeOK, Clients, QueueClient, BootStage, ConnState, Quitted
<1>1. CASE ConnectDatabase
  <2>1. conn' = conn \/ conn' = [conn EXCEPT ![2] = "connecting"]
    BY <1>1 DEF ConnectDatabase, Current
  <2> QED
    BY <1>1, <2>1 DEF ConnectDatabase
<1>2. CASE ConnectFails \/ ForceExit
  BY <1>2 DEF ConnectFails, ForceExit, bootVars, redisVars
<1>3. CASE VerifyAndListen
  BY <1>3 DEF VerifyAndListen, redisVars
<1>4. ASSUME NEW c \in Clients, Connected(c) \/ LoseConnection(c) \/ GiveUp(c)
      PROVE  AlarmInv'
  BY <1>4 DEF Connected, LoseConnection, GiveUp, bootVars
<1>5. ASSUME NEW w \in Workers, TakeJob(w) \/ FinishJob(w) \/ WorkerClosed(w)
      PROVE  AlarmInv'
  BY <1>5 DEF TakeJob, FinishJob, WorkerClosed, bootVars, redisVars
<1>6. ASSUME NEW r \in Requests, Accept(r) \/ Enqueue(r)
      PROVE  AlarmInv'
  BY <1>6 DEF Accept, Enqueue, bootVars, redisVars
<1>7. ASSUME NEW s \in Signals, Signal(s)
      PROVE  AlarmInv'
  BY <1>7 DEF Signal, Alarm, redisVars
<1>8. ASSUME NEW k \in Crashes, Crash(k)
      PROVE  AlarmInv'
  BY <1>8 DEF Crash, Alarm, bootVars, redisVars
<1>9. ASSUME NEW q \in Sequences, Shutdown(q)
      PROVE  AlarmInv'
  <2>1. firstAlarm # "none"
    BY <1>9 DEF Shutdown, Drained, CloseAllWorkers, AwaitWorkers, Quit, QuitAnswered, QuitRejected,
                Disconnect, Exit
  <2>2. boot' = boot /\ server' = server /\ firstAlarm' = firstAlarm
    BY <1>9 DEF Shutdown, Drained, CloseAllWorkers, AwaitWorkers, Quit, QuitAnswered, QuitRejected,
                Disconnect, Exit, bootVars
  <2>3. conn'[QueueClient] # "none"
    BY <1>9 DEF Shutdown, Drained, CloseAllWorkers, AwaitWorkers, Quit, QuitAnswered, QuitRejected,
                Disconnect, Exit, redisVars
  <2> QED
    BY <2>1, <2>2, <2>3
<1>10. CASE UNCHANGED vars
  BY <1>10 DEF vars
<1> QED
  BY <1>1, <1>2, <1>3, <1>4, <1>5, <1>6, <1>7, <1>8, <1>9, <1>10 DEF Next

\* Whatever needs the workers closed comes after their closing.
LEMMA StepWorkers ==
  ASSUME TypeOK, StartInv, AlarmInv, WorkersInv, [Next]_vars
  PROVE  WorkersInv'
<1> USE DEF Clients, QueueClient
<1>1. CASE ConnectDatabase
  <2>1. Current # 0 /\ workerClient' # 0 /\ running' /\ db' /\ boot' # "connecting"
    BY <1>1 DEF ConnectDatabase, Current, TypeOK
  <2>2. CASE firstAlarm = "connecting"
    BY <1>1, <2>1, <2>2 DEF ConnectDatabase, WorkersInv
  <2>3. CASE firstAlarm = "none"
    <3>1. ~Quitted'
      BY <1>1, <2>3 DEF ConnectDatabase, AlarmInv, Quitted, TypeOK, Current
    <3>2. \A q \in Sequences : ~PastWorkers(q)'
      BY <1>1, <2>3 DEF ConnectDatabase, AlarmInv, PastWorkers
    <3>3. Alive'
      BY <1>1 DEF Next, vars, ConnectDatabase, Alive, exitVars
    <3> QED
      BY <2>1, <3>1, <3>2, <3>3 DEF WorkersInv
  <2> QED
    BY <1>1, <2>2, <2>3 DEF ConnectDatabase, AlarmInv, TypeOK, BootStage
<1>2. CASE ~ConnectDatabase
  <2> USE <1>2
  <2>1. AllClosed => AllClosed'
    BY ClosedStaysClosed
  <2>2. boot' # "connecting" => boot # "connecting"
    BY DEF Next, vars, bootVars, Shutdown, ConnectFails, VerifyAndListen, ForceExit, Connected,
         LoseConnection, GiveUp, TakeJob, FinishJob, WorkerClosed, Accept, Enqueue, Signal, Crash, Drained,
         CloseAllWorkers, AwaitWorkers, Quit, QuitAnswered, QuitRejected, Disconnect, Exit
  <2>3. workerClient' = workerClient
    BY DEF Next, vars, workerVars, Shutdown, ConnectFails, VerifyAndListen, ForceExit, Connected,
         LoseConnection, GiveUp, TakeJob, FinishJob, WorkerClosed, Accept, Enqueue, Signal, Crash, Drained,
         CloseAllWorkers, AwaitWorkers, Quit, QuitAnswered, QuitRejected, Disconnect, Exit
  <2>4. ~running' => ~running \/ AllClosed
    BY DEF Next, vars, workerVars, Shutdown, ConnectFails, VerifyAndListen, ForceExit, Connected,
         LoseConnection, GiveUp, TakeJob, FinishJob, WorkerClosed, Accept, Enqueue, Signal, Crash, Drained,
         CloseAllWorkers, AwaitWorkers, Quit, QuitAnswered, QuitRejected, Disconnect, Exit, AllClosed
  <2>5. firstAlarm' # "connecting" => firstAlarm # "connecting"
    BY DEF Next, vars, Alarm, Shutdown, ConnectFails, VerifyAndListen, ForceExit, Connected,
         LoseConnection, GiveUp, TakeJob, FinishJob, WorkerClosed, Accept, Enqueue, Signal, Crash, Drained,
         CloseAllWorkers, AwaitWorkers, Quit, QuitAnswered, QuitRejected, Disconnect, Exit
  <2>6. ASSUME NEW q \in Sequences, PastWorkers(q)'
        PROVE  PastWorkers(q) \/ AllClosed
    <3>1. CASE UNCHANGED step
      BY <2>6, <3>1 DEF PastWorkers
    <3>2. ASSUME NEW s \in Sequences, Signal(s) \/ Crash(s) \/ Drained(s)
          PROVE  PastWorkers(q)
      BY <2>6, <3>2 DEF Signal, Crash, Drained, Goto, PastWorkers, TypeOK
    <3>3. ASSUME NEW s \in Sequences, CloseAllWorkers(s)
          PROVE  PastWorkers(q) \/ AllClosed
      BY <2>6, <3>3 DEF CloseAllWorkers, Goto, PastWorkers, TypeOK, StartInv, WorkersInv
    <3>4. ASSUME NEW s \in Sequences, AwaitWorkers(s)
          PROVE  AllClosed
      BY <3>4 DEF AwaitWorkers, AllClosed
    <3>5. ASSUME NEW s \in Sequences,
                 Quit(s) \/ QuitAnswered(s) \/ QuitRejected(s) \/ Disconnect(s) \/ Exit(s)
          PROVE  PastWorkers(q)
      BY <2>6, <3>5 DEF Quit, QuitAnswered, QuitRejected, Disconnect, Exit, Goto, PastWorkers, TypeOK
    <3> QED
      BY <3>1, <3>2, <3>3, <3>4, <3>5 DEF Next, vars, Shutdown, ConnectFails, VerifyAndListen, ForceExit,
         Connected, LoseConnection, GiveUp, TakeJob, FinishJob, WorkerClosed, Accept, Enqueue, Sequences
  <2>7. ASSUME Quitted' \/ (boot' # "connecting" /\ ~db') \/ (~Alive' /\ ~forced')
        PROVE  \/ Quitted \/ (boot # "connecting" /\ ~db) \/ (~Alive /\ ~forced)
               \/ AllClosed \/ \E q \in Sequences : PastWorkers(q)
    <3>1. CASE ConnectFails
      BY <3>1 DEF ConnectFails, StartInv
    <3>2. ASSUME NEW q \in Sequences, Quit(q) \/ QuitRejected(q) \/ Disconnect(q) \/ Exit(q)
          PROVE  PastWorkers(q)
      BY <3>2 DEF Quit, QuitRejected, Disconnect, Exit, PastWorkers
    <3>3. Quitted' => Quitted \/ \E q \in Sequences : Quit(q) \/ QuitRejected(q)
      BY DEF Quitted, TypeOK, Next, vars, redisVars, Shutdown, ConnectFails, VerifyAndListen, ForceExit,
         Connected, LoseConnection, GiveUp, TakeJob, FinishJob, WorkerClosed, Accept, Enqueue, Signal, Crash,
         Drained, CloseAllWorkers, AwaitWorkers, QuitAnswered, Disconnect, Exit
    <3>4. ~db' => ~db \/ \E q \in Sequences : Disconnect(q)
      BY DEF Next, vars, bootVars, Shutdown, ConnectFails, VerifyAndListen, ForceExit, Connected,
         LoseConnection, GiveUp, TakeJob, FinishJob, WorkerClosed, Accept, Enqueue, Signal, Crash, Drained,
         CloseAllWorkers, AwaitWorkers, Quit, QuitAnswered, QuitRejected, Exit
    <3>5. ~Alive' /\ ~forced' =>
            \/ ~Alive /\ ~forced
            \/ ConnectFails \/ \E q \in Sequences : QuitRejected(q) \/ Exit(q)
      BY DEF Alive, Next, vars, exitVars, Shutdown, VerifyAndListen, ForceExit, Connected,
         LoseConnection, GiveUp, TakeJob, FinishJob, WorkerClosed, Accept, Enqueue, Signal, Crash, Drained,
         CloseAllWorkers, AwaitWorkers, Quit, QuitAnswered, Disconnect
    <3> QED
      BY <2>2, <2>7, <3>1, <3>2, <3>3, <3>4, <3>5
  <2> QED
    BY <2>1, <2>2, <2>3, <2>4, <2>5, <2>6, <2>7 DEF WorkersInv
<1> QED
  BY <1>1, <1>2

\* While it is orderly, requests have ended before the first thing is closed.
LEMMA StepRequests ==
  ASSUME TypeOK, AlarmInv, RequestsInv, [Next]_vars
  PROVE  RequestsInv'
<1> USE DEF Clients, QueueClient, AlarmInv, TypeOK
<1> DEFINE Closing == Quitted \/ \E q \in Sequences : step[q] \notin {"off", "drain"}
           Over == server = "draining" /\ InFlight = {}
<1>1. InOrder /\ Closing => Over
  BY DEF RequestsInv
<1>2. ShutdownLosesNoJob
  BY DEF RequestsInv
<1>3. CASE ConnectDatabase
  <2>1. Quitted' => Quitted
    BY <1>3 DEF ConnectDatabase, Current, Quitted
  <2>2. conn'[QueueClient] = conn[QueueClient]
    BY <1>3 DEF ConnectDatabase, Current
  <2> QED
    BY <1>1, <1>2, <1>3, <2>1, <2>2 DEF ConnectDatabase, requestVars, RequestsInv, ShutdownLosesNoJob,
       InOrder, Crashed, InFlight
<1>4. CASE ConnectFails \/ ForceExit
  BY <1>1, <1>2, <1>4 DEF ConnectFails, ForceExit, bootVars, redisVars, requestVars, RequestsInv,
     ShutdownLosesNoJob, InOrder, Crashed, InFlight, Quitted
<1>5. CASE VerifyAndListen
  BY <1>1, <1>2, <1>5 DEF VerifyAndListen, redisVars, requestVars, RequestsInv, ShutdownLosesNoJob, InOrder,
     Crashed, InFlight, Quitted
<1>6. ASSUME NEW c \in Clients, Connected(c) \/ LoseConnection(c) \/ GiveUp(c)
      PROVE  RequestsInv'
  <2>1. (Quitted' => Quitted) /\ (conn[QueueClient] = "lost" => conn'[QueueClient] = "lost")
    BY <1>6 DEF Connected, LoseConnection, GiveUp, Quitted
  <2> QED
    BY <1>1, <1>2, <1>6, <2>1 DEF Connected, LoseConnection, GiveUp, bootVars, requestVars, RequestsInv,
       ShutdownLosesNoJob, InOrder, Crashed, InFlight
<1>7. ASSUME NEW w \in Workers, TakeJob(w) \/ FinishJob(w) \/ WorkerClosed(w)
      PROVE  RequestsInv'
  BY <1>1, <1>2, <1>7 DEF TakeJob, FinishJob, WorkerClosed, bootVars, redisVars, requestVars, RequestsInv,
     ShutdownLosesNoJob, InOrder, Crashed, InFlight, Quitted
<1>8. ASSUME NEW r \in Requests, Accept(r)
      PROVE  RequestsInv'
  BY <1>1, <1>2, <1>8 DEF Accept, bootVars, redisVars, RequestsInv, ShutdownLosesNoJob, InOrder, Crashed,
     InFlight, Quitted
<1>9. ASSUME NEW r \in Requests, Enqueue(r)
      PROVE  RequestsInv'
  <2>1. InFlight' \subseteq InFlight /\ r \in InFlight
    BY <1>9 DEF Enqueue, InFlight
  <2>2. InOrder /\ Closing' => Over'
    BY <1>1, <1>9, <2>1 DEF Enqueue, bootVars, redisVars, Quitted, InOrder, Crashed
  <2>3. InOrder => conn[QueueClient] # "quit"
    BY <1>1, <2>1 DEF Quitted
  <2>4. ShutdownLosesNoJob'
    BY <1>2, <1>9, <2>3 DEF Enqueue, redisVars, ShutdownLosesNoJob, InOrder, Crashed
  <2> QED
    BY <1>9, <2>2, <2>4 DEF Enqueue, RequestsInv, InOrder, Crashed
<1>10. ASSUME NEW s \in Signals, Signal(s)
       PROVE  RequestsInv'
  <2>1. InOrder' => InOrder /\ server # "idle"
    BY <1>10 DEF Signal, Alarm, Goto, InOrder, Crashed, Sequences, BootStage
  <2>2. InOrder' /\ Closing' => Over'
    BY <1>1, <1>10, <2>1 DEF Signal, Goto, InFlight, Quitted, redisVars, requestVars, Sequences
  <2>3. ShutdownLosesNoJob'
    BY <1>2, <1>10, <2>1 DEF Signal, ShutdownLosesNoJob, InOrder, redisVars, requestVars
  <2> QED
    BY <2>2, <2>3 DEF RequestsInv
<1>11. ASSUME NEW k \in Crashes, Crash(k)
       PROVE  RequestsInv'
  BY <1>11 DEF Crash, Goto, Sequences, Crashed, InOrder, RequestsInv, ShutdownLosesNoJob
<1>12. ASSUME NEW q \in Sequences, Shutdown(q)
       PROVE  RequestsInv'
  <2>1. InOrder' => InOrder
    BY <1>12 DEF Shutdown, Drained, CloseAllWorkers, AwaitWorkers, Quit, QuitAnswered, QuitRejected,
       Disconnect, Exit, Goto, InOrder, Crashed, Sequences
  <2>2. UNCHANGED <<request, queued, hasQueue, refused, server>>
    BY <1>12 DEF Shutdown, Drained, CloseAllWorkers, AwaitWorkers, Quit, QuitAnswered, QuitRejected,
       Disconnect, Exit, bootVars, requestVars
  <2>3. conn[QueueClient] = "lost" => conn'[QueueClient] = "lost"
    BY <1>12 DEF Shutdown, Drained, CloseAllWorkers, AwaitWorkers, Quit, QuitAnswered, QuitRejected,
       Disconnect, Exit, redisVars
  <2>4. InOrder => Over
    BY <1>1, <1>12 DEF Shutdown, Drained, CloseAllWorkers, AwaitWorkers, Quit, QuitAnswered, QuitRejected,
       Disconnect, Exit
  <2>5. ShutdownLosesNoJob'
    BY <1>2, <2>1, <2>2, <2>3 DEF ShutdownLosesNoJob, InOrder
  <2> QED
    BY <2>1, <2>2, <2>4, <2>5 DEF RequestsInv, InFlight
<1>13. CASE UNCHANGED vars
  BY <1>1, <1>2, <1>13 DEF vars, RequestsInv, ShutdownLosesNoJob, InOrder, Crashed, InFlight, Quitted
<1> QED
  BY <1>3, <1>4, <1>5, <1>6, <1>7, <1>8, <1>9, <1>10, <1>11, <1>12, <1>13 DEF Next

LEMMA LifecycleHolds == Spec => []LifecycleInv
<1>1. LifecycleInv /\ [Next]_vars => LifecycleInv'
  BY StepTypes, StepStart, StepAlarm, StepWorkers, StepRequests DEF LifecycleInv
<1> QED
  BY InitInv, <1>1, PTL DEF Spec

----------------------------------------------------------------------------
(* What the process promises.                                              *)

\* The process's variables keep their types, and only a worker that has been
\* started and not yet closed is in the middle of a job.
THEOREM LifecycleTypeCorrect == Spec => []TypeOK
<1>1. LifecycleInv => TypeOK
  BY DEF LifecycleInv
<1> QED
  BY <1>1, LifecycleHolds, PTL

\* Unless the process is told to stop before its workers have started, no
\* interleaving of shutdowns and crash handlers takes Redis, the database or
\* the process from under a job: only the forced exit does.
THEOREM JobsAreNotKilled == Spec => []JobsKeepTheirProcess
<1>1. LifecycleInv => JobsKeepTheirProcess
  <2> SUFFICES ASSUME LifecycleInv, firstAlarm # "connecting", busy # {}
               PROVE  db /\ conn[workerClient] # "quit" /\ (Alive \/ forced)
    BY DEF JobsKeepTheirProcess
  <2>1. ~AllClosed
    BY DEF LifecycleInv, TypeOK, AllClosed
  <2>2. boot # "connecting" /\ workerClient \in Clients
    BY <2>1 DEF LifecycleInv, TypeOK, StartInv, WorkersInv
  <2> QED
    BY <2>1, <2>2 DEF LifecycleInv, WorkersInv, Quitted
<1> QED
  BY <1>1, LifecycleHolds, PTL

\* A graceful shutdown loses no webhook's job, because the requests have all ended
\* before its first sequence closes anything (server.js:61-74): an answered webhook
\* without a job was refused by Redis, found Redis given up or met no queue.
THEOREM GracefulShutdownLosesNoJob == Spec => []ShutdownLosesNoJob
<1>1. LifecycleInv => ShutdownLosesNoJob
  BY DEF LifecycleInv, RequestsInv
<1> QED
  BY <1>1, LifecycleHolds, PTL
=============================================================================
