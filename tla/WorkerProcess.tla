--------------------------- MODULE WorkerProcess ---------------------------
(***************************************************************************)
(* The life of a worker process: worker_process of                         *)
(* src/src/server/worker.cpp, which owns the connection pool, the pool's   *)
(* maintenance thread and the FastCGI server, and the parts of fcgi_server *)
(* it calls.  It composes FcgiServer with the two lives it has to outlast: *)
(* that of the pool and that of the maintenance thread.                    *)
(***************************************************************************)
EXTENDS FcgiServer

VARIABLES
  phase,      \* where worker_process is
  pool,       \* the pool: "none", "alive" or "destroyed"
  maint,      \* the maintenance thread: "none", "asleep", "scan" or "done"
  exiting,    \* maintenance_thread_exiting
  server,     \* the server and its handlers: "none", "alive" or "destroyed"
  result      \* what worker_process returns, or None

workerVars == <<phase, pool, maint, exiting, server, result>>
vars == <<serverVars, workerVars>>

Phase == {"pool", "server", "permissions", "init", "start", "join", "shutdown",
          "maintenance", "unwind", "leave", "returned", "quit", "crashed"}

Init ==
  /\ ServerInit
  /\ phase = "pool"
  /\ pool = "none" /\ maint = "none" /\ exiting = FALSE
  /\ server = "none"
  /\ result = None

Running == phase \notin {"returned", "quit", "crashed"}

-----------------------------------------------------------------------------
(* The pool is made and start_maintenance_thread called.                   *)
StartMaintenance ==
  /\ phase = "pool"
  /\ pool' = "alive" /\ maint' = "asleep"
  /\ phase' = "server"
  /\ UNCHANGED <<serverVars, exiting, server, result>>

MakeServer ==
  /\ phase = "server"
  /\ server' = "alive"
  /\ phase' = "permissions"
  /\ UNCHANGED <<serverVars, pool, maint, exiting, result>>

(* The constructor throws, so there is no server to destroy.               *)
MakeServerFails ==
  /\ phase = "server"
  /\ phase' = "leave" /\ result' = 1
  /\ UNCHANGED <<serverVars, pool, maint, exiting, server>>

(* drop_permissions never throws: whether or not there is a user to become *)
(* (if not, it says so in the log), the handlers are registered next; but a*)
(* group that is missing is not seen, as nobody is tested twice, and       *)
(* reading its number brings the process down.                             *)
DropPermissions ==
  /\ phase = "permissions"
  /\ phase' \in {"init", "crashed"}
  /\ UNCHANGED <<serverVars, pool, maint, exiting, server, result>>

OpenSocket ==
  /\ phase = "init"
  /\ socket' = "open"
  /\ phase' = "start"
  /\ UNCHANGED <<acceptLock, at, serving, client, reply, pool, maint, exiting, server, result>>

(* FCGX_OpenSocket fails and init() throws.                                *)
OpenSocketFails ==
  /\ phase = "init"
  /\ phase' = "unwind" /\ result' = 1
  /\ UNCHANGED <<serverVars, pool, maint, exiting, server>>

(* run(): the threads are created one after the other, then joined.        *)
RunStart(t) ==
  /\ phase = "start"
  /\ StartThread(t)
  /\ phase' = IF \A u \in Threads \ {t} : at[u] # "unborn" THEN "join" ELSE "start"
  /\ UNCHANGED <<pool, maint, exiting, server, result>>

RunJoin ==
  /\ phase = "join"
  /\ \A t \in Threads : at[t] = "ended"
  /\ phase' = "shutdown"
  /\ UNCHANGED <<serverVars, pool, maint, exiting, server, result>>

(* shutdown() closes the socket: who is still waiting is turned away.  The *)
(* server goes out of scope and deletes its handlers.                      *)
Shutdown ==
  /\ phase = "shutdown"
  /\ socket' = "closed"
  /\ client' = [r \in Requests |-> IF client[r] = "queued" THEN "lost" ELSE client[r]]
  /\ server' = "destroyed"
  /\ phase' = "maintenance"
  /\ UNCHANGED <<acceptLock, at, serving, reply, pool, maint, exiting, result>>

(* join_maintenance_thread: the flag is set under maintenance_lock, which  *)
(* the thread has while it scans; the process then waits for its end.      *)
TellMaintenance ==
  /\ phase = "maintenance" /\ ~exiting
  /\ maint # "scan"
  /\ exiting' = TRUE
  /\ UNCHANGED <<serverVars, phase, pool, maint, server, result>>

(* Mutant: the thread is told to end and not waited for.                   *)
JoinMaintenanceAtOnce ==
  /\ phase = "maintenance" /\ exiting
  /\ phase' = "leave" /\ result' = 0
  /\ UNCHANGED <<serverVars, pool, maint, exiting, server>>

JoinMaintenance ==
  /\ phase = "maintenance" /\ exiting
  /\ maint = "done"
  /\ phase' = "leave" /\ result' = 0
  /\ UNCHANGED <<serverVars, pool, maint, exiting, server>>

(* An exception leaves the try block: the server is destroyed, but its     *)
(* socket is not closed and the maintenance thread is not told anything.   *)
Unwind ==
  /\ phase = "unwind"
  /\ server' = "destroyed"
  /\ phase' = "leave"
  /\ UNCHANGED <<serverVars, pool, maint, exiting, result>>

(* worker_process ends: the pool goes out of scope.                        *)
DestroyPool ==
  /\ phase = "leave" /\ pool = "alive"
  /\ pool' = "destroyed"
  /\ UNCHANGED <<serverVars, phase, maint, exiting, server, result>>

(* The process exits with the result (main.cpp:133).                       *)
Return ==
  /\ phase = "leave" /\ pool = "destroyed"
  /\ phase' = "returned"
  /\ UNCHANGED <<serverVars, pool, maint, exiting, server, result>>

(* SIGQUIT: exit(0), whatever the threads are doing.                       *)
Quit ==
  /\ phase' = "quit"
  /\ UNCHANGED <<serverVars, pool, maint, exiting, server, result>>

-----------------------------------------------------------------------------
(* maintenance_thread_func, as far as the life of the pool goes.           *)
Scan ==
  /\ maint = "asleep"
  /\ maint' = "scan"
  /\ UNCHANGED <<serverVars, phase, pool, exiting, server, result>>

ScanEnds ==
  /\ maint = "scan"
  /\ maint' = IF exiting THEN "done" ELSE "asleep"
  /\ UNCHANGED <<serverVars, phase, pool, exiting, server, result>>

-----------------------------------------------------------------------------
PhaseStep ==
  \/ StartMaintenance \/ MakeServer \/ MakeServerFails \/ DropPermissions
  \/ OpenSocket \/ OpenSocketFails
  \/ \E t \in Threads : RunStart(t)
  \/ RunJoin \/ Shutdown \/ TellMaintenance \/ JoinMaintenance
  \/ Unwind \/ DestroyPool \/ Return

ServerStep(t) == ThreadStep(t) /\ UNCHANGED workerVars

Outside == (SocketBreaks \/ \E r \in Requests : Connect(r)) /\ UNCHANGED workerVars

Next ==
  \/ Running /\ PhaseStep
  \/ Running /\ \E t \in Threads : ServerStep(t)
  \/ Running /\ (Scan \/ ScanEnds)
  \/ Running /\ Outside
  \/ Running /\ Quit
  \/ ~Running /\ UNCHANGED vars

Spec == Init /\ [][Next]_vars

(* Every thread of the process runs; a request that waits while a thread   *)
(* is in accept() is delivered, and a socket that has failed makes accept()*)
(* return.  Clients need not come, nothing need fail, and which thread gets*)
(* accept_mutex is left open.                                              *)
Fairness ==
  /\ WF_vars(Running /\ PhaseStep)
  /\ SF_vars(Running /\ TellMaintenance)
  /\ WF_vars(Running /\ Scan) /\ WF_vars(Running /\ ScanEnds)
  /\ \A t \in Threads :
       WF_vars(/\ Running
               /\ ServerStep(t)
               /\ at[t] = "accept" => (socket = "broken" \/ serving'[t] # None))

FairSpec == Spec /\ Fairness

-----------------------------------------------------------------------------
TypeOK ==
  /\ socket \in {"none", "open", "broken", "closed"}
  /\ acceptLock \in Threads \cup {None}
  /\ at \in [Threads -> ThreadState]
  /\ serving \in [Threads -> Requests \cup {None}]
  /\ client \in [Requests -> ClientState]
  /\ DOMAIN reply = Requests
  /\ phase \in Phase
  /\ pool \in {"none", "alive", "destroyed"}
  /\ maint \in {"none", "asleep", "scan", "done"}
  /\ exiting \in BOOLEAN
  /\ server \in {"none", "alive", "destroyed"}
  /\ result \in {None, 0, 1}

(* accept_mutex keeps a thread in FCGX_Accept_r alone, and a request that  *)
(* was accepted is in the hands of one thread until it is answered.        *)
OneServes ==
  /\ \A t \in Threads : at[t] \in {"accept", "accepted", "failed"} => acceptLock = t
  /\ \A r \in Requests : client[r] = "taken" =>
       /\ \E t \in Threads : serving[t] = r
       /\ \A t, u \in Threads : serving[t] = r /\ serving[u] = r => t = u

(* No thread of the server outlives it, its handlers or the pool they use; *)
(* and the maintenance thread does not outlive the pool it scans, unless   *)
(* the server could not be made or its socket not opened: worker_process   *)
(* then returns without join_maintenance_thread.                           *)
NothingOutlivesItsUse ==
  /\ \A t \in Threads : at[t] \notin {"unborn", "ended"} => server = "alive" /\ pool = "alive"
  /\ pool = "destroyed" => maint = "done" \/ result = 1

(* What a handler has written it was asked for by the longest prefix that  *)
(* is mapped to a handler, the latest of equals.                           *)
Matches(i, uri) == Mappings[i].uri # <<>> /\ IsPrefix(Mappings[i].uri, uri)

Best(i, uri) ==
  /\ Matches(i, uri)
  /\ \A j \in DOMAIN Mappings : Matches(j, uri) =>
       \/ Len(Mappings[j].uri) < Len(Mappings[i].uri)
       \/ Len(Mappings[j].uri) = Len(Mappings[i].uri) /\ j <= i

RightHandler ==
  \A r \in Requests : \A k \in DOMAIN reply[r] :
    reply[r][k] \in Handlers =>
      \E i \in DOMAIN Mappings : Best(i, UriOf[r]) /\ Mappings[i].handler = reply[r][k]

(* A client the kernel has let in is answered, or turned away when the     *)
(* server ends; it is not left with an open connection nobody reads.       *)
ClientsAreServed ==
  \A r \in Requests :
    client[r] = "queued" ~> (client[r] \in {"answered", "lost"} \/ ~Running)

(* When the socket fails the worker process ends, so that its parent can   *)
(* replace it: no thread keeps run() from returning ("Returns when all     *)
(* worker threads terminated", fcgi_server.h:80).                          *)
FailureEnds == socket = "broken" ~> ~Running

(* What the source says.                                                   *)

(* fcgi_server.cpp:166 "Find and call handlers by exact match": what is    *)
(* mapped to a location with a = before it answers for that location.      *)
ExactMatchFires ==
  \A r \in Requests : \A k \in DOMAIN reply[r] : \A i \in DOMAIN Mappings :
    (reply[r][k] \in Handlers /\ Mappings[i].uri = <<"=">> \o UriOf[r])
      => reply[r][k] = Mappings[i].handler

=============================================================================
