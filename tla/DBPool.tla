------------------------------- MODULE DBPool -------------------------------
(***************************************************************************)
(* The database connection pool: class DBPool of src/src/db/db_pool.h and  *)
(* its maintenance thread in src/src/db/db_pool.cpp, used by the request   *)
(* threads of one worker process.                                          *)
(*                                                                         *)
(* Everything a thread does between pthread_mutex_lock and the matching    *)
(* pthread_mutex_unlock (or pthread_cond_wait) on m_lock is one step here, *)
(* with one exception: grow() connects to the server while it holds the    *)
(* lock, so a thread that grows the pool takes the lock in one step and    *)
(* ends in another, and every other user of the lock can be seen waiting.  *)
(***************************************************************************)
EXTENDS Naturals, Sequences, FiniteSets, SequencesExt

CONSTANTS
  Threads,          \* request threads (NUM_WORKERS of fcgi_server.h)
  Conns,            \* addresses a DBConn object can be allocated at
  None,             \* a null pointer; also "nobody" for the lock
  MaxConn,          \* m_max_connections
  IdleLimit,        \* idle time after which a connection is removed
  MaxClock,         \* bound of the clock
  ConnectMayFail,   \* may mysql_real_connect fail?
  SpuriousWakeups   \* may pthread_cond_wait return without a signal?

ASSUME PoolAssumption ==
  /\ IsFiniteSet(Threads)
  /\ None \notin Threads
  /\ None \notin Conns
  /\ MaxConn \in Nat
  /\ IdleLimit \in Nat \ {0}
  /\ MaxClock \in Nat
  /\ ConnectMayFail \in BOOLEAN
  /\ SpuriousWakeups \in BOOLEAN

VARIABLES
  lock,       \* owner of m_lock, or None
  all,        \* m_all_connections
  available,  \* m_available_connections
  numConn,    \* m_num_connections
  numAvail,   \* m_num_available
  open,       \* DBConn objects constructed and not yet deleted
  lastUsed,   \* m_last_used of the object at an address
  pc,         \* where each request thread is
  held,       \* the connection in the thread's DBConnHolder, or None
  clock,      \* what time() returns
  maint,      \* where the maintenance thread is
  now,        \* its local variable now
  victim,     \* its local variable to_remove, or None
  exiting,    \* maintenance_thread_exiting
  process,    \* where the worker process is in its own life
  crashed     \* behaviour has become undefined: the process is gone

poolVars  == <<all, available, numConn, numAvail>>
maintVars == <<maint, now, victim>>
vars == <<lock, poolVars, open, lastUsed, pc, held, clock, maintVars,
          exiting, process, crashed>>

ThreadState == {"idle", "get", "connecting", "waiting", "woken", "using", "exited"}
MaintState  == {"clock", "lock", "scan", "close", "check", "done"}

(* The state right after start_maintenance_thread, before s.run() has      *)
(* created the request threads' first call: nothing is connected yet.      *)
Init ==
  /\ lock = None
  /\ all = <<>> /\ available = <<>>
  /\ numConn = 0 /\ numAvail = 0
  /\ open = {}
  /\ lastUsed = [c \in Conns |-> 0]
  /\ pc = [t \in Threads |-> "idle"]
  /\ held = [t \in Threads |-> None]
  /\ clock = 0
  /\ maint = "clock" /\ now = 0 /\ victim = None
  /\ exiting = FALSE
  /\ process = "serving"
  /\ crashed = FALSE

-----------------------------------------------------------------------------
(* Request threads: DBConnHolder calls get() when it is constructed and    *)
(* put() when it is destroyed.                                             *)

Waiting == { t \in Threads : pc[t] = "waiting" }

(* Mutant: one connection more than the limit.                             *)
RoomOffByOne == numAvail = 0 /\ numConn <= MaxConn

(* "If there is room to grow connections then do it".                      *)
Room == numAvail = 0 /\ numConn < MaxConn

Call(t) ==
  /\ pc[t] = "idle"
  /\ pc' = [pc EXCEPT ![t] = "get"]
  /\ UNCHANGED <<lock, poolVars, open, lastUsed, held, clock, maintVars,
                 exiting, process, crashed>>

(* get() takes the lock, finds room and starts to connect.                 *)
GrowStart(t) ==
  /\ pc[t] = "get"
  /\ lock = None
  /\ Room
  /\ lock' = t
  /\ pc' = [pc EXCEPT ![t] = "connecting"]
  /\ UNCHANGED <<poolVars, open, lastUsed, held, clock, maintVars,
                 exiting, process, crashed>>

(* Mutant: grow() forgets to record the connection for ~DBPool.            *)
GrowDoneUnrecorded(t) ==
  /\ pc[t] = "connecting"
  /\ \E c \in Conns \ open :
       /\ open' = open \cup {c}
       /\ held' = [held EXCEPT ![t] = c]
       /\ lastUsed' = [lastUsed EXCEPT ![c] = clock]
  /\ numConn' = numConn + 1
  /\ lock' = None
  /\ pc' = [pc EXCEPT ![t] = "using"]
  /\ UNCHANGED <<all, available, numAvail, clock, maintVars, exiting, process, crashed>>

(* The connection is made, recorded and handed to t; the lock is released. *)
GrowDone(t) ==
  /\ pc[t] = "connecting"
  /\ \E c \in Conns \ open :
       /\ open' = open \cup {c}
       /\ all' = Append(all, c)
       /\ held' = [held EXCEPT ![t] = c]
       /\ lastUsed' = [lastUsed EXCEPT ![c] = clock]
  /\ numConn' = numConn + 1
  /\ lock' = None
  /\ pc' = [pc EXCEPT ![t] = "using"]
  /\ UNCHANGED <<available, numAvail, clock, maintVars, exiting, process, crashed>>

(* The constructor of DBConn throws: get() is left by the exception, with  *)
(* the lock still held.  The handler catches the db_exception.             *)
GrowFail(t) ==
  /\ ConnectMayFail
  /\ pc[t] = "connecting"
  /\ pc' = [pc EXCEPT ![t] = "idle"]
  /\ UNCHANGED <<lock, poolVars, open, lastUsed, held, clock, maintVars,
                 exiting, process, crashed>>

(* Mutant: front() without pop_front().                                    *)
PopForKeepsEntry(t) ==
  /\ available # <<>>
  /\ held' = [held EXCEPT ![t] = Head(available)]
  /\ numAvail' = numAvail - 1
  /\ lastUsed' = [lastUsed EXCEPT ![Head(available)] = clock]
  /\ pc' = [pc EXCEPT ![t] = "using"]
  /\ UNCHANGED <<lock, all, available, numConn, open, clock, maintVars, exiting,
                 process, crashed>>

(* The rest of get(): the first available connection becomes t's.          *)
PopFor(t) ==
  /\ available # <<>>
  /\ held' = [held EXCEPT ![t] = Head(available)]
  /\ available' = Tail(available)
  /\ numAvail' = numAvail - 1
  /\ lastUsed' = [lastUsed EXCEPT ![Head(available)] = clock]
  /\ pc' = [pc EXCEPT ![t] = "using"]
  /\ UNCHANGED <<lock, all, numConn, open, clock, maintVars, exiting,
                 process, crashed>>

GetAvailable(t) ==
  /\ pc[t] = "get"
  /\ lock = None
  /\ ~Room
  /\ PopFor(t)

(* No room and nothing available: pthread_cond_wait.                       *)
GetWait(t) ==
  /\ pc[t] = "get"
  /\ lock = None
  /\ ~Room
  /\ available = <<>>
  /\ pc' = [pc EXCEPT ![t] = "waiting"]
  /\ UNCHANGED <<lock, poolVars, open, lastUsed, held, clock, maintVars,
                 exiting, process, crashed>>

(* pthread_cond_wait may return although nobody has signalled.             *)
WakeSpuriously(t) ==
  /\ SpuriousWakeups
  /\ pc[t] = "waiting"
  /\ pc' = [pc EXCEPT ![t] = "woken"]
  /\ UNCHANGED <<lock, poolVars, open, lastUsed, held, clock, maintVars,
                 exiting, process, crashed>>

(* A woken thread has the lock again and goes straight to front() and      *)
(* pop_front(): the condition is tested by an if, once, before the wait.   *)
GetWoken(t) ==
  /\ pc[t] = "woken"
  /\ lock = None
  /\ PopFor(t)

(* On an empty list those two are undefined: front() reads the list head,  *)
(* pop_front() gives the head node to the allocator, and the process dies. *)
GetWokenEmpty(t) ==
  /\ pc[t] = "woken"
  /\ lock = None
  /\ available = <<>>
  /\ crashed' = TRUE
  /\ UNCHANGED <<lock, poolVars, open, lastUsed, pc, held, clock, maintVars,
                 exiting, process>>

(* Mutant: put() signals only when the list was empty.                     *)
PutSignalsFirstOnly(t) ==
  /\ pc[t] = "using"
  /\ lock = None
  /\ available' = Append(available, held[t])
  /\ numAvail' = numAvail + 1
  /\ lastUsed' = [lastUsed EXCEPT ![held[t]] = clock]
  /\ held' = [held EXCEPT ![t] = None]
  /\ IF Waiting = {} \/ available # <<>>
     THEN pc' = [pc EXCEPT ![t] = "idle"]
     ELSE \E w \in Waiting : pc' = [pc EXCEPT ![t] = "idle", ![w] = "woken"]
  /\ UNCHANGED <<lock, all, numConn, open, clock, maintVars, exiting,
                 process, crashed>>

(* Mutant: put() keeps the list as a stack.                                *)
PutAtFront(t) ==
  /\ pc[t] = "using"
  /\ lock = None
  /\ available' = <<held[t]>> \o available
  /\ numAvail' = numAvail + 1
  /\ lastUsed' = [lastUsed EXCEPT ![held[t]] = clock]
  /\ held' = [held EXCEPT ![t] = None]
  /\ IF Waiting = {}
     THEN pc' = [pc EXCEPT ![t] = "idle"]
     ELSE \E w \in Waiting : pc' = [pc EXCEPT ![t] = "idle", ![w] = "woken"]
  /\ UNCHANGED <<lock, all, numConn, open, clock, maintVars, exiting,
                 process, crashed>>

(* put(): the connection becomes available and one waiter is signalled.    *)
Put(t) ==
  /\ pc[t] = "using"
  /\ lock = None
  /\ available' = Append(available, held[t])
  /\ numAvail' = numAvail + 1
  /\ lastUsed' = [lastUsed EXCEPT ![held[t]] = clock]
  /\ held' = [held EXCEPT ![t] = None]
  /\ IF Waiting = {}
     THEN pc' = [pc EXCEPT ![t] = "idle"]
     ELSE \E w \in Waiting : pc' = [pc EXCEPT ![t] = "idle", ![w] = "woken"]
  /\ UNCHANGED <<lock, all, numConn, open, clock, maintVars, exiting,
                 process, crashed>>

(* A failed accept ends the thread (external to the pool).                 *)
Exit(t) ==
  /\ pc[t] = "idle"
  /\ pc' = [pc EXCEPT ![t] = "exited"]
  /\ UNCHANGED <<lock, poolVars, open, lastUsed, held, clock, maintVars,
                 exiting, process, crashed>>

-----------------------------------------------------------------------------
(* The maintenance thread: maintenance_thread_func.                        *)

(* maintenance_lock is held by the thread from "scan" on, until it has     *)
(* copied the exiting flag.                                                *)
MaintenanceLocked == maint \in {"scan", "close", "check"}

MaintClock ==
  /\ maint = "clock"
  /\ now' = clock
  /\ maint' = "lock"
  /\ UNCHANGED <<lock, poolVars, open, lastUsed, pc, held, clock, victim,
                 exiting, process, crashed>>

MaintLock ==
  /\ maint = "lock"
  /\ maint' = "scan"
  /\ UNCHANGED <<lock, poolVars, open, lastUsed, pc, held, clock, now, victim,
                 exiting, process, crashed>>

(* Mutant: the same difference computed without a sign wraps around when   *)
(* the connection was used after the clock was read.                       *)
IdleTooLongUnsigned(c) ==
  now < lastUsed[c] \/ now >= lastUsed[c] + IdleLimit

(* (now - m_last_used) >= 60, on the signed time_t.                        *)
IdleTooLong(c) == now >= lastUsed[c] + IdleLimit

(* Mutant: the removed connection still counts against the limit.          *)
MaintReapKeepsNumConn ==
  /\ maint = "scan"
  /\ lock = None
  /\ \E i \in DOMAIN available :
       /\ IdleTooLong(available[i])
       /\ \A j \in 1 .. i - 1 : ~IdleTooLong(available[j])
       /\ victim' = available[i]
       /\ available' = RemoveAt(available, i)
  /\ numConn' = numConn
  /\ numAvail' = numAvail - 1
  /\ maint' = "close"
  /\ UNCHANGED <<lock, all, open, lastUsed, pc, held, clock, now, exiting,
                 process, crashed>>

(* Mutant: the removed connection still counts as available.               *)
MaintReapKeepsNumAvail ==
  /\ maint = "scan"
  /\ lock = None
  /\ \E i \in DOMAIN available :
       /\ IdleTooLong(available[i])
       /\ \A j \in 1 .. i - 1 : ~IdleTooLong(available[j])
       /\ victim' = available[i]
       /\ available' = RemoveAt(available, i)
  /\ numConn' = numConn - 1
  /\ numAvail' = numAvail
  /\ maint' = "close"
  /\ UNCHANGED <<lock, all, open, lastUsed, pc, held, clock, now, exiting,
                 process, crashed>>

(* Mutant: the connection is closed but not erased from the list.          *)
MaintReapKeepsEntry ==
  /\ maint = "scan"
  /\ lock = None
  /\ \E i \in DOMAIN available :
       /\ IdleTooLong(available[i])
       /\ \A j \in 1 .. i - 1 : ~IdleTooLong(available[j])
       /\ victim' = available[i]
       /\ available' = available
  /\ numConn' = numConn - 1
  /\ numAvail' = numAvail - 1
  /\ maint' = "close"
  /\ UNCHANGED <<lock, all, open, lastUsed, pc, held, clock, now, exiting,
                 process, crashed>>

(* The scan stops at the first connection that has been idle too long and  *)
(* takes it out of the pool, but leaves it in m_all_connections.           *)
MaintReap ==
  /\ maint = "scan"
  /\ lock = None
  /\ \E i \in DOMAIN available :
       /\ IdleTooLong(available[i])
       /\ \A j \in 1 .. i - 1 : ~IdleTooLong(available[j])
       /\ victim' = available[i]
       /\ available' = RemoveAt(available, i)
  /\ numConn' = numConn - 1
  /\ numAvail' = numAvail - 1
  /\ maint' = "close"
  /\ UNCHANGED <<lock, all, open, lastUsed, pc, held, clock, now, exiting,
                 process, crashed>>

(* Mutant: the counters are decremented whether or not one was found.      *)
MaintNothingIdleCounts ==
  /\ maint = "scan"
  /\ lock = None
  /\ \A i \in DOMAIN available : ~IdleTooLong(available[i])
  /\ numAvail' = numAvail - 1
  /\ maint' = "check"
  /\ UNCHANGED <<lock, all, available, numConn, open, lastUsed, pc, held, clock, now,
                 victim, exiting, process, crashed>>

MaintNothingIdle ==
  /\ maint = "scan"
  /\ lock = None
  /\ \A i \in DOMAIN available : ~IdleTooLong(available[i])
  /\ maint' = "check"
  /\ UNCHANGED <<lock, poolVars, open, lastUsed, pc, held, clock, now, victim,
                 exiting, process, crashed>>

(* to_remove goes out of scope after m_lock was released.                  *)
MaintClose ==
  /\ maint = "close"
  /\ open' = open \ {victim}
  /\ victim' = None
  /\ maint' = "check"
  /\ UNCHANGED <<lock, poolVars, lastUsed, pc, held, clock, now, exiting,
                 process, crashed>>

(* Mutant: the clock is read once, before the loop.                        *)
MaintCheckKeepsNow ==
  /\ maint = "check"
  /\ maint' = IF exiting THEN "done" ELSE "lock"
  /\ UNCHANGED <<lock, poolVars, open, lastUsed, pc, held, clock, now, victim,
                 exiting, process, crashed>>

(* The flag is copied, maintenance_lock released; one second later the     *)
(* loop goes on or the thread ends.                                        *)
MaintCheck ==
  /\ maint = "check"
  /\ maint' = IF exiting THEN "done" ELSE "clock"
  /\ UNCHANGED <<lock, poolVars, open, lastUsed, pc, held, clock, now, victim,
                 exiting, process, crashed>>

-----------------------------------------------------------------------------
(* The worker process: s.run() returns once every request thread has       *)
(* ended; join_maintenance_thread follows, and the pool is destroyed.      *)

(* Mutant: the thread is joined but never told to end.                     *)
JoinForgetsFlag ==
  /\ process = "serving"
  /\ \A t \in Threads : pc[t] = "exited"
  /\ ~MaintenanceLocked
  /\ process' = "joining"
  /\ UNCHANGED <<lock, poolVars, open, lastUsed, pc, held, clock, maintVars, exiting,
                 crashed>>

Join ==
  /\ process = "serving"
  /\ \A t \in Threads : pc[t] = "exited"
  /\ ~MaintenanceLocked
  /\ exiting' = TRUE
  /\ process' = "joining"
  /\ UNCHANGED <<lock, poolVars, open, lastUsed, pc, held, clock, maintVars, crashed>>

(* Every entry of m_all_connections is an object that exists, once.        *)
AllEntriesLive ==
  /\ \A i \in DOMAIN all : all[i] \in open
  /\ IsInjective(all)

(* ~DBPool deletes every entry of m_all_connections.  If one of them was   *)
(* deleted before, the second delete may or may not bring the process down.*)
Destroy ==
  /\ process = "joining"
  /\ maint = "done"
  /\ open' = open \ Range(all)
  /\ all' = <<>> /\ available' = <<>>
  /\ numConn' = 0 /\ numAvail' = 0
  /\ process' = "destroyed"
  /\ crashed' \in IF AllEntriesLive THEN {FALSE} ELSE BOOLEAN
  /\ UNCHANGED <<lock, lastUsed, pc, held, clock, maintVars, exiting>>

Tick ==
  /\ clock < MaxClock
  /\ clock' = clock + 1
  /\ UNCHANGED <<lock, poolVars, open, lastUsed, pc, held, maintVars,
                 exiting, process, crashed>>

-----------------------------------------------------------------------------
ThreadStep(t) ==
  \/ Call(t) \/ GrowStart(t) \/ GrowDone(t) \/ GrowFail(t)
  \/ GetAvailable(t) \/ GetWait(t)
  \/ WakeSpuriously(t) \/ GetWoken(t) \/ GetWokenEmpty(t)
  \/ Put(t) \/ Exit(t)

MaintStep ==
  \/ MaintClock \/ MaintLock \/ MaintReap \/ MaintNothingIdle
  \/ MaintClose \/ MaintCheck

ProcessStep == Join \/ Destroy

(* The thread whose connect failed has gone on without giving m_lock back. *)
LockLost == lock # None /\ pc[lock] # "connecting"

(* Nothing need run any more: the only states in which the system may stop.*)
Finished ==
  /\ crashed \/ process = "destroyed" \/ LockLost
  /\ UNCHANGED vars

Next ==
  \/ ~crashed /\ \E t \in Threads : ThreadStep(t)
  \/ ~crashed /\ MaintStep
  \/ ~crashed /\ ProcessStep
  \/ ~crashed /\ Tick
  \/ Finished

Spec == Init /\ [][Next]_vars

(* The scheduler: every thread keeps running and a thread that wants m_lock*)
(* again and again while it is free gets it at last; connecting takes      *)
(* finite time; a handler ends.  Nobody is obliged to make a request, to   *)
(* lose its accept, or to wake up without a signal.                        *)
Get(t) == GrowStart(t) \/ GetAvailable(t) \/ GetWait(t)
Woken(t) == GetWoken(t) \/ GetWokenEmpty(t)
Scan == MaintReap \/ MaintNothingIdle

Fairness ==
  /\ \A t \in Threads :
       /\ SF_vars(~crashed /\ Get(t))
       /\ SF_vars(~crashed /\ Woken(t))
       /\ SF_vars(~crashed /\ Put(t))
       /\ WF_vars(~crashed /\ (GrowDone(t) \/ GrowFail(t)))
  /\ WF_vars(~crashed /\ (MaintClock \/ MaintLock \/ MaintClose \/ MaintCheck))
  /\ SF_vars(~crashed /\ Scan)
  /\ SF_vars(~crashed /\ ProcessStep)
  /\ WF_vars(~crashed /\ Tick)

FairSpec == Spec /\ Fairness

-----------------------------------------------------------------------------
TypeOK ==
  /\ lock \in Threads \cup {None}
  /\ all \in Seq(Conns)
  /\ available \in Seq(Conns)
  /\ numConn \in Nat
  /\ numAvail \in Nat
  /\ open \in SUBSET Conns
  /\ lastUsed \in [Conns -> Nat]
  /\ pc \in [Threads -> ThreadState]
  /\ held \in [Threads -> Conns \cup {None}]
  /\ clock \in Nat
  /\ maint \in MaintState
  /\ now \in Nat
  /\ victim \in Conns \cup {None}
  /\ exiting \in BOOLEAN
  /\ process \in {"serving", "joining", "destroyed"}
  /\ crashed \in BOOLEAN

Holders == { t \in Threads : held[t] # None }
WokenThreads == { t \in Threads : pc[t] = "woken" }

(* A connection that is lent is lent to one thread; one that is available  *)
(* is there once and is not lent; both exist; and the one the maintenance  *)
(* thread is closing is neither.                                           *)
LeaseSafe ==
  /\ \A t \in Holders : /\ held[t] \in open
                        /\ held[t] \notin Range(available)
                        /\ held[t] # victim
  /\ \A t, u \in Holders : held[t] = held[u] => t = u
  /\ Range(available) \subseteq open
  /\ IsInjective(available)
  /\ victim \notin Range(available)

(* The two counters, kept apart from the lists, say what the lists say:    *)
(* get() tests the counter to decide whether to grow, and the list to      *)
(* decide whether to wait.                                                 *)
CountersAgree ==
  /\ numAvail = Len(available)
  /\ numConn = Len(available) + Cardinality(Holders)

(* The server sees at most one connection more than m_max_connections: the *)
(* one that left the pool and is being closed outside the lock.            *)
OpenWithinLimit ==
  /\ numConn <= MaxConn
  /\ Cardinality(open) = numConn + IF victim = None THEN 0 ELSE 1

(* No connection is forgotten: ~DBPool will find each that is still open.  *)
(* And as long as none has been removed for idleness (every removal leaves *)
(* one entry too many behind), it will find nothing else.                  *)
NothingLeaks ==
  /\ open \subseteq Range(all)
  /\ process = "destroyed" => open = {}
  /\ Len(all) = numConn => AllEntriesLive

(* put() at the back, get() at the front, and the time stamped by both:    *)
(* the list is in order of last use, so that the first connection the scan *)
(* finds idle too long is the one that has been idle longest.              *)
OldestFirst ==
  \A i, j \in DOMAIN available :
    i < j => lastUsed[available[i]] <= lastUsed[available[j]]

(* The maintenance thread reads the clock before it waits for two locks,   *)
(* and connections are used meanwhile: what it removes has nevertheless    *)
(* been idle for the limit.                                                *)
ReapsOnlyIdle ==
  victim # None => clock >= lastUsed[victim] + IdleLimit

(* No waiter is left behind: while somebody waits, every available         *)
(* connection has a woken thread on its way to it.                         *)
NoStrandedWaiter ==
  Waiting # {} => Len(available) <= Cardinality(WokenThreads)

(* With no more threads than connections allowed (5 and 40 in worker.cpp), *)
(* get() never waits, so the unguarded front() after the wait is not       *)
(* reached, whatever the maintenance thread removes in between.            *)
NeverWaits ==
  Cardinality(Threads) <= MaxConn =>
    \A t \in Threads : pc[t] \notin {"waiting", "woken"}

(* DBPool implements the abstract pool.                                    *)
Lease == INSTANCE ConnectionLease WITH lease <- held
LeaseSpec == Lease!Spec

(* Every get() that is called returns with a connection.                   *)
GetReturns == \A t \in Threads : pc[t] = "get" ~> pc[t] = "using"

(* A connection nobody uses is removed and closed in the end.              *)
IdleIsReaped ==
  \A c \in Conns, k \in 0 .. MaxClock - IdleLimit :
    LET Idle == c \in Range(available) /\ lastUsed[c] = k
    IN  Idle ~> (~Idle \/ exiting)

(* join_maintenance_thread comes back and the pool is destroyed.           *)
JoinReturns == process = "joining" ~> process = "destroyed"

(* What comments in the code say.                                          *)

(* db_pool.h:500 "Otherwise wait on queue and get existing connection":    *)
(* a thread that has waited finds a connection, it never pops an empty     *)
(* list.                                                                   *)
WaitEndsWithConnection == crashed => process = "destroyed"

(* db_pool.h:494 "If there is room to grow connections then do it".        *)
GrowsWhenRoom == \A t \in Threads : (pc[t] = "get" /\ Room) ~> pc[t] # "get"

(* db_pool.cpp:27 "Look for a connection that is idle for more than 5      *)
(* minutes"; the code compares with 60 seconds.                            *)
ReapedAfterFiveMinutes ==
  victim # None => clock >= lastUsed[victim] + 5 * IdleLimit

=============================================================================
