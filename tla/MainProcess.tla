---------------------------- MODULE MainProcess ----------------------------
(***************************************************************************)
(* The process that keeps the workers alive: class MainProcess of          *)
(* src/src/server/main.h and main.cpp, with the processes it forks and the *)
(* signals it is sent, from the moment its handlers are installed.         *)
(*                                                                         *)
(* A step of the parent ends wherever a signal or the death of a child can *)
(* make a difference: at each fork, at waitpid, and at the test of         *)
(* m_exiting.                                                              *)
(***************************************************************************)
EXTENDS Naturals, FiniteSets, Functions

CONSTANTS
  Fns,             \* worker functions, the keys of m_functions
  MinWorkers,      \* how many workers each is to have
  Pids             \* process ids

ASSUME SupervisorAssumption ==
  /\ IsFiniteSet(Pids)
  /\ IsFiniteSet(Fns)
  /\ MinWorkers \in [Fns -> Nat]

VARIABLES
  pc,         \* where run() is
  exiting,    \* m_exiting
  signalled,  \* the local variable signalled
  workers,    \* m_workers: pid -> worker function
  count,      \* m_functions[f].first
  child,      \* what each process id stands for
  kept,       \* does a map node keep its contents right after erase()?
  mayFail     \* may fork() return -1?

vars == <<pc, exiting, signalled, workers, count, child, kept, mayFail>>

RunState   == {"spawn", "call", "blocked", "check", "done"}
ChildState == {"none", "starting", "running", "quitting", "zombie"}

Init ==
  /\ pc = "spawn"
  /\ exiting = FALSE
  /\ signalled = FALSE
  /\ workers = <<>>
  /\ count = [f \in Fns |-> 0]
  /\ child = [p \in Pids |-> "none"]
  /\ kept \in BOOLEAN
  /\ mayFail \in BOOLEAN

Children == { p \in Pids : child[p] # "none" }
Zombies  == { p \in Pids : child[p] = "zombie" }

-----------------------------------------------------------------------------
(* spawn(): forks until every function has its number of workers.  The map *)
(* is ordered by the functions' addresses, which can be any order.         *)

(* Mutant: <= instead of <.                                                *)
SpawnOneTooMany(f, p) ==
  /\ pc = "spawn"
  /\ count[f] <= MinWorkers[f]
  /\ child[p] = "none"
  /\ child' = [child EXCEPT ![p] = "starting"]
  /\ workers' = [q \in DOMAIN workers \cup {p} |-> IF q = p THEN f ELSE workers[q]]
  /\ count' = [count EXCEPT ![f] = @ + 1]
  /\ UNCHANGED <<pc, exiting, signalled, kept, mayFail>>

SpawnOne(f, p) ==
  /\ pc = "spawn"
  /\ count[f] < MinWorkers[f]
  /\ child[p] = "none"
  /\ child' = [child EXCEPT ![p] = "starting"]
  /\ workers' = [q \in DOMAIN workers \cup {p} |-> IF q = p THEN f ELSE workers[q]]
  /\ count' = [count EXCEPT ![f] = @ + 1]
  /\ UNCHANGED <<pc, exiting, signalled, kept, mayFail>>

(* fork() fails: spawn() returns, the rest is not even tried.              *)
SpawnFails ==
  /\ mayFail
  /\ pc = "spawn"
  /\ \E f \in Fns : count[f] < MinWorkers[f]
  /\ pc' = "call"
  /\ UNCHANGED <<exiting, signalled, workers, count, child, kept, mayFail>>

(* Mutant: spawn() returns as soon as one function has its workers.        *)
SpawnDoneEarly ==
  /\ pc = "spawn"
  /\ \E f \in Fns : count[f] >= MinWorkers[f]
  /\ pc' = "call"
  /\ UNCHANGED <<exiting, signalled, workers, count, child, kept, mayFail>>

SpawnDone ==
  /\ pc = "spawn"
  /\ \A f \in Fns : count[f] >= MinWorkers[f]
  /\ pc' = "call"
  /\ UNCHANGED <<exiting, signalled, workers, count, child, kept, mayFail>>

-----------------------------------------------------------------------------
(* waitpid(-1, &status, 0).                                                *)

Block ==
  /\ pc = "call"
  /\ Children # {} /\ Zombies = {}
  /\ pc' = "blocked"
  /\ UNCHANGED <<exiting, signalled, workers, count, child, kept, mayFail>>

(* ECHILD.                                                                 *)
NoChild ==
  /\ pc = "call"
  /\ Children = {}
  /\ pc' = "check"
  /\ UNCHANGED <<exiting, signalled, workers, count, child, kept, mayFail>>

(* Mutant: the entry is looked up but not erased.                          *)
ReapKeepsEntry(p) ==
  /\ pc \in {"call", "blocked"}
  /\ child[p] = "zombie"
  /\ child' = [child EXCEPT ![p] = "none"]
  /\ IF p \in DOMAIN workers
     THEN count' = [count EXCEPT ![workers[p]] = @ - 1]
     ELSE UNCHANGED count
  /\ pc' = "check"
  /\ UNCHANGED <<exiting, signalled, workers, kept, mayFail>>

(* Mutant: the worker is erased but still counted.                         *)
ReapKeepsCount(p) ==
  /\ pc \in {"call", "blocked"}
  /\ child[p] = "zombie"
  /\ child' = [child EXCEPT ![p] = "none"]
  /\ workers' = Restrict(workers, DOMAIN workers \ {p})
  /\ pc' = "check"
  /\ UNCHANGED <<exiting, signalled, count, kept, mayFail>>

(* Mutant: every function loses a worker.                                  *)
ReapUncountsAll(p) ==
  /\ pc \in {"call", "blocked"}
  /\ child[p] = "zombie"
  /\ child' = [child EXCEPT ![p] = "none"]
  /\ workers' = Restrict(workers, DOMAIN workers \ {p})
  /\ count' = [f \in Fns |-> count[f] - 1]
  /\ pc' = "check"
  /\ UNCHANGED <<exiting, signalled, kept, mayFail>>

(* A child has ended.  The entry is erased first and its function read     *)
(* after (main.cpp:79-80): if the freed node has kept its contents the     *)
(* right count goes down, otherwise that of a key nobody spawns for.       *)
Reap(p) ==
  /\ pc \in {"call", "blocked"}
  /\ child[p] = "zombie"
  /\ child' = [child EXCEPT ![p] = "none"]
  /\ IF p \in DOMAIN workers
     THEN /\ workers' = Restrict(workers, DOMAIN workers \ {p})
          /\ \/ count' = [count EXCEPT ![workers[p]] = @ - 1]
             \/ ~kept /\ UNCHANGED count
     ELSE UNCHANGED <<workers, count>>
  /\ pc' = "check"
  /\ UNCHANGED <<exiting, signalled, kept, mayFail>>

-----------------------------------------------------------------------------
(* SIGQUIT, SIGINT or SIGTERM arrives at the parent, at any time: the flag *)
(* is set, and a waitpid that is already blocked returns with EINTR.       *)
Signal ==
  /\ pc # "done"
  /\ exiting' = TRUE
  /\ pc' = IF pc = "blocked" THEN "check" ELSE pc
  /\ UNCHANGED <<signalled, workers, count, child, kept, mayFail>>

(* What kill(p, SIGQUIT) does.  A child that has not installed its own     *)
(* handler yet runs the parent's, which sets a flag nobody reads there.    *)
Quitting(S) ==
  [p \in Pids |-> IF p \in S /\ child[p] = "running" THEN "quitting" ELSE child[p]]

(* Mutant: only one worker is told.                                        *)
CheckTellsOne ==
  /\ pc = "check"
  /\ IF exiting
     THEN /\ signalled' = TRUE
          /\ IF signalled \/ DOMAIN workers = {}
             THEN UNCHANGED child
             ELSE \E p \in DOMAIN workers : child' = Quitting({p})
          /\ pc' = IF DOMAIN workers = {} THEN "done" ELSE "call"
     ELSE /\ pc' = "spawn"
          /\ UNCHANGED <<signalled, child>>
  /\ UNCHANGED <<exiting, workers, count, kept, mayFail>>

(* Mutant: the branch that respawns is taken again after the signalling.   *)
CheckRespawns ==
  /\ pc = "check"
  /\ IF exiting /\ ~signalled
     THEN /\ signalled' = TRUE
          /\ child' = Quitting(DOMAIN workers)
          /\ pc' = IF DOMAIN workers = {} THEN "done" ELSE "call"
     ELSE /\ pc' = "spawn"
          /\ UNCHANGED <<signalled, child>>
  /\ UNCHANGED <<exiting, workers, count, kept, mayFail>>

(* The end of the loop's body: tell the workers to quit, once, and leave   *)
(* when there are none; or replace those that have ended.                  *)
Check ==
  /\ pc = "check"
  /\ IF exiting
     THEN /\ signalled' = TRUE
          /\ child' = IF signalled THEN child ELSE Quitting(DOMAIN workers)
          /\ pc' = IF DOMAIN workers = {} THEN "done" ELSE "call"
     ELSE /\ pc' = "spawn"
          /\ UNCHANGED <<signalled, child>>
  /\ UNCHANGED <<exiting, workers, count, kept, mayFail>>

-----------------------------------------------------------------------------
(* The children, as far as the parent can tell: worker_process installs a  *)
(* SIGQUIT handler first (worker.cpp:65-68), which exits.                  *)

ChildReady(p) ==
  /\ child[p] = "starting"
  /\ child' = [child EXCEPT ![p] = "running"]
  /\ UNCHANGED <<pc, exiting, signalled, workers, count, kept, mayFail>>

(* It returns, throws, crashes or is killed by somebody else.              *)
ChildDies(p) ==
  /\ child[p] \in {"starting", "running"}
  /\ child' = [child EXCEPT ![p] = "zombie"]
  /\ UNCHANGED <<pc, exiting, signalled, workers, count, kept, mayFail>>

ChildQuits(p) ==
  /\ child[p] = "quitting"
  /\ child' = [child EXCEPT ![p] = "zombie"]
  /\ UNCHANGED <<pc, exiting, signalled, workers, count, kept, mayFail>>

-----------------------------------------------------------------------------
MainStep ==
  \/ \E f \in Fns, p \in Pids : SpawnOne(f, p)
  \/ SpawnFails \/ SpawnDone
  \/ Block \/ NoChild
  \/ \E p \in Pids : Reap(p)
  \/ Check

ChildStep(p) == ChildReady(p) \/ ChildDies(p) \/ ChildQuits(p)

Finished == pc = "done" /\ UNCHANGED vars

Next ==
  \/ MainStep
  \/ Signal
  \/ \E p \in Pids : ChildStep(p)
  \/ Finished

Spec == Init /\ [][Next]_vars

(* The parent runs; a child gets to install its handler and ends once it   *)
(* is told to; a fork that is tried again and again succeeds at last.      *)
Fairness ==
  /\ WF_vars(MainStep)
  /\ SF_vars(\E f \in Fns, p \in Pids : SpawnOne(f, p))
  /\ \A p \in Pids : WF_vars(ChildReady(p)) /\ WF_vars(ChildQuits(p))

FairSpec == Spec /\ Fairness

-----------------------------------------------------------------------------
WorkersOf(f) == { p \in DOMAIN workers : workers[p] = f }

TypeOK ==
  /\ pc \in RunState
  /\ exiting \in BOOLEAN
  /\ signalled \in BOOLEAN
  /\ DOMAIN workers \in SUBSET Pids
  /\ \A p \in DOMAIN workers : workers[p] \in Fns
  /\ count \in [Fns -> Nat]
  /\ child \in [Pids -> ChildState]
  /\ kept \in BOOLEAN
  /\ mayFail \in BOOLEAN

(* m_workers is the set of the children that have not been waited for.  A  *)
(* process id that stayed in it after waitpid could be another process by  *)
(* the time SIGQUIT is sent; a child missing from it would never be told.  *)
KnowsItsChildren == DOMAIN workers = Children

(* The count spawn() compares with the minimum is never below the number   *)
(* of workers there are, whatever the read after erase() finds; and equal  *)
(* to it when the freed node has kept its contents.                        *)
CountsCover ==
  \A f \in Fns :
    /\ count[f] >= Cardinality(WorkersOf(f))
    /\ kept => count[f] = Cardinality(WorkersOf(f))

(* However many deaths, forks and failures there have been, no function    *)
(* ever has more processes than it is to have.                             *)
NeverTooMany ==
  \A f \in Fns : Cardinality(Children \cap WorkersOf(f)) <= MinWorkers[f]

(* The parent leaves no worker behind (main.cpp:96; part of StopCompletes).*)
LeavesNobodyBehind == pc = "done" => Children = {}

(* Once the workers have been told to quit no other is started, so nobody  *)
(* misses the one SIGQUIT for being too young to be in the list.           *)
NoSpawnOnceSignalled == [][signalled => Children' \subseteq Children]_vars

(* Whatever dies and however many forks fail, the parent is never left for *)
(* ever without a worker.  (After a fork that failed it waits for the      *)
(* children it has, however few: main.cpp:127-129.)                        *)
NeverAlone == []<>(exiting \/ ~kept \/ Children # {})

(* Where no fork fails, whatever dies is replaced (main.cpp:123-139): all  *)
(* functions are back at their numbers of processes, at the same time,     *)
(* again and again.                                                        *)
(* (Processes that have ended and have not been waited for are counted:    *)
(* nobody can keep a child from dying before spawn() has returned.)        *)
FullNumber(f) == Cardinality(Children \cap WorkersOf(f)) = MinWorkers[f]

Respawns == []<>(exiting \/ ~kept \/ mayFail \/ \A f \in Fns : FullNumber(f))

(* If every child has its handler when the parent acts on the signal, the  *)
(* parent ends, and leaves no child behind.  (One that is still starting   *)
(* misses the only SIGQUIT it is sent, and the parent waits for it for as  *)
(* long as it serves.)                                                     *)
StopCompletes ==
  (/\ pc = "check" /\ exiting /\ ~signalled
   /\ \A p \in Pids : child[p] # "starting") ~> pc = "done" /\ Children = {}

=============================================================================
