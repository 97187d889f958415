------------------------- MODULE MainProcessProofs -------------------------
(***************************************************************************)
(* Proofs about MainProcess: the parent's book-keeping, for any functions, *)
(* any numbers of workers and any process ids.                             *)
(***************************************************************************)
EXTENDS MainProcess, FiniteSetTheorems, TLAPS

(* spawn() never counts past the minimum, whatever Reap has failed to      *)
(* count down.                                                             *)
CountsBounded == \A f \in Fns : count[f] <= MinWorkers[f]

(* The branch that signals the workers is the last that leads to spawn().  *)
SignalledForGood == signalled => exiting /\ pc # "spawn"

(* The counts need their upper bound for NeverTooMany, their lower bound to*)
(* stay natural numbers, and the children's ids to have a lower bound.     *)
IInv ==
  /\ TypeOK
  /\ KnowsItsChildren
  /\ CountsCover
  /\ CountsBounded
  /\ SignalledForGood
  /\ LeavesNobodyBehind

-----------------------------------------------------------------------------
(* What the two changes to m_workers do to the workers of a function.      *)

LEMMA WorkersFinite ==
  ASSUME TypeOK, NEW f \in Fns
  PROVE  IsFiniteSet(WorkersOf(f)) /\ Cardinality(WorkersOf(f)) \in Nat
BY SupervisorAssumption, FS_Subset, FS_CardinalityType DEF TypeOK, WorkersOf

LEMMA SpawnWorkers ==
  ASSUME NEW f \in Fns, NEW p \in Pids, NEW g \in Fns, p \notin DOMAIN workers,
         workers' = [q \in DOMAIN workers \cup {p} |-> IF q = p THEN f ELSE workers[q]]
  PROVE  WorkersOf(g)' = IF g = f THEN WorkersOf(g) \cup {p} ELSE WorkersOf(g)
<1>1. DOMAIN workers' = DOMAIN workers \cup {p}
  OBVIOUS
<1>2. workers'[p] = f
  OBVIOUS
<1>3. \A q \in DOMAIN workers : workers'[q] = workers[q]
  OBVIOUS
<1> QED BY <1>1, <1>2, <1>3, Zenon DEF WorkersOf

LEMMA ReapWorkers ==
  ASSUME NEW p \in DOMAIN workers, NEW g \in Fns,
         workers' = Restrict(workers, DOMAIN workers \ {p})
  PROVE  WorkersOf(g)' = IF workers[p] = g THEN WorkersOf(g) \ {p} ELSE WorkersOf(g)
<1>1. DOMAIN workers' = DOMAIN workers \ {p}
  BY DEF Restrict
<1>2. \A q \in DOMAIN workers' : workers'[q] = workers[q]
  BY <1>1 DEF Restrict
<1> QED BY <1>1, <1>2 DEF WorkersOf

-----------------------------------------------------------------------------
LEMMA InitIInv == Init => IInv
<1> SUFFICES ASSUME Init PROVE IInv
  OBVIOUS
<1>1. DOMAIN workers = {} /\ Children = {}
  BY DEF Init, Children
<1>2. TypeOK
  BY <1>1, SupervisorAssumption DEF Init, TypeOK, RunState, ChildState
<1>3. CountsCover
  <2> SUFFICES ASSUME NEW f \in Fns PROVE count[f] = 0 /\ Cardinality(WorkersOf(f)) = 0
    BY DEF CountsCover
  <2>1. WorkersOf(f) = {}
    BY <1>1 DEF WorkersOf
  <2> QED BY <2>1, FS_EmptySet DEF Init
<1>4. CountsBounded
  BY SupervisorAssumption DEF Init, CountsBounded
<1> QED BY <1>1, <1>2, <1>3, <1>4
        DEF IInv, KnowsItsChildren, Init, SignalledForGood, LeavesNobodyBehind

(* A worker is forked.                                                     *)
LEMMA SpawnOneStep ==
  ASSUME IInv, NEW f \in Fns, NEW p \in Pids, SpawnOne(f, p)
  PROVE  IInv'
<1> USE DEF IInv
<1>1. p \notin DOMAIN workers
  BY DEF SpawnOne, KnowsItsChildren, Children
<1>2. DOMAIN workers' = DOMAIN workers \cup {p}
  BY DEF SpawnOne
<1>3. Children' = Children \cup {p}
  BY DEF SpawnOne, Children, TypeOK
<1>4. TypeOK'
  <2>1. \A q \in DOMAIN workers' : workers'[q] \in Fns
    BY <1>2 DEF SpawnOne, TypeOK
  <2>2. count' \in [Fns -> Nat]
    BY DEF SpawnOne, TypeOK
  <2>3. child' \in [Pids -> ChildState]
    BY DEF SpawnOne, TypeOK, ChildState
  <2> QED BY <1>2, <2>1, <2>2, <2>3 DEF SpawnOne, TypeOK
<1>5. CountsCover'
  <2> SUFFICES ASSUME NEW g \in Fns
               PROVE  /\ count'[g] >= Cardinality(WorkersOf(g)')
                      /\ kept => count'[g] = Cardinality(WorkersOf(g)')
    BY DEF CountsCover, SpawnOne
  <2>1. WorkersOf(g)' = IF g = f THEN WorkersOf(g) \cup {p} ELSE WorkersOf(g)
    BY <1>1, SpawnWorkers DEF SpawnOne
  <2>2. /\ IsFiniteSet(WorkersOf(g)) /\ Cardinality(WorkersOf(g)) \in Nat
        /\ p \notin WorkersOf(g)
    BY <1>1, WorkersFinite DEF WorkersOf
  <2>3. Cardinality(WorkersOf(g)') = Cardinality(WorkersOf(g)) + IF g = f THEN 1 ELSE 0
    BY <2>1, <2>2, FS_AddElement
  <2>4. count'[g] = count[g] + IF g = f THEN 1 ELSE 0
    BY DEF SpawnOne, TypeOK
  <2>5. count[g] \in Nat
    BY DEF TypeOK
  <2> QED BY <2>2, <2>3, <2>4, <2>5 DEF CountsCover
<1>6. CountsBounded'
  <2> SUFFICES ASSUME NEW g \in Fns PROVE count'[g] <= MinWorkers[g]
    BY DEF CountsBounded
  <2>1. count[g] \in Nat /\ MinWorkers[g] \in Nat /\ count[g] <= MinWorkers[g]
    BY SupervisorAssumption DEF TypeOK, CountsBounded
  <2>2. count'[g] = IF g = f THEN count[g] + 1 ELSE count[g]
    BY DEF SpawnOne, TypeOK
  <2> QED BY <2>1, <2>2 DEF SpawnOne
<1> QED BY <1>2, <1>3, <1>4, <1>5, <1>6
        DEF SpawnOne, KnowsItsChildren, SignalledForGood, LeavesNobodyBehind

(* A child is waited for.                                                  *)
LEMMA ReapStep ==
  ASSUME IInv, NEW p \in Pids, Reap(p)
  PROVE  IInv'
<1> USE DEF IInv
<1>1. p \in DOMAIN workers
  BY DEF Reap, KnowsItsChildren, Children
<1>2. /\ workers' = Restrict(workers, DOMAIN workers \ {p})
      /\ \/ count' = [count EXCEPT ![workers[p]] = @ - 1]
         \/ ~kept /\ count' = count
  BY <1>1 DEF Reap
<1>3. /\ DOMAIN workers' = DOMAIN workers \ {p}
      /\ \A q \in DOMAIN workers' : workers'[q] = workers[q]
  BY <1>2 DEF Restrict
<1>4. Children' = Children \ {p}
  BY DEF Reap, Children, TypeOK
<1>5. \A g \in Fns : WorkersOf(g)' = IF workers[p] = g THEN WorkersOf(g) \ {p} ELSE WorkersOf(g)
  BY <1>1, <1>2, ReapWorkers
<1>6. \A g \in Fns : /\ IsFiniteSet(WorkersOf(g)) /\ Cardinality(WorkersOf(g)) \in Nat
                     /\ workers[p] = g => p \in WorkersOf(g)
  BY <1>1, WorkersFinite DEF WorkersOf
<1>7. ASSUME NEW g \in Fns
      PROVE  /\ Cardinality(WorkersOf(g)') = Cardinality(WorkersOf(g)) - IF workers[p] = g THEN 1 ELSE 0
             /\ workers[p] = g => Cardinality(WorkersOf(g)) > 0
  <2>1. CASE workers[p] = g
    <3>1. Cardinality(WorkersOf(g) \ {p}) = Cardinality(WorkersOf(g)) - 1
      BY <2>1, <1>6, FS_RemoveElement
    <3>2. Cardinality(WorkersOf(g)) # 0
      BY <2>1, <1>6, FS_EmptySet
    <3> QED BY <2>1, <3>1, <3>2, <1>5, <1>6
  <2>2. CASE workers[p] # g
    BY <2>2, <1>5, <1>6
  <2> QED BY <2>1, <2>2
<1>8. workers[p] \in Fns
  BY <1>1 DEF TypeOK
<1>9. ASSUME NEW g \in Fns
      PROVE  /\ count[g] \in Nat
             /\ \/ count'[g] = count[g] - IF workers[p] = g THEN 1 ELSE 0
                \/ ~kept /\ count'[g] = count[g]
  BY <1>2, <1>8 DEF TypeOK
<1>10. CountsCover'
  <2> SUFFICES ASSUME NEW g \in Fns
               PROVE  /\ count'[g] >= Cardinality(WorkersOf(g)')
                      /\ kept => count'[g] = Cardinality(WorkersOf(g)')
    BY DEF CountsCover, Reap
  <2>1. /\ count[g] >= Cardinality(WorkersOf(g))
        /\ kept => count[g] = Cardinality(WorkersOf(g))
    BY DEF CountsCover
  <2> QED BY <2>1, <1>6, <1>7, <1>9
<1>11. TypeOK'
  <2>1. count' \in [Fns -> Nat]
    <3>1. DOMAIN count' = Fns /\ count' = [g \in Fns |-> count'[g]]
      BY <1>2 DEF TypeOK
    <3>2. \A g \in Fns : count'[g] \in Nat
      BY <1>6, <1>7, <1>9 DEF CountsCover
    <3> QED BY <3>1, <3>2
  <2>2. \A q \in DOMAIN workers' : workers'[q] \in Fns
    BY <1>3 DEF TypeOK
  <2>3. child' \in [Pids -> ChildState] /\ pc' \in RunState
    BY DEF Reap, TypeOK, ChildState, RunState
  <2> QED BY <1>3, <2>1, <2>2, <2>3 DEF Reap, TypeOK
<1>12. CountsBounded'
  BY <1>9, SupervisorAssumption DEF CountsBounded
<1> QED BY <1>3, <1>4, <1>10, <1>11, <1>12
        DEF Reap, KnowsItsChildren, SignalledForGood, LeavesNobodyBehind

(* A child changes its state, and stays a child.                           *)
LEMMA ChildStepStep ==
  ASSUME IInv, NEW p \in Pids, ChildStep(p)
  PROVE  IInv' /\ Children' = Children
<1> USE DEF ChildStep, ChildReady, ChildDies, ChildQuits
<1>1. Children' = Children
  BY DEF IInv, TypeOK, Children
<1>2. TypeOK'
  BY DEF IInv, TypeOK, ChildState
<1> QED BY <1>1, <1>2
        DEF IInv, KnowsItsChildren, CountsCover, CountsBounded, SignalledForGood,
            LeavesNobodyBehind, WorkersOf

(* The steps that leave the workers, the counts and the children's ids     *)
(* alone.                                                                  *)
LEMMA OtherSteps ==
  ASSUME IInv,
         SpawnFails \/ SpawnDone \/ Block \/ NoChild \/ Check \/ Signal \/ UNCHANGED vars
  PROVE  IInv' /\ Children' = Children
<1> USE DEF SpawnFails, SpawnDone, Block, NoChild, Check, Signal, vars
<1>1. Children' = Children
  BY DEF Quitting, IInv, TypeOK, Children
<1>2. workers' = workers /\ count' = count /\ kept' = kept
  OBVIOUS
<1>3. child' \in [Pids -> ChildState]
  BY DEF Quitting, IInv, TypeOK, ChildState
<1>4. TypeOK'
  BY <1>2, <1>3 DEF IInv, TypeOK, RunState
<1>5. SignalledForGood'
  BY DEF IInv, SignalledForGood
<1>6. LeavesNobodyBehind'
  BY <1>1 DEF IInv, LeavesNobodyBehind, KnowsItsChildren
<1> QED BY <1>1, <1>2, <1>4, <1>5, <1>6
        DEF IInv, KnowsItsChildren, CountsCover, CountsBounded, WorkersOf

LEMMA NextIInv == IInv /\ [Next]_vars => IInv'
<1> SUFFICES ASSUME IInv, [Next]_vars PROVE IInv'
  OBVIOUS
<1>1. CASE \E f \in Fns, p \in Pids : SpawnOne(f, p)
  BY <1>1, SpawnOneStep
<1>2. CASE \E p \in Pids : Reap(p)
  BY <1>2, ReapStep
<1>3. CASE \E p \in Pids : ChildStep(p)
  BY <1>3, ChildStepStep
<1>4. CASE SpawnFails \/ SpawnDone \/ Block \/ NoChild \/ Check \/ Signal \/ UNCHANGED vars
  BY <1>4, OtherSteps
<1> QED BY <1>1, <1>2, <1>3, <1>4 DEF Next, MainStep, Finished

(* main.cpp:52-139: the inductive invariant of run() and spawn().          *)
THEOREM Invariance == Spec => []IInv
BY InitIInv, NextIInv, PTL DEF Spec

-----------------------------------------------------------------------------
(* The state of the parent stays in its types: no count of workers is ever *)
(* decremented below zero (main.cpp:80).                                   *)
THEOREM TypeCorrect == Spec => []TypeOK
<1>1. IInv => TypeOK
  BY DEF IInv
<1> QED BY <1>1, Invariance, PTL

(* m_workers holds the processes that have not been waited for, those and  *)
(* no others (main.cpp:79, 133).                                           *)
THEOREM ChildrenKnown == Spec => []KnowsItsChildren
<1>1. IInv => KnowsItsChildren
  BY DEF IInv
<1> QED BY <1>1, Invariance, PTL

(* The counts cover the workers, whatever is read after erase()            *)
(* (main.cpp:79-80).                                                       *)
THEOREM CountsHold == Spec => []CountsCover
<1>1. IInv => CountsCover
  BY DEF IInv
<1> QED BY <1>1, Invariance, PTL

(* No function has more workers than it is to have (main.cpp:124).         *)
THEOREM NumberKept == Spec => []NeverTooMany
<1>1. ASSUME IInv PROVE NeverTooMany
  <2> SUFFICES ASSUME NEW f \in Fns
               PROVE  Cardinality(Children \cap WorkersOf(f)) <= MinWorkers[f]
    BY DEF NeverTooMany
  <2>1. Children \cap WorkersOf(f) = WorkersOf(f)
    BY <1>1 DEF IInv, KnowsItsChildren, WorkersOf
  <2>2. Cardinality(WorkersOf(f)) \in Nat
    BY <1>1, WorkersFinite DEF IInv
  <2>3. count[f] \in Nat /\ MinWorkers[f] \in Nat
    BY <1>1, SupervisorAssumption DEF IInv, TypeOK
  <2> QED BY <1>1, <2>1, <2>2, <2>3 DEF IInv, CountsCover, CountsBounded
<1> QED BY <1>1, Invariance, PTL

(* The parent ends only when every child has been waited for               *)
(* (main.cpp:96).                                                          *)
THEOREM NobodyLeft == Spec => []LeavesNobodyBehind
<1>1. IInv => LeavesNobodyBehind
  BY DEF IInv
<1> QED BY <1>1, Invariance, PTL

(* After the signals have been sent no worker is started (main.cpp:89-102).*)
THEOREM NobodyStarted == Spec => NoSpawnOnceSignalled
<1>1. ASSUME IInv, [Next]_vars, signalled PROVE Children' \subseteq Children
  <2>1. CASE \E f \in Fns, p \in Pids : SpawnOne(f, p)
    BY <2>1, <1>1 DEF IInv, SignalledForGood, SpawnOne
  <2>2. CASE \E p \in Pids : Reap(p)
    BY <2>2, <1>1 DEF IInv, TypeOK, Reap, Children
  <2>3. CASE \E p \in Pids : ChildStep(p)
    BY <2>3, <1>1, ChildStepStep
  <2>4. CASE SpawnFails \/ SpawnDone \/ Block \/ NoChild \/ Check \/ Signal \/ UNCHANGED vars
    BY <2>4, <1>1, OtherSteps
  <2> QED BY <1>1, <2>1, <2>2, <2>3, <2>4 DEF Next, MainStep, Finished
<1>2. IInv /\ [Next]_vars => [signalled => Children' \subseteq Children]_vars
  BY <1>1
<1> QED BY <1>2, Invariance, PTL DEF Spec, NoSpawnOnceSignalled

=============================================================================
