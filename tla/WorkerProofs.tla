---------------------------- MODULE WorkerProofs ----------------------------
(***************************************************************************)
(* Proofs about WorkerProcess: that the threads serve a request once and   *)
(* that nothing outlives what it uses, for any number of threads, any      *)
(* requests and any mappings.                                              *)
(***************************************************************************)
EXTENDS WorkerProcess, Induction, SequenceTheorems

(* The mutex and what a thread is doing; a request and who serves it.      *)
LockHeld ==
  \A t \in Threads : at[t] \in {"accept", "accepted", "failed"} => acceptLock = t

ServesOne ==
  /\ \A t \in Threads : serving[t] # None <=> at[t] \in {"accepted", "respond"}
  /\ \A t \in Threads : serving[t] # None => client[serving[t]] = "taken"
  /\ \A r \in Requests : client[r] = "taken" => \E t \in Threads : serving[t] = r
  /\ \A t, u \in Threads : serving[t] # None /\ serving[t] = serving[u] => t = u

(* Threads run while run() does, or until the process is told to quit; and *)
(* the server and the pool are there as long as worker_process needs them. *)
Order ==
  /\ \A t \in Threads : at[t] \notin {"unborn", "ended"} => /\ phase \in {"start", "join", "quit"}
                                                           /\ server = "alive" /\ pool = "alive"
  /\ phase = "pool" => pool = "none"
  /\ phase \in {"server", "permissions", "init", "start", "join", "shutdown", "maintenance", "unwind"}
       => pool = "alive"
  /\ phase \in {"permissions", "init", "start", "join", "shutdown"} => server = "alive"
  /\ phase = "unwind" => result = 1
  /\ phase \in {"leave", "returned"} => result = 1 \/ maint = "done"
  /\ pool = "destroyed" => phase \in {"leave", "returned", "quit"} /\ (result = 1 \/ maint = "done")

IInv == TypeOK /\ LockHeld /\ ServesOne /\ Order

-----------------------------------------------------------------------------
LEMMA InitIInv == Init => IInv
BY ServerAssumption
   DEF Init, ServerInit, IInv, TypeOK, LockHeld, ServesOne, Order, ThreadState, ClientState, Phase

(* The steps of worker_process itself.                                     *)
LEMMA PhaseKeepsServing ==
  ASSUME IInv, Running, PhaseStep
  PROVE  (LockHeld /\ ServesOne)'
<1>1. \A t \in Threads : at'[t] = at[t] \/ (at[t] = "unborn" /\ at'[t] = "lock")
  BY DEF IInv, TypeOK, PhaseStep, StartMaintenance, MakeServer, MakeServerFails, DropPermissions,
         OpenSocket, OpenSocketFails, RunStart, StartThread, RunJoin, Shutdown, TellMaintenance,
         JoinMaintenance, Unwind, DestroyPool, Return, serverVars
<1>2. UNCHANGED <<acceptLock, serving>>
  BY DEF PhaseStep, StartMaintenance, MakeServer, MakeServerFails, DropPermissions,
         OpenSocket, OpenSocketFails, RunStart, StartThread, RunJoin, Shutdown, TellMaintenance,
         JoinMaintenance, Unwind, DestroyPool, Return, serverVars
<1>3. \A r \in Requests : client'[r] = "taken" <=> client[r] = "taken"
  BY DEF IInv, TypeOK, PhaseStep, StartMaintenance, MakeServer, MakeServerFails, DropPermissions,
         OpenSocket, OpenSocketFails, RunStart, StartThread, RunJoin, Shutdown, TellMaintenance,
         JoinMaintenance, Unwind, DestroyPool, Return, serverVars
<1>4. LockHeld'
  BY <1>1, <1>2 DEF IInv, LockHeld
<1>5. ServesOne'
  BY <1>1, <1>2, <1>3 DEF IInv, TypeOK, ServesOne
<1> QED BY <1>4, <1>5

LEMMA PhaseKeepsOrder ==
  ASSUME IInv, Running, PhaseStep
  PROVE  (TypeOK /\ Order)'
<1> USE DEF IInv, TypeOK, Order, Phase, ThreadState, ClientState, serverVars
<1>1. CASE StartMaintenance
  BY <1>1 DEF StartMaintenance
<1>2. CASE MakeServer \/ MakeServerFails \/ DropPermissions
  BY <1>2 DEF MakeServer, MakeServerFails, DropPermissions
<1>3. CASE OpenSocket \/ OpenSocketFails
  BY <1>3 DEF OpenSocket, OpenSocketFails
<1>4. CASE \E t \in Threads : RunStart(t)
  BY <1>4 DEF RunStart, StartThread
<1>5. CASE RunJoin
  BY <1>5 DEF RunJoin
<1>6. CASE Shutdown
  BY <1>6 DEF Shutdown
<1>7. CASE TellMaintenance \/ JoinMaintenance
  BY <1>7 DEF TellMaintenance, JoinMaintenance
<1>8. CASE Unwind \/ DestroyPool \/ Return
  BY <1>8 DEF Unwind, DestroyPool, Return
<1> QED BY <1>1, <1>2, <1>3, <1>4, <1>5, <1>6, <1>7, <1>8 DEF PhaseStep

(* The steps of a thread of the server.                                    *)
LEMMA ThreadKeeps ==
  ASSUME IInv, Running, NEW t \in Threads, ServerStep(t)
  PROVE  IInv'
<1> USE DEF IInv, workerVars
<1>1. /\ at[t] \notin {"unborn", "ended"}
      /\ \A u \in Threads \ {t} : at'[u] = at[u] /\ serving'[u] = serving[u]
  BY DEF ServerStep, ThreadStep, TypeOK, LockAccept, Accept, AcceptFails, UnlockAccept, Respond
<1>2. Order'
  BY <1>1 DEF ServerStep, Order
<1>3. CASE LockAccept(t)
  BY <1>2, <1>3, ServerAssumption DEF LockAccept, ServerStep, TypeOK, LockHeld, ServesOne, ThreadState
<1>4. ASSUME NEW r \in Requests, Accept(t, r) PROVE IInv'
  <2>1. \A u \in Threads : serving[u] # r
    BY <1>4, ServerAssumption DEF Accept, ServesOne
  <2>2. TypeOK'
    BY <1>4 DEF Accept, ServerStep, TypeOK, ThreadState, ClientState
  <2>3. LockHeld'
    BY <1>4 DEF Accept, TypeOK, LockHeld
  <2>4. ServesOne'
    BY <1>4, <2>1, ServerAssumption DEF Accept, TypeOK, ServesOne
  <2> QED BY <1>2, <2>2, <2>3, <2>4
<1>5. CASE AcceptFails(t)
  BY <1>2, <1>5 DEF AcceptFails, ServerStep, TypeOK, LockHeld, ServesOne, ThreadState
<1>6. CASE UnlockAccept(t)
  BY <1>2, <1>6, ServerAssumption DEF UnlockAccept, ServerStep, TypeOK, LockHeld, ServesOne, ThreadState
<1>7. CASE Respond(t)
  <2>1. serving[t] \in Requests /\ client[serving[t]] = "taken"
    BY <1>7 DEF Respond, TypeOK, ServesOne
  <2>2. TypeOK'
    BY <1>7, <2>1 DEF Respond, ServerStep, TypeOK, ThreadState, ClientState
  <2>3. LockHeld'
    BY <1>7 DEF Respond, TypeOK, LockHeld
  <2>4. \A u \in Threads \ {t} : serving[u] # serving[t]
    BY <2>1, ServerAssumption DEF ServesOne
  <2>5. ServesOne'
    BY <1>7, <2>1, <2>4 DEF Respond, TypeOK, ServesOne
  <2> QED BY <1>2, <2>2, <2>3, <2>5
<1> QED BY <1>3, <1>4, <1>5, <1>6, <1>7 DEF ServerStep, ThreadStep

(* The maintenance thread, the signal and the world outside.               *)
LEMMA OthersKeep ==
  ASSUME IInv, Running, Scan \/ ScanEnds \/ Quit \/ Outside
  PROVE  IInv'
<1> USE DEF IInv, TypeOK, LockHeld, ServesOne, Order, Phase, ClientState, serverVars, workerVars
<1>1. CASE Scan \/ ScanEnds
  BY <1>1 DEF Scan, ScanEnds
<1>2. CASE Quit
  BY <1>2 DEF Quit, Running
<1>3. CASE SocketBreaks /\ UNCHANGED workerVars
  BY <1>3 DEF SocketBreaks
<1>4. ASSUME NEW r \in Requests, Connect(r), UNCHANGED workerVars PROVE IInv'
  BY <1>4 DEF Connect
<1> QED BY <1>1, <1>2, <1>3, <1>4 DEF Outside

LEMMA StepIInv == IInv /\ [Next]_vars => IInv'
<1> SUFFICES ASSUME IInv, [Next]_vars PROVE IInv'
  OBVIOUS
<1>1. CASE Running /\ PhaseStep
  BY <1>1, PhaseKeepsServing, PhaseKeepsOrder DEF IInv
<1>2. CASE Running /\ \E t \in Threads : ServerStep(t)
  BY <1>2, ThreadKeeps
<1>3. CASE Running /\ (Scan \/ ScanEnds \/ Quit \/ Outside)
  BY <1>3, OthersKeep
<1>4. CASE UNCHANGED vars
  BY <1>4 DEF IInv, TypeOK, LockHeld, ServesOne, Order, vars, serverVars, workerVars
<1> QED BY <1>1, <1>2, <1>3, <1>4 DEF Next

THEOREM Invariance == Spec => []IInv
BY InitIInv, StepIInv, PTL DEF Spec

-----------------------------------------------------------------------------
(* One thread at a time is in FCGX_Accept_r, and a request that was        *)
(* accepted is in the hands of one thread until it is answered             *)
(* (fcgi_server.cpp:93-124).                                               *)
THEOREM ServedByOne == Spec => []OneServes
<1>1. IInv => OneServes
  BY ServerAssumption DEF IInv, TypeOK, LockHeld, ServesOne, OneServes
<1> QED BY <1>1, Invariance, PTL

(* The server, its handlers and the pool are there as long as a thread uses*)
(* them, and the pool as long as the maintenance thread, but for the way   *)
(* out on which it is not joined (worker.cpp:70-110).                      *)
THEOREM UseWithinLife == Spec => []NothingOutlivesItsUse
<1>1. IInv => NothingOutlivesItsUse
  BY DEF IInv, Order, NothingOutlivesItsUse
<1> QED BY <1>1, Invariance, PTL

-----------------------------------------------------------------------------
(* Which handler is called.  A multimap keeps its locations by length, and *)
(* those of a length in the order of insertion: each has come from a       *)
(* mapping, and every mapping is there.                                    *)

Location == [uri : Seq(STRING), handler : Handlers]

Sorted ==
  { map \in Seq(Location) : \A i, j \in 1 .. Len(map) : i < j => Len(map[i].uri) <= Len(map[j].uri) }

LEMMA MappingsAre ==
  /\ Len(Mappings) \in Nat /\ DOMAIN Mappings = 1 .. Len(Mappings)
  /\ \A k \in 1 .. Len(Mappings) : Mappings[k] \in Location
<1>1. Mappings \in Seq([uri : Seq(STRING) \ {<<"=">>}, handler : Handlers])
  BY ServerAssumption
<1>2. \A k \in 1 .. Len(Mappings) : Mappings[k] \in [uri : Seq(STRING) \ {<<"=">>}, handler : Handlers]
  BY <1>1, ElementOfSeq
<1> QED BY <1>1, <1>2, LenProperties DEF Location

LEMMA LocationLen == \A m \in Location : Len(m.uri) \in Nat
BY LenProperties DEF Location

LEMMA Inserts ==
  ASSUME NEW map \in Sorted, NEW m \in Location
  PROVE  /\ InsertSorted(map, m) \in Seq(Location) /\ Len(InsertSorted(map, m)) = Len(map) + 1
         /\ \E n \in 0 .. Len(map) :
              /\ \A i \in 1 .. n : InsertSorted(map, m)[i] = map[i] /\ Len(map[i].uri) <= Len(m.uri)
              /\ InsertSorted(map, m)[n + 1] = m
              /\ \A i \in n + 2 .. Len(map) + 1 :
                   InsertSorted(map, m)[i] = map[i - 1] /\ Len(map[i - 1].uri) > Len(m.uri)
<1> DEFINE Splits(n) == \A i \in DOMAIN map : Len(map[i].uri) <= Len(m.uri) <=> i <= n
           b == CHOOSE n \in 0 .. Len(map) : Splits(n)
           long == { i \in 1 .. Len(map) : Len(map[i].uri) > Len(m.uri) }
<1>1. /\ Len(map) \in Nat /\ DOMAIN map = 1 .. Len(map) /\ map \in Seq(Location)
      /\ \A i \in 1 .. Len(map) : map[i] \in Location /\ Len(map[i].uri) \in Nat
      /\ Len(m.uri) \in Nat
  BY LenProperties, ElementOfSeq, LocationLen DEF Sorted
<1>2. \E n \in 0 .. Len(map) : Splits(n)
  <2>1. CASE long = {}
    <3>1. Len(map) \in 0 .. Len(map) /\ Splits(Len(map))
      BY <2>1, <1>1
    <3> QED BY <3>1
  <2>2. CASE long # {}
    <3>1. PICK x \in long : \A y \in long : x <= y
      <4> HIDE DEF long
      <4>1. long \in SUBSET Nat
        BY <1>1 DEF long
      <4> QED BY <4>1, <2>2, LeastElement
    <3>2. \A i \in 1 .. Len(map) : i > x => Len(map[i].uri) >= Len(map[x].uri)
      BY <3>1 DEF Sorted
    <3>3. x - 1 \in 0 .. Len(map) /\ Splits(x - 1)
      BY <1>1, <3>1, <3>2
    <3> QED BY <3>3
  <2> QED BY <2>1, <2>2
<1>3. b \in 0 .. Len(map) /\ Splits(b)
  BY <1>2
<1>4. InsertSorted(map, m) = SubSeq(map, 1, b) \o <<m>> \o SubSeq(map, b + 1, Len(map))
  <2>1. InsertSorted(map, m) = InsertAt(map, b + 1, m)
    BY DEF InsertSorted
  <2> HIDE DEF b
  <2>2. (b + 1) - 1 = b
    BY <1>3
  <2> QED BY <2>1, <2>2 DEF InsertAt
<1> HIDE DEF b
<1> DEFINE front == SubSeq(map, 1, b)  rest == SubSeq(map, b + 1, Len(map))
<1>5. /\ front \in Seq(Location) /\ Len(front) = b /\ \A i \in 1 .. b : front[i] = map[i]
      /\ rest \in Seq(Location) /\ Len(rest) = Len(map) - b
      /\ \A i \in 1 .. Len(map) - b : rest[i] = map[b + i]
  <2>1. /\ \A i \in 1 .. b : map[i] \in Location
        /\ \A i \in b + 1 .. Len(map) : map[i] \in Location
    BY <1>1, <1>3
  <2>2. /\ front \in Seq(Location) /\ Len(front) = b /\ \A i \in 1 .. b : front[i] = map[i]
    BY <1>1, <1>3, <2>1, SubSeqProperties
  <2>3. /\ rest \in Seq(Location) /\ Len(rest) = Len(map) - b
        /\ \A i \in 1 .. Len(map) - b : rest[i] = map[b + i]
    <3>1. /\ rest \in Seq(Location)
          /\ Len(rest) = IF b + 1 <= Len(map) THEN Len(map) - (b + 1) + 1 ELSE 0
          /\ \A i \in 1 .. Len(map) - (b + 1) + 1 : rest[i] = map[(b + 1) + i - 1]
      BY <1>1, <1>3, <2>1, SubSeqProperties
    <3>2. ASSUME NEW i \in 1 .. Len(map) - b PROVE rest[i] = map[b + i]
      <4>1. i \in 1 .. Len(map) - (b + 1) + 1 /\ (b + 1) + i - 1 = b + i
        BY <1>1, <1>3
      <4> QED BY <3>1, <4>1
    <3>3. Len(rest) = Len(map) - b
      <4> HIDE DEF rest
      <4>1. b \in Nat /\ b <= Len(map) /\ Len(map) \in Nat
        BY <1>1, <1>3
      <4> QED BY <3>1, <4>1
    <3> QED BY <3>1, <3>2, <3>3
  <2> QED BY <2>2, <2>3
<1> HIDE DEF front, rest
<1>6. /\ front \o <<m>> \in Seq(Location) /\ Len(front \o <<m>>) = b + 1
      /\ \A i \in 1 .. b : (front \o <<m>>)[i] = map[i]
      /\ (front \o <<m>>)[b + 1] = m
  BY <1>1, <1>3, <1>5, AppendProperties, AppendIsConcat
<1> DEFINE head == front \o <<m>>  new == head \o rest
<1>7. /\ new \in Seq(Location) /\ Len(new) = Len(map) + 1
      /\ \A i \in 1 .. b + 1 : new[i] = head[i]
      /\ \A i \in b + 2 .. Len(map) + 1 : new[i] = rest[i - (b + 1)]
  <2> HIDE DEF head
  <2>1. head \in Seq(Location) /\ Len(head) = b + 1
    BY <1>6 DEF head
  <2> QED BY <1>1, <1>3, <1>5, <2>1, ConcatProperties
<1>8. /\ \A i \in 1 .. b : new[i] = map[i]
      /\ new[b + 1] = m
      /\ \A i \in b + 2 .. Len(map) + 1 : new[i] = map[i - 1]
  <2>1. ASSUME NEW i \in b + 2 .. Len(map) + 1 PROVE rest[i - (b + 1)] = map[i - 1]
    <3>1. i - (b + 1) \in 1 .. Len(map) - b /\ b + (i - (b + 1)) = i - 1
      BY <1>1, <1>3
    <3> QED BY <1>5, <3>1
  <2> HIDE DEF new
  <2> QED BY <1>1, <1>3, <1>6, <1>7, <2>1
<1>9. InsertSorted(map, m) = new
  BY <1>4 DEF front, rest
<1> HIDE DEF new
<1>10. \A i \in b + 2 .. Len(map) + 1 : Len(map[i - 1].uri) > Len(m.uri)
  BY <1>1, <1>3
<1>11. \A i \in 1 .. b : Len(map[i].uri) <= Len(m.uri)
  BY <1>1, <1>3
<1>12. \E n \in 0 .. Len(map) :
         /\ \A i \in 1 .. n : new[i] = map[i] /\ Len(map[i].uri) <= Len(m.uri)
         /\ new[n + 1] = m
         /\ \A i \in n + 2 .. Len(map) + 1 : new[i] = map[i - 1] /\ Len(map[i - 1].uri) > Len(m.uri)
  BY <1>3, <1>8, <1>10, <1>11
<1> QED BY <1>7, <1>9, <1>12

LEMMA InsertsSorted ==
  ASSUME NEW map \in Sorted, NEW m \in Location
  PROVE  InsertSorted(map, m) \in Sorted
<1> DEFINE new == InsertSorted(map, m)  len == Len(map)
<1>1. /\ new \in Seq(Location) /\ Len(new) = len + 1
      /\ \E n \in 0 .. len :
           /\ \A i \in 1 .. n : new[i] = map[i] /\ Len(map[i].uri) <= Len(m.uri)
           /\ new[n + 1] = m
           /\ \A i \in n + 2 .. len + 1 : new[i] = map[i - 1] /\ Len(map[i - 1].uri) > Len(m.uri)
  BY Inserts
<1>2. /\ len \in Nat /\ Len(m.uri) \in Nat
      /\ \A i \in 1 .. len : Len(map[i].uri) \in Nat
      /\ \A i, j \in 1 .. len : i < j => Len(map[i].uri) <= Len(map[j].uri)
  BY LenProperties, ElementOfSeq, LocationLen DEF Sorted
<1> HIDE DEF new, len
<1>3. PICK n \in 0 .. len :
        /\ \A i \in 1 .. n : new[i] = map[i] /\ Len(map[i].uri) <= Len(m.uri)
        /\ new[n + 1] = m
        /\ \A i \in n + 2 .. len + 1 : new[i] = map[i - 1] /\ Len(map[i - 1].uri) > Len(m.uri)
  BY <1>1
<1>4. ASSUME NEW i \in 1 .. len + 1, NEW j \in 1 .. len + 1, i < j
      PROVE  Len(new[i].uri) <= Len(new[j].uri)
  <2>1. CASE j <= n
    <3>1. i \in 1 .. n /\ j \in 1 .. n /\ i \in 1 .. len /\ j \in 1 .. len
      BY <1>2, <1>3, <1>4, <2>1
    <3> QED BY <1>2, <1>3, <1>4, <3>1
  <2>2. CASE i <= n /\ j > n
    <3>1. i \in 1 .. n /\ i \in 1 .. len /\ Len(new[i].uri) <= Len(m.uri)
      BY <1>2, <1>3, <2>2
    <3>2. Len(new[i].uri) \in Nat
      BY <1>2, <1>3, <3>1
    <3>3. CASE j = n + 1
      BY <1>3, <3>1, <3>3
    <3>4. CASE j # n + 1
      <4>1. j \in n + 2 .. len + 1 /\ j - 1 \in 1 .. len
        BY <1>2, <1>3, <2>2, <3>4
      <4>2. Len(new[j].uri) > Len(m.uri) /\ Len(new[j].uri) \in Nat
        BY <1>2, <1>3, <4>1
      <4> QED BY <1>2, <3>1, <3>2, <4>2
    <3> QED BY <3>3, <3>4
  <2>3. CASE i > n
    <3>1. j \in n + 2 .. len + 1 /\ j - 1 \in 1 .. len /\ new[j] = map[j - 1]
          /\ Len(new[j].uri) > Len(m.uri) /\ Len(new[j].uri) \in Nat
      BY <1>2, <1>3, <1>4, <2>3
    <3>2. CASE i = n + 1
      BY <1>2, <1>3, <3>1, <3>2
    <3>3. CASE i # n + 1
      <4>1. i - 1 \in 1 .. len /\ i - 1 < j - 1 /\ new[i] = map[i - 1]
        BY <1>2, <1>3, <1>4, <2>3, <3>3
      <4> QED BY <1>2, <3>1, <4>1
    <3> QED BY <3>2, <3>3
  <2> QED BY <1>3, <2>1, <2>2, <2>3
<1> QED BY <1>1, <1>4 DEF Sorted, new, len

(* What has been mapped by the first k calls.                              *)
From(k, map, src) ==
  /\ map \in Seq(Location)
  /\ src \in [1 .. Len(map) -> 1 .. k]
  /\ \A i \in 1 .. Len(map) : map[i] = Mappings[src[i]]
  /\ \A i, j \in 1 .. Len(map) : i < j =>
       \/ Len(map[i].uri) < Len(map[j].uri)
       \/ Len(map[i].uri) = Len(map[j].uri) /\ src[i] < src[j]
  /\ \A q \in 1 .. k : \E i \in 1 .. Len(map) : src[i] = q

Mapped(k, map) == \E src : From(k, map, src)

LEMMA MappedOnce ==
  ASSUME NEW k \in 1 .. Len(Mappings), NEW map, Mapped(k - 1, map)
  PROVE  Mapped(k, InsertSorted(map, Mappings[k]))
<1> DEFINE m == Mappings[k]  new == InsertSorted(map, m)  len == Len(map)
<1>1. PICK src : From(k - 1, map, src)
  BY DEF Mapped
<1>2. m \in Location /\ k \in Nat /\ map \in Sorted /\ len \in Nat
  <2>1. \A i \in 1 .. Len(map) : Len(map[i].uri) \in Nat
    BY <1>1, ElementOfSeq, LocationLen DEF From
  <2> QED BY <1>1, <2>1, MappingsAre, LenProperties DEF From, Sorted
<1> HIDE DEF m
<1>3. /\ new \in Seq(Location) /\ Len(new) = len + 1
      /\ \E n \in 0 .. len :
           /\ \A i \in 1 .. n : new[i] = map[i] /\ Len(map[i].uri) <= Len(m.uri)
           /\ new[n + 1] = m
           /\ \A i \in n + 2 .. len + 1 : new[i] = map[i - 1] /\ Len(map[i - 1].uri) > Len(m.uri)
  BY <1>2, Inserts
<1> HIDE DEF new
<1>4. PICK n \in 0 .. len :
        /\ \A i \in 1 .. n : new[i] = map[i] /\ Len(map[i].uri) <= Len(m.uri)
        /\ new[n + 1] = m
        /\ \A i \in n + 2 .. len + 1 : new[i] = map[i - 1] /\ Len(map[i - 1].uri) > Len(m.uri)
  BY <1>3
<1> DEFINE to == [i \in 1 .. len + 1 |-> IF i <= n THEN src[i] ELSE IF i = n + 1 THEN k ELSE src[i - 1]]
<1>5. /\ src \in [1 .. len -> 1 .. k - 1]
      /\ \A i \in 1 .. len : map[i] = Mappings[src[i]]
      /\ \A i, j \in 1 .. len : i < j =>
           \/ Len(map[i].uri) < Len(map[j].uri)
           \/ Len(map[i].uri) = Len(map[j].uri) /\ src[i] < src[j]
      /\ \A q \in 1 .. k - 1 : \E i \in 1 .. len : src[i] = q
      /\ \A i \in 1 .. len : Len(map[i].uri) \in Nat
      /\ Len(m.uri) \in Nat
  BY <1>1, <1>2, ElementOfSeq, LocationLen DEF From
<1> HIDE DEF len
<1>ordered. \A i, j \in 1 .. len : i < j =>
              \/ Len(map[i].uri) < Len(map[j].uri)
              \/ Len(map[i].uri) = Len(map[j].uri) /\ src[i] < src[j]
  BY <1>5
(* Where each of the locations is now.                                     *)
<1>6. ASSUME NEW i \in 1 .. len + 1
      PROVE  \/ i \in 1 .. n /\ i \in 1 .. len /\ new[i] = map[i] /\ to[i] = src[i]
             \/ i = n + 1 /\ new[i] = m /\ to[i] = k
             \/ i \in n + 2 .. len + 1 /\ i - 1 \in n + 1 .. len /\ i - 1 \in 1 .. len
                /\ new[i] = map[i - 1] /\ to[i] = src[i - 1]
  BY <1>2, <1>4
<1>7. to \in [1 .. len + 1 -> 1 .. k]
  BY <1>2, <1>5
<1>8. \A i \in 1 .. len : i <= n \/ i + 1 \in n + 2 .. len + 1
  BY <1>2, <1>4
<1> HIDE DEF to
<1>9. \A i \in 1 .. len + 1 : new[i] = Mappings[to[i]]
  BY <1>5, <1>6 DEF m
<1>10. ASSUME NEW i \in 1 .. len + 1, NEW j \in 1 .. len + 1, i < j
       PROVE  \/ Len(new[i].uri) < Len(new[j].uri)
              \/ Len(new[i].uri) = Len(new[j].uri) /\ to[i] < to[j]
  <2>1. CASE i \in 1 .. n
    <3>1. CASE j \in 1 .. n
      <4>1. new[i] = map[i] /\ new[j] = map[j] /\ to[i] = src[i] /\ to[j] = src[j]
            /\ i \in 1 .. len /\ j \in 1 .. len
        BY <1>2, <1>4, <1>6, <2>1, <3>1
      <4> QED BY <1>ordered, <1>10, <4>1
    <3>2. CASE j = n + 1
      <4>1. new[i] = map[i] /\ new[j] = m /\ to[i] = src[i] /\ to[j] = k /\ i \in 1 .. len
        BY <1>2, <1>4, <1>6, <2>1, <3>2
      <4>2. src[i] < k /\ Len(map[i].uri) <= Len(m.uri)
        BY <1>2, <1>4, <1>5, <2>1, <4>1
      <4> QED BY <1>5, <4>1, <4>2
    <3>3. CASE j \in n + 2 .. len + 1
      <4>1. new[i] = map[i] /\ new[j] = map[j - 1] /\ to[i] = src[i] /\ to[j] = src[j - 1]
            /\ i \in 1 .. len /\ j - 1 \in 1 .. len /\ i < j - 1
        BY <1>2, <1>4, <1>6, <2>1, <3>3
      <4>2. PICK l \in 1 .. len : l = j - 1
        BY <4>1
      <4>3. \/ Len(map[i].uri) < Len(map[l].uri)
            \/ Len(map[i].uri) = Len(map[l].uri) /\ src[i] < src[l]
        BY <1>ordered, <4>1, <4>2
      <4> QED BY <4>1, <4>2, <4>3
    <3> QED BY <1>6, <3>1, <3>2, <3>3
  <2>2. CASE i = n + 1
    <3>1. j \in n + 2 .. len + 1
      BY <1>2, <1>4, <1>10, <2>2
    <3>2. new[i] = m /\ new[j] = map[j - 1] /\ Len(map[j - 1].uri) > Len(m.uri) /\ j - 1 \in 1 .. len
      BY <1>2, <1>4, <2>2, <3>1
    <3> QED BY <1>5, <3>2
  <2>3. CASE i \in n + 2 .. len + 1
    <3>1. j \in n + 2 .. len + 1
      BY <1>2, <1>4, <1>10, <2>3
    <3>2. new[i] = map[i - 1] /\ new[j] = map[j - 1] /\ to[i] = src[i - 1] /\ to[j] = src[j - 1]
          /\ i - 1 \in 1 .. len /\ j - 1 \in 1 .. len /\ i - 1 < j - 1
      BY <1>2, <1>4, <1>6, <1>10, <2>3, <3>1
    <3>3. PICK h \in 1 .. len, l \in 1 .. len : h = i - 1 /\ l = j - 1
      BY <3>2
    <3>4. \/ Len(map[h].uri) < Len(map[l].uri)
          \/ Len(map[h].uri) = Len(map[l].uri) /\ src[h] < src[l]
      BY <1>ordered, <3>2, <3>3
    <3> QED BY <3>2, <3>3, <3>4
  <2> QED BY <1>6, <2>1, <2>2, <2>3
<1>11. ASSUME NEW q \in 1 .. k PROVE \E i \in 1 .. len + 1 : to[i] = q
  <2>1. CASE q = k
    <3>1. n + 1 \in 1 .. len + 1 /\ to[n + 1] = k
      BY <1>2, <1>4 DEF to
    <3> QED BY <2>1, <3>1
  <2>2. CASE q # k
    <3>1. q \in 1 .. k - 1
      BY <1>2, <2>2
    <3>2. PICK i \in 1 .. len : src[i] = q
      BY <1>5, <3>1
    <3>3. CASE i <= n
      BY <1>2, <1>4, <3>2, <3>3 DEF to
    <3>4. CASE i > n
      <4>1. i + 1 \in 1 .. len + 1 /\ to[i + 1] = src[i]
        BY <1>2, <1>4, <3>4 DEF to
      <4> QED BY <3>2, <4>1
    <3> QED BY <1>4, <3>3, <3>4
  <2> QED BY <2>1, <2>2
<1>12. From(k, new, to)
  BY <1>3, <1>7, <1>9, <1>10, <1>11 DEF From
<1> QED BY <1>12 DEF Mapped, new, m

-----------------------------------------------------------------------------
(* worker.cpp:84-85 maps no location exactly.                              *)
NoneExact == \A i \in DOMAIN Mappings : ~IsExact(Mappings[i])

Built(maps) ==
  [i \in 0 .. Len(Mappings) |->
     IF i = 0 THEN [exact |-> <<>>, prefix |-> <<>>] ELSE add_handler_mapping(maps[i - 1], Mappings[i])]

LEMMA MappedOnes ==
  ASSUME NoneExact, NEW x \in [exact : {<<>>}, prefix : Sorted], NEW i \in 1 .. Len(Mappings)
  PROVE  /\ add_handler_mapping(x, Mappings[i]) = [exact |-> <<>>, prefix |-> InsertSorted(x.prefix, Mappings[i])]
         /\ add_handler_mapping(x, Mappings[i]) \in [exact : {<<>>}, prefix : Sorted]
<1>1. Mappings[i] \in Location /\ ~IsExact(Mappings[i])
  BY MappingsAre DEF NoneExact
<1>2. InsertSorted(x.prefix, Mappings[i]) \in Sorted
  BY <1>1, InsertsSorted
<1>3. add_handler_mapping(x, Mappings[i]) = [exact |-> <<>>, prefix |-> InsertSorted(x.prefix, Mappings[i])]
  BY <1>1 DEF add_handler_mapping
<1> QED BY <1>2, <1>3

LEMMA BuiltExists == ASSUME NoneExact PROVE \E maps : maps = Built(maps)
<1> DEFINE X == [exact : {<<>>}, prefix : Sorted]
           step == [i \in 1 .. Len(Mappings) |-> [x \in X |-> add_handler_mapping(x, Mappings[i])]]
           first == [exact |-> <<>>, prefix |-> <<>>]
<1>1. Len(Mappings) \in Nat
  BY MappingsAre
<1>2. step \in [1 .. Len(Mappings) -> [X -> X]]
  BY MappedOnes
<1>3. \A i \in 1 .. Len(Mappings), x \in X : step[i][x] = add_handler_mapping(x, Mappings[i])
  OBVIOUS
<1>4. first \in X
  <2>1. <<>> \in Seq(Location) /\ Len(<<>>) = 0
    OBVIOUS
  <2> QED BY <2>1 DEF Sorted
<1> HIDE DEF step, first, X
<1>5. PICK f \in [0 .. Len(Mappings) -> X] :
        f[0] = first /\ \A i \in 1 .. Len(Mappings) : f[i] = step[i][f[i - 1]]
  <2>1. \A n \in Nat : \A g \in [1 .. n -> [X -> X]] :
          \E f \in [0 .. n -> X] : f[0] = first /\ \A i \in 1 .. n : f[i] = g[i][f[i - 1]]
    BY <1>4, LoopExists
  <2> QED BY <1>1, <1>2, <2>1
<1>6. ASSUME NEW i \in 0 .. Len(Mappings)
      PROVE  f[i] = IF i = 0 THEN first ELSE add_handler_mapping(f[i - 1], Mappings[i])
  <2>1. CASE i # 0
    <3>1. i \in 1 .. Len(Mappings) /\ i - 1 \in 0 .. Len(Mappings)
      BY <1>1, <2>1
    <3>2. f[i - 1] \in X
      BY <1>5, <3>1
    <3> QED BY <1>3, <1>5, <2>1, <3>1, <3>2
  <2> QED BY <1>5, <2>1
<1>7. f = Built(f)
  BY <1>5, <1>6 DEF Built, first
<1> QED BY <1>7

LEMMA AllMapped ==
  ASSUME NoneExact
  PROVE  Locations.exact = <<>> /\ Mapped(Len(Mappings), Locations.prefix)
<1> DEFINE maps == CHOOSE b : b = Built(b)
           X == [exact : {<<>>}, prefix : Sorted]
           S == { k \in 0 .. Len(Mappings) : maps[k] \in X /\ Mapped(k, maps[k].prefix) }
<1>1. maps = Built(maps)
  BY BuiltExists
<1>2. Locations = maps[Len(Mappings)]
  BY DEF Locations, Built
<1> HIDE DEF maps
<1>3. Len(Mappings) \in Nat
  BY MappingsAre
<1>4. 0 \in S
  <2>1. maps[0] = [exact |-> <<>>, prefix |-> <<>>]
    BY <1>1, <1>3 DEF Built
  <2>2. <<>> \in Seq(Location) /\ Len(<<>>) = 0
    OBVIOUS
  <2>3. <<>> \in Sorted
    BY <2>2 DEF Sorted
  <2>4. From(0, <<>>, <<>>)
    BY <2>2 DEF From
  <2> QED BY <1>3, <2>1, <2>3, <2>4 DEF Mapped
<1>5. ASSUME NEW k \in 1 .. Len(Mappings), k - 1 \in S PROVE k \in S
  <2>1. maps[k] = add_handler_mapping(maps[k - 1], Mappings[k])
    BY <1>1, <1>3 DEF Built
  <2>2. maps[k - 1] \in X /\ Mapped(k - 1, maps[k - 1].prefix)
    BY <1>5
  <2>3. maps[k] \in X /\ maps[k].prefix = InsertSorted(maps[k - 1].prefix, Mappings[k])
    <3>1. /\ maps[k] = [exact |-> <<>>, prefix |-> InsertSorted(maps[k - 1].prefix, Mappings[k])]
          /\ maps[k] \in X
      BY <2>1, <2>2, MappedOnes
    <3> QED BY <3>1
  <2>4. Mapped(k, maps[k].prefix)
    BY <2>2, <2>3, MappedOnce
  <2> QED BY <1>3, <2>3, <2>4
<1>6. Len(Mappings) \in S
  <2> HIDE DEF S
  <2>1. 0 .. Len(Mappings) \subseteq S
    BY <1>3, <1>4, <1>5, BoundedInduction
  <2> QED BY <1>3, <2>1
<1> QED BY <1>2, <1>6

(* What the scan over the candidates leaves: the last with a location.     *)
Firing(map, candidates, fired) ==
  [i \in 0 .. Len(map) |->
     IF i = 0 THEN None ELSE IF i \in candidates THEN Fire(fired[i - 1], map[i]) ELSE fired[i - 1]]

Fires(map, candidates, i) == i \in candidates /\ Len(map[i].uri) > 0

LEMMA FiringExists ==
  ASSUME NEW map \in Seq(Location), NEW candidates
  PROVE  \E fired : fired = Firing(map, candidates, fired)
<1> DEFINE X == Handlers \cup {None}
           turn(i, h) == IF i \in candidates THEN Fire(h, map[i]) ELSE h
           step == [i \in 1 .. Len(map) |-> [h \in X |-> turn(i, h)]]
<1>1. Len(map) \in Nat /\ \A i \in 1 .. Len(map) : map[i].handler \in Handlers
  <2>1. \A i \in 1 .. Len(map) : map[i] \in Location
    BY ElementOfSeq
  <2> QED BY <2>1, LenProperties DEF Location
<1>2. step \in [1 .. Len(map) -> [X -> X]]
  BY <1>1 DEF Fire
<1>3. \A i \in 1 .. Len(map), h \in X : step[i][h] = turn(i, h)
  OBVIOUS
<1>4. None \in X
  OBVIOUS
<1> HIDE DEF step, X
<1>5. PICK f \in [0 .. Len(map) -> X] :
        f[0] = None /\ \A i \in 1 .. Len(map) : f[i] = step[i][f[i - 1]]
  <2>1. \A n \in Nat : \A g \in [1 .. n -> [X -> X]] :
          \E f \in [0 .. n -> X] : f[0] = None /\ \A i \in 1 .. n : f[i] = g[i][f[i - 1]]
    BY <1>4, LoopExists
  <2> QED BY <1>1, <1>2, <2>1
<1>6. ASSUME NEW i \in 0 .. Len(map)
      PROVE  f[i] = IF i = 0 THEN None ELSE turn(i, f[i - 1])
  <2>1. CASE i # 0
    <3>1. i \in 1 .. Len(map) /\ i - 1 \in 0 .. Len(map)
      BY <1>1, <2>1
    <3>2. f[i - 1] \in X
      BY <1>5, <3>1
    <3> HIDE DEF turn
    <3> QED BY <1>3, <1>5, <2>1, <3>1, <3>2
  <2> QED BY <1>5, <2>1
<1>7. f = Firing(map, candidates, f)
  BY <1>5, <1>6 DEF Firing
<1> QED BY <1>7

LEMMA LastOneFires ==
  ASSUME NEW map \in Seq(Location), NEW candidates
  PROVE  \/ LastFired(map, candidates) = None
         \/ \E i \in 1 .. Len(map) :
              /\ Fires(map, candidates, i) /\ LastFired(map, candidates) = map[i].handler
              /\ \A j \in 1 .. Len(map) : j > i => ~Fires(map, candidates, j)
<1> DEFINE fired == CHOOSE f : f = Firing(map, candidates, f)
           FiredLast(n, i) == /\ Fires(map, candidates, i) /\ fired[n] = map[i].handler
                              /\ \A j \in 1 .. n : j > i => ~Fires(map, candidates, j)
           S == { n \in 0 .. Len(map) : fired[n] = None \/ \E i \in 1 .. n : FiredLast(n, i) }
<1>1. fired = Firing(map, candidates, fired)
  BY FiringExists
<1>2. LastFired(map, candidates) = fired[Len(map)]
  BY DEF LastFired, Firing
<1> HIDE DEF fired
<1>3. Len(map) \in Nat /\ \A i \in 1 .. Len(map) : Len(map[i].uri) \in Nat
  BY LenProperties, ElementOfSeq, LocationLen
<1>4. 0 \in S
  BY <1>1, <1>3 DEF Firing
<1>5. ASSUME NEW n \in 1 .. Len(map), n - 1 \in S PROVE n \in S
  <2>1. fired[n] = IF Fires(map, candidates, n) THEN map[n].handler ELSE fired[n - 1]
    BY <1>1, <1>3 DEF Firing, Fires, Fire
  <2>2. CASE Fires(map, candidates, n)
    <3>1. FiredLast(n, n)
      BY <2>1, <2>2
    <3> QED BY <3>1, <1>3
  <2>3. CASE ~Fires(map, candidates, n) /\ fired[n - 1] = None
    BY <2>1, <2>3
  <2>4. CASE ~Fires(map, candidates, n) /\ \E i \in 1 .. n - 1 : FiredLast(n - 1, i)
    <3>1. PICK i \in 1 .. n - 1 : FiredLast(n - 1, i)
      BY <2>4
    <3>2. \A j \in 1 .. n : j \in 1 .. n - 1 \/ j = n
      OBVIOUS
    <3>3. FiredLast(n, i) /\ i \in 1 .. n
      BY <2>1, <2>4, <3>1, <3>2
    <3> QED BY <3>3
  <2> QED BY <1>5, <2>2, <2>3, <2>4
<1>6. Len(map) \in S
  <2> HIDE DEF S
  <2>1. 0 .. Len(map) \subseteq S
    BY <1>3, <1>4, <1>5, BoundedInduction
  <2> QED BY <1>3, <2>1
<1> QED BY <1>2, <1>6

(* The handler invoke_handler calls is that of the longest prefix.         *)
LEMMA BestFires ==
  ASSUME NoneExact, NEW uri, HandlerFor(uri) # None
  PROVE  \E i \in DOMAIN Mappings : Best(i, uri) /\ Mappings[i].handler = HandlerFor(uri)
<1> DEFINE map == Locations.prefix
           found == { i \in DOMAIN map : IsPrefix(map[i].uri, uri) }
           n == Len(Mappings)
<1>1. Locations.exact = <<>> /\ Mapped(n, map)
  BY AllMapped
<1>2. PICK src : From(n, map, src)
  BY <1>1 DEF Mapped
<1>3. LastFired(Locations.exact, { i \in DOMAIN Locations.exact : Locations.exact[i].uri = uri }) = None
  <2>1. <<>> \in Seq(Location) /\ Len(<<>>) = 0
    OBVIOUS
  <2>2. \A c : LastFired(<<>>, c) = None
    <3> TAKE c
    <3>1. 1 .. Len(<<>>) = {}
      BY <2>1
    <3> QED BY <2>1, <3>1, LastOneFires
  <2> QED BY <1>1, <2>2
<1>4. HandlerFor(uri) = LastFired(map, found)
  BY <1>3 DEF HandlerFor
<1> HIDE DEF map
<1>5. /\ map \in Seq(Location) /\ Len(map) \in Nat /\ DOMAIN map = 1 .. Len(map)
      /\ \A i \in 1 .. Len(map) : map[i] \in Location /\ Len(map[i].uri) \in Nat
  BY <1>2, LenProperties, ElementOfSeq, LocationLen DEF From
<1>6. PICK i \in 1 .. Len(map) :
        /\ Fires(map, found, i) /\ LastFired(map, found) = map[i].handler
        /\ \A j \in 1 .. Len(map) : j > i => ~Fires(map, found, j)
  <2> HIDE DEF found
  <2> QED BY <1>4, <1>5, LastOneFires
<1>7. \A j \in 1 .. Len(map) : Fires(map, found, j) <=> Matches(src[j], uri)
  <2> TAKE j \in 1 .. Len(map)
  <2>1. map[j] = Mappings[src[j]] /\ map[j].uri \in Seq(STRING)
    BY <1>2, <1>5 DEF From, Location
  <2>2. Len(map[j].uri) > 0 <=> map[j].uri # <<>>
    BY <1>5, <2>1, EmptySeq
  <2> QED BY <1>5, <2>1, <2>2 DEF Fires, Matches
<1> HIDE DEF found
<1>8. /\ \A j \in 1 .. Len(map) : map[j] = Mappings[src[j]] /\ src[j] \in 1 .. n
      /\ \A j, k \in 1 .. Len(map) : j < k =>
           \/ Len(map[j].uri) < Len(map[k].uri)
           \/ Len(map[j].uri) = Len(map[k].uri) /\ src[j] < src[k]
      /\ \A q \in 1 .. n : \E j \in 1 .. Len(map) : src[j] = q
  BY <1>2 DEF From
<1>9. DOMAIN Mappings = 1 .. n /\ n \in Nat
  BY MappingsAre
<1> HIDE DEF n
<1>10. ASSUME NEW q \in 1 .. n, Matches(q, uri)
       PROVE  \/ Len(Mappings[q].uri) < Len(Mappings[src[i]].uri)
              \/ Len(Mappings[q].uri) = Len(Mappings[src[i]].uri) /\ q <= src[i]
  <2>1. PICK j \in 1 .. Len(map) : src[j] = q
    BY <1>8
  <2>2. j <= i
    BY <1>5, <1>6, <1>7, <1>10, <2>1
  <2>3. CASE j = i
    BY <1>8, <1>9, <2>1, <2>3
  <2>4. CASE j < i
    <3>1. map[j] = Mappings[q] /\ map[i] = Mappings[src[i]] /\ src[i] \in Nat /\ q \in Nat
      BY <1>8, <1>9, <2>1
    <3>2. \/ Len(map[j].uri) < Len(map[i].uri)
          \/ Len(map[j].uri) = Len(map[i].uri) /\ src[j] < src[i]
      BY <1>8, <2>4
    <3> QED BY <2>1, <3>1, <3>2
  <2> QED BY <1>5, <2>2, <2>3, <2>4
<1>11. Best(src[i], uri)
  BY <1>6, <1>7, <1>9, <1>10 DEF Best
<1> QED BY <1>4, <1>6, <1>8, <1>9, <1>11

Replies ==
  /\ reply \in [Requests -> Seq(Handlers \cup {"404", "500"})]
  /\ RightHandler

LEMMA RespondReplies ==
  ASSUME NoneExact, IInv, Replies, NEW t \in Threads, Respond(t)
  PROVE  Replies'
<1> DEFINE r == serving[t]  said == reply[r]
<1>1. r \in Requests
  BY ServerAssumption DEF IInv, TypeOK, ServesOne, Respond
<1>2. PICK w \in Written(UriOf[r]) : reply' = [reply EXCEPT ![r] = @ \o w]
  BY DEF Respond
<1> DEFINE Said(v, h) == /\ v \in Seq(Handlers \cup {"404", "500"})
                         /\ \A k \in 1 .. Len(v) : v[k] \in Handlers => v[k] = h
<1>3. "404" \notin Handlers /\ "500" \notin Handlers
  BY ServerAssumption
<1>4. \A h : Said(<<"500">>, h)
  BY <1>3
<1>5. ASSUME NEW h \in Handlers, NEW v \in {<<>>, <<h>>, <<h, h>>, <<"500">>, <<h, "500">>}
      PROVE  Said(v, h)
  <2>1. Said(<<>>, h)
    OBVIOUS
  <2>2. Said(<<h>>, h)
    OBVIOUS
  <2>3. Said(<<h, h>>, h)
    OBVIOUS
  <2>4. Said(<<h, "500">>, h)
    BY <1>3
  <2> HIDE DEF Said
  <2> QED BY <1>4, <2>1, <2>2, <2>3, <2>4
<1>6. /\ w \in Seq(Handlers \cup {"404", "500"})
      /\ \A k \in 1 .. Len(w) : w[k] \in Handlers =>
           \E i \in DOMAIN Mappings : Best(i, UriOf[r]) /\ Mappings[i].handler = w[k]
  <2>1. CASE UriOf[r] = NoScript
    <3>1. w = <<"500">>
      BY <1>2, <2>1 DEF Written
    <3>2. /\ <<"500">> \in Seq(Handlers \cup {"404", "500"})
          /\ \A k \in 1 .. Len(<<"500">>) : <<"500">>[k] \notin Handlers
      BY <1>3
    <3> QED BY <3>1, <3>2
  <2>2. CASE UriOf[r] # NoScript /\ HandlerFor(UriOf[r]) = None
    <3>1. w = <<"404">>
      BY <1>2, <2>2 DEF Written
    <3>2. /\ <<"404">> \in Seq(Handlers \cup {"404", "500"})
          /\ \A k \in 1 .. Len(<<"404">>) : <<"404">>[k] \notin Handlers
      BY <1>3
    <3> QED BY <3>1, <3>2
  <2>3. CASE UriOf[r] # NoScript /\ HandlerFor(UriOf[r]) # None
    <3>1. PICK i \in DOMAIN Mappings : Best(i, UriOf[r]) /\ Mappings[i].handler = HandlerFor(UriOf[r])
      BY <2>3, BestFires
    <3>2. HandlerFor(UriOf[r]) \in Handlers
      BY <3>1, MappingsAre DEF Location
    <3> DEFINE h == HandlerFor(UriOf[r])
    <3>3. w \in {<<>>, <<h>>, <<h, h>>, <<"500">>, <<h, "500">>}
      BY <1>2, <2>3 DEF Written
    <3> HIDE DEF h
    <3>4. h \in Handlers
      BY <3>2 DEF h
    <3>5. Said(w, h)
      <4> HIDE DEF Said
      <4> QED BY <1>5, <3>3, <3>4
    <3> QED BY <3>1, <3>5 DEF h
  <2> QED BY <2>1, <2>2, <2>3
<1>7. said \in Seq(Handlers \cup {"404", "500"}) /\ Len(said) \in Nat /\ DOMAIN said = 1 .. Len(said)
  BY <1>1, LenProperties DEF Replies
<1>8. /\ said \o w \in Seq(Handlers \cup {"404", "500"})
      /\ Len(w) \in Nat /\ Len(said \o w) = Len(said) + Len(w)
      /\ DOMAIN (said \o w) = 1 .. Len(said) + Len(w)
      /\ \A k \in 1 .. Len(said) + Len(w) :
           (said \o w)[k] = IF k <= Len(said) THEN said[k] ELSE w[k - Len(said)]
  BY <1>6, <1>7, ConcatProperties, LenProperties
<1>9. /\ reply'[r] = said \o w
      /\ \A q \in Requests : q # r => reply'[q] = reply[q]
      /\ reply' \in [Requests -> Seq(Handlers \cup {"404", "500"})]
  BY <1>1, <1>2, <1>8 DEF Replies
<1> HIDE DEF said
<1>10. ASSUME NEW k \in DOMAIN (said \o w), (said \o w)[k] \in Handlers
      PROVE  \E i \in DOMAIN Mappings : Best(i, UriOf[r]) /\ Mappings[i].handler = (said \o w)[k]
  <2>1. CASE k <= Len(said)
    <3>1. k \in DOMAIN said /\ (said \o w)[k] = said[k]
      BY <1>7, <1>8, <2>1
    <3> QED BY <1>1, <1>10, <3>1 DEF Replies, RightHandler, said
  <2>2. CASE k > Len(said)
    <3>1. k - Len(said) \in 1 .. Len(w) /\ (said \o w)[k] = w[k - Len(said)]
      BY <1>7, <1>8, <2>2
    <3> QED BY <1>6, <1>10, <3>1
  <2> QED BY <1>7, <1>8, <2>1, <2>2
<1>11. \A i, uri : Best(i, uri)' <=> Best(i, uri)
  BY DEF Best, Matches
<1>12. RightHandler'
  <2> SUFFICES ASSUME NEW q \in Requests, NEW k \in DOMAIN reply'[q], reply'[q][k] \in Handlers
               PROVE  \E i \in DOMAIN Mappings : Best(i, UriOf[q]) /\ Mappings[i].handler = reply'[q][k]
    BY DEF RightHandler, Best, Matches
  <2>1. CASE q = r
    BY <1>9, <1>10, <2>1
  <2>2. CASE q # r
    BY <1>9, <2>2 DEF Replies, RightHandler
  <2> QED BY <2>1, <2>2
<1> QED BY <1>9, <1>12 DEF Replies

(* A request is answered by the handler of the longest location that is a  *)
(* prefix of its own, the one mapped last of those, whatever is mapped, as *)
(* long as nothing is mapped exactly (fcgi_server.cpp:150-206).            *)
THEOREM RightOneAnswers == NoneExact => (Spec => []RightHandler)
<1> SUFFICES ASSUME NoneExact PROVE Spec => []RightHandler
  OBVIOUS
<1>1. Init => Replies
  BY DEF Init, ServerInit, Replies, RightHandler
<1>2. IInv /\ Replies /\ [Next]_vars => Replies'
  <2> SUFFICES ASSUME IInv, Replies, [Next]_vars PROVE Replies'
    OBVIOUS
  <2>1. CASE \E t \in Threads : Respond(t)
    BY <2>1, RespondReplies
  <2>2. CASE reply' = reply
    BY <2>2 DEF Replies, RightHandler, Best, Matches
  <2>3. reply' = reply \/ \E t \in Threads : Respond(t)
    BY DEF Next, PhaseStep, ServerStep, ThreadStep, Outside, StartMaintenance, MakeServer,
           MakeServerFails, DropPermissions, OpenSocket, OpenSocketFails, RunStart, StartThread,
           RunJoin, Shutdown, TellMaintenance, JoinMaintenance, Unwind, DestroyPool, Return, Quit,
           Scan, ScanEnds, Connect, SocketBreaks, LockAccept, Accept, AcceptFails, UnlockAccept,
           vars, serverVars, workerVars
  <2> QED BY <2>1, <2>2, <2>3
<1>3. Replies => RightHandler
  BY DEF Replies
<1> QED BY <1>1, <1>2, <1>3, Invariance, PTL DEF Spec

=============================================================================
