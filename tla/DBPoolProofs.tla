---------------------------- MODULE DBPoolProofs ----------------------------
(***************************************************************************)
(* Theorems about DBPool, for any number of threads and connections, any   *)
(* limits, with connections that fail and spurious wakeups or without.     *)
(***************************************************************************)
EXTENDS DBPool, FiniteSetTheorems, SequenceTheorems, TLAPS

-----------------------------------------------------------------------------
(* Lemmas about lists: what push_back, pop_front and erase do to the set   *)
(* of entries of a list without duplicates.                                *)

(* The entries of a list are the values at its positions.                  *)
LEMMA RangeMember ==
  ASSUME NEW S, NEW s \in Seq(S), NEW e
  PROVE  e \in Range(s) <=> \E i \in 1 .. Len(s) : s[i] = e
BY LenProperties DEF Range

(* push_back of a new entry.                                               *)
LEMMA PushBack ==
  ASSUME NEW S, NEW s \in Seq(S), NEW e \in S, e \notin Range(s)
  PROVE  /\ Append(s, e) \in Seq(S)
         /\ Len(Append(s, e)) = Len(s) + 1
         /\ Range(Append(s, e)) = Range(s) \cup {e}
         /\ IsInjective(s) => IsInjective(Append(s, e))
<1> DEFINE a == Append(s, e)
<1>1. /\ a \in Seq(S) /\ Len(a) = Len(s) + 1 /\ Len(s) \in Nat
      /\ DOMAIN a = 1 .. Len(s) + 1 /\ DOMAIN s = 1 .. Len(s)
      /\ \A i \in 1 .. Len(s) : a[i] = s[i]
      /\ a[Len(s) + 1] = e
  BY AppendProperties, LenProperties
<1>2. Range(a) = Range(s) \cup {e}
  <2>1. Range(a) \subseteq Range(s) \cup {e}
    BY <1>1 DEF Range
  <2>2. Range(s) \subseteq Range(a)
    BY <1>1 DEF Range
  <2>3. e \in Range(a)
    BY <1>1 DEF Range
  <2> QED BY <2>1, <2>2, <2>3
<1>3. IsInjective(s) => IsInjective(a)
  <2> SUFFICES ASSUME IsInjective(s), NEW i \in 1 .. Len(s) + 1,
                      NEW j \in 1 .. Len(s) + 1, a[i] = a[j]
               PROVE  i = j
    BY <1>1 DEF IsInjective
  <2>1. CASE i \in 1 .. Len(s) /\ j \in 1 .. Len(s)
    BY <2>1, <1>1 DEF IsInjective
  <2>2. CASE i = Len(s) + 1 /\ j \in 1 .. Len(s)
    BY <2>2, <1>1 DEF Range
  <2>3. CASE j = Len(s) + 1 /\ i \in 1 .. Len(s)
    BY <2>3, <1>1 DEF Range
  <2> QED BY <1>1, <2>1, <2>2, <2>3
<1> QED BY <1>1, <1>2, <1>3

(* pop_front.                                                              *)
LEMMA PopFront ==
  ASSUME NEW S, NEW s \in Seq(S), s # <<>>
  PROVE  /\ Head(s) \in S /\ Head(s) \in Range(s) /\ Head(s) = s[1]
         /\ Tail(s) \in Seq(S)
         /\ Len(s) \in Nat \ {0}
         /\ Len(Tail(s)) = Len(s) - 1
         /\ \A i \in 1 .. Len(s) - 1 : Tail(s)[i] = s[i + 1]
         /\ IsInjective(s) => /\ IsInjective(Tail(s))
                              /\ Range(Tail(s)) = Range(s) \ {Head(s)}
<1> DEFINE a == Tail(s)
<1>1. /\ Head(s) \in S /\ Head(s) = s[1] /\ a \in Seq(S) /\ Len(a) = Len(s) - 1
      /\ Len(s) \in Nat \ {0}
      /\ DOMAIN a = 1 .. Len(s) - 1 /\ DOMAIN s = 1 .. Len(s)
      /\ \A i \in 1 .. Len(s) - 1 : a[i] = s[i + 1]
  BY HeadTailProperties, LenProperties, EmptySeq
<1>2. Head(s) \in Range(s)
  BY <1>1 DEF Range
<1>3. ASSUME IsInjective(s)
      PROVE  IsInjective(a) /\ Range(a) = Range(s) \ {Head(s)}
  <2>1. IsInjective(a)
    <3> SUFFICES ASSUME NEW i \in 1 .. Len(s) - 1, NEW j \in 1 .. Len(s) - 1, a[i] = a[j]
                 PROVE  i = j
      BY <1>1 DEF IsInjective
    <3>1. i + 1 \in DOMAIN s /\ j + 1 \in DOMAIN s /\ s[i + 1] = s[j + 1]
      BY <1>1
    <3>2. i + 1 = j + 1
      BY <3>1, <1>3 DEF IsInjective
    <3> QED BY <3>2
  <2>2. Range(a) \subseteq Range(s) \ {Head(s)}
    <3> SUFFICES ASSUME NEW i \in 1 .. Len(s) - 1
                 PROVE  a[i] \in Range(s) /\ a[i] # Head(s)
      BY <1>1 DEF Range
    <3>1. a[i] = s[i + 1] /\ i + 1 \in DOMAIN s /\ 1 \in DOMAIN s /\ i + 1 # 1
      BY <1>1
    <3> QED BY <3>1, <1>1, <1>3 DEF Range, IsInjective
  <2>3. Range(s) \ {Head(s)} \subseteq Range(a)
    <3> SUFFICES ASSUME NEW i \in 1 .. Len(s), s[i] # Head(s)
                 PROVE  s[i] \in Range(a)
      BY <1>1 DEF Range
    <3>1. i - 1 \in 1 .. Len(s) - 1 /\ a[i - 1] = s[i - 1 + 1] /\ i - 1 + 1 = i
      BY <1>1
    <3> QED BY <3>1, <1>1 DEF Range
  <2> QED BY <2>1, <2>2, <2>3
<1> QED BY <1>1, <1>2, <1>3

(* erase of one entry.                                                     *)
LEMMA Erase ==
  ASSUME NEW S, NEW s \in Seq(S), NEW k \in 1 .. Len(s)
  PROVE  /\ RemoveAt(s, k) \in Seq(S)
         /\ Len(s) \in Nat \ {0}
         /\ Len(RemoveAt(s, k)) = Len(s) - 1
         /\ \A i \in 1 .. Len(s) - 1 :
              RemoveAt(s, k)[i] = IF i < k THEN s[i] ELSE s[i + 1]
         /\ IsInjective(s) => /\ IsInjective(RemoveAt(s, k))
                              /\ Range(RemoveAt(s, k)) = Range(s) \ {s[k]}
<1> DEFINE a == RemoveAt(s, k)
           l == SubSeq(s, 1, k - 1)
           r == SubSeq(s, k + 1, Len(s))
<1>1. Len(s) \in Nat /\ DOMAIN s = 1 .. Len(s) /\ \A i \in 1 .. Len(s) : s[i] \in S
  BY LenProperties, ElementOfSeq
<1>2. l \in Seq(S) /\ Len(l) = k - 1 /\ \A i \in 1 .. k - 1 : l[i] = s[i]
  <2>1. \A i \in 1 .. k - 1 : s[i] \in S
    BY <1>1
  <2> QED BY <2>1, <1>1, SubSeqProperties
<1>3. r \in Seq(S) /\ Len(r) = Len(s) - k /\ \A i \in 1 .. Len(s) - k : r[i] = s[k + i]
  <2>1. \A i \in k + 1 .. Len(s) : s[i] \in S
    BY <1>1
  <2>2. /\ r \in Seq(S)
        /\ Len(r) = IF k + 1 <= Len(s) THEN Len(s) - (k + 1) + 1 ELSE 0
        /\ \A i \in 1 .. Len(s) - (k + 1) + 1 : r[i] = s[k + 1 + i - 1]
    BY <2>1, <1>1, SubSeqProperties, k + 1 \in Int, Len(s) \in Int
  <2>3. \A i \in 1 .. Len(s) - k : k + 1 + i - 1 = k + i
    BY <1>1
  <2> QED BY <2>2, <2>3, <1>1
<1>4. /\ a \in Seq(S) /\ Len(a) = Len(s) - 1 /\ DOMAIN a = 1 .. Len(s) - 1
      /\ \A i \in 1 .. Len(s) - 1 : a[i] = IF i < k THEN s[i] ELSE s[i + 1]
  <2>1. /\ a \in Seq(S) /\ Len(a) = Len(l) + Len(r)
        /\ Len(l) \in Nat /\ Len(r) \in Nat
        /\ \A i \in 1 .. Len(l) + Len(r) :
             a[i] = IF i <= Len(l) THEN l[i] ELSE r[i - Len(l)]
    BY <1>2, <1>3, ConcatProperties, LenProperties DEF RemoveAt
  <2> HIDE DEF a, l, r
  <2>2. Len(l) + Len(r) = Len(s) - 1
    BY <1>1, <1>2, <1>3
  <2>3. ASSUME NEW i \in 1 .. Len(s) - 1
        PROVE  a[i] = IF i < k THEN s[i] ELSE s[i + 1]
    <3>1. CASE i < k
      BY <3>1, <2>1, <2>2, <1>1, <1>2
    <3>2. CASE ~(i < k)
      <4>1. a[i] = r[i - (k - 1)]
        BY <3>2, <2>1, <2>2, <1>1, <1>2
      <4>2. i - (k - 1) \in 1 .. Len(s) - k /\ k + (i - (k - 1)) = i + 1
        BY <3>2, <1>1
      <4> QED BY <4>1, <4>2, <3>2, <1>3
    <3> QED BY <3>1, <3>2
  <2>4. DOMAIN a = 1 .. Len(s) - 1
    BY <2>1, <2>2, LenProperties
  <2> QED BY <2>1, <2>2, <2>3, <2>4
<1> HIDE DEF a
<1>5. ASSUME IsInjective(s)
      PROVE  IsInjective(a) /\ Range(a) = Range(s) \ {s[k]}
  <2> DEFINE old(i) == IF i < k THEN i ELSE i + 1
  <2>1. \A i \in 1 .. Len(s) - 1 :
          old(i) \in 1 .. Len(s) /\ old(i) # k /\ a[i] = s[old(i)]
    BY <1>1, <1>4
  <2>2. \A i, j \in 1 .. Len(s) - 1 : old(i) = old(j) => i = j
    BY <1>1
  <2>3. IsInjective(a)
    <3> SUFFICES ASSUME NEW i \in 1 .. Len(s) - 1, NEW j \in 1 .. Len(s) - 1, a[i] = a[j]
                 PROVE  i = j
      BY <1>4 DEF IsInjective
    <3> HIDE DEF old
    <3>1. old(i) = old(j)
      BY <2>1, <1>1, <1>5 DEF IsInjective
    <3> QED BY <3>1, <2>2
  <2>4. Range(a) \subseteq Range(s) \ {s[k]}
    <3> HIDE DEF old
    <3> SUFFICES ASSUME NEW i \in 1 .. Len(s) - 1
                 PROVE  a[i] \in Range(s) /\ a[i] # s[k]
      BY <1>4 DEF Range
    <3> QED BY <2>1, <1>1, <1>5 DEF Range, IsInjective
  <2>5. Range(s) \ {s[k]} \subseteq Range(a)
    <3> SUFFICES ASSUME NEW i \in 1 .. Len(s), i # k
                 PROVE  s[i] \in Range(a)
      BY <1>1 DEF Range
    <3>1. CASE i < k
      BY <3>1, <1>1, <1>4 DEF Range
    <3>2. CASE i > k
      <4>1. i - 1 \in 1 .. Len(s) - 1 /\ ~(i - 1 < k) /\ i - 1 + 1 = i
        BY <3>2, <1>1
      <4> QED BY <4>1, <1>4 DEF Range
    <3> QED BY <3>1, <3>2, <1>1
  <2> QED BY <2>3, <2>4, <2>5
<1> QED BY <1>1, <1>4, <1>5 DEF a

-----------------------------------------------------------------------------
(* The inductive invariant.  LeaseSafe and CountersAgree are not inductive *)
(* alone: that a thread which connects has the lock, that holding and being*)
(* in the handler are the same, and that nobody is left when the process   *)
(* joins are needed too.                                                   *)

ConnectingHasLock == \A t \in Threads : pc[t] = "connecting" => lock = t

HoldingIsUsing == \A t \in Threads : held[t] # None <=> pc[t] = "using"

VictimIsClosing ==
  /\ victim # None <=> maint = "close"
  /\ victim # None => victim \in open

StopOrder ==
  /\ process # "serving" => \A t \in Threads : pc[t] = "exited"
  /\ process = "destroyed" => maint = "done"

Shape == ConnectingHasLock /\ HoldingIsUsing /\ VictimIsClosing /\ StopOrder

IInv == TypeOK /\ Shape /\ LeaseSafe /\ CountersAgree

(* The set of borrowers, and how get() and put() change its size.          *)
LEMMA HoldersFinite == IsFiniteSet(Holders) /\ Cardinality(Holders) \in Nat
<1>1. Holders \in SUBSET Threads
  BY DEF Holders
<1> QED BY <1>1, FS_Subset, FS_CardinalityType, PoolAssumption

LEMMA Borrow ==
  ASSUME TypeOK, NEW t \in Threads, NEW c \in Conns, held[t] = None,
         held' = [held EXCEPT ![t] = c]
  PROVE  /\ Holders' = Holders \cup {t}
         /\ t \notin Holders
         /\ Cardinality(Holders') = Cardinality(Holders) + 1
<1>1. Holders' = Holders \cup {t} /\ t \notin Holders
  BY PoolAssumption DEF Holders, TypeOK
<1> QED BY <1>1, HoldersFinite, FS_AddElement

LEMMA GiveBack ==
  ASSUME TypeOK, NEW t \in Threads, held[t] # None,
         held' = [held EXCEPT ![t] = None]
  PROVE  /\ Holders' = Holders \ {t}
         /\ t \in Holders
         /\ Cardinality(Holders') = Cardinality(Holders) - 1
         /\ Cardinality(Holders) > 0
<1>1. Holders' = Holders \ {t} /\ t \in Holders
  BY DEF Holders, TypeOK
<1>2. Cardinality(Holders') = Cardinality(Holders) - 1
  BY <1>1, HoldersFinite, FS_RemoveElement
<1>3. Cardinality(Holders) # 0
  BY <1>1, HoldersFinite, FS_EmptySet
<1> QED BY <1>1, <1>2, <1>3, HoldersFinite

(* Initially nothing is open, lent or counted.                             *)
LEMMA InitIInv == Init => IInv
<1> SUFFICES ASSUME Init PROVE IInv
  OBVIOUS
<1>1. TypeOK
  BY PoolAssumption, EmptySeq DEF Init, TypeOK, ThreadState, MaintState
<1>2. Shape
  BY DEF Init, Shape, ConnectingHasLock, HoldingIsUsing, VictimIsClosing, StopOrder
<1>3. Holders = {} /\ Range(available) = {} /\ DOMAIN available = {}
  BY DEF Init, Holders, Range
<1>4. LeaseSafe
  BY <1>3 DEF LeaseSafe, IsInjective
<1>5. CountersAgree
  BY <1>3, FS_EmptySet DEF CountersAgree, Init
<1> QED BY <1>1, <1>2, <1>4, <1>5 DEF IInv

(* A step that leaves the lists, the counters and the holders alone        *)
(* preserves what is said of them.                                         *)
LEMMA Frame ==
  ASSUME IInv, UNCHANGED <<available, numConn, numAvail, open, held, victim>>
  PROVE  LeaseSafe' /\ CountersAgree'
BY DEF IInv, LeaseSafe, CountersAgree, Holders

(* The steps of a thread that only move it along.                          *)
LEMMA QuietThreadStep ==
  ASSUME IInv, NEW t \in Threads,
         \/ Call(t) \/ GrowStart(t) \/ GrowFail(t) \/ GetWait(t)
         \/ WakeSpuriously(t) \/ GetWokenEmpty(t) \/ Exit(t)
  PROVE  IInv'
<1> USE DEF IInv, poolVars, maintVars
<1>1. LeaseSafe' /\ CountersAgree'
  BY Frame DEF Call, GrowStart, GrowFail, GetWait, WakeSpuriously, GetWokenEmpty, Exit
<1>2. TypeOK'
  BY DEF TypeOK, ThreadState, Call, GrowStart, GrowFail, GetWait, WakeSpuriously,
         GetWokenEmpty, Exit
<1>3. ConnectingHasLock'
  BY PoolAssumption DEF Shape, ConnectingHasLock, TypeOK, Call, GrowStart, GrowFail,
     GetWait, WakeSpuriously, GetWokenEmpty, Exit
<1>4. HoldingIsUsing'
  BY DEF Shape, HoldingIsUsing, TypeOK, Call, GrowStart, GrowFail, GetWait,
         WakeSpuriously, GetWokenEmpty, Exit
<1>5. VictimIsClosing' /\ StopOrder'
  BY DEF Shape, VictimIsClosing, StopOrder, TypeOK, Call, GrowStart, GrowFail, GetWait,
         WakeSpuriously, GetWokenEmpty, Exit
<1> QED BY <1>1, <1>2, <1>3, <1>4, <1>5 DEF Shape

(* A new connection: it was not open, so nobody has it and no list does.   *)
LEMMA GrowDoneStep ==
  ASSUME IInv, NEW t \in Threads, GrowDone(t)
  PROVE  IInv'
<1> USE DEF IInv
<1>1. PICK c \in Conns \ open :
        /\ open' = open \cup {c}
        /\ all' = Append(all, c)
        /\ held' = [held EXCEPT ![t] = c]
        /\ lastUsed' = [lastUsed EXCEPT ![c] = clock]
  BY DEF GrowDone
<1>2. /\ pc[t] = "connecting" /\ pc' = [pc EXCEPT ![t] = "using"]
      /\ lock' = None /\ numConn' = numConn + 1
      /\ UNCHANGED <<available, numAvail, clock, maint, now, victim, exiting,
                     process, crashed>>
  BY DEF GrowDone, maintVars
<1>3. held[t] = None /\ c # None
  BY <1>2, PoolAssumption DEF Shape, HoldingIsUsing
<1>4. TypeOK'
  <2>1. all' \in Seq(Conns)
    BY <1>1, AppendProperties DEF TypeOK
  <2> QED BY <1>1, <1>2, <2>1 DEF TypeOK, ThreadState
<1>5. Shape'
  <2>1. ConnectingHasLock'
    BY <1>2, PoolAssumption DEF Shape, ConnectingHasLock, TypeOK
  <2>2. HoldingIsUsing'
    BY <1>1, <1>2, <1>3 DEF Shape, HoldingIsUsing, TypeOK
  <2>3. VictimIsClosing' /\ StopOrder'
    BY <1>1, <1>2 DEF Shape, VictimIsClosing, StopOrder, TypeOK
  <2> QED BY <2>1, <2>2, <2>3 DEF Shape
<1>6. LeaseSafe'
  <2>1. Holders' = Holders \cup {t} /\ t \notin Holders
    BY <1>1, <1>3, Borrow
  <2>2. c \notin Range(available) /\ c # victim
    BY <1>1, <1>3 DEF LeaseSafe, Shape, VictimIsClosing
  <2>3. \A u \in Holders : held'[u] = held[u] /\ held[u] # c
    BY <1>1, <2>1 DEF LeaseSafe, TypeOK, Holders
  <2>4. held'[t] = c
    BY <1>1 DEF TypeOK
  <2> QED BY <1>1, <1>2, <2>1, <2>2, <2>3, <2>4 DEF LeaseSafe
<1>7. CountersAgree'
  <2>1. Cardinality(Holders') = Cardinality(Holders) + 1
    BY <1>1, <1>3, Borrow
  <2>2. Len(available) \in Nat
    BY LenProperties DEF TypeOK
  <2> QED BY <1>2, <2>1, <2>2, HoldersFinite DEF CountersAgree
<1> QED BY <1>4, <1>5, <1>6, <1>7

(* The first available connection changes hands.                           *)
LEMMA PopForStep ==
  ASSUME IInv, NEW t \in Threads, PopFor(t), pc[t] \in {"get", "woken"}
  PROVE  IInv'
<1> USE DEF IInv
<1> DEFINE c == Head(available)
<1>1. /\ available # <<>> /\ available' = Tail(available)
      /\ held' = [held EXCEPT ![t] = c]
      /\ numAvail' = numAvail - 1
      /\ lastUsed' = [lastUsed EXCEPT ![c] = clock]
      /\ pc' = [pc EXCEPT ![t] = "using"]
      /\ UNCHANGED <<lock, all, numConn, open, clock, maint, now, victim, exiting,
                     process, crashed>>
  BY DEF PopFor, maintVars
<1>2. /\ c \in Conns /\ c \in Range(available)
      /\ available' \in Seq(Conns)
      /\ Len(available) \in Nat \ {0}
      /\ Len(available') = Len(available) - 1
      /\ IsInjective(available')
      /\ Range(available') = Range(available) \ {c}
  BY <1>1, PopFront DEF TypeOK, LeaseSafe
<1> HIDE DEF c
<1>3. held[t] = None /\ c # None
  BY <1>2, PoolAssumption DEF Shape, HoldingIsUsing
<1>4. TypeOK'
  BY <1>1, <1>2 DEF TypeOK, ThreadState, CountersAgree
<1>5. Shape'
  <2>1. ConnectingHasLock'
    BY <1>1 DEF Shape, ConnectingHasLock, TypeOK
  <2>2. HoldingIsUsing'
    BY <1>1, <1>3 DEF Shape, HoldingIsUsing, TypeOK
  <2>3. VictimIsClosing' /\ StopOrder'
    BY <1>1 DEF Shape, VictimIsClosing, StopOrder, TypeOK
  <2> QED BY <2>1, <2>2, <2>3 DEF Shape
<1>6. LeaseSafe'
  <2>1. Holders' = Holders \cup {t} /\ t \notin Holders
    BY <1>1, <1>2, <1>3, Borrow
  <2>2. c \in open /\ c # victim /\ \A u \in Holders : held[u] # c
    BY <1>2 DEF LeaseSafe
  <2>3. held'[t] = c /\ \A u \in Holders : held'[u] = held[u]
    BY <1>1, <2>1 DEF TypeOK, Holders
  <2> QED BY <1>1, <1>2, <2>1, <2>2, <2>3 DEF LeaseSafe
<1>7. CountersAgree'
  <2>1. Cardinality(Holders') = Cardinality(Holders) + 1
    BY <1>1, <1>2, <1>3, Borrow
  <2> QED BY <1>1, <1>2, <2>1, HoldersFinite DEF CountersAgree
<1> QED BY <1>4, <1>5, <1>6, <1>7

(* The connection goes from the thread to the end of the list.             *)
LEMMA PutStep ==
  ASSUME IInv, NEW t \in Threads, Put(t)
  PROVE  IInv'
<1> USE DEF IInv
<1> DEFINE c == held[t]
<1>1. /\ pc[t] = "using" /\ lock = None
      /\ available' = Append(available, c)
      /\ held' = [held EXCEPT ![t] = None]
      /\ numAvail' = numAvail + 1
      /\ lastUsed' = [lastUsed EXCEPT ![c] = clock]
      /\ UNCHANGED <<lock, all, numConn, open, clock, maint, now, victim, exiting,
                     process, crashed>>
  BY DEF Put, maintVars
<1>2. /\ pc' \in [Threads -> ThreadState]
      /\ pc'[t] = "idle"
      /\ \A u \in Threads \ {t} : \/ pc'[u] = pc[u]
                                  \/ pc[u] = "waiting" /\ pc'[u] = "woken"
  <2>1. CASE Waiting = {}
    BY <1>1, <2>1 DEF Put, TypeOK, ThreadState
  <2>2. CASE Waiting # {}
    <3>1. PICK w \in Waiting : pc' = [pc EXCEPT ![t] = "idle", ![w] = "woken"]
      BY <2>2 DEF Put
    <3>2. w \in Threads /\ pc[w] = "waiting" /\ w # t
      BY <1>1, <3>1 DEF Waiting
    <3> QED BY <3>1, <3>2 DEF TypeOK, ThreadState
  <2> QED BY <2>1, <2>2
<1>3. c \in Conns /\ c # None /\ c \notin Range(available) /\ t \in Holders
  BY <1>1 DEF Shape, HoldingIsUsing, LeaseSafe, Holders, TypeOK
<1>4. /\ available' \in Seq(Conns)
      /\ Len(available') = Len(available) + 1
      /\ Range(available') = Range(available) \cup {c}
      /\ IsInjective(available')
  BY <1>1, <1>3, PushBack DEF TypeOK, LeaseSafe
<1>5. TypeOK'
  <2>1. available' \in Seq(Conns) /\ pc' \in [Threads -> ThreadState]
    BY <1>2, <1>4
  <2>2. numAvail' \in Nat
    BY <1>1 DEF TypeOK
  <2>3. lastUsed' \in [Conns -> Nat] /\ held' \in [Threads -> Conns \cup {None}]
    BY <1>1 DEF TypeOK
  <2> HIDE DEF c
  <2> QED BY <1>1, <2>1, <2>2, <2>3 DEF TypeOK
<1>6. Shape'
  <2>1. ConnectingHasLock'
    BY <1>1, <1>2 DEF Shape, ConnectingHasLock, TypeOK
  <2>2. HoldingIsUsing'
    BY <1>1, <1>2 DEF Shape, HoldingIsUsing, TypeOK
  <2>3. VictimIsClosing' /\ StopOrder'
    BY <1>1, <1>2 DEF Shape, VictimIsClosing, StopOrder, TypeOK
  <2> QED BY <2>1, <2>2, <2>3 DEF Shape
<1>7. Holders' = Holders \ {t} /\ Cardinality(Holders') = Cardinality(Holders) - 1
  BY <1>1, <1>3, GiveBack
<1>8. LeaseSafe'
  <2>1. c \in open /\ c # victim /\ \A u \in Holders \ {t} : held[u] # c
    BY <1>3 DEF LeaseSafe
  <2>2. \A u \in Holders' : held'[u] = held[u]
    BY <1>1, <1>7 DEF TypeOK, Holders
  <2> HIDE DEF c
  <2> QED BY <1>1, <1>4, <1>7, <2>1, <2>2 DEF LeaseSafe
<1>9. CountersAgree'
  <2>1. Len(available) \in Nat
    BY LenProperties DEF TypeOK
  <2> QED BY <1>1, <1>4, <1>7, <2>1, HoldersFinite DEF CountersAgree
<1> QED BY <1>5, <1>6, <1>8, <1>9

(* The maintenance thread takes an idle connection out of the list ...     *)
LEMMA MaintReapStep ==
  ASSUME IInv, MaintReap
  PROVE  IInv'
<1> USE DEF IInv
<1>1. PICK i \in DOMAIN available :
        victim' = available[i] /\ available' = RemoveAt(available, i)
  BY DEF MaintReap
<1>2. /\ maint = "scan" /\ maint' = "close"
      /\ numConn' = numConn - 1 /\ numAvail' = numAvail - 1
      /\ UNCHANGED <<lock, all, open, lastUsed, pc, held, clock, now, exiting,
                     process, crashed>>
  BY DEF MaintReap
<1> DEFINE c == available[i]
<1>3. /\ c \in Conns /\ c \in Range(available) /\ c # None
      /\ available' \in Seq(Conns)
      /\ Len(available) \in Nat \ {0}
      /\ Len(available') = Len(available) - 1
      /\ IsInjective(available')
      /\ Range(available') = Range(available) \ {c}
  <2>1. i \in 1 .. Len(available)
    BY LenProperties DEF TypeOK
  <2>2. c \in Conns /\ c \in Range(available)
    BY <2>1, ElementOfSeq DEF TypeOK, Range
  <2> QED BY <1>1, <2>1, <2>2, Erase, PoolAssumption DEF TypeOK, LeaseSafe
<1> HIDE DEF c
<1>4. victim' = c
  BY <1>1 DEF c
<1>5. numAvail - 1 \in Nat /\ numConn - 1 \in Nat
  BY <1>3, HoldersFinite DEF CountersAgree
<1>6. TypeOK'
  BY <1>2, <1>3, <1>4, <1>5 DEF TypeOK, MaintState
<1>7. Shape'
  BY <1>2, <1>3, <1>4 DEF Shape, ConnectingHasLock, HoldingIsUsing, VictimIsClosing,
     StopOrder, LeaseSafe
<1>8. Holders' = Holders
  BY <1>2 DEF Holders
<1>9. LeaseSafe'
  BY <1>2, <1>3, <1>4, <1>8 DEF LeaseSafe
<1>10. CountersAgree'
  BY <1>2, <1>3, <1>8, HoldersFinite DEF CountersAgree
<1> QED BY <1>6, <1>7, <1>9, <1>10

(* ... and closes it.                                                      *)
LEMMA MaintCloseStep ==
  ASSUME IInv, MaintClose
  PROVE  IInv'
<1> USE DEF IInv, MaintClose, poolVars
<1>1. TypeOK'
  BY DEF TypeOK, MaintState
<1>2. Shape'
  BY DEF Shape, ConnectingHasLock, HoldingIsUsing, VictimIsClosing, StopOrder
<1>3. Holders' = Holders
  BY DEF Holders
<1>4. LeaseSafe'
  <2>1. None \notin Range(available)
    BY PoolAssumption DEF LeaseSafe, TypeOK
  <2>2. \A t \in Holders : held[t] # None
    BY DEF Holders
  <2> QED BY <1>3, <2>1, <2>2 DEF LeaseSafe
<1>5. CountersAgree'
  BY <1>3 DEF CountersAgree
<1> QED BY <1>1, <1>2, <1>4, <1>5

(* The other steps of the maintenance thread and the clock.                *)
LEMMA QuietStep ==
  ASSUME IInv,
         \/ MaintClock \/ MaintLock \/ MaintNothingIdle \/ MaintCheck
         \/ Join \/ Tick \/ Finished \/ UNCHANGED vars
  PROVE  IInv'
<1> USE DEF IInv, poolVars, maintVars, vars, MaintClock, MaintLock, MaintNothingIdle,
            MaintCheck, Join, Tick, Finished
<1>1. LeaseSafe' /\ CountersAgree'
  BY Frame
<1>2. TypeOK'
  <2>1. CASE MaintClock \/ MaintLock \/ MaintNothingIdle \/ MaintCheck
    BY <2>1 DEF TypeOK, MaintState
  <2>2. CASE Tick
    BY <2>2 DEF TypeOK
  <2>4. CASE Join
    <3>1. exiting' = TRUE /\ exiting' \in BOOLEAN
      BY <2>4
    <3> QED BY <2>4, <3>1 DEF TypeOK
  <2>3. CASE Finished \/ UNCHANGED vars
    BY <2>3 DEF TypeOK
  <2> QED BY <2>1, <2>2, <2>3, <2>4
<1>3. Shape'
  BY DEF Shape, ConnectingHasLock, HoldingIsUsing, VictimIsClosing, StopOrder
<1> QED BY <1>1, <1>2, <1>3

(* The pool is destroyed when nobody has a connection any more.            *)
LEMMA DestroyStep ==
  ASSUME IInv, Destroy
  PROVE  IInv'
<1> USE DEF IInv
<1>1. /\ process = "joining" /\ process' = "destroyed" /\ maint = "done"
      /\ open' = open \ Range(all) /\ all' = <<>> /\ available' = <<>>
      /\ numConn' = 0 /\ numAvail' = 0 /\ crashed' \in BOOLEAN
      /\ UNCHANGED <<lock, lastUsed, pc, held, clock, maint, now, victim, exiting>>
  BY DEF Destroy, maintVars
<1>2. TypeOK'
  BY <1>1, EmptySeq DEF TypeOK
<1>3. Holders' = {} /\ victim' = None /\ Range(available') = {} /\ DOMAIN available' = {}
  BY <1>1 DEF Holders, Shape, HoldingIsUsing, VictimIsClosing, StopOrder, Range
<1>4. Shape'
  BY <1>1, <1>3 DEF Shape, ConnectingHasLock, HoldingIsUsing, VictimIsClosing, StopOrder
<1>5. LeaseSafe'
  BY <1>3 DEF LeaseSafe, IsInjective
<1>6. CountersAgree'
  BY <1>1, <1>3, FS_EmptySet DEF CountersAgree
<1> QED BY <1>2, <1>4, <1>5, <1>6

LEMMA NextIInv == IInv /\ [Next]_vars => IInv'
<1> SUFFICES ASSUME IInv, [Next]_vars PROVE IInv'
  OBVIOUS
<1>1. CASE \E t \in Threads : ThreadStep(t)
  <2>1. PICK t \in Threads : ThreadStep(t)
    BY <1>1
  <2>2. CASE GrowDone(t)
    BY <2>2, GrowDoneStep
  <2>3. CASE GetAvailable(t) \/ GetWoken(t)
    BY <2>3, PopForStep DEF GetAvailable, GetWoken
  <2>4. CASE Put(t)
    BY <2>4, PutStep
  <2> QED BY <2>1, <2>2, <2>3, <2>4, QuietThreadStep DEF ThreadStep
<1>2. CASE MaintStep
  BY <1>2, MaintReapStep, MaintCloseStep, QuietStep DEF MaintStep
<1>3. CASE ProcessStep
  BY <1>3, QuietStep, DestroyStep DEF ProcessStep
<1>4. CASE Tick \/ Finished \/ UNCHANGED vars
  BY <1>4, QuietStep
<1> QED BY <1>1, <1>2, <1>3, <1>4 DEF Next

(* The inductive invariant holds in every reachable state of the pool.     *)
THEOREM Invariance == Spec => []IInv
<1> QED BY InitIInv, NextIInv, PTL DEF Spec

(* Types: in particular neither counter of the pool ever passes below zero,*)
(* which is what the unsigned m_num_connections and m_num_available need.  *)
THEOREM TypeCorrect == Spec => []TypeOK
<1>1. IInv => TypeOK
  BY DEF IInv
<1> QED BY Invariance, <1>1, PTL

(* get() and put() never lend a connection twice, list a lent one or keep  *)
(* a closed one; what the maintenance thread closes nobody has.            *)
THEOREM LeaseSafety == Spec => []LeaseSafe
<1>1. IInv => LeaseSafe
  BY DEF IInv
<1> QED BY Invariance, <1>1, PTL

(* The counters get() decides by agree with the lists and the borrowers.   *)
THEOREM CountersAgreement == Spec => []CountersAgree
<1>1. IInv => CountersAgree
  BY DEF IInv
<1> QED BY Invariance, <1>1, PTL

-----------------------------------------------------------------------------
(* The ledger m_all_connections: it has an entry for every connection that *)
(* exists, and one more than the pool counts for each that was removed.    *)

LedgerInv ==
  /\ NothingLeaks
  /\ Len(all) >= numConn + IF victim = None THEN 0 ELSE 1

LEMMA InitLedger == Init => LedgerInv
BY EmptySeq DEF Init, LedgerInv, NothingLeaks, AllEntriesLive, IsInjective

LEMMA NextLedger == LedgerInv /\ IInv /\ [Next]_vars => LedgerInv'
<1> SUFFICES ASSUME LedgerInv, IInv, [Next]_vars PROVE LedgerInv'
  OBVIOUS
<1>1. ASSUME NEW t \in Threads, GrowDone(t) PROVE LedgerInv'
  <2>1. PICK c \in Conns \ open : open' = open \cup {c} /\ all' = Append(all, c)
    BY <1>1 DEF GrowDone
  <2>2. /\ pc[t] = "connecting" /\ numConn' = numConn + 1
        /\ UNCHANGED <<victim, process>>
    BY <1>1 DEF GrowDone, maintVars
  <2>3. process # "destroyed"
    BY <2>2 DEF IInv, Shape, StopOrder
  <2>4. /\ Len(all') = Len(all) + 1 /\ Len(all) \in Nat /\ DOMAIN all' = 1 .. Len(all) + 1
        /\ DOMAIN all = 1 .. Len(all)
        /\ \A i \in 1 .. Len(all) : all'[i] = all[i]
        /\ all'[Len(all) + 1] = c
    BY <2>1, AppendProperties, LenProperties DEF IInv, TypeOK
  <2>5. Range(all') = Range(all) \cup {c}
    <3>1. Range(all') \subseteq Range(all) \cup {c}
      BY <2>4 DEF Range
    <3>2. Range(all) \subseteq Range(all') /\ c \in Range(all')
      BY <2>4 DEF Range
    <3> QED BY <3>1, <3>2
  <2>6. Len(all') = numConn' => AllEntriesLive'
    <3> SUFFICES ASSUME Len(all') = numConn' PROVE AllEntriesLive'
      OBVIOUS
    <3>1. AllEntriesLive
      <4>1. numConn \in Nat /\ Len(all) \in Nat /\ Len(all) + 1 = numConn + 1
        BY <2>2, <2>4 DEF IInv, TypeOK
      <4>2. Len(all) = numConn
        BY <4>1
      <4> QED BY <4>2 DEF LedgerInv, NothingLeaks
    <3>2. c \notin Range(all)
      BY <2>1, <2>4, <3>1 DEF AllEntriesLive, Range
    <3>3. IsInjective(all')
      BY <2>1, <3>1, <3>2, PushBack DEF AllEntriesLive, IInv, TypeOK
    <3>4. \A i \in DOMAIN all' : all'[i] \in open'
      BY <2>1, <2>4, <3>1 DEF AllEntriesLive
    <3> QED BY <3>3, <3>4 DEF AllEntriesLive
  <2>7. Len(all') >= numConn' + IF victim' = None THEN 0 ELSE 1
    BY <2>2, <2>4 DEF LedgerInv, IInv, TypeOK
  <2>8. open' \subseteq Range(all')
    BY <2>1, <2>5 DEF LedgerInv, NothingLeaks
  <2> QED BY <2>2, <2>3, <2>6, <2>7, <2>8 DEF LedgerInv, NothingLeaks
<1>2. CASE MaintReap
  <2>1. /\ numConn' = numConn - 1 /\ UNCHANGED <<open, all, process>> /\ maint = "scan"
        /\ victim' \in Range(available) /\ Len(all) \in Nat
    BY <1>2, LenProperties DEF MaintReap, Range, IInv, TypeOK
  <2>2. victim = None /\ victim' # None /\ numConn \in Nat
    BY <2>1, PoolAssumption DEF IInv, Shape, VictimIsClosing, LeaseSafe, TypeOK
  <2> QED BY <2>1, <2>2 DEF LedgerInv, NothingLeaks
<1>3. CASE MaintClose
  <2>1. /\ open' = open \ {victim} /\ victim' = None /\ maint = "close"
        /\ UNCHANGED <<numConn, all, process>> /\ Len(all) \in Nat
    BY <1>3, LenProperties DEF MaintClose, poolVars, IInv, TypeOK
  <2>2. victim # None /\ numConn \in Nat
    BY <2>1 DEF IInv, Shape, VictimIsClosing, TypeOK
  <2> QED BY <2>1, <2>2 DEF LedgerInv, NothingLeaks
<1>4. CASE Destroy
  <2>1. /\ open' = open \ Range(all) /\ all' = <<>> /\ numConn' = 0 /\ victim' = victim
        /\ maint = "done"
    BY <1>4 DEF Destroy, maintVars
  <2>2. victim' = None /\ open' = {} /\ Len(all') = 0 /\ DOMAIN all' = {}
    BY <2>1 DEF IInv, Shape, VictimIsClosing, LedgerInv, NothingLeaks
  <2> QED BY <2>1, <2>2 DEF LedgerInv, NothingLeaks, AllEntriesLive, IsInjective
<1>5. CASE Join
  BY <1>5 DEF Join, poolVars, maintVars, LedgerInv, NothingLeaks, AllEntriesLive
<1>6. ASSUME UNCHANGED <<open, all, numConn, victim, process>> PROVE LedgerInv'
  BY <1>6 DEF LedgerInv, NothingLeaks, AllEntriesLive
<1>7. ASSUME NEW t \in Threads, ThreadStep(t), ~GrowDone(t) PROVE LedgerInv'
  BY <1>6, <1>7 DEF ThreadStep, Call, GrowStart, GrowFail, GetAvailable, GetWait,
     WakeSpuriously, GetWoken, GetWokenEmpty, Put, Exit, PopFor, poolVars, maintVars
<1>8. CASE MaintClock \/ MaintLock \/ MaintNothingIdle \/ MaintCheck \/ Tick
           \/ Finished \/ UNCHANGED vars
  BY <1>6, <1>8 DEF MaintClock, MaintLock, MaintNothingIdle, MaintCheck, Tick,
     Finished, vars, poolVars, maintVars
<1> QED BY <1>1, <1>2, <1>3, <1>4, <1>5, <1>7, <1>8 DEF Next, MaintStep, ProcessStep

(* Every connection that exists is in m_all_connections, so ~DBPool closes *)
(* all that are left; and until one has been removed for idleness there is *)
(* nothing else in it.                                                     *)
THEOREM Ledger == Spec => []NothingLeaks
<1>1. LedgerInv => NothingLeaks
  BY DEF LedgerInv
<1> QED BY Invariance, InitLedger, NextLedger, <1>1, PTL DEF Spec

-----------------------------------------------------------------------------
(* The limit.  While a thread connects the lock is its own, so the room it *)
(* found is still there when it is done.                                   *)

RoomIsKept == \A t \in Threads : pc[t] = "connecting" => numConn < MaxConn

LimitInv ==
  /\ RoomIsKept
  /\ IsFiniteSet(open)
  /\ OpenWithinLimit

LEMMA InitLimit == Init => LimitInv
BY FS_EmptySet, PoolAssumption DEF Init, LimitInv, RoomIsKept, OpenWithinLimit

LEMMA NextLimit == LimitInv /\ LedgerInv /\ IInv /\ [Next]_vars => LimitInv'
<1> SUFFICES ASSUME LimitInv, LedgerInv, IInv, [Next]_vars PROVE LimitInv'
  OBVIOUS
<1> USE DEF LimitInv
<1>1. ASSUME NEW t \in Threads, GrowDone(t) PROVE LimitInv'
  <2>1. PICK c \in Conns \ open : open' = open \cup {c}
    BY <1>1 DEF GrowDone
  <2>2. /\ pc[t] = "connecting" /\ pc' = [pc EXCEPT ![t] = "using"]
        /\ numConn' = numConn + 1 /\ victim' = victim
    BY <1>1 DEF GrowDone, maintVars
  <2>3. IsFiniteSet(open') /\ Cardinality(open') = Cardinality(open) + 1
    BY <2>1, FS_AddElement
  <2>4. \A u \in Threads : pc'[u] # "connecting"
    BY <2>2, PoolAssumption DEF IInv, Shape, ConnectingHasLock, TypeOK
  <2>5. numConn + 1 <= MaxConn /\ numConn \in Nat
    BY <2>2, PoolAssumption DEF RoomIsKept, IInv, TypeOK
  <2> QED BY <2>2, <2>3, <2>4, <2>5, FS_CardinalityType DEF RoomIsKept, OpenWithinLimit
<1>2. ASSUME NEW t \in Threads, GrowStart(t) PROVE LimitInv'
  BY <1>2 DEF GrowStart, Room, RoomIsKept, OpenWithinLimit, poolVars, maintVars, IInv, TypeOK
<1>3. ASSUME NEW t \in Threads,
             \/ Call(t) \/ GrowFail(t) \/ GetAvailable(t) \/ GetWait(t)
             \/ WakeSpuriously(t) \/ GetWoken(t) \/ GetWokenEmpty(t) \/ Put(t) \/ Exit(t)
      PROVE  LimitInv'
  <2>1. UNCHANGED <<numConn, open, victim>>
    BY <1>3 DEF Call, GrowFail, GetAvailable, GetWait, WakeSpuriously, GetWoken,
       GetWokenEmpty, Put, Exit, PopFor, poolVars, maintVars
  <2>2. \A u \in Threads : pc'[u] = "connecting" => pc[u] = "connecting"
    <3> pc \in [Threads -> ThreadState]
      BY DEF IInv, TypeOK
    <3>1. CASE Put(t)
      <4>1. CASE Waiting = {}
        BY <3>1, <4>1 DEF Put
      <4>2. CASE Waiting # {}
        <5>1. PICK w \in Waiting : pc' = [pc EXCEPT ![t] = "idle", ![w] = "woken"]
          BY <3>1, <4>2 DEF Put
        <5> QED BY <5>1
      <4> QED BY <4>1, <4>2
    <3>2. CASE ~Put(t)
      BY <1>3, <3>2 DEF Call, GrowFail, GetAvailable, GetWait, WakeSpuriously, GetWoken,
         GetWokenEmpty, Exit, PopFor
    <3> QED BY <3>1, <3>2
  <2> QED BY <2>1, <2>2 DEF RoomIsKept, OpenWithinLimit
<1>4. CASE MaintReap
  <2>1. /\ numConn' = numConn - 1 /\ open' = open /\ pc' = pc /\ maint = "scan"
        /\ victim' \in Range(available)
    BY <1>4 DEF MaintReap, Range
  <2>2. victim = None /\ victim' # None
    BY <2>1, PoolAssumption DEF IInv, Shape, VictimIsClosing, LeaseSafe, TypeOK
  <2>3. numConn \in Nat /\ numConn' \in Nat
    BY NextIInv DEF IInv, TypeOK
  <2> QED BY <2>1, <2>2, <2>3, PoolAssumption DEF RoomIsKept, OpenWithinLimit
<1>5. CASE MaintClose
  <2>1. /\ open' = open \ {victim} /\ victim' = None /\ maint = "close"
        /\ numConn' = numConn /\ pc' = pc
    BY <1>5 DEF MaintClose, poolVars
  <2>2. victim # None /\ victim \in open /\ numConn \in Nat
    BY <2>1 DEF IInv, Shape, VictimIsClosing, TypeOK
  <2>3. IsFiniteSet(open') /\ Cardinality(open') = Cardinality(open) - 1
    BY <2>1, <2>2, FS_RemoveElement
  <2> QED BY <2>1, <2>2, <2>3 DEF RoomIsKept, OpenWithinLimit
<1>6. CASE MaintClock \/ MaintLock \/ MaintNothingIdle \/ MaintCheck \/ Join \/ Tick
           \/ Finished \/ UNCHANGED vars
  <2>1. UNCHANGED <<numConn, open, victim, pc>>
    BY <1>6 DEF MaintClock, MaintLock, MaintNothingIdle, MaintCheck, Join, Tick,
       Finished, vars, poolVars, maintVars
  <2> QED BY <2>1 DEF RoomIsKept, OpenWithinLimit
<1>7. CASE Destroy
  <2>1. open' = open \ Range(all) /\ numConn' = 0 /\ victim' = victim /\ pc' = pc
        /\ maint = "done" /\ process = "joining"
    BY <1>7 DEF Destroy, maintVars
  <2>2. victim' = None /\ open' = {} /\ \A t \in Threads : pc'[t] # "connecting"
    BY <2>1 DEF IInv, Shape, VictimIsClosing, StopOrder, LedgerInv, NothingLeaks
  <2> QED BY <2>1, <2>2, FS_EmptySet, PoolAssumption DEF RoomIsKept, OpenWithinLimit
<1> QED BY <1>1, <1>2, <1>3, <1>4, <1>5, <1>6, <1>7 DEF Next, ThreadStep, MaintStep, ProcessStep

(* The limit is kept by get(), and the server sees at most one connection  *)
(* more: the one the maintenance thread is closing.                        *)
THEOREM LimitKept == Spec => []OpenWithinLimit
<1>1. LimitInv => OpenWithinLimit
  BY DEF LimitInv
<1> QED BY Invariance, InitLedger, NextLedger, InitLimit, NextLimit, <1>1, PTL DEF Spec

-----------------------------------------------------------------------------
(* The wait.  Whoever finds nothing available and no room has found as many*)
(* borrowers as connections are allowed, and is not one of them.           *)

NoWaiters == \A t \in Threads : pc[t] \notin {"waiting", "woken"}

LEMMA WaitNeedsMoreThreads ==
  ASSUME IInv, NEW t \in Threads, GetWait(t)
  PROVE  Cardinality(Threads) > MaxConn
<1>1. pc[t] = "get" /\ available = <<>> /\ ~(numAvail = 0 /\ numConn < MaxConn)
  BY DEF GetWait, Room
<1>2. numAvail = 0 /\ numConn = Cardinality(Holders)
  BY <1>1, EmptySeq, HoldersFinite DEF IInv, CountersAgree
<1>3. MaxConn <= Cardinality(Holders)
  BY <1>1, <1>2, HoldersFinite, PoolAssumption
<1>4. Holders \in SUBSET (Threads \ {t})
  BY <1>1 DEF Holders, IInv, Shape, HoldingIsUsing
<1>5. /\ IsFiniteSet(Threads \ {t})
      /\ Cardinality(Threads \ {t}) = Cardinality(Threads) - 1
      /\ Cardinality(Threads) \in Nat
  BY FS_RemoveElement, FS_CardinalityType, PoolAssumption
<1>6. Cardinality(Holders) <= Cardinality(Threads) - 1
  BY <1>4, <1>5, FS_Subset
<1> QED BY <1>3, <1>5, <1>6, HoldersFinite, PoolAssumption

LEMMA NextNeverWaits == NeverWaits /\ IInv /\ [Next]_vars => NeverWaits'
<1> SUFFICES ASSUME NeverWaits, IInv, [Next]_vars, Cardinality(Threads) <= MaxConn
             PROVE  NoWaiters'
  BY DEF NeverWaits, NoWaiters
<1>1. NoWaiters /\ Waiting = {} /\ pc \in [Threads -> ThreadState]
  BY DEF NeverWaits, NoWaiters, Waiting, IInv, TypeOK
<1>2. \A t \in Threads : ~GetWait(t)
  BY WaitNeedsMoreThreads, FS_CardinalityType, PoolAssumption
<1>3. ASSUME NEW t \in Threads, ThreadStep(t) PROVE NoWaiters'
  BY <1>1, <1>2, <1>3 DEF NoWaiters, ThreadStep, Call, GrowStart, GrowDone, GrowFail,
     GetAvailable, WakeSpuriously, GetWoken, GetWokenEmpty, Put, Exit, PopFor
<1>4. CASE pc' = pc
  BY <1>1, <1>4 DEF NoWaiters
<1>5. CASE MaintStep \/ ProcessStep \/ Tick \/ Finished \/ UNCHANGED vars
  <2>1. pc' = pc
    BY <1>5 DEF MaintStep, MaintClock, MaintLock, MaintReap, MaintNothingIdle, MaintClose,
       MaintCheck, ProcessStep, Join, Destroy, Tick, Finished, vars
  <2> QED BY <2>1, <1>4
<1> QED BY <1>3, <1>5 DEF Next

(* With no more request threads than connections (5 and 40 in worker.cpp)  *)
(* get() never waits, and its wait that is not in a loop does no harm.     *)
THEOREM NobodyWaits == Spec => []NeverWaits
<1>1. Init => NeverWaits
  BY DEF Init, NeverWaits
<1> QED BY Invariance, NextNeverWaits, <1>1, PTL DEF Spec

-----------------------------------------------------------------------------
(* Refinement.  get() is Acquire, put() is Release, closing by either the  *)
(* maintenance thread or ~DBPool is Close; every other step stutters.      *)

LEMMA InitLease == Init => Lease!Init
BY DEF Init, Lease!Init

LEMMA AcquireStep ==
  ASSUME IInv, NEW t \in Threads, NEW c \in Conns, pc[t] # "using",
         \A u \in Holders : held[u] # c,
         open' = open \cup {c}, held' = [held EXCEPT ![t] = c]
  PROVE  Lease!Next
<1>1. held[t] = None
  BY DEF IInv, Shape, HoldingIsUsing
<1>2. c \notin Lease!Leased
  BY DEF Lease!Leased, Holders
<1>3. Lease!Acquire(t, c)
  BY <1>1, <1>2 DEF Lease!Acquire
<1> QED BY <1>3 DEF Lease!Next

LEMMA NextLease == IInv /\ [Next]_vars => [Lease!Next]_(Lease!vars)
<1> SUFFICES ASSUME IInv, [Next]_vars PROVE Lease!Next \/ UNCHANGED <<open, held>>
  BY DEF Lease!vars
<1>1. ASSUME NEW t \in Threads, GrowDone(t) PROVE Lease!Next
  <2>1. PICK c \in Conns \ open : open' = open \cup {c} /\ held' = [held EXCEPT ![t] = c]
    BY <1>1 DEF GrowDone
  <2>2. pc[t] # "using" /\ \A u \in Holders : held[u] # c
    BY <1>1 DEF GrowDone, IInv, LeaseSafe
  <2> QED BY <2>1, <2>2, AcquireStep
<1>2. ASSUME NEW t \in Threads, GetAvailable(t) \/ GetWoken(t) PROVE Lease!Next
  <2> DEFINE c == Head(available)
  <2>1. /\ available # <<>> /\ pc[t] # "using" /\ open' = open
        /\ held' = [held EXCEPT ![t] = c]
    BY <1>2 DEF GetAvailable, GetWoken, PopFor
  <2>2. c \in Conns /\ c \in Range(available)
    BY <2>1, PopFront DEF IInv, TypeOK
  <2>3. c \in open /\ \A u \in Holders : held[u] # c
    BY <2>2 DEF IInv, LeaseSafe
  <2>4. open' = open \cup {c}
    BY <2>1, <2>3
  <2> HIDE DEF c
  <2> QED BY <2>1, <2>2, <2>3, <2>4, AcquireStep
<1>3. ASSUME NEW t \in Threads, Put(t) PROVE Lease!Next
  <2>1. held[t] # None /\ held' = [held EXCEPT ![t] = None] /\ open' = open
    BY <1>3 DEF Put, IInv, Shape, HoldingIsUsing
  <2> QED BY <2>1 DEF Lease!Next, Lease!Release
<1>4. CASE MaintClose
  <2>1. open' = open \ {victim} /\ held' = held /\ victim # None /\ victim \in open
    BY <1>4 DEF MaintClose, IInv, Shape, VictimIsClosing
  <2>2. {victim} \in SUBSET Conns /\ victim \notin Lease!Leased
    BY <2>1 DEF Lease!Leased, Holders, IInv, LeaseSafe, TypeOK
  <2> QED BY <2>1, <2>2 DEF Lease!Next, Lease!Close
<1>5. CASE Destroy
  <2>1. open' = open \ Range(all) /\ held' = held /\ \A t \in Threads : held[t] = None
    BY <1>5 DEF Destroy, IInv, Shape, HoldingIsUsing, StopOrder
  <2>2. Lease!Leased = {}
    BY <2>1 DEF Lease!Leased
  <2>3. open \cap Range(all) \in SUBSET Conns /\ open' = open \ (open \cap Range(all))
    BY <2>1 DEF IInv, TypeOK
  <2> QED BY <2>1, <2>2, <2>3 DEF Lease!Next, Lease!Close
<1>6. ASSUME NEW t \in Threads,
             \/ Call(t) \/ GrowStart(t) \/ GrowFail(t) \/ GetWait(t)
             \/ WakeSpuriously(t) \/ GetWokenEmpty(t) \/ Exit(t)
      PROVE  UNCHANGED <<open, held>>
  BY <1>6 DEF Call, GrowStart, GrowFail, GetWait, WakeSpuriously, GetWokenEmpty, Exit
<1>7. CASE MaintClock \/ MaintLock \/ MaintReap \/ MaintNothingIdle \/ MaintCheck
           \/ Join \/ Tick \/ Finished \/ UNCHANGED vars
  BY <1>7 DEF MaintClock, MaintLock, MaintReap, MaintNothingIdle, MaintCheck, Join, Tick,
     Finished, vars
<1> QED BY <1>1, <1>2, <1>3, <1>4, <1>5, <1>6, <1>7
        DEF Next, ThreadStep, MaintStep, ProcessStep

(* DBPool implements the abstract pool of ConnectionLease.                 *)
THEOREM Refinement == Spec => LeaseSpec
<1> QED BY Invariance, InitLease, NextLease, PTL DEF Spec, LeaseSpec, Lease!Spec
-----------------------------------------------------------------------------
(* Idle time.  No time is stamped that has not come yet, and the list is in*)
(* the order of the stamps.                                                *)

IdleInv ==
  /\ now <= clock
  /\ \A c \in Conns : lastUsed[c] <= clock
  /\ OldestFirst
  /\ ReapsOnlyIdle

LEMMA InitIdle == Init => IdleInv
BY PoolAssumption DEF Init, IdleInv, OldestFirst, ReapsOnlyIdle

LEMMA NextIdle == IdleInv /\ IInv /\ [Next]_vars => IdleInv'
<1> SUFFICES ASSUME IdleInv, IInv, [Next]_vars PROVE IdleInv'
  OBVIOUS
<1> USE DEF IdleInv
<1>1. ASSUME NEW t \in Threads, GrowDone(t) PROVE IdleInv'
  <2>1. PICK c \in Conns \ open : lastUsed' = [lastUsed EXCEPT ![c] = clock]
    BY <1>1 DEF GrowDone
  <2>2. UNCHANGED <<available, clock, now, victim>>
    BY <1>1 DEF GrowDone, maintVars
  <2>3. victim # c /\ \A i \in DOMAIN available : available[i] # c
    <3>1. c # None
      BY PoolAssumption
    <3> QED BY <2>1, <3>1 DEF IInv, Shape, VictimIsClosing, LeaseSafe, Range
  <2>4. \A i \in DOMAIN available : available[i] \in Conns
    BY ElementOfSeq, LenProperties DEF IInv, TypeOK
  <2>5. ReapsOnlyIdle'
    BY <2>1, <2>2, <2>3 DEF ReapsOnlyIdle, IInv, TypeOK
  <2>6. OldestFirst'
    BY <2>1, <2>2, <2>3, <2>4 DEF OldestFirst, IInv, TypeOK
  <2> QED BY <2>1, <2>2, <2>5, <2>6 DEF IInv, TypeOK
<1>2. ASSUME NEW t \in Threads, PopFor(t) PROVE IdleInv'
  <2>1. /\ available # <<>> /\ available' = Tail(available)
        /\ lastUsed' = [lastUsed EXCEPT ![Head(available)] = clock]
        /\ UNCHANGED <<clock, now, victim>>
    BY <1>2 DEF PopFor, maintVars
  <2>2. /\ Head(available) = available[1] /\ Len(available) \in Nat \ {0}
        /\ Head(available) \in Conns /\ Head(available) \in Range(available)
        /\ DOMAIN available = 1 .. Len(available)
        /\ DOMAIN available' = 1 .. Len(available) - 1
        /\ \A i \in 1 .. Len(available) - 1 : available'[i] = available[i + 1]
    BY <2>1, PopFront, LenProperties DEF IInv, TypeOK
  <2>3. \A i \in 1 .. Len(available) : available[i] \in Conns
    BY ElementOfSeq DEF IInv, TypeOK
  <2>4. ReapsOnlyIdle'
    BY <2>1, <2>2 DEF ReapsOnlyIdle, IInv, LeaseSafe, TypeOK
  <2>5. OldestFirst'
    <3> SUFFICES ASSUME NEW i \in 1 .. Len(available) - 1, NEW j \in 1 .. Len(available) - 1, i < j
                 PROVE  lastUsed'[available'[i]] <= lastUsed'[available'[j]]
      BY <2>2 DEF OldestFirst
    <3>1. /\ i + 1 \in DOMAIN available /\ j + 1 \in DOMAIN available /\ 1 \in DOMAIN available
          /\ i + 1 < j + 1 /\ i + 1 # 1 /\ j + 1 # 1
      BY <2>2
    <3>2. available[i + 1] # Head(available) /\ available[j + 1] # Head(available)
      BY <3>1, <2>2 DEF IInv, LeaseSafe, IsInjective
    <3>3. lastUsed[available[i + 1]] <= lastUsed[available[j + 1]]
      BY <3>1 DEF OldestFirst
    <3> QED BY <2>1, <2>2, <2>3, <3>1, <3>2, <3>3 DEF IInv, TypeOK
  <2> QED BY <2>1, <2>2, <2>4, <2>5 DEF IInv, TypeOK
<1>3. ASSUME NEW t \in Threads, Put(t) PROVE IdleInv'
  <2>1. /\ available' = Append(available, held[t]) /\ pc[t] = "using"
        /\ lastUsed' = [lastUsed EXCEPT ![held[t]] = clock]
        /\ UNCHANGED <<clock, now, victim>>
    BY <1>3 DEF Put, maintVars
  <2>2. held[t] \in Conns /\ held[t] # victim /\ held[t] \notin Range(available)
    BY <2>1 DEF IInv, Shape, HoldingIsUsing, Holders, LeaseSafe, TypeOK
  <2>3. /\ Len(available) \in Nat /\ DOMAIN available = 1 .. Len(available)
        /\ DOMAIN available' = 1 .. Len(available) + 1
        /\ \A i \in 1 .. Len(available) : available'[i] = available[i]
        /\ available'[Len(available) + 1] = held[t]
    BY <2>1, <2>2, AppendProperties, LenProperties DEF IInv, TypeOK
  <2>4. \A i \in 1 .. Len(available) : available[i] \in Conns /\ available[i] # held[t]
    BY <2>2, <2>3, ElementOfSeq DEF IInv, TypeOK, Range
  <2>5. ReapsOnlyIdle'
    BY <2>1, <2>2 DEF ReapsOnlyIdle, IInv, TypeOK
  <2>6. OldestFirst'
    <3> SUFFICES ASSUME NEW i \in 1 .. Len(available) + 1, NEW j \in 1 .. Len(available) + 1, i < j
                 PROVE  lastUsed'[available'[i]] <= lastUsed'[available'[j]]
      BY <2>3 DEF OldestFirst
    <3>1. i \in 1 .. Len(available) /\ lastUsed'[available'[i]] = lastUsed[available[i]]
      BY <2>1, <2>3, <2>4 DEF IInv, TypeOK
    <3>2. CASE j \in 1 .. Len(available)
      <4>1. lastUsed[available[i]] <= lastUsed[available[j]]
        BY <3>1, <3>2, <2>3 DEF OldestFirst
      <4>2. lastUsed'[available'[j]] = lastUsed[available[j]]
        BY <3>2, <2>1, <2>3, <2>4 DEF IInv, TypeOK
      <4> QED BY <3>1, <4>1, <4>2
    <3>3. CASE j = Len(available) + 1
      BY <3>1, <3>3, <2>1, <2>2, <2>3, <2>4 DEF IInv, TypeOK
    <3> QED BY <3>2, <3>3, <2>3
  <2> QED BY <2>1, <2>2, <2>5, <2>6 DEF IInv, TypeOK
<1>4. CASE MaintReap
  <2>1. PICK k \in DOMAIN available :
          /\ IdleTooLong(available[k])
          /\ victim' = available[k]
          /\ available' = RemoveAt(available, k)
    BY <1>4 DEF MaintReap
  <2>2. UNCHANGED <<clock, now, lastUsed>>
    BY <1>4 DEF MaintReap
  <2>3. /\ Len(available) \in Nat \ {0} /\ DOMAIN available = 1 .. Len(available)
        /\ DOMAIN available' = 1 .. Len(available) - 1
        /\ \A i \in 1 .. Len(available) - 1 :
             available'[i] = IF i < k THEN available[i] ELSE available[i + 1]
    <3>1. available \in Seq(Conns) /\ k \in 1 .. Len(available)
      BY LenProperties DEF IInv, TypeOK
    <3>2. /\ RemoveAt(available, k) \in Seq(Conns) /\ Len(available) \in Nat \ {0}
          /\ Len(RemoveAt(available, k)) = Len(available) - 1
          /\ \A i \in 1 .. Len(available) - 1 :
               RemoveAt(available, k)[i] = IF i < k THEN available[i] ELSE available[i + 1]
      BY <3>1, Erase
    <3> QED BY <2>1, <3>1, <3>2, LenProperties
  <2>4. available[k] \in Conns
    BY <2>1, <2>3, ElementOfSeq DEF IInv, TypeOK
  <2>5. ReapsOnlyIdle'
    BY <2>1, <2>2, <2>4, PoolAssumption DEF ReapsOnlyIdle, IdleTooLong, IInv, TypeOK
  <2>6. OldestFirst'
    <3> SUFFICES ASSUME NEW i \in 1 .. Len(available) - 1, NEW j \in 1 .. Len(available) - 1, i < j
                 PROVE  lastUsed[available'[i]] <= lastUsed[available'[j]]
      BY <2>2, <2>3 DEF OldestFirst
    <3> DEFINE old(n) == IF n < k THEN n ELSE n + 1
    <3>1. /\ old(i) \in DOMAIN available /\ old(j) \in DOMAIN available /\ old(i) < old(j)
          /\ available'[i] = available[old(i)] /\ available'[j] = available[old(j)]
      BY <2>1, <2>3
    <3> HIDE DEF old
    <3> QED BY <3>1 DEF OldestFirst
  <2> QED BY <2>2, <2>5, <2>6
<1>5. CASE MaintClose \/ Destroy
  <2>1. CASE MaintClose
    BY <2>1 DEF MaintClose, poolVars, OldestFirst, ReapsOnlyIdle
  <2>2. CASE Destroy
    BY <2>2 DEF Destroy, maintVars, OldestFirst, ReapsOnlyIdle
  <2> QED BY <1>5, <2>1, <2>2
<1>6. CASE MaintClock
  BY <1>6 DEF MaintClock, poolVars, OldestFirst, ReapsOnlyIdle, IInv, TypeOK
<1>7. CASE Tick
  <2>1. clock' = clock + 1 /\ UNCHANGED <<available, lastUsed, now, victim>>
    BY <1>7 DEF Tick, poolVars, maintVars
  <2>2. victim # None => lastUsed[victim] \in Nat
    BY DEF IInv, TypeOK
  <2>3. \A c \in Conns : lastUsed[c] \in Nat
    BY DEF IInv, TypeOK
  <2>4. clock \in Nat /\ now \in Nat /\ IdleLimit \in Nat
    BY PoolAssumption DEF IInv, TypeOK
  <2>5. OldestFirst'
    BY <2>1 DEF OldestFirst
  <2>6. ReapsOnlyIdle'
    BY <2>1, <2>2, <2>4 DEF ReapsOnlyIdle
  <2> QED BY <2>1, <2>3, <2>4, <2>5, <2>6
<1>8. ASSUME UNCHANGED <<available, lastUsed, clock, now, victim>> PROVE IdleInv'
  BY <1>8 DEF OldestFirst, ReapsOnlyIdle
<1>9. ASSUME NEW t \in Threads, ThreadStep(t), ~GrowDone(t), ~Put(t), ~PopFor(t) PROVE IdleInv'
  BY <1>8, <1>9 DEF ThreadStep, Call, GrowStart, GrowFail, GetAvailable, GetWait,
     WakeSpuriously, GetWoken, GetWokenEmpty, Exit, poolVars, maintVars
<1>10. CASE MaintLock \/ MaintNothingIdle \/ MaintCheck \/ Join \/ Finished \/ UNCHANGED vars
  BY <1>8, <1>10 DEF MaintLock, MaintNothingIdle, MaintCheck, Join, Finished, vars, poolVars, maintVars
<1> QED BY <1>1, <1>2, <1>3, <1>4, <1>5, <1>6, <1>7, <1>9, <1>10
        DEF Next, ThreadStep, MaintStep, ProcessStep

(* put() and get() keep m_available_connections in the order of last use,  *)
(* so that the scan may stop at the first connection it finds idle.        *)
THEOREM InOrderOfUse == Spec => []OldestFirst
<1>1. IdleInv => OldestFirst
  BY DEF IdleInv
<1> QED BY Invariance, InitIdle, NextIdle, <1>1, PTL DEF Spec

(* The maintenance thread compares with a clock it read before it waited   *)
(* for its two locks, and removes nothing that has been used meanwhile.    *)
THEOREM OnlyIdleReaped == Spec => []ReapsOnlyIdle
<1>1. IdleInv => ReapsOnlyIdle
  BY DEF IdleInv
<1> QED BY Invariance, InitIdle, NextIdle, <1>1, PTL DEF Spec

-----------------------------------------------------------------------------
(* The waiters: put() wakes one with every connection it lists.            *)

LEMMA WokenFinite == IsFiniteSet(WokenThreads) /\ Cardinality(WokenThreads) \in Nat
<1>1. WokenThreads \in SUBSET Threads
  BY DEF WokenThreads
<1> QED BY <1>1, FS_Subset, FS_CardinalityType, PoolAssumption

(* One thread more is woken.                                               *)
LEMMA Wake ==
  ASSUME NEW w \in Threads, pc[w] # "woken", WokenThreads' = WokenThreads \cup {w}
  PROVE  Cardinality(WokenThreads') = Cardinality(WokenThreads) + 1
<1>1. w \notin WokenThreads
  BY DEF WokenThreads
<1> QED BY <1>1, WokenFinite, FS_AddElement

LEMMA InitStranded == Init => NoStrandedWaiter
BY PoolAssumption DEF Init, NoStrandedWaiter, Waiting

LEMMA NextStranded == NoStrandedWaiter /\ IInv /\ [Next]_vars => NoStrandedWaiter'
<1> SUFFICES ASSUME NoStrandedWaiter, IInv, [Next]_vars PROVE NoStrandedWaiter'
  OBVIOUS
<1>0. pc \in [Threads -> ThreadState] /\ available \in Seq(Conns) /\ Len(available) \in Nat
  BY LenProperties DEF IInv, TypeOK
<1>1. ASSUME Waiting' \subseteq Waiting, WokenThreads' = WokenThreads,
             Len(available') <= Len(available), Len(available') \in Nat
      PROVE  NoStrandedWaiter'
  BY <1>0, <1>1, WokenFinite DEF NoStrandedWaiter
<1>2. ASSUME NEW t \in Threads,
             Call(t) \/ GrowStart(t) \/ GrowDone(t) \/ GrowFail(t) \/ GetWokenEmpty(t) \/ Exit(t)
      PROVE  NoStrandedWaiter'
  <2>1. available' = available /\ Waiting' \subseteq Waiting /\ WokenThreads' = WokenThreads
    BY <1>0, <1>2 DEF Call, GrowStart, GrowDone, GrowFail, GetWokenEmpty, Exit, poolVars, Waiting, WokenThreads
  <2> QED BY <2>1, <1>0, <1>1
<1>3. ASSUME NEW t \in Threads, GetWait(t) PROVE NoStrandedWaiter'
  <2>1. available' = <<>>
    BY <1>3 DEF GetWait, poolVars
  <2>2. WokenThreads' = WokenThreads
    BY <1>0, <1>3 DEF GetWait, WokenThreads
  <2> QED BY <2>1, <2>2, WokenFinite DEF NoStrandedWaiter
<1>4. ASSUME NEW t \in Threads, PopFor(t), pc[t] \in {"get", "woken"} PROVE NoStrandedWaiter'
  <2>1. Len(available') = Len(available) - 1 /\ Len(available) \in Nat \ {0}
    BY <1>0, <1>4, PopFront DEF PopFor
  <2>2. Waiting' = Waiting /\ WokenThreads' = WokenThreads \ {t}
    BY <1>0, <1>4 DEF PopFor, Waiting, WokenThreads
  <2>3. Cardinality(WokenThreads') >= Cardinality(WokenThreads) - 1
    <3>1. CASE t \in WokenThreads
      BY <3>1, <2>2, WokenFinite, FS_RemoveElement
    <3>2. CASE t \notin WokenThreads
      <4>1. WokenThreads' = WokenThreads
        BY <3>2, <2>2
      <4> QED BY <4>1, WokenFinite
    <3> QED BY <3>1, <3>2
  <2>4. Cardinality(WokenThreads') \in Nat
    BY <2>2, WokenFinite, FS_RemoveElement, FS_CardinalityType, FS_Subset
  <2> QED BY <2>1, <2>2, <2>3, <2>4, WokenFinite DEF NoStrandedWaiter
<1>5. ASSUME NEW t \in Threads, WakeSpuriously(t) PROVE NoStrandedWaiter'
  <2>1. /\ WokenThreads' = WokenThreads \cup {t} /\ Waiting' \subseteq Waiting
        /\ pc[t] # "woken" /\ available' = available
    BY <1>0, <1>5 DEF WakeSpuriously, WokenThreads, Waiting, poolVars
  <2>2. Cardinality(WokenThreads') = Cardinality(WokenThreads) + 1
    BY <2>1, Wake
  <2>3. Waiting' # {} => Len(available) <= Cardinality(WokenThreads)
    BY <2>1 DEF NoStrandedWaiter
  <2> QED BY <1>0, <2>1, <2>2, <2>3, WokenFinite DEF NoStrandedWaiter
<1>6. ASSUME NEW t \in Threads, Put(t) PROVE NoStrandedWaiter'
  <2>1. pc[t] = "using" /\ available' = Append(available, held[t]) /\ held[t] \in Conns
    BY <1>6 DEF Put, IInv, Shape, HoldingIsUsing, TypeOK
  <2>2. Len(available') = Len(available) + 1
    BY <1>0, <2>1, AppendProperties
  <2>3. CASE Waiting = {}
    <3>1. Waiting' = {}
      BY <1>0, <1>6, <2>1, <2>3 DEF Put, Waiting
    <3> QED BY <3>1 DEF NoStrandedWaiter
  <2>4. CASE Waiting # {}
    <3>1. PICK w \in Waiting : pc' = [pc EXCEPT ![t] = "idle", ![w] = "woken"]
      BY <1>6, <2>4 DEF Put
    <3>2. w \in Threads /\ pc[w] = "waiting" /\ WokenThreads' = WokenThreads \cup {w}
      BY <1>0, <2>1, <3>1 DEF Waiting, WokenThreads
    <3>3. Cardinality(WokenThreads') = Cardinality(WokenThreads) + 1
      <4>1. pc[w] # "woken"
        BY <3>2
      <4> QED BY <3>2, <4>1, Wake
    <3>4. Len(available) <= Cardinality(WokenThreads)
      BY <2>4 DEF NoStrandedWaiter
    <3> QED BY <1>0, <2>2, <3>3, <3>4, WokenFinite DEF NoStrandedWaiter
  <2> QED BY <2>3, <2>4
<1>7. CASE MaintReap
  <2>1. PICK k \in DOMAIN available : available' = RemoveAt(available, k)
    BY <1>7 DEF MaintReap
  <2>2. Len(available') = Len(available) - 1 /\ Len(available) \in Nat \ {0}
    BY <1>0, <2>1, Erase, LenProperties
  <2>3. pc' = pc
    BY <1>7 DEF MaintReap
  <2> QED BY <1>1, <2>2, <2>3 DEF Waiting, WokenThreads
<1>8. CASE Destroy
  <2>1. available' = <<>> /\ pc' = pc
    BY <1>8 DEF Destroy
  <2> QED BY <1>0, <1>1, <2>1 DEF Waiting, WokenThreads
<1>9. CASE MaintClock \/ MaintLock \/ MaintNothingIdle \/ MaintClose \/ MaintCheck
           \/ Join \/ Tick \/ Finished \/ UNCHANGED vars
  <2>1. available' = available /\ pc' = pc
    BY <1>9 DEF MaintClock, MaintLock, MaintNothingIdle, MaintClose, MaintCheck, Join, Tick,
       Finished, vars, poolVars
  <2> QED BY <1>0, <1>1, <2>1 DEF Waiting, WokenThreads
<1>10. ASSUME NEW t \in Threads, GetAvailable(t) \/ GetWoken(t) PROVE NoStrandedWaiter'
  BY <1>4, <1>10 DEF GetAvailable, GetWoken
<1> QED BY <1>2, <1>3, <1>5, <1>6, <1>7, <1>8, <1>9, <1>10 DEF Next, ThreadStep, MaintStep, ProcessStep

(* While somebody waits in get(), every listed connection has a thread that*)
(* put() has woken for it: no signal is missing, whatever the maintenance  *)
(* thread and new callers take in between (db_pool.h:498-525).             *)
THEOREM NobodyStranded == Spec => []NoStrandedWaiter
<1> QED BY Invariance, InitStranded, NextStranded, PTL DEF Spec

=============================================================================
