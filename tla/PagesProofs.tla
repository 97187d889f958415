---------------------------- MODULE PagesProofs ----------------------------
(***************************************************************************)
(* Proofs about SitePages: that a statement is used within the lease of its*)
(* connection, that every step of a handler is one RequestContract allows, *)
(* that a request gets one response, that a buffer is deleted once, and    *)
(* that a handler does no part of its work again, for any rows, addresses  *)
(* and statements.                                                         *)
(***************************************************************************)
EXTENDS SitePages, SequenceTheorems, TLAPS

WithStatement == {"bind", "execute", "fetch", "fetched", "destroy"}
Labels == WithStatement \cup {"begin", "prepare", "write", "release", "catch", "done", "crashed"}

(* Where the handler is says what it has: the connection from the moment   *)
(* its holder is constructed, the statement in the scope within, and the   *)
(* page only once it has been written.                                     *)
Scopes ==
  /\ at \in Labels
  /\ at = "begin" => conn = "none" /\ stmt = "none"
  /\ at \in WithStatement \cup {"prepare", "write", "release"} => conn = "held"
  /\ at \in WithStatement => stmt # "none"
  /\ at = "write" => (stmt = "none") = (page = "sitemap")
  /\ at \in {"prepare", "release", "catch", "done"} => stmt = "none"
  /\ at \in {"catch", "done"} => conn \in {"none", "returned"}
  /\ stmt # "none" => conn = "held"

Texts == {"page", "header", "error", "500", "404"}

Responses ==
  /\ out \in Seq(Texts)
  /\ at \in {"begin", "prepare", "bind", "execute", "fetch", "fetched", "write"} => out = <<>>
  /\ at = "destroy" /\ page = "sitemap" => out = <<>>
  /\ at \in {"destroy", "release", "catch", "crashed"} => Len(out) <= 1

IInv == Scopes /\ Responses

-----------------------------------------------------------------------------
LEMMA InitIInv == Init => IInv
BY EmptySeq DEF Init, StmtInit, IInv, Scopes, Responses, Labels, WithStatement

LEMMA StepScopes == IInv /\ Step => Scopes'
<1> SUFFICES ASSUME IInv, Step PROVE Scopes'
  OBVIOUS
<1> USE DEF IInv, Scopes, Labels, WithStatement, Goto, stmtVars
<1>1. CASE UnknownSite \/ GetConnection \/ GetConnectionFails
  BY <1>1 DEF UnknownSite, GetConnection, GetConnectionFails
<1>2. CASE PrepareNext \/ PrepareFails \/ BindParameter
  BY <1>2 DEF PrepareNext, Prepare, PrepareFails, BindParameter, Bind
<1>3. CASE ExecuteIt \/ ExecuteUnbound \/ QueryFails
  BY <1>3 DEF ExecuteIt, Execute, ExecuteUnbound, QueryFails
<1>4. CASE FetchNext \/ FetchColumnFails
  BY <1>4 DEF FetchNext, FetchColumnFails, Fetch
<1>5. CASE FetchEnds \/ Fetched
  BY <1>5 DEF FetchEnds, Fetched
<1>6. CASE Write \/ WriteFails
  BY <1>6 DEF Write, WriteFails, AfterWriting
<1>7. CASE DestroyStatement \/ CloseFails \/ CloseTerminates
  BY <1>7 DEF DestroyStatement, CloseFails, CloseTerminates, Destroy, AfterStatement
<1>8. CASE ReleaseConnection \/ Answer
  BY <1>8 DEF ReleaseConnection, Answer
<1> QED BY <1>1, <1>2, <1>3, <1>4, <1>5, <1>6, <1>7, <1>8 DEF Step

(* What is written last: one response or none.                             *)
LEMMA LastWordKinds ==
  /\ LastWord \in Seq(Texts)
  /\ Len(LastWord) \in {0, 1}
  /\ raised \in {"no", "db", "std"} => (Len(LastWord) = 1 <=> raised # "no" \/ NotFound)
  /\ raised = "db" => LastWord = <<"error">>
<1>0. \A text \in Texts : <<text>> \in Seq(Texts) /\ Len(<<text>>) = 1
  OBVIOUS
<1>1. CASE raised = "db" \/ raised = "std"
  <2>1. \/ LastWord = <<"error">> /\ raised = "db"
        \/ LastWord = <<"500">> /\ raised = "std"
    BY <1>1 DEF LastWord, NotFound
  <2> QED BY <1>0, <2>1 DEF Texts
<1>2. CASE NotFound
  <2>1. LastWord = <<"404">> /\ raised = "no"
    BY <1>2 DEF LastWord, NotFound
  <2> QED BY <1>0, <1>2, <2>1 DEF Texts
<1>3. CASE raised # "db" /\ raised # "std" /\ ~NotFound
  <2>1. LastWord = <<>>
    BY <1>3 DEF LastWord
  <2> QED BY <1>3, <2>1, EmptySeq
<1> QED BY <1>1, <1>2, <1>3

LEMMA AnswerAppends ==
  ASSUME Responses, Answer
  PROVE  /\ out' \in Seq(Texts)
         /\ Len(out') \in {Len(out), Len(out) + 1}
BY LastWordKinds, ConcatProperties, LenProperties DEF Responses, Answer

LEMMA StepResponses == IInv /\ Step => Responses'
<1> SUFFICES ASSUME IInv, Step PROVE Responses'
  OBVIOUS
<1> USE DEF IInv, Responses, Goto, stmtVars
<1>0. CASE UnknownSite
  <2>1. out' = <<"error">> /\ at' = "done"
    BY <1>0 DEF UnknownSite
  <2>2. <<"error">> \in Seq(Texts)
    BY DEF Texts
  <2> QED BY <2>1, <2>2
<1>1. CASE GetConnection \/ GetConnectionFails
  <2>1. out' = out /\ out = <<>> /\ Len(out) = 0 /\ at' \in {"prepare", "catch"}
    BY <1>1, EmptySeq DEF GetConnection, GetConnectionFails
  <2> QED BY <2>1
<1>2. CASE PrepareNext \/ PrepareFails \/ BindParameter
  BY <1>2 DEF PrepareNext, PrepareFails, BindParameter
<1>3. CASE ExecuteIt \/ ExecuteUnbound \/ QueryFails
  BY <1>3 DEF ExecuteIt, ExecuteUnbound, QueryFails
<1>4. CASE FetchNext \/ FetchColumnFails
  BY <1>4 DEF FetchNext, FetchColumnFails
<1>5. CASE FetchEnds \/ Fetched
  BY <1>5 DEF FetchEnds, Fetched
<1>6. CASE Write \/ WriteFails
  <2>1. /\ \E text \in Texts : out' = Append(out, text)
        /\ out = <<>> /\ page' = page
        /\ at' = IF page = "sitemap" THEN "release" ELSE "destroy"
    BY <1>6 DEF Write, WriteFails, AfterWriting, Texts
  <2>2. out' \in Seq(Texts) /\ Len(out') = 1
    BY <2>1, AppendProperties, EmptySeq
  <2> QED BY <2>1, <2>2
<1>7. CASE DestroyStatement
  <2>1. out' = out /\ page' = page /\ at = "destroy" /\ at' = AfterStatement
    BY <1>7 DEF DestroyStatement
  <2> QED BY <2>1 DEF AfterStatement
<1>8. CASE CloseFails \/ CloseTerminates
  BY <1>8 DEF CloseFails, CloseTerminates
<1>9. CASE ReleaseConnection
  BY <1>9 DEF ReleaseConnection
<1>10. CASE Answer
  BY <1>10, AnswerAppends DEF Answer
<1> QED BY <1>0, <1>1, <1>2, <1>3, <1>4, <1>5, <1>6, <1>7, <1>8, <1>9, <1>10 DEF Step

LEMMA StepIInv == IInv /\ [Next]_vars => IInv'
<1>1. IInv /\ UNCHANGED vars => IInv'
  BY DEF IInv, Scopes, Responses, vars, stmtVars
<1> QED BY <1>1, StepScopes, StepResponses DEF IInv, Next

THEOREM Invariance == Spec => []IInv
BY InitIInv, StepIInv, PTL DEF Spec

-----------------------------------------------------------------------------
(* On every way out of a handler the statement is closed before the        *)
(* connection is given back (wp_handler.cpp:105-147, db_pool.h:201-218,    *)
(* 569-574).                                                               *)
THEOREM ClosedWithinLease == Spec => []StatementWithinLease
<1>1. IInv => StatementWithinLease
  BY DEF IInv, Scopes, StatementWithinLease
<1> QED BY <1>1, Invariance, PTL

(* Every step of a handler is one of the contract, or none it can see.     *)
LEMMA StepContract == IInv /\ [Next]_vars => [Contract!Next]_(Contract!contract)
<1> SUFFICES ASSUME IInv, [Next]_vars PROVE [Contract!Next]_(Contract!contract)
  OBVIOUS
<1> USE DEF IInv, Scopes, Labels, WithStatement, Goto, Contract!contract
<1>1. ASSUME UNCHANGED <<conn, out>>, at \notin {"done", "crashed"}, at' \notin {"done", "crashed"}
      PROVE  UNCHANGED Contract!contract
  BY <1>1
<1>2. CASE UnknownSite
  <2>1. /\ at = "begin" /\ at' = "done" /\ out' = <<"error">> /\ conn' = conn /\ Len(out) = 0
    BY <1>2, EmptySeq DEF UnknownSite, Responses
  <2> QED BY <2>1 DEF Contract!Next, Contract!ComeBack
<1>3. CASE GetConnection
  <2>1. /\ at = "begin" /\ at' = "prepare" /\ conn' = "held" /\ out' = out /\ Len(out) = 0
    BY <1>3, EmptySeq DEF GetConnection, Responses
  <2> QED BY <2>1 DEF Contract!Next, Contract!Borrow
<1>4. CASE \/ GetConnectionFails \/ PrepareNext \/ PrepareFails \/ BindParameter \/ ExecuteIt
           \/ QueryFails \/ FetchNext \/ FetchColumnFails \/ FetchEnds \/ Fetched
           \/ DestroyStatement \/ CloseFails
  <2>1. UNCHANGED <<conn, out>> /\ at \notin {"done", "crashed"} /\ at' \notin {"done", "crashed"}
    BY <1>4 DEF GetConnectionFails, PrepareNext, PrepareFails, BindParameter, ExecuteIt,
       QueryFails, FetchNext, FetchColumnFails, FetchEnds, Fetched, DestroyStatement, CloseFails,
       AfterStatement
  <2> QED BY <2>1, <1>1
<1>5. CASE ExecuteUnbound \/ CloseTerminates
  <2>1. at' = "crashed" /\ at \notin {"done", "crashed"} /\ UNCHANGED <<conn, out>>
    BY <1>5 DEF ExecuteUnbound, CloseTerminates
  <2> QED BY <2>1 DEF Contract!Next, Contract!Vanish
<1>6. CASE Write \/ WriteFails
  <2>1. /\ at = "write" /\ at' \in {"destroy", "release"} /\ conn' = conn
        /\ out = <<>> /\ \E text \in Texts : out' = Append(out, text)
    BY <1>6 DEF Write, WriteFails, AfterWriting, Responses, Texts
  <2>2. Len(out) = 0 /\ Len(out') = 1
    BY <2>1, AppendProperties, EmptySeq
  <2> QED BY <2>1, <2>2 DEF Contract!Next, Contract!WritePage
<1>7. CASE ReleaseConnection
  <2>1. at = "release" /\ at' = "catch" /\ conn' = "returned" /\ out' = out
    BY <1>7 DEF ReleaseConnection
  <2> QED BY <2>1 DEF Contract!Next, Contract!GiveBack
<1>8. CASE Answer
  <2>1. at = "catch" /\ at' = "done" /\ conn' = conn
    BY <1>8 DEF Answer
  <2> QED BY <1>8, <2>1, AnswerAppends DEF Contract!Next, Contract!ComeBack
<1>9. CASE UNCHANGED vars
  BY <1>9 DEF vars
<1> QED BY <1>2, <1>3, <1>4, <1>5, <1>6, <1>7, <1>8, <1>9 DEF Next, Step

(* The safety of the contract: a handler takes one connection at most and  *)
(* gives it back before it comes back, writes two responses at most, and   *)
(* the second one only when it has given the connection back.              *)
THEOREM ContractSafe == Spec => Contract!Init /\ [][Contract!Next]_(Contract!contract)
<1>1. Init => Contract!Init
  BY EmptySeq DEF Init, Contract!Init
<1> QED BY <1>1, StepContract, Invariance, PTL DEF Spec

-----------------------------------------------------------------------------
(* Responses: what has been written on the way to each label.              *)

HasPage == page \in {"blogroll", "sitemap"} \/ (page = "post" /\ found)

Written ==
  /\ page \in Pages /\ found \in BOOLEAN /\ raised \in {"no", "db", "std"}
  /\ page = "unknown site" => at \in {"begin", "done"} /\ raised = "no"
  /\ at \in {"begin", "prepare", "bind", "execute", "fetch", "fetched", "write"} => raised = "no"
  /\ at = "write" => HasPage
  /\ at = "destroy" /\ raised = "no" => (Len(out) = 1 <=> HasPage /\ page # "sitemap")
  /\ at \in {"release", "catch"} /\ raised = "no" => (Len(out) = 1 <=> HasPage)
  /\ at # "done" /\ Len(out) = 1 => out[1] \in {"page", "header"}
  /\ at # "done" /\ page = "sitemap" /\ raised = "db" => out = <<>>
  /\ AnsweredOnce

LEMMA InitWritten == Init => Written
<1> SUFFICES ASSUME Init PROVE Written
  OBVIOUS
<1>1. at = "begin" /\ raised = "no" /\ out = <<>> /\ Len(out) = 0
  BY DEF Init
<1>2. page \in Pages
  BY DEF Init
<1>3. found \in BOOLEAN
  BY DEF Init
<1>4. AnsweredOnce
  BY <1>1 DEF AnsweredOnce
<1> QED BY <1>1, <1>2, <1>3, <1>4 DEF Written

LEMMA ShortSeq ==
  ASSUME NEW S, NEW s \in Seq(S), Len(s) <= 1
  PROVE  Len(s) \in {0, 1}
<1> DEFINE k == Len(s)
<1>1. k \in Nat /\ k <= 1
  BY LenProperties
<1> HIDE DEF k
<1>2. k \in {0, 1}
  BY <1>1
<1> QED BY <1>2 DEF k

LEMMA AnswerWritten ==
  ASSUME Responses, Written, Answer
  PROVE  Written'
<1>1. /\ at = "catch" /\ at' = "done" /\ out' = out \o LastWord
      /\ page' = page /\ raised' = raised /\ found' = found
  BY DEF Answer, Goto
<1>2. /\ LastWord \in Seq(Texts)
      /\ Len(LastWord) \in {0, 1}
      /\ Len(LastWord) = 1 <=> raised # "no" \/ NotFound
  BY LastWordKinds DEF Written
<1>3. out \in Seq(Texts) /\ Len(out) \in {0, 1}
  <2>1. out \in Seq(Texts) /\ Len(out) <= 1
    BY <1>1 DEF Responses
  <2> QED BY <2>1, ShortSeq
<1>4. /\ Len(out') = Len(out) + Len(LastWord)
      /\ Len(out) = 1 => out'[1] = out[1]
  BY <1>1, <1>2, <1>3, ConcatProperties
<1>5. ASSUME page = "sitemap", raised = "db" PROVE out' = <<"error">>
  <2>1. out = <<>>
    BY <1>1, <1>5 DEF Written
  <2> QED BY <1>1, <1>2, <1>5, <2>1, LastWordKinds, ConcatEmptySeq
<1> DEFINE n == Len(out)
           m == Len(LastWord)
<1>6. n \in {0, 1} /\ m \in {0, 1} /\ Len(out') = n + m
  BY <1>2, <1>3, <1>4
<1>7. ASSUME raised = "no" PROVE Len(out') = IF page \in Unfinished THEN 0 ELSE 1
  <2>1. (m = 1 <=> page = "post" /\ ~found) /\ (n = 1 <=> HasPage)
    BY <1>1, <1>2, <1>7 DEF Written, NotFound
  <2> HIDE DEF n, m
  <2>2. CASE page \in Unfinished
    <3>1. m # 1 /\ n # 1
      BY <2>1, <2>2 DEF Unfinished, HasPage
    <3> QED BY <1>6, <2>2, <3>1
  <2>3. CASE page \in {"blogroll", "sitemap"}
    <3>1. m # 1 /\ n = 1 /\ page \notin Unfinished
      BY <2>1, <2>3 DEF Unfinished, HasPage
    <3> QED BY <1>6, <3>1
  <2>4. CASE page = "post" /\ found
    <3>1. m # 1 /\ n = 1 /\ page \notin Unfinished
      BY <2>1, <2>4 DEF Unfinished, HasPage
    <3> QED BY <1>6, <3>1
  <2>5. CASE page = "post" /\ ~found
    <3>1. m = 1 /\ n # 1 /\ page \notin Unfinished
      BY <2>1, <2>5 DEF Unfinished, HasPage
    <3> QED BY <1>6, <3>1
  <2>6. page \in {"blogroll", "category", "author", "post", "sitemap"}
    BY <1>1 DEF Written, Pages
  <2> QED BY <2>2, <2>3, <2>4, <2>5, <2>6 DEF Unfinished
<1>8. ASSUME raised # "no"
      PROVE  /\ Len(out') \in {1, 2}
             /\ Len(out') = 2 => out'[1] \in {"page", "header"}
  <2>1. n = 1 => out'[1] \in {"page", "header"}
    BY <1>1, <1>4 DEF Written
  <2>2. m = 1
    BY <1>2, <1>8
  <2> HIDE DEF n, m
  <2> QED BY <1>6, <2>1, <2>2
<1>9. AnsweredOnce'
  BY <1>1, <1>5, <1>7, <1>8 DEF AnsweredOnce
<1> QED BY <1>1, <1>9 DEF Written

(* Nothing is written by most steps.                                       *)
LEMMA StepWritten == IInv /\ Written /\ Step => Written'
<1> SUFFICES ASSUME IInv, Written, Step PROVE Written'
  OBVIOUS
<1> DEFINE Early == {"begin", "prepare", "bind", "execute", "fetch", "fetched", "write"}
<1>0. CASE UnknownSite
  <2>1. /\ at' = "done" /\ out' = <<"error">> /\ page' = page /\ raised' = raised /\ found' = found
        /\ page = "unknown site" /\ at = "begin"
    BY <1>0 DEF UnknownSite, Goto
  <2>2. Len(out') = 1 /\ raised' = "no" /\ page \notin Unfinished
    BY <2>1 DEF Written, Unfinished
  <2>3. AnsweredOnce'
    BY <2>1, <2>2 DEF AnsweredOnce, Unfinished
  <2> QED BY <2>1, <2>2, <2>3 DEF Written
<1>1. ASSUME at \in Early, at' \in Early, page' = page, raised' = raised, out' = out,
             found' \in BOOLEAN, page # "unknown site", at' = "write" => HasPage'
      PROVE  Written'
  <2>1. out' = <<>> /\ Len(out') = 0 /\ raised' = "no"
    BY <1>1, EmptySeq DEF IInv, Responses, Written
  <2> QED BY <1>1, <2>1 DEF Written, AnsweredOnce
<1>2. ASSUME at \in Early, at' \in {"destroy", "release", "catch", "crashed"}, page' = page,
             raised' = "db", out' = out, found' \in BOOLEAN, page # "unknown site"
      PROVE  Written'
  <2>1. out' = <<>> /\ Len(out') = 0
    BY <1>2, EmptySeq DEF IInv, Responses
  <2> QED BY <1>2, <2>1 DEF Written, AnsweredOnce
<1>3. CASE GetConnection \/ GetConnectionFails \/ PrepareNext \/ PrepareFails \/ BindParameter
  <2>1. /\ at \in Early /\ page' = page /\ out' = out /\ found' = found /\ page # "unknown site"
        /\ \/ at' \in Early \ {"write"} /\ raised' = raised
           \/ at' \in {"release", "catch"} /\ raised' = "db"
    BY <1>3 DEF GetConnection, GetConnectionFails, PrepareNext, PrepareFails, BindParameter, Goto, Written
  <2> QED BY <2>1, <1>1, <1>2 DEF Written
<1>4. CASE ExecuteIt \/ QueryFails \/ FetchNext \/ FetchColumnFails
  <2>1. /\ at \in Early /\ page' = page /\ out' = out /\ page # "unknown site"
        /\ found' \in {TRUE, found}
        /\ \/ at' \in Early \ {"write"} /\ raised' = raised
           \/ at' = "destroy" /\ raised' = "db"
    BY <1>4 DEF ExecuteIt, QueryFails, FetchNext, FetchColumnFails, Goto, Written
  <2> QED BY <2>1, <1>1, <1>2 DEF Written
<1>5. CASE ExecuteUnbound
  <2>1. /\ at' = "crashed" /\ at = "execute" /\ page' = page /\ out' = out
        /\ raised' = raised /\ found' = found
    BY <1>5 DEF ExecuteUnbound, Goto
  <2>2. out' = <<>> /\ Len(out') = 0 /\ page # "unknown site"
    BY <2>1, EmptySeq DEF IInv, Responses, Written
  <2> QED BY <2>1, <2>2 DEF Written, AnsweredOnce
<1>6. CASE FetchEnds
  <2>1. /\ at = "fetch" /\ at' = "fetched" /\ page' = page /\ out' = out
        /\ raised' = raised /\ found' = found
    BY <1>6 DEF FetchEnds, Goto
  <2> QED BY <2>1, <1>1 DEF Written
<1>7. CASE Fetched
  <2>1. /\ at = "fetched" /\ page' = page /\ out' = out /\ raised' = raised /\ found' = found
        /\ at' = IF page = "blogroll" \/ (page = "post" /\ found) THEN "write" ELSE "destroy"
    BY <1>7 DEF Fetched, Goto
  <2>2. out' = <<>> /\ Len(out') = 0 /\ raised' = "no"
    BY <2>1, EmptySeq DEF IInv, Responses, Written
  <2>3. at' = "write" => HasPage'
    BY <2>1 DEF HasPage
  <2>4. at' = "destroy" => ~(HasPage' /\ page' # "sitemap")
    BY <2>1 DEF HasPage
  <2>5. AnsweredOnce'
    BY <2>1 DEF AnsweredOnce
  <2>6. page # "unknown site" /\ at' \in {"write", "destroy"}
    <3>1. at' \in {"write", "destroy"}
      BY <2>1
    <3> QED BY <3>1, <2>1 DEF Written
  <2>7. page' \in Pages /\ page' # "unknown site" /\ found' \in BOOLEAN
    BY <2>1, <2>6 DEF Written
  <2>8. CASE at' = "write"
    BY <1>1, <2>1, <2>3, <2>7, <2>8
  <2>9. CASE at' = "destroy"
    <3>1. Len(out') # 1 /\ ~(HasPage' /\ page' # "sitemap")
      BY <2>2, <2>4, <2>9
    <3>2. Len(out') = 1 <=> HasPage' /\ page' # "sitemap"
      BY <3>1, Zenon
    <3>3. AnsweredOnce'
      BY <2>9 DEF AnsweredOnce
    <3> HIDE DEF Early
    <3> QED BY <2>2, <2>7, <2>9, <3>1, <3>2, <3>3 DEF Written
  <2> QED BY <2>6, <2>8, <2>9
<1>8. CASE Write \/ WriteFails
  <2>1. /\ \E text \in {"page", "header"} : out' = Append(out, text)
        /\ page' = page /\ found' = found /\ at = "write"
        /\ at' = IF page = "sitemap" THEN "release" ELSE "destroy"
        /\ raised' \in {raised, "std"}
    BY <1>8 DEF Write, WriteFails, AfterWriting, Goto
  <2>2. out = <<>>
    BY <2>1 DEF IInv, Responses
  <2>3. Len(out') = 1 /\ out'[1] \in {"page", "header"}
    <3>1. PICK text \in {"page", "header"} : out' = <<text>>
      BY <2>1, <2>2
    <3> QED BY <3>1
  <2>4. HasPage' = HasPage /\ raised = "no" /\ HasPage /\ page # "unknown site"
    BY <2>1 DEF HasPage, Written
  <2>5. AnsweredOnce'
    BY <2>1 DEF AnsweredOnce
  <2> QED BY <2>1, <2>3, <2>4, <2>5 DEF Written
<1>9. CASE DestroyStatement \/ CloseFails \/ CloseTerminates \/ ReleaseConnection
  <2>1. /\ at \in {"destroy", "release"} /\ page' = page /\ out' = out /\ found' = found
        /\ \/ at = "destroy" /\ at' = AfterStatement /\ raised' = raised
           \/ at = "destroy" /\ at' = "release" /\ raised = "no" /\ raised' = "db"
           \/ at = "destroy" /\ at' = "crashed" /\ raised' = raised
           \/ at = "release" /\ at' = "catch" /\ raised' = raised
    BY <1>9 DEF DestroyStatement, CloseFails, CloseTerminates, ReleaseConnection, Goto
  <2>2. HasPage' = HasPage /\ page # "unknown site"
    BY <2>1 DEF HasPage, Written
  <2>3. page = "sitemap" /\ at = "destroy" => out = <<>> /\ Len(out) = 0
    BY EmptySeq DEF IInv, Responses
  <2>4. page = "sitemap" => HasPage
    BY DEF HasPage
  <2>5. AnsweredOnce'
    BY <2>1 DEF AfterStatement, AnsweredOnce
  <2> QED BY <2>1, <2>2, <2>3, <2>4, <2>5 DEF Written, AfterStatement
<1>10. CASE Answer
  BY <1>10, AnswerWritten DEF IInv
<1> QED BY <1>0, <1>3, <1>4, <1>5, <1>6, <1>7, <1>8, <1>9, <1>10 DEF Step

(* On every path of success and failure a request gets one response, but   *)
(* for the pages that write none and the exceptions that come after one    *)
(* (wp_handler.cpp:37-98, sitemap_handler.cpp:312-321,                     *)
(* fcgi_server.cpp:105-128).                                               *)
THEOREM AnsweredByOne == Spec => []AnsweredOnce
<1>1. IInv /\ Written /\ [Next]_vars => Written'
  <2>1. ASSUME Written, UNCHANGED vars PROVE Written'
    <3>1. /\ page' = page /\ found' = found /\ raised' = raised /\ at' = at /\ out' = out
          /\ HasPage' = HasPage
      BY <2>1 DEF vars, HasPage
    <3>2. AnsweredOnce' = AnsweredOnce
      BY <3>1 DEF AnsweredOnce
    <3> QED BY <2>1, <3>1, <3>2 DEF Written
  <2> QED BY <2>1, StepWritten DEF Next
<1>2. Written => AnsweredOnce
  BY DEF Written
<1> QED BY <1>1, <1>2, InitWritten, Invariance, PTL DEF Spec

-----------------------------------------------------------------------------
(* Buffers: there is at most one, m_column_data points to it, and what     *)
(* m_bind_out points to otherwise comes from an earlier row, which only the*)
(* blogroll has.                                                           *)

Held ==
  /\ rows \in Seq(BOOLEAN) /\ cursor \in Nat /\ cursor <= Len(rows)
  /\ live = IF columnBuf = Null THEN {} ELSE {columnBuf}
  /\ columnBuf # Null => bindBuf = columnBuf
  /\ bindBuf # Null => \E i \in 1 .. cursor : rows[i]
  /\ cursor > 0 /\ columnBuf = Null => ~rows[cursor]
  /\ ~SelectsBlob => \A i \in 1 .. Len(rows) : ~rows[i]
  /\ page # "blogroll" /\ bindBuf # Null => bindBuf \in live
  /\ at \in {"bind", "execute"} => cursor = 0
  /\ at = "fetch" /\ ~FetchesAll => cursor = 0

Buffers ==
  /\ corrupted => page = "blogroll"
  /\ stmt = "none" => live = {}
  /\ stmt # "none" => Held

LEMMA InitBuffers == Init => Buffers
BY DEF Init, StmtInit, Buffers

(* What these depend on: the page, and which of its statements is run.     *)
LEMMA SamePage ==
  ASSUME UNCHANGED <<page, nth>>
  PROVE  SelectsBlob' = SelectsBlob /\ FetchesAll' = FetchesAll
BY DEF SelectsBlob, FetchesAll, Option

LEMMA PrepareHolds ==
  ASSUME Prepare, stmt = "none" => live = {}
  PROVE  Held'
<1>1. /\ rows' = <<>> /\ cursor' = 0 /\ columnBuf' = Null /\ bindBuf' = Null /\ live' = {}
  BY DEF Prepare
<1>2. rows' \in Seq(BOOLEAN) /\ Len(rows') = 0
  BY <1>1
<1> QED BY <1>1, <1>2 DEF Held

LEMMA ExecuteHolds ==
  ASSUME Held, Execute, UNCHANGED <<page, nth>>, at = "execute", at' = "fetch",
         SelectsBlob \/ \A i \in DOMAIN rows' : ~rows'[i]
  PROVE  Held'
<1>1. /\ cursor = 0 /\ cursor' = 0 /\ rows' \in Seq(BOOLEAN)
      /\ UNCHANGED <<columnBuf, bindBuf, live>>
  BY StmtAssumption DEF Held, Execute, bufVars
<1>2. bindBuf = Null /\ columnBuf = Null /\ live = {}
  BY <1>1 DEF Held
<1>3. 0 <= Len(rows') /\ DOMAIN rows' = 1 .. Len(rows')
  BY <1>1, LenProperties
<1>4. ~SelectsBlob' => \A i \in 1 .. Len(rows') : ~rows'[i]
  BY <1>3, SamePage
<1> QED BY <1>1, <1>2, <1>3, <1>4 DEF Held

LEMMA FetchHolds ==
  ASSUME Held, Fetch, UNCHANGED <<page, nth>>, at = "fetch",
         at' = "fetch" => FetchesAll, at' \notin {"bind", "execute"}
  PROVE  Held'
<1>1. /\ rows' = rows /\ rows \in Seq(BOOLEAN)
      /\ cursor \in Nat /\ cursor' = cursor + 1 /\ cursor' <= Len(rows) /\ Len(rows) \in Nat
  BY LenProperties DEF Held, Fetch, HasRow
<1>2. live \ {columnBuf} = {}
  BY DEF Held
<1>3. /\ rows'[cursor'] = NextRow /\ cursor' \in 1 .. cursor'
      /\ \A i \in 1 .. cursor : i \in 1 .. cursor'
  BY <1>1 DEF NextRow
<1>4. SelectsBlob' = SelectsBlob /\ FetchesAll' = FetchesAll
  BY SamePage
<1>5. /\ rows' \in Seq(BOOLEAN) /\ cursor' \in Nat /\ cursor' <= Len(rows')
      /\ ~SelectsBlob' => \A i \in 1 .. Len(rows') : ~rows'[i]
      /\ at' \in {"bind", "execute"} => cursor' = 0
      /\ at' = "fetch" /\ ~FetchesAll' => cursor' = 0
  BY <1>1, <1>4 DEF Held
<1>6. CASE NextRow
  <2>1. PICK a \in Addresses : columnBuf' = a /\ bindBuf' = a /\ live' = {a}
    BY <1>2, <1>6 DEF Fetch
  <2>2. a # Null
    BY StmtAssumption
  <2>3. \E i \in 1 .. cursor' : rows'[i]
    BY <1>3, <1>6
  <2> QED BY <1>5, <2>1, <2>2, <2>3 DEF Held
<1>7. CASE ~NextRow
  <2>1. columnBuf' = Null /\ live' = {} /\ bindBuf' = bindBuf
    BY <1>2, <1>7 DEF Fetch
  <2>2. bindBuf' # Null => \E i \in 1 .. cursor' : rows'[i]
    BY <1>1, <1>3, <2>1 DEF Held
  <2>3. ~rows'[cursor']
    BY <1>3, <1>7
  <2>4. page # "blogroll" => bindBuf = Null
    <3>1. CASE ~FetchesAll
      <4>1. cursor = 0
        BY <3>1 DEF Held
      <4> QED BY <4>1 DEF Held
    <3>2. CASE FetchesAll
      <4>1. page # "blogroll" => ~SelectsBlob
        BY <3>2 DEF FetchesAll, SelectsBlob
      <4>2. ~SelectsBlob => \A i \in 1 .. cursor : ~rows[i]
        BY <1>1 DEF Held
      <4> QED BY <4>1, <4>2 DEF Held
    <3> QED BY <3>1, <3>2
  <2> QED BY <1>5, <2>1, <2>2, <2>3, <2>4 DEF Held
<1> QED BY <1>6, <1>7

(* The statement is left alone.                                            *)
LEMMA StillHolds ==
  ASSUME Held, UNCHANGED <<rows, cursor, columnBuf, bindBuf, live, page, nth>>,
         at' \in {"bind", "execute"} => at \in {"bind", "execute"},
         at' = "fetch" => at = "fetch"
  PROVE  Held'
<1>1. SelectsBlob' = SelectsBlob /\ FetchesAll' = FetchesAll
  BY SamePage
<1> QED BY <1>1 DEF Held

LEMMA DestroyEmpties ==
  ASSUME Buffers, Destroy, page' = page
  PROVE  Buffers'
<1>1. Held /\ stmt' = "none"
  BY DEF Buffers, Destroy
<1>2. live' = {}
  BY <1>1 DEF Held, Destroy
<1>3. corrupted' => page' = "blogroll"
  BY <1>1 DEF Held, Buffers, Destroy
<1> QED BY <1>1, <1>2, <1>3 DEF Buffers

LEMMA StepBuffers == IInv /\ Buffers /\ [Next]_vars => Buffers'
<1> SUFFICES ASSUME IInv, Buffers, [Next]_vars PROVE Buffers'
  OBVIOUS
<1>1. ASSUME UNCHANGED <<stmtVars, page, nth>>,
             stmt # "none" => /\ at' \in {"bind", "execute"} => at \in {"bind", "execute"}
                              /\ at' = "fetch" => at = "fetch"
      PROVE  Buffers'
  <2>1. /\ UNCHANGED <<rows, cursor, columnBuf, bindBuf, live, page, nth>>
        /\ stmt' = stmt /\ corrupted' = corrupted
    BY <1>1 DEF stmtVars, bufVars
  <2>2. stmt # "none" => Held'
    BY <1>1, <2>1, StillHolds DEF Buffers
  <2> QED BY <2>1, <2>2 DEF Buffers
<1>2. CASE \/ UnknownSite \/ GetConnection \/ GetConnectionFails \/ PrepareFails
           \/ ExecuteUnbound \/ QueryFails \/ FetchEnds \/ Fetched \/ Write \/ WriteFails
           \/ ReleaseConnection \/ Answer \/ UNCHANGED vars
  <2>1. /\ UNCHANGED <<stmtVars, page, nth>>
        /\ at' \in {"bind", "execute"} => at \in {"bind", "execute"}
        /\ at' = "fetch" => at = "fetch"
    BY <1>2 DEF UnknownSite, GetConnection, GetConnectionFails, PrepareFails, ExecuteUnbound,
       QueryFails, FetchEnds, Fetched, Write, WriteFails, AfterWriting, ReleaseConnection,
       Answer, Goto, vars
  <2> QED BY <1>1, <2>1
<1>3. CASE PrepareNext
  <2>1. Prepare /\ stmt' # "none" /\ page' = page /\ corrupted' = corrupted
    BY <1>3 DEF PrepareNext, Prepare, Goto
  <2> QED BY <2>1, PrepareHolds DEF Buffers
<1>4. CASE BindParameter
  <2>1. /\ UNCHANGED <<rows, cursor, columnBuf, bindBuf, live, page, nth>>
        /\ stmt # "none" /\ stmt' = stmt /\ corrupted' = corrupted
        /\ at = "bind" /\ at' = "execute"
    BY <1>4 DEF BindParameter, Bind, Goto, bufVars
  <2> QED BY <2>1, StillHolds DEF Buffers
<1>5. CASE ExecuteIt
  <2>1. /\ Execute /\ UNCHANGED <<page, nth>> /\ at = "execute" /\ at' = "fetch"
        /\ SelectsBlob \/ \A i \in DOMAIN rows' : ~rows'[i]
        /\ stmt # "none" /\ stmt' # "none" /\ corrupted' = corrupted
    BY <1>5 DEF ExecuteIt, Execute, Goto, bufVars
  <2> QED BY <2>1, ExecuteHolds DEF Buffers
<1>6. CASE FetchNext \/ FetchColumnFails
  <2>1. /\ Fetch /\ UNCHANGED <<page, nth>> /\ at = "fetch"
        /\ at' = "fetch" => FetchesAll /\ at' \notin {"bind", "execute"}
        /\ at' \notin {"bind", "execute"}
        /\ stmt # "none" /\ stmt' # "none" /\ corrupted' = corrupted
    BY <1>6 DEF FetchNext, FetchColumnFails, Fetch, Goto
  <2> QED BY <2>1, FetchHolds DEF Buffers
<1>7. CASE DestroyStatement \/ CloseFails \/ CloseTerminates
  <2>1. Destroy /\ page' = page
    BY <1>7 DEF DestroyStatement, CloseFails, CloseTerminates, Goto
  <2> QED BY <2>1, DestroyEmpties
<1> QED BY <1>2, <1>3, <1>4, <1>5, <1>6, <1>7 DEF Next, Step

(* The destructor of a statement deletes the buffer there is, and deletes  *)
(* one twice only if an empty BLOB follows one with contents, which of the *)
(* pages only the blogroll can meet (db_pool.h:201-218, 486-545).          *)
THEOREM FreedOnce == Spec => []BuffersFreedOnce
<1>1. IInv /\ Buffers => BuffersFreedOnce
  <2> SUFFICES ASSUME IInv, Buffers PROVE BuffersFreedOnce
    OBVIOUS
  <2>1. ASSUME at = "destroy", bindBuf # Null, bindBuf \notin live PROVE StaleBuffer
    <3>1. Held
      BY <2>1 DEF IInv, Scopes, WithStatement, Buffers
    <3>2. columnBuf = Null
      BY <2>1, <3>1 DEF Held
    <3>3. PICK i \in 1 .. cursor : rows[i]
      BY <2>1, <3>1 DEF Held
    <3>4. cursor \in Nat /\ cursor > 0 /\ ~rows[cursor]
      BY <3>1, <3>2, <3>3 DEF Held
    <3>5. i \in 1 .. cursor - 1 /\ cursor > 1
      BY <3>3, <3>4
    <3> QED BY <3>3, <3>4, <3>5 DEF StaleBuffer
  <2> QED BY <2>1 DEF Buffers, BuffersFreedOnce
<1> QED BY <1>1, InitBuffers, StepBuffers, Invariance, PTL DEF Spec

-----------------------------------------------------------------------------
(* No part of a request is done again: a step leads to a later place in the*)
(* handler, to the next of the rows that were selected, or to the next of  *)
(* the statements (sitemap_handler.cpp:94-321, wp_handler.cpp:92-269).     *)
Course ==
  IF page = "sitemap"
  THEN <<"begin", "prepare", "bind", "execute", "fetch", "fetched", "destroy", "write",
         "release", "catch", "done", "crashed">>
  ELSE <<"begin", "prepare", "bind", "execute", "fetch", "fetched", "write", "destroy",
         "release", "catch", "done", "crashed">>

Later == \E i, j \in DOMAIN Course : i < j /\ at = Course[i] /\ at' = Course[j]

RowsLeft == Len(rows) - cursor

NothingAgain ==
  [][ \/ Later /\ UNCHANGED nth
      \/ at = "fetch" /\ RowsLeft' \in 0 .. RowsLeft - 1 /\ UNCHANGED <<at, nth>>
      \/ nth' \in nth + 1 .. Statements ]_vars

LEMMA CourseIs ==
  /\ DOMAIN Course = 1 .. 12
  /\ Course[1] = "begin" /\ Course[2] = "prepare" /\ Course[3] = "bind"
  /\ Course[4] = "execute" /\ Course[5] = "fetch" /\ Course[6] = "fetched"
  /\ page = "sitemap" => Course[7] = "destroy" /\ Course[8] = "write"
  /\ page # "sitemap" => Course[7] = "write" /\ Course[8] = "destroy"
  /\ Course[9] = "release" /\ Course[10] = "catch" /\ Course[11] = "done"
  /\ Course[12] = "crashed"
<1>1. CASE page = "sitemap"
  BY <1>1 DEF Course
<1>2. CASE page # "sitemap"
  BY <1>2 DEF Course
<1> QED BY <1>1, <1>2

LEMMA Leads ==
  ASSUME NEW i \in 1 .. 12, NEW j \in 1 .. 12, i < j, at = Course[i], at' = Course[j]
  PROVE  Later
BY CourseIs DEF Later

LEMMA StepLeadsOn ==
  ASSUME Step, ~FetchNext, ~DestroyStatement
  PROVE  Later /\ nth' = nth
<1> USE CourseIs, Leads DEF Goto
<1>1. CASE UnknownSite \/ GetConnection \/ GetConnectionFails
  <2>1. at = "begin" /\ at' \in {"prepare", "catch", "done"} /\ nth' = nth
    BY <1>1 DEF UnknownSite, GetConnection, GetConnectionFails
  <2> QED BY <2>1
<1>2. CASE PrepareNext \/ PrepareFails \/ BindParameter
  BY <1>2 DEF PrepareNext, PrepareFails, BindParameter
<1>3. CASE ExecuteIt \/ ExecuteUnbound
  BY <1>3 DEF ExecuteIt, ExecuteUnbound
<1>4. CASE QueryFails
  BY <1>4 DEF QueryFails
<1>5. CASE FetchColumnFails
  BY <1>5 DEF FetchColumnFails
<1>6. CASE FetchEnds
  BY <1>6 DEF FetchEnds
<1>7. CASE Fetched
  BY <1>7 DEF Fetched
<1>8. CASE Write \/ WriteFails
  BY <1>8 DEF Write, WriteFails, AfterWriting
<1>9. CASE CloseFails \/ CloseTerminates
  BY <1>9 DEF CloseFails, CloseTerminates
<1>10. CASE ReleaseConnection \/ Answer
  BY <1>10 DEF ReleaseConnection, Answer
<1> QED BY <1>1, <1>2, <1>3, <1>4, <1>5, <1>6, <1>7, <1>8, <1>9, <1>10 DEF Step

LEMMA FetchLeadsOn ==
  ASSUME IInv, Buffers, FetchNext
  PROVE  /\ nth' = nth
         /\ Later \/ (at = "fetch" /\ at' = at /\ RowsLeft' \in 0 .. RowsLeft - 1)
<1>1. Held /\ Fetch /\ at = "fetch" /\ nth' = nth
  BY DEF FetchNext, IInv, Scopes, WithStatement, Buffers
<1>2. RowsLeft' \in 0 .. RowsLeft - 1
  <2>1. rows' = rows /\ cursor' = cursor + 1 /\ cursor < Len(rows)
    BY <1>1 DEF Fetch, HasRow
  <2>2. cursor \in Nat /\ Len(rows) \in Nat
    BY <1>1, LenProperties DEF Held
  <2> QED BY <2>1, <2>2 DEF RowsLeft
<1>3. at' = "fetch" \/ at' = "fetched"
  BY DEF FetchNext, Goto
<1>4. CASE at' = "fetched"
  BY <1>1, <1>4, CourseIs, Leads
<1> QED BY <1>1, <1>2, <1>3, <1>4

LEMMA DestroyLeadsOn ==
  ASSUME nth \in Nat, DestroyStatement
  PROVE  (Later /\ nth' = nth) \/ nth' \in nth + 1 .. Statements
<1>1. at = "destroy" /\ at' = AfterStatement /\ nth' = IF at' = "prepare" THEN nth + 1 ELSE nth
  BY DEF DestroyStatement, Goto
<1>2. CASE at' = "prepare"
  <2>1. nth < Statements /\ Statements \in Nat
    BY <1>1, <1>2, PagesAssumption, LenProperties DEF AfterStatement, Statements
  <2> QED BY <1>1, <1>2, <2>1
<1>3. CASE at' # "prepare"
  <2>1. at' = "release" \/ (at' = "write" /\ page = "sitemap")
    BY <1>1, <1>3 DEF AfterStatement
  <2> QED BY <1>1, <1>3, <2>1, CourseIs, Leads
<1> QED BY <1>2, <1>3

(* A handler comes to an end, however many rows its statements select and  *)
(* wherever they fail: it never goes back but to the next statement, and   *)
(* stays where it is only with a row less to fetch                         *)
(* (sitemap_handler.cpp:94-321, wp_handler.cpp:92-269).                   *)
THEOREM GoesOn == Spec => NothingAgain
<1>1. Init => nth \in Nat
  BY DEF Init
<1>2. nth \in Nat /\ [Next]_vars => (nth \in Nat)'
  <2>1. CASE DestroyStatement
    BY <2>1 DEF DestroyStatement
  <2>2. CASE FetchNext \/ UNCHANGED vars
    BY <2>2 DEF FetchNext, vars
  <2> QED BY <2>1, <2>2, StepLeadsOn DEF Next
<1>3. ASSUME IInv, Buffers, nth \in Nat, [Next]_vars
      PROVE  [ \/ Later /\ UNCHANGED nth
               \/ at = "fetch" /\ RowsLeft' \in 0 .. RowsLeft - 1 /\ UNCHANGED <<at, nth>>
               \/ nth' \in nth + 1 .. Statements ]_vars
  BY <1>3, StepLeadsOn, FetchLeadsOn, DestroyLeadsOn DEF Next
<1>4. Spec => []Buffers
  BY InitBuffers, StepBuffers, Invariance, PTL DEF Spec
<1>5. Spec => [](nth \in Nat)
  BY <1>1, <1>2, PTL DEF Spec
<1> QED BY <1>3, <1>4, <1>5, Invariance, PTL DEF Spec, NothingAgain

=============================================================================
