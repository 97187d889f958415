----------------------------- MODULE SitePages -----------------------------
(***************************************************************************)
(* How one request for a page of the site is answered: wp_handler::handle  *)
(* and sitemap_handler::handle of src/src/server, with the objects they    *)
(* have on the stack, the exceptions that destroy those, and the catch     *)
(* clauses of fcgi_server::worker_thread.                                  *)
(***************************************************************************)
EXTENDS DBStmt

CONSTANTS
  SiteMapParams   \* parameters of each statement of the sitemap, in order

ASSUME PagesAssumption == SiteMapParams \in Seq({0, 1}) /\ SiteMapParams # <<>>

VARIABLES
  page,     \* what is asked for
  at,       \* where the handler is
  nth,      \* which of its statements it is at
  conn,     \* its DBConnHolder: "none", "held" or "returned"
  found,    \* has fetch() returned true?
  raised,   \* the exception that was thrown: "no", "db" or "std"
  out       \* the responses written so far

vars == <<stmtVars, page, at, nth, conn, found, raised, out>>

Pages == {"blogroll", "category", "author", "post", "sitemap", "unknown site"}

(* These two look the page up and then write nothing.                      *)
Unfinished == {"category", "author"}

Init ==
  /\ StmtInit
  /\ page \in Pages
  /\ at = "begin" /\ nth = 1
  /\ conn = "none"
  /\ found = FALSE
  /\ raised = "no"
  /\ out = <<>>

Statements == IF page = "sitemap" THEN Len(SiteMapParams) ELSE 1

Params ==
  CASE page = "blogroll" -> 0
    [] page = "sitemap"  -> SiteMapParams[nth]
    [] OTHER             -> 1

(* The parameter that is bound: category and author count from 1.          *)
Parameter == IF page \in Unfinished THEN 1 ELSE 0

(* The sitemap begins with two statements that read one option each.       *)
Option == page = "sitemap" /\ nth <= 2

FetchesAll == page = "blogroll" \/ (page = "sitemap" /\ ~Option)

SelectsBlob == page \in {"blogroll", "post"} \/ Option

Goto(label) == at' = label /\ UNCHANGED page

-----------------------------------------------------------------------------
(* A host the sitemap has no pool for.                                     *)
UnknownSite ==
  /\ at = "begin" /\ page = "unknown site"
  /\ out' = <<"error">>
  /\ Goto("done")
  /\ UNCHANGED <<stmtVars, nth, conn, found, raised>>

(* DBConnHolder.                                                           *)
GetConnection ==
  /\ at = "begin" /\ page # "unknown site"
  /\ conn' = "held"
  /\ Goto("prepare")
  /\ UNCHANGED <<stmtVars, nth, found, raised, out>>

GetConnectionFails ==
  /\ at = "begin" /\ page # "unknown site"
  /\ raised' = "db"
  /\ Goto("catch")
  /\ UNCHANGED <<stmtVars, nth, conn, found, out>>

PrepareNext ==
  /\ at = "prepare"
  /\ Prepare
  /\ Goto("bind")
  /\ UNCHANGED <<nth, conn, found, raised, out>>

(* The constructor throws, so the destructor will not run.                 *)
PrepareFails ==
  /\ at = "prepare"
  /\ raised' = "db"
  /\ Goto("release")
  /\ UNCHANGED <<stmtVars, nth, conn, found, out>>

BindParameter ==
  /\ at = "bind"
  /\ Bind(Parameter, Params)
  /\ Goto("execute")
  /\ UNCHANGED <<nth, conn, found, raised, out>>

ExecuteIt ==
  /\ at = "execute"
  /\ Execute
  /\ SelectsBlob \/ \A i \in DOMAIN rows' : ~rows'[i]
  /\ Goto("fetch")
  /\ UNCHANGED <<nth, conn, found, raised, out>>

(* A parameter that was not bound is memory nobody has initialised; reading*)
(* it as an address brings the process down, or not.                       *)
ExecuteUnbound ==
  /\ at = "execute"
  /\ \E i \in 0 .. Params - 1 : i \notin bound
  /\ Goto("crashed")
  /\ UNCHANGED <<stmtVars, nth, conn, found, raised, out>>

(* execute() or fetch() throws.                                            *)
QueryFails ==
  /\ at \in {"execute", "fetch"}
  /\ raised' = "db"
  /\ Goto("destroy")
  /\ UNCHANGED <<stmtVars, nth, conn, found, out>>

FetchNext ==
  /\ at = "fetch"
  /\ Fetch
  /\ found' = TRUE
  /\ Goto(IF FetchesAll THEN "fetch" ELSE "fetched")
  /\ UNCHANGED <<nth, conn, raised, out>>

(* The row was fetched, but not the contents of its BLOB.                  *)
FetchColumnFails ==
  /\ at = "fetch"
  /\ HasRow /\ NextRow
  /\ Fetch
  /\ raised' = "db"
  /\ Goto("destroy")
  /\ UNCHANGED <<nth, conn, found, out>>

FetchEnds ==
  /\ at = "fetch" /\ ~HasRow
  /\ Goto("fetched")
  /\ UNCHANGED <<stmtVars, nth, conn, found, raised, out>>

(* blogroll and post write while the statement is still there.             *)
Fetched ==
  /\ at = "fetched"
  /\ Goto(IF page = "blogroll" \/ (page = "post" /\ found) THEN "write" ELSE "destroy")
  /\ UNCHANGED <<stmtVars, nth, conn, found, raised, out>>

(* Mutant: the connection is given back before the statement is closed.    *)
WriteReleases ==
  /\ at = "write"
  /\ out' = Append(out, "page")
  /\ Goto("release")
  /\ UNCHANGED <<stmtVars, nth, conn, found, raised>>

AfterWriting == IF page = "sitemap" THEN "release" ELSE "destroy"

Write ==
  /\ at = "write"
  /\ out' = Append(out, "page")
  /\ Goto(AfterWriting)
  /\ UNCHANGED <<stmtVars, nth, conn, found, raised>>

(* The document cannot be serialised: the header is out, the body is not.  *)
WriteFails ==
  /\ at = "write"
  /\ out' = Append(out, "header")
  /\ raised' = "std"
  /\ Goto(AfterWriting)
  /\ UNCHANGED <<stmtVars, nth, conn, found>>

-----------------------------------------------------------------------------
(* The end of the statement's scope, by return or by exception.            *)

AfterStatement ==
  CASE raised # "no" \/ page # "sitemap" -> "release"
    [] OTHER -> IF nth < Statements THEN "prepare" ELSE "write"

(* Mutant: the same statement is executed again.                           *)
DestroyStatementRepeats ==
  /\ at = "destroy"
  /\ Destroy
  /\ UNCHANGED nth
  /\ Goto(AfterStatement)
  /\ UNCHANGED <<conn, found, raised, out>>

DestroyStatement ==
  /\ at = "destroy"
  /\ Destroy
  /\ nth' = IF AfterStatement = "prepare" THEN nth + 1 ELSE nth
  /\ Goto(AfterStatement)
  /\ UNCHANGED <<conn, found, raised, out>>

(* mysql_stmt_close fails, and the destructor throws.                      *)
CloseFails ==
  /\ at = "destroy" /\ raised = "no"
  /\ Destroy
  /\ raised' = "db"
  /\ Goto("release")
  /\ UNCHANGED <<nth, conn, found, out>>

(* While another exception is on its way, or where the compiler's standard *)
(* makes a destructor noexcept, the process is terminated.                 *)
CloseTerminates ==
  /\ at = "destroy"
  /\ Destroy
  /\ Goto("crashed")
  /\ UNCHANGED <<nth, conn, found, raised, out>>

(* ~DBConnHolder.                                                          *)
ReleaseConnection ==
  /\ at = "release"
  /\ conn' = "returned"
  /\ Goto("catch")
  /\ UNCHANGED <<stmtVars, nth, found, raised, out>>

(* The post that was asked for does not exist.                             *)
NotFound == raised = "no" /\ page = "post" /\ ~found

LastWord ==
  CASE raised = "db"  -> <<"error">>
    [] raised = "std" -> <<"500">>
    [] NotFound       -> <<"404">>
    [] OTHER          -> <<>>

(* Mutant: after an error handle_post says the page was not found.         *)
AnswerErrorAnd404 ==
  /\ at = "catch"
  /\ out' = out \o (CASE raised = "db"  -> <<"error">>
                      [] raised = "std" -> <<"500">>
                      [] OTHER          -> <<>>)
                \o (IF page = "post" /\ ~found THEN <<"404">> ELSE <<>>)
  /\ Goto("done")
  /\ UNCHANGED <<stmtVars, nth, conn, found, raised>>

(* The handler catches a db_exception and writes its error page; any other *)
(* exception is left to the server.  What was not found is a 404.          *)
Answer ==
  /\ at = "catch"
  /\ out' = out \o LastWord
  /\ Goto("done")
  /\ UNCHANGED <<stmtVars, nth, conn, found, raised>>

-----------------------------------------------------------------------------
Step ==
  \/ UnknownSite \/ GetConnection \/ GetConnectionFails
  \/ PrepareNext \/ PrepareFails \/ BindParameter
  \/ ExecuteIt \/ ExecuteUnbound \/ QueryFails
  \/ FetchNext \/ FetchColumnFails \/ FetchEnds \/ Fetched
  \/ Write \/ WriteFails
  \/ DestroyStatement \/ CloseFails \/ CloseTerminates
  \/ ReleaseConnection \/ Answer

Ended == at \in {"done", "crashed"}

Next == Step \/ (Ended /\ UNCHANGED vars)

Spec == Init /\ [][Next]_vars

(* The handler is one thread that runs; the library calls return.          *)
FairSpec == Spec /\ WF_vars(Step)

-----------------------------------------------------------------------------
(* A statement is used and closed only while its connection is held: on    *)
(* every way out of the handler it goes first, and the connection after it,*)
(* which the next request may get at once.                                 *)
StatementWithinLease ==
  /\ stmt # "none" => conn = "held"
  /\ at = "done" => conn # "held"

(* The destructor deletes every buffer, and once, with one exception: a row*)
(* whose BLOB is empty, after one whose BLOB was not, leaves the address of*)
(* the deleted buffer behind in m_bind_out.  Only the blogroll, with its   *)
(* ten posts, fetches more than one row that has a BLOB.                   *)
StaleBuffer == cursor > 1 /\ ~rows[cursor] /\ \E i \in 1 .. cursor - 1 : rows[i]

BuffersFreedOnce ==
  /\ corrupted => page = "blogroll"
  /\ at = "destroy" => (bindBuf # Null /\ bindBuf \notin live => StaleBuffer)
  /\ stmt = "none" => live = {}

(* A request gets one response: none from the two pages that are not       *)
(* written yet, and a second one when something throws after the page (or  *)
(* its header) is out, which for the sitemap only the writing itself can.  *)
AnsweredOnce ==
  at = "done" =>
    /\ raised = "no" => Len(out) = IF page \in Unfinished THEN 0 ELSE 1
    /\ raised # "no" => /\ Len(out) \in {1, 2}
                        /\ Len(out) = 2 => out[1] \in {"page", "header"}
    /\ (page = "sitemap" /\ raised = "db") => out = <<"error">>

Contract == INSTANCE RequestContract WITH
  lease   <- conn,
  answers <- Len(out),
  handler <- CASE at = "done" -> "back" [] at = "crashed" -> "gone" [] OTHER -> "running"

(* Every handler of the site keeps what DBPool and FcgiServer take for     *)
(* granted: whatever fails, it gives back the connection it had, writes    *)
(* its page before and its error after that, and however many rows there   *)
(* are it comes back.                                                      *)
KeepsContract == Contract!Spec

=============================================================================
