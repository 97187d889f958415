# fcgi-cpp-appserver in TLA+

The program is a FastCGI application server: a parent process keeps a worker
process alive; the worker runs five threads that accept requests, dispatch them
by location to handlers, and answer them from a MySQL database through a pool
of connections. This directory holds TLA+ modules of its parts, TLC
configurations that check them, and machine-checked proofs about them. All source names
below are relative to `src/` (so `src/db/db_pool.h` is `src/src/db/db_pool.h`
from the root).

## The system

| Component | Source | State it keeps | Operations | Talks to |
|---|---|---|---|---|
| Supervisor | `src/server/main.cpp`, `main.h` | `m_functions` (worker function, count, minimum), `m_workers` (pid to function), `m_exiting` | `run`, `spawn`, signal handler | forks, signals and waits for worker processes |
| Worker process | `src/server/worker.cpp` | the pool, the server, the handlers | `worker_process`, `sigquit_handler` | owns pool, maintenance thread and server |
| FastCGI server | `src/server/fcgi_server.*` | two maps of locations, handlers, `accept_mutex`, threads | `init`, `run`, `shutdown`, `add_handler_mapping`, `invoke_handler`, `worker_thread` | calls handlers; libfcgi |
| Connection pool | `src/db/db_pool.*` | `m_all_connections`, `m_available_connections`, two counters, mutex and condition; static flag and list of pools | `get`, `put`, `grow`, maintenance thread, `join_maintenance_thread` | handlers, through `DBConnHolder`; the MySQL library |
| Statements | `DBStmt` in `db_pool.h` | parameters, buffers of columns, handle | constructor, `bind*`, `execute`, `fetch`, `as*`, destructor | a lent connection |
| Site pages | `src/server/wp_handler.*`, `sitemap_handler.*` | the pool they use | `handle` and one function per page | statements, the response stream |
| Form data | `src/server/fcgi_handler.cpp` | the state of a parser, `m_formdata_params` | `parse_form_data` | the request stream |
| Query string | `fcgi_handler.cpp:430-472` | `m_params` | `parse_query_args`, `has_param`, `get_param` | filled when a request is made, read by handlers |
| XML | `src/server/xml.h` | guards over nodes of libxml2 | construction, `add`, `release`, destruction | both handlers build their documents with it |
| JSON | `src/server/json.*` | a tree of values | `add_*`, `insert`, `operator<<`, destructors | |
| Dates | `src/server/date.h` | `m_julian_day` | conversions, `+=`, `-=`, `++` | |
| URLs | `src/server/url.h` | the parts | constructor | |
| Regular expressions, Gearman, locks, log, scripts | | | not modelled | |

What makes each of them right, and what is hard about it:

- **Pool.** A connection is lent to one thread; the limit holds; nobody waits
  for ever; idle connections are removed, and only those. Hard: one condition
  variable, counters kept beside the lists, a second thread that removes
  connections and closes them after it gave the lock back, exceptions while the
  lock is held.
- **Supervisor.** Every child is known until it was waited for; the counts by
  which `spawn` decides agree with the children; it ends when all of them have.
  Hard: a signal at any moment, `fork` that fails half way, an iterator that is
  read after `erase`.
- **Server and worker process.** A request is answered once, by the right
  handler; nothing is destroyed while somebody uses it; when the socket fails
  the worker ends. Hard: threads that end one by one, the two lives
  (maintenance thread, request threads) the owner of pool and server has to
  outlast, and the exception path that does not.
- **Pages and statements.** One response on every path; statement closed before
  its connection is given back; buffers deleted once. Hard: a failure at every
  call, destructors that throw, two pointers to one buffer.
- **Form data.** What the body says is what is found, however it is cut into
  buffers. Hard: a boundary that almost matches, a boundary across two buffers,
  the workaround for lone line feeds.
- **Sitemap.** The listing has the pages the blog has, and the loop over them
  ends. Hard: unsigned differences, a page size read from the database.
- **Documents.** Each node of an XML and each value of a JSON document is freed
  once, however it was put in and wherever an exception ends the building; what
  is written as JSON reads back. Hard: ownership that moves, a key that is there
  already, a text that libxml2 merges with its neighbour.
- **Query strings, URLs, dates.** Nothing is lost when they are taken apart; a
  date follows the calendar. Hard: missing separators, ends of months and
  centuries.

`PROJECT.json` lists every hazard at its line with the properties that watch it.

## Modules

| Module | Models | Role |
|---|---|---|
| `ConnectionLease` | what a pool promises | abstract specification: open, lease, give back, retire, close |
| `DBPool` | `DBPool`, `DBConnHolder`, the maintenance thread | implements `ConnectionLease` (`lease <- held`) |
| `DBPoolProofs` | | proofs about `DBPool` |
| `MainProcess` | `MainProcess` and its children | |
| `MainProcessProofs` | | proofs about `MainProcess` |
| `FcgiServer` | `fcgi_server`: mappings, dispatch, threads | state and actions of the server |
| `WorkerProcess` | `worker_process`, `drop_permissions` | extends `FcgiServer` with the lives of pool, maintenance thread and server |
| `WorkerProofs` | | proofs about `WorkerProcess` and the dispatch of `FcgiServer` |
| `DBStmt` | `DBStmt` | state and actions of one statement |
| `SitePages` | `wp_handler::handle`, `sitemap_handler::handle`, the catch clauses of `worker_thread` | extends `DBStmt` with the handler around it |
| `RequestContract` | what a handler promises to pool, client and thread | abstract specification: borrow, write, give back, come back |
| `PagesProofs` | | proofs about `SitePages`, which implements `RequestContract` |
| `FormData` | `parse_form_data`, `formdata_parser` | |
| `FormDataProofs` | | proofs about `FormData` |
| `QueryArgs` | `parse_query_args`, `has_param`, `get_param` | |
| `Urls` | the constructor of `URL` | |
| `Calendar` | what a date promises | abstract specification: the days of the Gregorian calendar |
| `Dates` | `Date` | implements `Calendar` (`today <- DayOf(julian)`) |
| `XmlTree` | `XMLNode`, `XMLText`, `XMLDoc` | who owns which node |
| `JsonTree` | `JSONObject`, `JSONArray`, `operator<<` | who owns which value, and what is written |
| `JsonReader` | | a reader of JSON text, to say that what `JsonTree` writes is JSON |
| `DocumentProofs` | | proofs about `XmlTree`, `JsonTree` and `JsonReader` |
| `SiteMap` | the loops over pages of `sitemap_handler::handle` | |
| `HelperProofs` | | proofs about `SiteMap`, `Urls`, `QueryArgs` and `Dates` |
| `Induction` | | induction over the natural numbers, for the proofs about loops |
| `MC...` | | constants of the runs; `MCHelpers` sets query strings, URLs, dates, XML, JSON and the sitemap side by side |

Definitions whose comment begins with "Mutant:" are variants of the action or
operator below them, each with one plausible mistake. No specification uses
them; they show that a property would notice the mistake.

### How state and actions correspond to the code

**DBPool.** The variables are the members of the class (`all`, `available`,
`numConn`, `numAvail`), the mutex (`lock`), what is allocated (`open`), the
stamps `m_last_used`, and for each thread where it is (`pc`) and what its
`DBConnHolder` holds. A critical section is one step, except `get()` when it
grows the pool: the connect happens under the lock, so `GrowStart` takes it and
`GrowDone` or `GrowFail` ends it (`GrowFail` does not release it, as the
code does not). `GetWait` and `GetWoken` are the two halves of
`pthread_cond_wait`; between them any thread can run. `MaintClock`, `MaintLock`,
`MaintReap`/`MaintNothingIdle`, `MaintClose` and `MaintCheck` are the steps of the
maintenance thread between which other threads run. Time is `clock`, in units
of the idle limit of 60 seconds.

**MainProcess.** `SpawnOne`, `SpawnFails`, `SpawnDone` are `spawn()`, one fork a
step; `Block`, `NoChild` and `Reap` are `waitpid`; `Check` is the end of the loop's
body. `Signal` can come at every point. `kept` says whether the allocator
leaves a freed map node readable, which decides what `i->second` finds after
`erase(i)`: it is chosen once, as a property of the platform. So is `mayFail`, whether
there is a limit at which `fork()` fails. A child that is
`starting` still has its parent's signal handler, so that SIGQUIT is lost on it.

**FcgiServer, WorkerProcess.** `at[t]` is where `worker_thread` is. `Accept` and
`AcceptFails` are the two results of `FCGX_Accept_r`; `Respond` is everything from
`invoke_handler` to `FCGX_Finish_r`, with the handler's result chosen among
what it may do to its caller. `add_handler_mapping` puts a location behind the last
one that is not greater, as the multimap does; `Locations` is what calling it for
each mapping leaves, and `LastFired` is the loop of `invoke_handler` over one of the
two multimaps, each written as a recursive function; `HandlerFor` combines them. `phase` is where `worker_process` is; the two
ways out by exception (`MakeServerFails`, `OpenSocketFails`) skip the join of the
maintenance thread as the code does. `DropPermissions` is between them and never
throws: it returns, with the permissions dropped or (where there is no user to
become) with no more than a line in the log, or the process crashes, where the
group is missing, because the second test is of the user again.

**DBStmt, SitePages.** One request from `handle()` to the end of the catch
clauses: `at` follows the code, `raised` is the exception on its way,
`DestroyStatement`, `CloseFails`, `CloseTerminates` and `ReleaseConnection` are the
destructors in the order the stack has them. A BLOB column's two pointers
are `columnBuf` and `bindBuf`; `live` is the heap. Whether a destructor that throws
terminates the process depends on the language standard the compiler takes by
default, so both are possible; during unwinding only termination is.

**FormData.** One symbol of input per step. `pattern`, `start` and `pos` are the
string `boundary` and the two iterators into it; `Read` fills the buffer with
up to `StdinMax` symbols. The alphabet is CR, LF, `-`, one letter of the boundary,
one that is not, field names and a header that cannot be parsed. `Body` says what a
well-formed body is: delimiters, headers and values (`Following`), each value one
that no delimiter cuts short (`Carries`).

**QueryArgs, Urls.** `SplitArgument` is one turn of the loop of `parse_query_args` and
`LastArgument` what follows it; `arg` and what is left of the query are the two
iterators. `MakeUrl` is the constructor; `Parts` follows its five cuts.

**Dates.** A `Date` is kept as its Julian day plus a half, an integer. Products
with fractions such as 365.25 and 30.6001 are written as quotients of integers;
their floors are those of the `double`, because no such product comes near enough
to the next integer. A text is eight digits: `Printed` is what `yyyymmdd()` appends, of
a year its last four, and `yyyymmdd_to_julian_day` puts the numbers together again
from the digits.

**XmlTree, JsonTree.** `MakeNode`, `AddNode`, `AddPi` and `AddText` are what handlers do
with `guards`, the objects on the stack from the oldest to the newest; `EndBuilding`
is the return or the exception at any point between them, after which
`GuardEnds` and `DocEnds` run the destructors. In JSON `AddNew` is `add_object` and
`add_array`, `AddMade` is the addition of a container that exists, `Delete` a destructor
with everything it deletes; a value refused by `insert()` stays without an owner.
`Written` is `operator<<`. `JsonReader` is not the program's: it is the grammar of JSON
(the source's own reader is commented out), as an automaton that takes a character at
a time and keeps what it is in the middle of.

**SiteMap.** `ListFirst` is the first entry of a listing, `CategoryPage` and `FrontPage`
are one turn of each loop. `size_t` is `Word`; `perPage` is what `asInt` makes of the
column: the number, ten without a row, anything at all if it is no number.

**RequestContract.** `lease <- conn`, `answers <- Len(out)`, `handler` from `at`: a handler
that a thread has called takes one connection at most, gives it back before it
comes back, and writes at most two responses (the second is the header of an
error page behind a page). `FcgiServer`'s `Respond` may do to the thread what this
contract leaves open.

## Runs

| Run | Shows | Bounds and why they are enough |
|---|---|---|
| `pool_contended` | type and counters, limit, ledger, order of the list, idle time, signals; `ConnectionLease` is implemented | 4 threads, 2 connections allowed, 3 addresses, clock to 2: two waiters and two woken threads at once, a connection being closed while another is made, a stale `now`; connects fail and wakeups are spurious |
| `pool_liveness` | nobody waits; `get()` returns, idle connections go, the join returns | 2 threads, 2 connections: as many connections as threads, like 40 and 5 |
| `pool_barging` | violation: a woken thread finds the list empty | |
| `pool_five_minutes` | violation: idle limit differs from the comment | |
| `pool_connect_fails` | violation: the lock is lost | |
| `supervisor` | book-keeping, never without a worker for ever, both functions back at their numbers again and again where no fork fails, the end, with no child left behind | 2 functions with 1 and 2 workers, 4 process ids, so that an id is reused while others live; behaviours in which any fork may fail, and behaviours in which none does |
| `form_data` | well-formed bodies are parsed to what they say, whichever line end they use; buffers and termination on any input | values up to 4 symbols over an alphabet of 5, a second part with a value of 1, buffers of 3 and reads of 4, a boundary of 2: every partial match, every cut. Otherwise any 4 symbols after the first boundary |
| `form_no_boundary` | violation: Content-Type without a boundary is accepted | |
| `worker_serves` | one answer, right handler, lives, clients served, failure ends the worker | 2 threads, 4 requests (mapped, mapped deeper, unmapped, without SCRIPT_NAME), a queue of 2 |
| `worker_exact_match` | violation: exact mappings never fire | |
| `site_pages` | order of destruction, buffers, number of responses; `RequestContract` is implemented, which includes that the handler comes back | up to 3 rows of each result, 2 addresses, 4 statements of the sitemap: a stale pointer needs two rows, its reuse three |
| `helpers` | query strings, URLs, dates, XML and JSON documents, pages of the sitemap; `Calendar` is implemented | below |

In `helpers` a behaviour is one of one of the six, the `subject`, so that the
state spaces add up. Its bounds:

- queries: every sequence up to 6 symbols of `&`, `=`, the letter `c` and another, which
  has three arguments with and without names and values;
- URLs: five beginnings (none, either schema, two that nearly are one) and
  every tail up to 5 symbols of `:`, `/`, `?`, a digit and a letter;
- dates: the days of the years 1899 to 1901, 1996, 1997, 2000, 2001 and 2099 to
  2101 by steps of 1 and of 29 days: a century that is a leap year and two that
  are not, on both sides;
- XML: 4 addresses and 3 guards at a time; JSON: 3 containers, 2 strings with
  every kind of character, 3 keys and 2 items in each: a value under a key that
  is there, an array inside an object inside an array, an object of two members that
  can be read back and one that cannot;
- sitemap: up to 11 posts and the page sizes 0 to 4, 10, -1, no row, and no
  number; 16 and 64 stand for the two ranges of unsigned numbers, the second
  one that of `size_t` for the page size.

The runs marked as violations each show one disagreement between a comment or a
check in the source and what the code does; `PROJECT.json` quotes them.

**Bounds in the modules.** `MaxClock` stops the pool's clock; `Conns` bounds how many
connection objects exist at a time and `Addresses` how many buffers; `Pids` bounds
live processes; `Backlog` is the kernel's queue. Every other counter is bounded
by these.

**Stopping.** Deadlock is checked in every run but `helpers`, whose algorithms end. The
states in which a system may
stand still are named in each `Next` (`Finished`, `Ended`, `~Running`): the process
has ended, or, in the pool, `LockLost`: a connect has failed and the lock is
held by a thread that has left `get()`.

**Fairness.** In the pool: each thread runs, and a thread that wants a free mutex
again and again gets it (strong fairness; the code's critical sections are
short, and POSIX mutexes promise no more than that somebody gets it, so this is
an assumption about the scheduler); a connect and a handler take finite time.
Nobody has to make a request, fail, or wake up spuriously. In the
supervisor: the parent runs, a child installs its handler and ends once told,
and a fork tried again and again succeeds at last; children need not die and
signals need not come. In the worker: every thread runs, a waiting request is
delivered to a thread in `accept()`, a failed socket makes `accept()` return. In
`SitePages`, `FormData` and the loops of `SiteMap` one thread runs.

**What the properties say of the code's weak points.** Some invariants hold with a
named exception, which is a statement about the code:

- `BuffersFreedOnce`: `m_bind_out` keeps the address of a deleted buffer after a
  row with an empty BLOB, and the destructor deletes it again; in the blogroll,
  a post with an empty excerpt after one that has an excerpt.
- `AnsweredOnce`: a category or an author page writes nothing at all; when
  `mysql_stmt_close` fails or the document cannot be serialised after the header
  was written, a second header follows.
- `NothingOutlivesItsUse`: when the server cannot be made or its socket not opened,
  the exception takes `worker_process` past the join, and the pool is destroyed while
  the maintenance thread still uses it.
- `NothingLeaks`: connections removed for idleness stay in `m_all_connections`, and
  the destructor of the pool deletes them again.
- `NeverAlone`, `Respawns`: after a failed fork the parent waits for the children it
  has, however few; it is only certain not to be left without any. Where no fork
  fails every function is back at its number again and again. Both ask for an
  allocator that keeps a freed node readable until it is used again (`kept`):
  otherwise a dead worker may stay counted, and is then never replaced.
- `StopCompletes`: a child that had not installed its handler when SIGQUIT was
  sent never learns of it, and the parent waits for it.
- `QueryRead`: after the first argument the query is cut at the letter `c` instead
  of at `&`, so that a query is read right only if these agree.
- `UrlRejoined`: what follows a port and is neither path nor query is dropped.
- `JsonFreedOnce`: a value inserted under a key that is there is never freed.
- `JsonRead`: control characters without an escape of their own are written as
  they are, in strings and in names, which is not JSON; the reader then gets nothing.
- `PagesListed`, `PagingEnds`: the front page is listed with two pages at most; with
  a page size of zero one loop never ends and the other divides by zero.

## Proofs

`tlapm` checks the eight proof modules to the last leaf. Of the properties the
passing runs check, every invariant and every action property is a theorem.

**DBPoolProofs**, for any finite set of threads, any addresses, limit, idle time and
clock. The inductive invariant is

    IInv == TypeOK /\ Shape /\ LeaseSafe /\ CountersAgree

`CountersAgree` alone is not inductive: that a counter stays natural needs that
what is popped was there, that a list has no duplicates (`LeaseSafe`), and `Shape`,
which ties each thread's `pc` to what it holds and to the lock, `maint` to `victim`,
`open` to what is lent, available or being closed, and `all` to `open`. The step lemmas follow
the actions; the list operations (append, pop, remove at an index) are stated
once as lemmas about `Range` and injectivity. From `IInv`: `TypeCorrect`,
`LeaseSafety`, `CountersAgreement`, `Ledger` (`NothingLeaks`), `LimitKept`
(`OpenWithinLimit`), `NobodyWaits` (`NeverWaits`: there is a thread for each
connection that is neither available nor allowed, so the one that would wait
is one too many), and `Refinement`: every step of `DBPool` is a step of
`ConnectionLease` or a stutter. On top of `IInv` follow `InOrderOfUse` (`OldestFirst`) and
`OnlyIdleReaped` (`ReapsOnlyIdle`), which are proved together with the fact that no
stamp and no `now` is later than the clock: that is what the scan relies on when it
stops at the first connection that is not idle. `NobodyStranded`
(`NoStrandedWaiter`) counts: the woken threads are at least as many as the
available connections while somebody waits, because `put()` adds one of each and
who takes one of the first takes one of the second.

**MainProcessProofs**, for any functions, minima and process ids. The inductive
invariant adds to the checked ones an upper bound of the counts
(`CountsBounded`), from which and `CountsCover` `NeverTooMany` follows, and
`SignalledForGood`: once the workers were signalled, the parent is never in
`spawn()` again. From it: `TypeCorrect`, `ChildrenKnown`, `CountsHold`, `NumberKept`,
`NobodyLeft` (the end of `StopCompletes` as an invariant: whenever the parent is done,
no child is left), and the action property `NobodyStarted`.

**WorkerProofs**, for any threads, requests and mappings. `IInv` adds to `TypeOK` who
holds the mutex (`LockHeld`), that a request and the thread that serves it know
each other (`ServesOne`), and the order of lives (`Order`): threads run only while
`run()` does or until SIGQUIT, and pool and server are there in every phase that
uses them. From it `ServedByOne` (`OneServes`) and `UseWithinLife`
(`NothingOutlivesItsUse`).

**PagesProofs**, for any rows, addresses and number of statements. `Scopes` says
what the handler has on its stack at each label, `Responses` how much it has
written. From them `ClosedWithinLease` (`StatementWithinLease`) and `ContractSafe`:
the initial states and the steps of `SitePages` are those of `RequestContract`. That
the handler comes back, the other half of `KeepsContract`, is liveness and is
model-checked. `AnsweredByOne` (`AnsweredOnce`) needs `Written` besides: at each label,
whether a response is out is the same as whether the page has one and the handler
is past it, and no exception is pending before the writing. `FreedOnce`
(`BuffersFreedOnce`) needs `Buffers`: what is live is what `m_column_data` points to, an
address in `m_bind_out` means that some row so far had contents, and
if there is none in `m_column_data`, the last row had none. `GoesOn` (`NothingAgain`):
each step leads to a later place in the `Course` of the handler, to the next row or to the
next statement.

**Dispatch**, also in `WorkerProofs`: `RightOneAnswers` (`RightHandler`), for any
mappings none of which is exact (`NoneExact`), which is what `worker.cpp:84-85` sets
up; an exact mapping never fires, as `worker_exact_match` shows. The multimap is a
sorted list that holds each mapping once, those with the same key in the order they
were added. A prefix is not greater than what it is a prefix of, and of two
prefixes of one name the shorter one comes first; so the last one that fires is
the longest, and of equals the one mapped last.

**Induction.** The prover cannot instantiate a theorem that takes an operator, so
`Induction` states induction for sets of numbers: `LeastElement`, `SetInduction`,
`BoundedInduction`, and `LoopExists`, by which a recursive function over `0 .. n` has the
values its equation gives it. A loop of the code is such a function, and what it
leaves is proved by induction over the set of turns after which it has held so far.

**FormDataProofs**, for any requests and buffer sizes: `StaysWithinBuffers`
(`WithinBuffers`). Between two steps there is room for one more character in the
output buffer, and the position in the boundary is below its length wherever the next
character is compared with it; `Output`, which replays a partial match, is a loop
that empties the buffer when it is full. `PartsAreDelivered` (`DeliversParts`): the
parts of every well-formed body are entered, the first of each name, as far as the
value fits the buffer. The invariant, `Follows`, says of each place the parser can be
in what of the body is `Ahead` of it, in the buffer and outside, so that where the
body is cut makes no difference (`SameProgress`): before the first delimiter
(`Seeking`), between a delimiter and a value (`Between`), in a value (`Within`), or past
the last (`Closing`). In a value, what was seen is in the buffers but for the symbols
held back, and those are the ones of the boundary from `start` on; past the value
all are held back, from where the delimiter begins in the pattern (`DataAt`). So the
delimiter after a value is never missed, and it is not found before, because
the value carries none (`NotBefore`). `AlwaysGetsOn` (`GetsOn`), for any body: a step moves
symbols from the stream to the buffer, takes one from the buffer, or gives up a partial
match, and `WorkLeft` weighs these so that each makes it smaller. It needs `Asks`: a read
asks for what the last one got, which was never nothing.

**DocumentProofs**, for any addresses, keys and texts. `XmlNodesFreedOnce`: each live
node has one owner - a guard, the document or one parent - and no set of live nodes
is without a member whose parent is outside it (`Rooted`), so that freeing a tree frees
what hangs below it and nothing that anybody else owns. `JsonValuesFreedOnce`: nobody
refers to what is not live and each value is in one place. What a destructor reaches
(`Below`, `Inside`) is proved to be the least set closed under it.

`JsonIsReadBack` (`JsonRead`), for any containers, names and texts. As the reader takes
one character after another, to read two texts one behind the other is to read the
second from where the first leads (`ReadBoth`), and a text put together of pieces is
read piece by piece (`PiecesRead`): a string by its characters (`StringRead`), what is
between brackets by its elements (`SeparatedRead`), an object by its members, in
whatever order the map has the keys (`ObjectRead`). What is not JSON does not become it
again (`NotJsonStays`), so that one control character is enough. The document as a whole is
read by induction on how deep it is. That it has a depth is the invariant `ShapeInv`: a
number for each value that is greater than those of what is in it (`Acyclic`), finitely
many names in each object, nothing in a container that was deleted. A container gets
what is new, or what it is not inside of, so that all it is in can be lifted
above it (`AcyclicGrows`). Without such a number `Written` and `Meaning` would be no
functions at all; with it they are (`BothExist`).

**HelperProofs.** `PagesAreListed`, for any numbers of posts and widths of the integers:
after each page of a loop, what is listed is the pages up to it; `PagingGoesOn`
(`FewerPostsLeft`): and fewer posts are left, unless the page size is zero.
`UrlIsRejoined`, for any text: the parts are adjacent windows of it, and a text that was put together from
parts is cut at the same places again. `QueryIsRead`, for any query: what was entered
first stays under its name, and what is left to read is the rest of the text.
`DatesFollowCalendar`, for any days of years with four digits (the code prints no
more) and any numbers of days: a year is a place in four centuries (`YearIs`), in
which the number of a day is linear (`Number`); `NumberRead` finds the place again,
`TomorrowNext` says that the day after has the next number, and by induction every
number is that of a day (`EveryNumber`). The digits of a day are the day again
(`PrintedIsRead`) because no date leaves the years with four (`FourDigitYears`). Its hypothesis `RealDays` is that the first
day exists, because the code takes 20230231 for a date. That the floors of the
`double` are those of the integers is part of the model and not proved.

The assumptions are the named ones in the modules - finite sets, numbers that are
natural, `None` distinct from threads and addresses, years with four digits, field
names that are neither line ends nor the unreadable header, room for more than one
symbol in a header line, JSON texts made of the kinds of characters in `Characters` - and
the hypotheses `NoneExact` and `RealDays` of the two theorems above.

**Only model-checked**: every liveness property, with that half of `KeepsContract`,
because liveness under fairness is beyond the prover. For the algorithms of one thread
the part of it that is not about fairness is proved: `GetsOn`, `NothingAgain` and
`FewerPostsLeft`, which the proof modules define beside their theorems, say that every
step leaves less to do, so that beyond them `Terminates`, `KeepsContract` and
`PagingEnds` ask no more than that the thread has a step to take and runs.

## Not modelled

- Regular expressions and Gearman: wrappers of libraries no program of the
  repository uses; locks and log: a guard around a mutex, and output; the
  scripts that build and start the program.
- The contents of documents and URLs, the choice of the page by SCRIPT_NAME in
  `wp_handler::handle`: wording, no state.
- The command line and the fork into the background of the parent: they end
  before anything else begins.
- Which user and group the worker runs as.
- `bindInt`, `bindDouble`, `bindBlob`, `DBScopedLock`, `handle_get`, `return_success`,
  `fcgi_server::exit`, `remove_handler`, the JSON reader (commented out): nothing
  calls them. Numbers in JSON own nothing and are written by the stream.
- The dates in the sitemap: text, cut and put together. That the date of a front page
  without a post is `max()` of nothing, NULL, which `asString` reads without asking
  `is_null()` (`sitemap_handler.cpp:262`), is listed among the hazards.
- The quarters of an hour of a date: a product of its day; before 1970, where it
  would be negative, its conversion to unsigned is undefined.
- Attributes of XML nodes, which libxml2 frees with their node.
- More than one pool: the program has one, so that the list of pools is never
  appended to while the maintenance thread walks over it.
- The unlocked reads of the two counters for the log (`db_pool.h:514`), which
  decide nothing; the statement handle that is not closed when preparing fails
  (`db_pool.h:140`), memory of the client library only.
- Content-Length as a limit: it caps the buffer, and the parser reads to the
  end of the body (`fcgi_handler.cpp:402`).

## Plan

Done: pool, its abstraction and proofs; supervisor and proofs; form data; server
and worker process and proofs; statements and pages, their contract and
proofs; query strings, URLs, dates, XML, JSON and the pages of the sitemap.
What would add most next, in this order:

1. Dispatch by SCRIPT_NAME in `wp_handler::handle` in front of `SitePages`, so that the
   page is an outcome of the request.
