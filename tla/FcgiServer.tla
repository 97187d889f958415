----------------------------- MODULE FcgiServer -----------------------------
(***************************************************************************)
(* The FastCGI server of one worker process: class fcgi_server of          *)
(* src/src/server/fcgi_server.h and fcgi_server.cpp.  Its threads take     *)
(* turns at accepting a request, find the handler mapped to its location   *)
(* and answer it.                                                          *)
(*                                                                         *)
(* A location is a sequence of symbols, of which "=" is one; a handler is  *)
(* one of Handlers and does what handle() may do to its caller: write a    *)
(* response or not, and throw or not.                                      *)
(***************************************************************************)
EXTENDS Naturals, FiniteSets, SequencesExt

CONSTANTS
  Threads,    \* the NUM_WORKERS threads
  Requests,   \* the requests clients make
  UriOf,      \* SCRIPT_NAME of each, or NoScript
  NoScript,   \* the web server did not pass SCRIPT_NAME
  None,       \* no thread; no request; no handler
  Handlers,   \* handler objects
  Mappings,   \* the calls of add_handler_mapping: <<[uri, handler], ...>>
  Backlog     \* the second argument of FCGX_OpenSocket

ASSUME ServerAssumption ==
  /\ IsFiniteSet(Threads)
  /\ None \notin Threads /\ None \notin Requests /\ None \notin Handlers
  /\ UriOf \in [Requests -> Seq(STRING) \cup {NoScript}]
  /\ Mappings \in Seq([uri : Seq(STRING) \ {<<"=">>}, handler : Handlers])
  /\ Handlers \cap {"404", "500"} = {}
  /\ Backlog \in Nat \ {0}

VARIABLES
  socket,      \* listening_socket: "none", "open", "broken" or "closed"
  acceptLock,  \* the thread that has accept_mutex, or None
  at,          \* where each thread is
  serving,     \* the request a thread has accepted, or None
  client,      \* what has become of each request
  reply        \* what was written to each: handlers, or statuses of errors

serverVars == <<socket, acceptLock, at, serving, client, reply>>

ThreadState == {"unborn", "lock", "accept", "accepted", "failed", "respond", "ended"}
ClientState == {"new", "queued", "taken", "answered", "lost"}

ServerInit ==
  /\ socket = "none"
  /\ acceptLock = None
  /\ at = [t \in Threads |-> "unborn"]
  /\ serving = [t \in Threads |-> None]
  /\ client = [r \in Requests |-> "new"]
  /\ reply = [r \in Requests |-> <<>>]

-----------------------------------------------------------------------------
(* The two maps of locations, in the order a multimap keeps: by key, and   *)
(* by the order of insertion where keys are equal.  The keys that match    *)
(* one location are prefixes of each other, and those are ordered by their *)
(* length; how the others are ordered makes no difference.                 *)

IsExact(m) == m.uri # <<>> /\ Head(m.uri) = "="

(* An exact mapping is entered without its first two symbols: sizeof("=")  *)
(* counts the terminating zero.                                            *)
ExactKey(m) == [m EXCEPT !.uri = SubSeq(@, 3, Len(@))]

InsertSorted(map, m) ==
  LET before == CHOOSE n \in 0 .. Len(map) :
                  \A i \in DOMAIN map : Len(map[i].uri) <= Len(m.uri) <=> i <= n
  IN  InsertAt(map, before + 1, m)

add_handler_mapping(maps, m) ==
  IF IsExact(m) THEN [maps EXCEPT !.exact = InsertSorted(@, ExactKey(m))]
  ELSE [maps EXCEPT !.prefix = InsertSorted(@, m)]

(* exact_locations_map and locations_map, once all is mapped.              *)
Locations ==
  LET maps[i \in 0 .. Len(Mappings)] ==
        IF i = 0 THEN [exact |-> <<>>, prefix |-> <<>>] ELSE add_handler_mapping(maps[i - 1], Mappings[i])
  IN  maps[Len(Mappings)]

(* Mutant: the scan ends at the first match.                               *)
FireFirst(fired, m) ==
  IF Len(m.uri) > 0 /\ fired = None THEN m.handler ELSE fired

(* What the loop over the candidates does with the next: matched_prefix    *)
(* stays empty, so it is only compared with an empty string.               *)
Fire(fired, m) ==
  IF Len(m.uri) > 0 THEN m.handler ELSE fired

LastFired(map, candidates) ==
  LET fired[i \in 0 .. Len(map)] ==
        IF i = 0 THEN None ELSE IF i \in candidates THEN Fire(fired[i - 1], map[i]) ELSE fired[i - 1]
  IN  fired[Len(map)]

(* invoke_handler: which handler is called, or None.                       *)
HandlerFor(uri) ==
  LET exact  == LastFired(Locations.exact, { i \in DOMAIN Locations.exact : Locations.exact[i].uri = uri })
      prefix == LastFired(Locations.prefix, { i \in DOMAIN Locations.prefix : IsPrefix(Locations.prefix[i].uri, uri) })
  IN  IF exact # None THEN exact ELSE prefix

-----------------------------------------------------------------------------
(* Clients, and what FCGX_Accept_r makes of them.                          *)

(* The kernel keeps a client waiting as long as there is room.             *)
Connect(r) ==
  /\ socket = "open"
  /\ client[r] = "new"
  /\ Cardinality({ q \in Requests : client[q] = "queued" }) < Backlog
  /\ client' = [client EXCEPT ![r] = "queued"]
  /\ UNCHANGED <<socket, acceptLock, at, serving, reply>>

(* The listening socket fails for good: accept() returns an error.         *)
SocketBreaks ==
  /\ socket = "open"
  /\ socket' = "broken"
  /\ UNCHANGED <<acceptLock, at, serving, client, reply>>

-----------------------------------------------------------------------------
(* worker_thread.                                                          *)

StartThread(t) ==
  /\ at[t] = "unborn"
  /\ at' = [at EXCEPT ![t] = "lock"]
  /\ UNCHANGED <<socket, acceptLock, serving, client, reply>>

(* Mutant: nobody waits for the mutex.                                     *)
LockAcceptAlways(t) ==
  /\ at[t] = "lock"
  /\ acceptLock' = t
  /\ at' = [at EXCEPT ![t] = "accept"]
  /\ UNCHANGED <<socket, serving, client, reply>>

LockAccept(t) ==
  /\ at[t] = "lock"
  /\ acceptLock = None
  /\ acceptLock' = t
  /\ at' = [at EXCEPT ![t] = "accept"]
  /\ UNCHANGED <<socket, serving, client, reply>>

Accept(t, r) ==
  /\ at[t] = "accept"
  /\ socket = "open"
  /\ client[r] = "queued"
  /\ client' = [client EXCEPT ![r] = "taken"]
  /\ serving' = [serving EXCEPT ![t] = r]
  /\ at' = [at EXCEPT ![t] = "accepted"]
  /\ UNCHANGED <<socket, acceptLock, reply>>

(* rc < 0: the socket has failed, or this one accept has.                  *)
AcceptFails(t) ==
  /\ at[t] = "accept"
  /\ at' = [at EXCEPT ![t] = "failed"]
  /\ UNCHANGED <<socket, acceptLock, serving, client, reply>>

(* Mutant: a thread that failed ends before it unlocks the mutex.          *)
UnlockAcceptUnlessFailed(t) ==
  /\ at[t] \in {"accepted", "failed"}
  /\ acceptLock = t
  /\ acceptLock' = IF at[t] = "failed" THEN t ELSE None
  /\ at' = [at EXCEPT ![t] = IF @ = "failed" THEN "ended" ELSE "respond"]
  /\ UNCHANGED <<socket, serving, client, reply>>

(* The mutex is released; a thread whose accept failed ends.               *)
UnlockAccept(t) ==
  /\ at[t] \in {"accepted", "failed"}
  /\ acceptLock = t
  /\ acceptLock' = None
  /\ at' = [at EXCEPT ![t] = IF @ = "failed" THEN "ended" ELSE "respond"]
  /\ UNCHANGED <<socket, serving, client, reply>>

(* What the thread writes: handle() may write no response, one or two, and *)
(* an exception it lets pass adds the one of the catch clauses; all in all *)
(* two at most, which is what RequestContract says of the handlers.        *)
Written(uri) ==
  IF uri = NoScript THEN {<<"500">>}
  ELSE LET h == HandlerFor(uri)
       IN  IF h = None THEN {<<"404">>}
           ELSE { <<>>, <<h>>, <<h, h>>, <<"500">>, <<h, "500">> }

(* invoke_handler, the catch clauses, flush and FCGX_Finish_r.             *)
Respond(t) ==
  /\ at[t] = "respond"
  /\ \E w \in Written(UriOf[serving[t]]) : reply' = [reply EXCEPT ![serving[t]] = @ \o w]
  /\ client' = [client EXCEPT ![serving[t]] = "answered"]
  /\ serving' = [serving EXCEPT ![t] = None]
  /\ at' = [at EXCEPT ![t] = "lock"]
  /\ UNCHANGED <<socket, acceptLock>>

ThreadStep(t) ==
  \/ LockAccept(t)
  \/ \E r \in Requests : Accept(t, r)
  \/ AcceptFails(t) \/ UnlockAccept(t) \/ Respond(t)

=============================================================================
