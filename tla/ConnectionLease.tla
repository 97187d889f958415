-------------------------- MODULE ConnectionLease --------------------------
(***************************************************************************)
(* What the database connection pool promises its callers, without saying  *)
(* how: a caller is lent one open connection at a time, nobody else is     *)
(* lent the same one meanwhile, and a connection is closed only while      *)
(* nobody has it.  DBPool (src/src/db/db_pool.h) is shown to implement it. *)
(***************************************************************************)
EXTENDS FiniteSets

CONSTANTS
  Threads,   \* the request threads that borrow connections
  Conns,     \* the identities (addresses) a connection object can have
  None       \* stands for "no connection"

VARIABLES
  open,      \* the connections that exist
  lease      \* lease[t] is the connection thread t has borrowed, or None

vars == <<open, lease>>

Leased == { lease[t] : t \in Threads } \ {None}

Init ==
  /\ open = {}
  /\ lease = [t \in Threads |-> None]

(* t borrows a connection nobody has; one that does not exist yet is       *)
(* opened for it.                                                          *)
Acquire(t, c) ==
  /\ lease[t] = None
  /\ c \notin Leased
  /\ open' = open \cup {c}
  /\ lease' = [lease EXCEPT ![t] = c]

Release(t) ==
  /\ lease[t] # None
  /\ lease' = [lease EXCEPT ![t] = None]
  /\ UNCHANGED open

(* Some connections nobody has are closed.                                 *)
Close(S) ==
  /\ S \subseteq open \ Leased
  /\ open' = open \ S
  /\ UNCHANGED lease

Next ==
  \/ \E t \in Threads : \E c \in Conns : Acquire(t, c)
  \/ \E t \in Threads : Release(t)
  \/ \E S \in SUBSET Conns : Close(S)

Spec == Init /\ [][Next]_vars

=============================================================================
