------------------------------- MODULE DBStmt -------------------------------
(***************************************************************************)
(* A prepared statement: class DBStmt of src/src/db/db_pool.h, from its    *)
(* constructor to its destructor, over the MySQL client library.           *)
(*                                                                         *)
(* The buffers of columns of fixed size live as long as the object and are *)
(* left out.  A BLOB column gets a buffer with every row, and two members  *)
(* point to it; one such column is followed here, and a row is TRUE when   *)
(* it has something in that column.                                        *)
(***************************************************************************)
EXTENDS Naturals, Sequences

CONSTANTS
  Addresses,   \* what operator new may return
  Null,        \* a null pointer
  ResultSets   \* the rows a statement may select

ASSUME StmtAssumption ==
  /\ Null \notin Addresses
  /\ ResultSets \subseteq Seq(BOOLEAN)

VARIABLES
  stmt,        \* "none", "prepared" or "executed"
  bound,       \* the parameters that have been bound
  rows,        \* the rows it selects
  cursor,      \* how many of them have been fetched
  columnBuf,   \* m_column_data[i].buffer
  bindBuf,     \* m_bind_out[i].buffer
  live,        \* addresses allocated and not deleted
  corrupted    \* has an address been deleted that was not allocated?

bufVars  == <<columnBuf, bindBuf, live, corrupted>>
stmtVars == <<stmt, bound, rows, cursor, bufVars>>

StmtInit ==
  /\ stmt = "none" /\ bound = {} /\ rows = <<>> /\ cursor = 0
  /\ columnBuf = Null /\ bindBuf = Null
  /\ live = {} /\ corrupted = FALSE

(* The constructor, when the statement can be prepared.                    *)
Prepare ==
  /\ stmt = "none"
  /\ stmt' = "prepared"
  /\ bound' = {} /\ rows' = <<>> /\ cursor' = 0
  /\ columnBuf' = Null /\ bindBuf' = Null
  /\ UNCHANGED <<live, corrupted>>

(* bindString: a parameter the statement does not have is ignored.         *)
Bind(i, count) ==
  /\ stmt = "prepared"
  /\ bound' = IF i < count THEN bound \cup {i} ELSE bound
  /\ UNCHANGED <<stmt, rows, cursor, bufVars>>

Execute ==
  /\ stmt = "prepared"
  /\ stmt' = "executed"
  /\ rows' \in ResultSets
  /\ UNCHANGED <<bound, cursor, bufVars>>

NextRow == rows[cursor + 1]
HasRow == cursor < Len(rows)

(* Mutant: the buffer of the previous row is forgotten.                    *)
FetchForgetsBuffer ==
  /\ stmt = "executed" /\ HasRow
  /\ cursor' = cursor + 1
  /\ IF NextRow
     THEN \E a \in Addresses \ live :
            columnBuf' = a /\ bindBuf' = a /\ live' = live \cup {a}
     ELSE columnBuf' = Null /\ UNCHANGED <<bindBuf, live>>
  /\ UNCHANGED <<stmt, bound, rows, corrupted>>

(* fetch: the buffer of the previous row is deleted, and one allocated for *)
(* this row, if it needs one.  If not, m_bind_out keeps the old address.   *)
Fetch ==
  /\ stmt = "executed" /\ HasRow
  /\ cursor' = cursor + 1
  /\ LET kept == live \ {columnBuf}
     IN  IF NextRow
         THEN \E a \in Addresses \ kept :
                columnBuf' = a /\ bindBuf' = a /\ live' = kept \cup {a}
         ELSE columnBuf' = Null /\ live' = kept /\ UNCHANGED bindBuf
  /\ UNCHANGED <<stmt, bound, rows, corrupted>>

(* The destructor deletes what m_bind_out points to and closes the         *)
(* statement.                                                              *)
Destroy ==
  /\ stmt # "none"
  /\ stmt' = "none"
  /\ live' = live \ {bindBuf}
  /\ corrupted' = (corrupted \/ (bindBuf # Null /\ bindBuf \notin live))
  /\ UNCHANGED <<bound, rows, cursor, columnBuf, bindBuf>>

=============================================================================
