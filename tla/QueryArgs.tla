----------------------------- MODULE QueryArgs -----------------------------
(***************************************************************************)
(* fcgi_request::parse_query_args of src/src/server/fcgi_handler.cpp: the  *)
(* constructor of a request splits QUERY_STRING into m_params.             *)
(*                                                                         *)
(* A query is a sequence of the symbols "&", "=", "c" (the letter) and     *)
(* "x" (any other character).                                              *)
(***************************************************************************)
EXTENDS Naturals, Sequences, SequencesExt

CONSTANT Queries   \* the query strings a request may come with

ASSUME QueryAssumption == Queries \subseteq Seq({"&", "=", "c", "x"})

VARIABLES
  query,     \* QUERY_STRING
  rest,      \* what of it is not split yet
  splitAt,   \* the character find_first_of looks for
  args,      \* m_params
  argsRead   \* has the constructor returned?

queryVars == <<query, rest, splitAt, args, argsRead>>

QueryInit ==
  /\ query \in Queries
  /\ rest = query
  /\ splitAt = "&"
  /\ args = <<>>
  /\ argsRead = FALSE

Before(s, c) == IF Contains(s, c) THEN SubSeq(s, 1, SelectInSeq(s, LAMBDA e : e = c) - 1) ELSE s
After(s, c)  == IF Contains(s, c) THEN SubSeq(s, SelectInSeq(s, LAMBDA e : e = c) + 1, Len(s)) ELSE <<>>

(* Mutant: a name given again replaces the value it had.                   *)
EnterReplaces(map, arg) ==
  LET name == Before(arg, "=")
  IN  IF arg = <<>> THEN map
      ELSE [n \in DOMAIN map \cup {name} |-> IF n = name THEN After(arg, "=") ELSE map[n]]

(* m_params.insert: a name that is there keeps its value; an argument may  *)
(* have no value, and with a = even no name.                               *)
Enter(map, arg) ==
  LET name == Before(arg, "=")
  IN  IF arg = <<>> \/ name \in DOMAIN map THEN map
      ELSE [n \in DOMAIN map \cup {name} |-> IF n = name THEN After(arg, "=") ELSE map[n]]

(* One turn of the loop: the next argument ends at the next c, not at &.   *)
SplitArgument ==
  /\ ~argsRead
  /\ Contains(rest, splitAt)
  /\ args' = Enter(args, Before(rest, splitAt))
  /\ rest' = After(rest, splitAt)
  /\ splitAt' = "c"
  /\ UNCHANGED <<query, argsRead>>

LastArgument ==
  /\ ~argsRead
  /\ ~Contains(rest, splitAt)
  /\ args' = Enter(args, rest)
  /\ rest' = <<>>
  /\ argsRead' = TRUE
  /\ UNCHANGED <<query, splitAt>>

QueryNext == SplitArgument \/ LastArgument

QuerySpec == QueryInit /\ [][QueryNext]_queryVars

(* What a handler asks: a parameter that is not there reads as empty.      *)
has_param(n) == n \in DOMAIN args
get_param(n) == IF has_param(n) THEN args[n] ELSE <<>>

-----------------------------------------------------------------------------
(* The arguments of a query, each from its first place to its last, and    *)
(* what they say: separated by &, the first of a name counts.              *)
Pieces(q) ==
  { p \in (1 .. Len(q)) \X (1 .. Len(q)) :
      /\ p[1] <= p[2]
      /\ p[1] = 1 \/ q[p[1] - 1] = "&"
      /\ p[2] = Len(q) \/ q[p[2] + 1] = "&"
      /\ \A k \in p[1] .. p[2] : q[k] # "&" }

Text(q, p) == SubSeq(q, p[1], p[2])

Named(q) == { Before(Text(q, p), "=") : p \in Pieces(q) }

FirstOfName(q, n) ==
  LET named == { p \in Pieces(q) : Before(Text(q, p), "=") = n }
      first == CHOOSE p \in named : \A r \in named : p[1] <= r[1]
  IN  After(Text(q, first), "=")

(* What a handler gets from get_param is what the query says, as long as   *)
(* nothing after the first & is another & or the letter c; in any query    *)
(* the first argument is read right, and no later one takes its place.     *)
QueryRead ==
  argsRead =>
    LET first == Before(query, "&")
        tail  == After(query, "&")
    IN  /\ first # <<>> => /\ has_param(Before(first, "="))
                           /\ get_param(Before(first, "=")) = After(first, "=")
        /\ ~Contains(tail, "&") /\ ~Contains(tail, "c") =>
             /\ DOMAIN args = Named(query)
             /\ \A n \in Named(query) : get_param(n) = FirstOfName(query, n)

=============================================================================
