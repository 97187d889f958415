-------------------------------- MODULE Urls --------------------------------
(***************************************************************************)
(* The constructor of class URL, src/src/server/url.h: it walks over a     *)
(* source once and cuts it into schema, host, port, path and query.        *)
(*                                                                         *)
(* A source is a sequence of characters; "0" is any digit and "x" any      *)
(* character that plays no part.                                           *)
(***************************************************************************)
EXTENDS Naturals, Sequences, SequencesExt

CONSTANT Sources   \* the texts a URL may be constructed from

ASSUME UrlAssumption == Sources \subseteq Seq(STRING)

VARIABLES
  source,    \* the text
  urlState,  \* "new", "made" or "bad" (the constructor threw)
  url        \* the parts

urlVars == <<source, urlState, url>>

UrlInit ==
  /\ source \in Sources
  /\ urlState = "new"
  /\ url = <<>>

Http  == <<"h", "t", "t", "p", ":", "/", "/">>
Https == <<"h", "t", "t", "p", "s", ":", "/", "/">>

Schema(s) ==
  CASE IsPrefix(Https, s) -> Https
    [] IsPrefix(Http, s)  -> Http
    [] OTHER              -> <<>>

(* What comes before the first symbol of a set, or all of it.              *)
CutAt(s, ends) ==
  LET stop == SelectInSeq(s, LAMBDA e : e \in ends)
  IN  IF stop = 0 THEN s ELSE SubSeq(s, 1, stop - 1)

From(s, n) == SubSeq(s, n + 1, Len(s))

Starts(s, e) == s # <<>> /\ Head(s) = e

(* Mutant: the query begins after the question mark.                       *)
QueryOfBare(s) == IF Starts(s, "?") THEN Tail(s) ELSE <<>>

(* The query is all that is left, if it begins with a question mark.       *)
QueryOf(s) == IF Starts(s, "?") THEN s ELSE <<>>

Parts(s) ==
  LET schema == Schema(s)
      s1     == From(s, Len(schema))
      host   == CutAt(s1, {":", "/", "?"})
      s2     == From(s1, Len(host))
      port   == IF Starts(s2, ":") THEN CutAt(Tail(s2), ToSet(s2) \ {"0"}) ELSE <<>>
      s3     == IF Starts(s2, ":") THEN From(s2, Len(port) + 1) ELSE s2
      path   == IF Starts(s3, "/") THEN CutAt(s3, {"?"}) ELSE <<>>
      s4     == From(s3, Len(path))
  IN  [schema |-> schema, host |-> host, port |-> port, path |-> path,
       query |-> QueryOf(s4), colon |-> Starts(s2, ":")]

(* A colon that no digit follows is the one thing that is refused.         *)
MakeUrl ==
  /\ urlState = "new"
  /\ LET p == Parts(source)
     IN  IF p.colon /\ p.port = <<>>
         THEN urlState' = "bad" /\ UNCHANGED url
         ELSE urlState' = "made" /\ url' = p
  /\ UNCHANGED source

UrlSpec == UrlInit /\ [][MakeUrl]_urlVars

-----------------------------------------------------------------------------
(* The parts put together again.                                           *)
Joined(p) ==
  p.schema \o p.host \o (IF p.port = <<>> THEN <<>> ELSE <<":">> \o p.port)
    \o p.path \o p.query

(* Nothing of a URL is lost or moved from one part to another: joined, the *)
(* parts are the source again, and parsed again they are the same parts.   *)
(* Only what follows a port and is neither path nor query is dropped.      *)
UrlRejoined ==
  urlState = "made" =>
    /\ IsPrefix(Joined(url), source)
    /\ Joined(url) # source => url.port # <<>> /\ url.path = <<>> /\ url.query = <<>>
    /\ LET again == Parts(Joined(url))
       IN  \A part \in {"schema", "host", "port", "path", "query"} : again[part] = url[part]

=============================================================================
