----------------------------- MODULE MCHelpers -----------------------------
(***************************************************************************)
(* The sequential helpers of the server side by side: a behaviour is one   *)
(* of any one of them, the subject, so that the states add up instead of   *)
(* multiplying.                                                            *)
(***************************************************************************)
EXTENDS QueryArgs, Urls, Dates, XmlTree, JsonReader, SiteMap

VARIABLE subject

UpTo(set, n) == UNION { [1 .. k -> set] : k \in 0 .. n }

AllQueries == UpTo({"&", "=", "c", "x"}, 6)

AllSources ==
  { start \o tail :
      start \in {<<>>, Http, Https, Front(Http), <<"h", "t">>},
      tail \in UpTo({":", "/", "?", "0", "x"}, 5) }

(* Years around the turns of three centuries, one of them a leap year.     *)
Years == 1899 .. 1901 \cup 1996 .. 1997 \cup 2000 .. 2001 \cup 2099 .. 2101
NewYears == [year : Years, month : {1}, day : {1}]
NewYears2000And2100 == {10957, 47482}
DaysOfYears ==
  UNION { ymd_to_julian_day([year |-> y, month |-> 1, day |-> 1])
            .. ymd_to_julian_day([year |-> y, month |-> 12, day |-> 31]) : y \in Years }
SomeSteps == {1, 29}

(* One of the keys and one of the texts cannot be written: an object may   *)
(* have two members that can, or one that cannot.                          *)
AllKeys == {<<"quote", ",">>, <<"n">>, <<"control">>}
Texts == [s \in {"s1", "s2"} |->
            IF s = "s1" THEN <<"quote", "backslash", "newline", "n", "]">> ELSE <<"slash", "control">>]

SomeSettings == 0 .. 4 \cup {-1, 10}
SomeCounts == 0 .. 11

-----------------------------------------------------------------------------
MCInit ==
  /\ subject \in {"query", "url", "date", "xml", "json", "map"}
  /\ subject # "query" => query = <<>>
  /\ subject # "url"   => source = <<>>
  /\ subject # "date"  => julian = ymd_to_julian_day([year |-> 1996, month |-> 1, day |-> 1])
  /\ subject # "json"  => kind = [c \in Containers |-> "object"]
  /\ subject # "map"   => listing = "front" /\ count = 1 /\ perPage = 0
  /\ QueryInit /\ UrlInit /\ DateInit /\ XmlInit /\ JsonInit /\ MapInit

MCNext ==
  /\ UNCHANGED subject
  /\ \/ subject = "query" /\ QueryNext
        /\ UNCHANGED <<urlVars, julian, xmlVars, jsonVars, mapVars>>
     \/ subject = "url" /\ MakeUrl
        /\ UNCHANGED <<queryVars, julian, xmlVars, jsonVars, mapVars>>
     \/ subject = "date" /\ DateNext
        /\ UNCHANGED <<queryVars, urlVars, xmlVars, jsonVars, mapVars>>
     \/ subject = "xml" /\ XmlNext
        /\ UNCHANGED <<queryVars, urlVars, julian, jsonVars, mapVars>>
     \/ subject = "json" /\ JsonNext
        /\ UNCHANGED <<queryVars, urlVars, julian, xmlVars, mapVars>>
     \/ subject = "map" /\ MapNext
        /\ UNCHANGED <<queryVars, urlVars, julian, xmlVars, jsonVars>>

MCSpec ==
  /\ MCInit
  /\ [][MCNext]_<<subject, queryVars, urlVars, julian, xmlVars, jsonVars, mapVars>>
  /\ WF_mapVars(subject = "map" /\ MCNext)

=============================================================================
