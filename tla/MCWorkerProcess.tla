-------------------------- MODULE MCWorkerProcess --------------------------
(* Instances of WorkerProcess for TLC.                                      *)
EXTENDS WorkerProcess

CONSTANTS r1, r2, r3, r4, wp, sitemap, other

(* "/", a page of the site, no path at all, and no SCRIPT_NAME.             *)
Uris ==
  [r \in Requests |->
     CASE r = r1 -> <<"/">>
       [] r = r2 -> <<"/", "s", "x">>
       [] r = r3 -> <<>>
       [] r = r4 -> NoScript]

(* worker.cpp:84-85, and what else add_handler_mapping allows: a location   *)
(* that is mapped twice, one that nobody asks for, and the empty one.       *)
AsDeployed ==
  << [uri |-> <<"/">>, handler |-> wp],
     [uri |-> <<"/", "s">>, handler |-> other],
     [uri |-> <<"/", "s">>, handler |-> sitemap],
     [uri |-> <<"/", "x">>, handler |-> other],
     [uri |-> <<>>, handler |-> other] >>

(* An exact mapping beside a prefix.                                        *)
WithExact ==
  << [uri |-> <<"/">>, handler |-> wp],
     [uri |-> <<"=", "/", "s", "x">>, handler |-> sitemap] >>

=============================================================================
