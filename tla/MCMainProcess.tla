--------------------------- MODULE MCMainProcess ---------------------------
(* Instances of MainProcess for TLC.                                        *)
EXTENDS MainProcess, TLC

CONSTANTS f1, f2

(* Two functions, three workers.                                           *)
ThreeWorkers == (f1 :> 1) @@ (f2 :> 2)

=============================================================================
