------------------------------ MODULE MCDBPool ------------------------------
(* Instances of DBPool for TLC.                                             *)
EXTENDS DBPool

(* Threads, and addresses, are interchangeable in the safety runs.          *)
Symmetry == Permutations(Threads) \cup Permutations(Conns)

=============================================================================
