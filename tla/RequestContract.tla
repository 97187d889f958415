-------------------------- MODULE RequestContract --------------------------
(***************************************************************************)
(* What a handler of a request promises to those it works with: to the     *)
(* pool, that it has one connection at most and gives it back; to the      *)
(* client, that it writes two responses at most; and to the thread that    *)
(* called it, that it comes back, unless the process ends.                 *)
(***************************************************************************)
EXTENDS Naturals

VARIABLES
  lease,     \* its connection: "none", "held" or "returned"
  answers,   \* the responses it has written
  handler    \* "running", "back" or "gone" with the process

contract == <<lease, answers, handler>>

Init == lease = "none" /\ answers = 0 /\ handler = "running"

Borrow == lease = "none" /\ answers = 0 /\ lease' = "held" /\ UNCHANGED <<answers, handler>>

GiveBack == lease = "held" /\ lease' = "returned" /\ UNCHANGED <<answers, handler>>

(* A page is written while the connection is there.                        *)
WritePage == lease = "held" /\ answers = 0 /\ answers' = 1 /\ UNCHANGED <<lease, handler>>

(* What is written last, if anything, is written without it.               *)
ComeBack ==
  /\ lease # "held"
  /\ answers' \in {answers, answers + 1}
  /\ handler' = "back"
  /\ UNCHANGED lease

Vanish == handler' = "gone" /\ UNCHANGED <<lease, answers>>

Next == handler = "running" /\ (Borrow \/ GiveBack \/ WritePage \/ ComeBack \/ Vanish)

Spec ==
  /\ Init /\ [][Next]_contract
  /\ handler = "running" ~> handler # "running"

=============================================================================
