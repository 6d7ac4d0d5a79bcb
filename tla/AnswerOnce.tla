----------------------------- MODULE AnswerOnce -----------------------------
(***************************************************************************)
(* What an operator promises about its nonces, without threads, locks or   *)
(* files: a nonce is spent for good before it is answered, and no nonce is *)
(* answered twice.  One request may spend several.                         *)
(***************************************************************************)
EXTENDS Naturals

CONSTANT Nonces

VARIABLES
  spent,    \* the nonces that will never be accepted again
  answers   \* how many answers each nonce has received

Init ==
  /\ spent = {}
  /\ answers = [n \in Nonces |-> 0]

Spend(S) ==
  /\ S \cap spent = {}
  /\ spent' = spent \cup S
  /\ UNCHANGED answers

Answer(n) ==
  /\ n \in spent
  /\ answers[n] = 0
  /\ answers' = [answers EXCEPT ![n] = 1]
  /\ UNCHANGED spent

Next ==
  \/ \E S \in SUBSET Nonces : Spend(S)
  \/ \E n \in Nonces : Answer(n)

Spec == Init /\ [][Next]_<<spent, answers>>
=============================================================================
