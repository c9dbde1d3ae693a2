---------------------------- MODULE TurnLifecycle ----------------------------
(***************************************************************************)
(* What the turn tables promise: a turn appears waiting for an answer to a *)
(* question or with its final response; each question is settled once, by  *)
(* another question or the final response; a final turn never changes.     *)
(***************************************************************************)
CONSTANTS Turns, Questions, NoQuestion

VARIABLES stage, question, settled

vars == <<stage, question, settled>>

Init ==
  /\ stage = [t \in Turns |-> "none"]
  /\ question = [t \in Turns |-> NoQuestion]
  /\ settled = {}

NeverAsked(q) == q \notin settled /\ \A t \in Turns : question[t] # q

Waits(t, q) ==
  /\ NeverAsked(q)
  /\ stage' = [stage EXCEPT ![t] = "waiting"]
  /\ question' = [question EXCEPT ![t] = q]

IsFinal(t) ==
  /\ stage' = [stage EXCEPT ![t] = "final"]
  /\ question' = [question EXCEPT ![t] = NoQuestion]

Moves(t) == IsFinal(t) \/ \E q \in Questions : Waits(t, q)

Appear(t) == stage[t] = "none" /\ Moves(t) /\ UNCHANGED settled

Settle(t) ==
  /\ stage[t] = "waiting"
  /\ Moves(t)
  /\ settled' = settled \cup {question[t]}

Next == \E t \in Turns : Appear(t) \/ Settle(t)

Spec == Init /\ [][Next]_vars
=============================================================================
