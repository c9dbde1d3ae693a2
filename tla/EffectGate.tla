----------------------------- MODULE EffectGate -----------------------------
(***************************************************************************)
(* What the approval gate promises of one sub-agent's loop.  A side effect *)
(* happens only as the answer to an open question about it, and one        *)
(* question is open at a time.  An answer stands once it is committed;     *)
(* until then it may be undone, and the same question is open again though *)
(* the effect has happened: it may then happen again, or be refused too    *)
(* late.  A question whose answer stands is never asked again.             *)
(***************************************************************************)
CONSTANT Effects

VARIABLES
  question,  \* the question about each side effect, and its answer
  happened,  \* the side effects that have happened, at least once
  open       \* the loop may still ask

vars == <<question, happened, open>>

Init ==
  /\ question = [e \in Effects |-> "unasked"]
  /\ happened = {}
  /\ open = TRUE

Waiting == \E e \in Effects : question[e] \in {"asked", "refused"}

\* A granted question stands as kept, a refused one as dropped.
Standing(q) ==
  CASE q = "granted" -> "kept" [] q = "refused" -> "dropped" [] OTHER -> q

\* The pause of a resume is committed with the answer it resumed from.
Ask(e) ==
  /\ open /\ ~Waiting
  /\ question[e] = "unasked"
  /\ question' = [f \in Effects |-> IF f = e THEN "asked"
                                    ELSE Standing(question[f])]
  /\ UNCHANGED <<happened, open>>

Grant(e) ==
  /\ question[e] = "asked"
  /\ question' = [question EXCEPT ![e] = "granted"]
  /\ happened' = happened \cup {e}
  /\ UNCHANGED open

Refuse(e) ==
  /\ question[e] = "asked"
  /\ question' = [question EXCEPT ![e] = "refused"]
  /\ UNCHANGED <<happened, open>>

Undo(e) ==
  /\ question[e] \in {"granted", "refused"}
  /\ question' = [question EXCEPT ![e] = "asked"]
  /\ UNCHANGED <<happened, open>>

Keep(e) ==
  /\ question[e] = "granted"
  /\ question' = [question EXCEPT ![e] = "kept"]
  /\ UNCHANGED <<happened, open>>

Close ==
  /\ open /\ \A e \in Effects : question[e] # "asked"
  /\ open' = FALSE
  /\ question' = [e \in Effects |-> Standing(question[e])]
  /\ UNCHANGED happened

Next ==
  \/ \E e \in Effects : Ask(e) \/ Grant(e) \/ Refuse(e) \/ Undo(e) \/ Keep(e)
  \/ Close

Spec == Init /\ [][Next]_vars
=============================================================================
