------------------------- MODULE FoundationsDocument -------------------------
(***************************************************************************)
(* What a writer of the foundations document may count on when nobody else *)
(* is writing: a request that sets out to change some fields changes those *)
(* and no others, in one step or not at all.  The only other thing a save  *)
(* may do is fill blank fields that the Proxmox host told us about.        *)
(***************************************************************************)
CONSTANTS Writers, Fields, Blank, Found, Discoverable

VARIABLES
  doc,     \* field -> Blank, Found, or the request that last set it
  asked    \* request -> the fields it set out to change and has not yet

vars == <<doc, asked>>

Init ==
  /\ doc = [f \in Fields |-> Blank]
  /\ asked = [w \in Writers |-> {}]

\* A request arrives with the fields it is going to change.
Ask(w) ==
  /\ asked[w] = {}
  /\ \E F \in SUBSET Fields : asked' = [asked EXCEPT ![w] = F]
  /\ UNCHANGED doc

\* It succeeds: its fields change, and some blank ones may be discovered.
Save(w) ==
  /\ \E D \in SUBSET {f \in Discoverable : doc[f] = Blank} :
       doc' = [f \in Fields |-> IF f \in asked[w] THEN w
                                ELSE IF f \in D THEN Found ELSE doc[f]]
  /\ asked' = [asked EXCEPT ![w] = {}]

\* Some requests fail, each alone or all at once, and leave no trace.
Drop ==
  /\ \E W \in SUBSET Writers :
       asked' = [w \in Writers |-> IF w \in W THEN {} ELSE asked[w]]
  /\ UNCHANGED doc

Next == Drop \/ \E w \in Writers : Ask(w) \/ Save(w)

Spec == Init /\ [][Next]_vars
=============================================================================
