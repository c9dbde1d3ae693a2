-------------------------- MODULE FoundationsProofs --------------------------
(***************************************************************************)
(* Theorems about the foundations document, for every set of requests and  *)
(* probes and whatever the agent sends.                                    *)
(***************************************************************************)
EXTENDS Foundations, TLAPS

(***************************************************************************)
(* Types.                                                                  *)
(***************************************************************************)

\* What a request reads is a document.
LEMMA DocumentType == TypeOK => Document \in Docs
  BY DEF TypeOK, Document, Empty, Docs

\* base with the fields in E set by r and those in B blanked.
Edited(base, E, B, r) ==
  [f \in Fields |-> IF f \in E THEN r ELSE IF f \in B THEN Blank ELSE base[f]]

\* The fields a request sets once it owns the row.
Late(after) ==
  IF after = "discover" THEN {ApiProbe} ELSE IF after = "probes" THEN Probes ELSE {}

\* What every writer has in common when it arrives: it edits what it read, or
\* what the page showed, and a reference it sets comes with a token.
Form(r, base, E, B, pc, after, page) ==
  /\ Arrive(r, pc, Edited(base, E, B, r), E \cup Late(after), after, page)
  /\ base = Document \/ (base = panel /\ (Serial => panel = Document))
  /\ B # {} => \E F \in AgentPatches : E = F /\ F \cap Proxmox # {} /\ B = Proxmox \ F
  /\ pc = "reread" => base = Document /\ E \subseteq Probes /\ B = {}
  /\ "ref" \in E => token' # NoOne

Formed(r) ==
  \E base \in Docs, E \in SUBSET Fields, B \in SUBSET Fields,
     pc \in {"reread", "get"}, after \in {"nothing", "discover", "probes"},
     page \in {"shows", "rereads", "unaware"} : Form(r, base, E, B, pc, after, page)

\* An edited document is a document.
LEMMA EditedType ==
  ASSUME NEW base \in Docs, NEW E, NEW B, NEW r \in Requests
  PROVE  Edited(base, E, B, r) \in Docs
  BY DEF Docs, Edited

\* Setting one field, or none, is an edit.
LEMMA EditOne ==
  ASSUME NEW base \in Docs, NEW f \in Fields, NEW r \in Requests
  PROVE  /\ [base EXCEPT ![f] = r] = Edited(base, {f}, {}, r)
         /\ base = Edited(base, {}, {}, r)
  BY DEF Docs, Edited

\* A request that arrives with a document keeps the types.
LEMMA ArriveTypes ==
  ASSUME TypeOK, NEW r \in Requests, NEW pc \in {"reread", "get"},
         NEW doc \in Docs, NEW sets \in SUBSET Fields,
         NEW after \in {"nothing", "discover", "probes"},
         NEW page \in {"shows", "rereads", "unaware"},
         Arrive(r, pc, doc, sets, after, page),
         token' \in Requests \cup {NoOne}, file' \in Requests \cup {NoOne},
         edits' \subseteq Plain
  PROVE  TypeOK'
  <1>1. req' \in [Requests -> Sessions]
    BY DEF TypeOK, Arrive, Sessions
  <1>2. \A q \in Requests : req'[q].pc = "held" <=> lock' = q
    BY DEF TypeOK, Arrive, Sessions
  <1>3. \A q \in Requests : req'[q].seen \in {req[q].seen, NoRow}
    BY DEF TypeOK, Arrive, Sessions
  <1> QED BY <1>1, <1>2, <1>3 DEF TypeOK, Arrive

\* A writer takes no token away, from the memory or the file, and puts none in
\* the file that is not in memory.
LEMMA TokenStays ==
  ASSUME TypeOK, NEW r \in Requests, Write(r)
  PROVE  /\ token' \in Requests \cup {NoOne} /\ file' \in Requests \cup {NoOne}
         /\ token # NoOne => token' # NoOne
         /\ UNCHANGED <<token, file>> \/ token' # NoOne
         /\ edits' \subseteq Plain
         /\ UNCHANGED lost
  <1> NoOne \notin Requests
    BY FoundationsAssumption
  <1>1. UNCHANGED <<token, file>> \/ (token' = r /\ file' = r)
    BY DEF Write, PutFoundations, HostStep, NetworkStep, TenantStep, WizardStep,
           WizardToken, WizardDiscover, Complete, PostProbe, AgentProbe, RecordProbe,
           AgentWrite, KeepToken
  <1>2. edits' \subseteq Plain /\ UNCHANGED lost
    BY DEF TypeOK, Write, PutFoundations, HostStep, NetworkStep, TenantStep, WizardStep,
           WizardToken, WizardDiscover, Complete, PostProbe, AgentProbe, RecordProbe,
           AgentWrite, Arrive
  <1> QED BY <1>1, <1>2 DEF TypeOK

\* Every writer arrives in that form.
LEMMA WriteForm ==
  ASSUME TypeOK, NEW r \in Requests, Write(r)
  PROVE  Formed(r)
  <1>d. Document \in Docs /\ panel \in Docs
    BY DocumentType DEF TypeOK
  <1>f. /\ {"host", "node", "ref", "tenant", "bridge", ApiProbe} \subseteq Fields
        /\ Probes \subseteq Fields /\ Plain \subseteq Fields /\ Proxmox \subseteq Fields
        /\ "ref" \notin Probes /\ ApiProbe # "ref" /\ NoOne \notin Requests
        /\ \A F \in AgentPatches : F \subseteq Fields
    BY FoundationsAssumption DEF Fields, Plain, Proxmox
  <1>1. CASE PutFoundations(r)
    <2>1. PICK F \in SUBSET Plain :
            /\ Serial => panel = Document
            /\ Arrive(r, "get", [g \in Fields |-> IF g \in F THEN r ELSE panel[g]],
                      F, "nothing", "shows")
            /\ KeepToken(r, F)
      BY <1>1 DEF PutFoundations, TypeOK
    <2>2. [g \in Fields |-> IF g \in F THEN r ELSE panel[g]] = Edited(panel, F, {}, r)
      BY DEF Edited
    <2>3. "ref" \in F => token' # NoOne
      BY <2>1, <1>f DEF KeepToken
    <2>4. F \cup Late("nothing") = F
      BY DEF Late
    <2>5. Form(r, panel, F, {}, "get", "nothing", "shows")
      BY <2>1, <2>2, <2>3, <2>4 DEF Form
    <2>6. F \in SUBSET Fields /\ {} \in SUBSET Fields
      BY <1>f
    <2> QED BY <1>d, <2>5, <2>6 DEF Formed
  <1>2. CASE HostStep(r) \/ NetworkStep(r) \/ TenantStep(r)
    <2>1. PICK f \in {"host", "bridge", "tenant"} : WizardStep(r, f)
      BY <1>2 DEF HostStep, NetworkStep, TenantStep
    <2>2. [Document EXCEPT ![f] = r] = Edited(Document, {f}, {}, r)
      BY <1>d, <1>f, EditOne
    <2>3. {f} \cup Late("nothing") = {f} /\ "ref" \notin {f}
      BY DEF Late
    <2>4. Form(r, Document, {f}, {}, "get", "nothing", "rereads")
      BY <2>1, <2>2, <2>3 DEF Form, WizardStep
    <2>5. {f} \in SUBSET Fields /\ {} \in SUBSET Fields
      BY <1>f
    <2> QED BY <1>d, <2>4, <2>5 DEF Formed
  <1>3. CASE WizardToken(r) \/ (WizardDiscover(r) /\ Document["ref"] = Blank)
    <2>1. [Document EXCEPT !["ref"] = r] = Edited(Document, {"ref"}, {}, r)
      BY <1>d, <1>f, EditOne
    <2>2. {"ref"} \cup Late("discover") = {"ref", ApiProbe}
      BY DEF Late
    <2>3. token' # NoOne
      BY <1>3, <1>f DEF WizardToken, WizardDiscover, KeepToken
    <2>4. Arrive(r, "get", [Document EXCEPT !["ref"] = r], {"ref", ApiProbe},
                 "discover", "rereads")
      BY <1>3 DEF WizardToken, WizardDiscover
    <2>5. Form(r, Document, {"ref"}, {}, "get", "discover", "rereads")
      BY <2>1, <2>2, <2>3, <2>4 DEF Form
    <2>6. {"ref"} \in SUBSET Fields /\ {} \in SUBSET Fields
      BY <1>f
    <2> QED BY <1>d, <2>5, <2>6 DEF Formed
  <1>4. CASE WizardDiscover(r) /\ Document["ref"] # Blank
    <2>1. Document = Edited(Document, {}, {}, r)
      BY <1>d, <1>f, EditOne
    <2>2. {} \cup Late("discover") = {ApiProbe}
      BY DEF Late
    <2>3. Arrive(r, "get", Document, {ApiProbe}, "discover", "rereads")
      BY <1>4 DEF WizardDiscover
    <2>4. Form(r, Document, {}, {}, "get", "discover", "rereads")
      BY <2>1, <2>2, <2>3 DEF Form
    <2> QED BY <1>d, <2>4 DEF Formed
  <1>5. CASE PostProbe(r) \/ AgentProbe(r) \/ Complete(r)
    <2>1. PICK p \in Probes, after \in {"nothing", "probes"},
               page \in {"rereads", "unaware"} :
            Arrive(r, "reread", [Document EXCEPT ![p] = r], {p} \cup Late(after),
                   after, page)
      <3>1. CASE Complete(r)
        <4>1. PICK p \in Probes : Arrive(r, "reread", [Document EXCEPT ![p] = r],
                                         Probes, "probes", "rereads")
          BY <3>1 DEF Complete
        <4>2. {p} \cup Late("probes") = Probes
          BY DEF Late
        <4> QED BY <4>1, <4>2
      <3>2. CASE PostProbe(r) \/ AgentProbe(r)
        <4>1. PICK p \in Probes, page \in {"rereads", "unaware"} :
                Arrive(r, "reread", [Document EXCEPT ![p] = r], {p}, "nothing", page)
          BY <3>2 DEF PostProbe, AgentProbe, RecordProbe
        <4>2. {p} \cup Late("nothing") = {p}
          BY DEF Late
        <4> QED BY <4>1, <4>2
      <3> QED BY <1>5, <3>1, <3>2
    <2>2. [Document EXCEPT ![p] = r] = Edited(Document, {p}, {}, r)
      BY <1>d, <1>f, EditOne
    <2>3. Form(r, Document, {p}, {}, "reread", after, page)
      BY <2>1, <2>2, <1>f DEF Form
    <2>4. {p} \in SUBSET Fields /\ {} \in SUBSET Fields
      BY <1>f
    <2> QED BY <1>d, <2>3, <2>4 DEF Formed
  <1>6. CASE AgentWrite(r)
    <2>1. PICK F \in AgentPatches :
            /\ Arrive(r, "get", Merged(Document, F, r), F, "nothing", "unaware")
            /\ KeepToken(r, F)
      BY <1>6 DEF AgentWrite
    <2> DEFINE B == IF F \cap Proxmox # {} THEN Proxmox \ F ELSE {}
    <2>2. Merged(Document, F, r) = Edited(Document, F, B, r)
      BY <1>d DEF Merged, Edited
    <2>3. F \cup Late("nothing") = F
      BY DEF Late
    <2>4. "ref" \in F => token' # NoOne
      BY <2>1, <1>f DEF KeepToken
    <2>5. B # {} => F \cap Proxmox # {} /\ B = Proxmox \ F
      OBVIOUS
    <2>6. F \in SUBSET Fields /\ B \in SUBSET Fields
      BY <1>f
    <2> HIDE DEF B
    <2>7. Form(r, Document, F, B, "get", "nothing", "unaware")
      BY <2>1, <2>2, <2>3, <2>4, <2>5 DEF Form
    <2> QED BY <1>d, <2>6, <2>7 DEF Formed
  <1> QED BY <1>1, <1>2, <1>3, <1>4, <1>5, <1>6 DEF Write

\* What a request commits is a document, and its reference is the one flushed.
LEMMA SettleType ==
  ASSUME TypeOK, NEW r \in Requests, Settle(r)
  PROVE  db' \in Docs /\ db'["ref"] = req[r].doc["ref"]
  <1>1. req[r].doc \in Docs
    BY DEF TypeOK, Sessions
  <1>2. "ref" \in Fields \ (Probes \cup Discoverable)
    BY FoundationsAssumption DEF Fields, Plain, Proxmox, Discoverable
  <1>3. ApiProbe \in Fields
    BY FoundationsAssumption DEF Fields
  <1>4. CASE req[r].after = "nothing" /\ db' = req[r].doc
    BY <1>1, <1>4
  <1>5. CASE db' = [f \in Fields |-> IF f \in Probes THEN r ELSE req[r].doc[f]]
    BY <1>1, <1>2, <1>5 DEF Docs
  <1>6. CASE req[r].after = "discover"
    <2> DEFINE probed == [req[r].doc EXCEPT ![ApiProbe] = r]
    <2>1. probed \in Docs /\ probed["ref"] = req[r].doc["ref"]
      BY <1>1, <1>2, <1>3, FoundationsAssumption DEF Docs
    <2>2. PICK D \in SUBSET Discoverable : db' = Filled(probed, D)
      BY <1>6 DEF Settle
    <2> HIDE DEF probed
    <2> QED BY <1>2, <2>1, <2>2 DEF Filled, Docs
  <1> QED BY <1>4, <1>5, <1>6 DEF Settle

\* A session that moves on keeps its type.
LEMMA SessionType ==
  ASSUME NEW s \in Sessions, NEW doc \in Docs, NEW seen \in Docs \cup {NoRow},
         NEW pc \in {"get", "flush", "held", "done", "failed"}
  PROVE  /\ [s EXCEPT !.pc = pc, !.doc = doc] \in Sessions
         /\ [s EXCEPT !.pc = pc, !.seen = seen] \in Sessions
         /\ [s EXCEPT !.pc = pc] \in Sessions
  BY DEF Sessions

\* Every step keeps the types, and the lock with the one who flushed.
LEMMA TypesNext == TypeOK /\ [Next]_vars => TypeOK'
  <1> SUFFICES ASSUME TypeOK, [Next]_vars PROVE TypeOK'
    OBVIOUS
  <1>d. Document \in Docs /\ NoRow \notin Docs /\ NoOne \notin Requests
    BY DocumentType, FoundationsAssumption DEF Docs
  <1>s. \A r \in Requests : req[r] \in Sessions
    BY DEF TypeOK
  <1>1. ASSUME NEW r \in Requests, Write(r) PROVE TypeOK'
    <2>1. PICK base \in Docs, E \in SUBSET Fields, B \in SUBSET Fields,
               pc \in {"reread", "get"}, after \in {"nothing", "discover", "probes"},
               page \in {"shows", "rereads", "unaware"} :
            Form(r, base, E, B, pc, after, page)
      BY <1>1, WriteForm DEF Formed
    <2>2. E \cup Late(after) \in SUBSET Fields
      BY FoundationsAssumption DEF Late, Fields
    <2>3. Arrive(r, pc, Edited(base, E, B, r), E \cup Late(after), after, page)
      BY <2>1 DEF Form
    <2> QED BY <1>1, <2>2, <2>3, EditedType, TokenStays, ArriveTypes
  <1>2. ASSUME NEW r \in Requests, Reread(r) PROVE TypeOK'
    <2> DEFINE doc == [f \in Fields |-> IF f \in Probes /\ req[r].doc[f] # Blank
                                        THEN req[r].doc[f] ELSE Document[f]]
    <2>1. doc \in Docs
      BY <1>d, <1>s DEF Sessions, Docs
    <2>2. req' = [req EXCEPT ![r] = [req[r] EXCEPT !.pc = "get", !.doc = doc]]
      BY <1>2 DEF Reread, TypeOK, Sessions
    <2> HIDE DEF doc
    <2>3. [req[r] EXCEPT !.pc = "get", !.doc = doc] \in Sessions
      BY <1>s, <2>1, SessionType
    <2>4. req' \in [Requests -> Sessions]
      BY <2>2, <2>3 DEF TypeOK
    <2>5. \A q \in Requests :
            /\ req'[q].pc = "held" <=> req[q].pc = "held"
            /\ req'[q].seen = req[q].seen
      BY <1>2, <1>s, <2>2 DEF TypeOK, Reread, Sessions
    <2> QED BY <1>2, <2>4, <2>5 DEF TypeOK, Reread
  <1>3. ASSUME NEW r \in Requests, Get(r) PROVE TypeOK'
    <2>1. req' = [req EXCEPT ![r] = [req[r] EXCEPT !.pc = "flush", !.seen = db]]
      BY <1>3 DEF Get, TypeOK, Sessions
    <2>2. [req[r] EXCEPT !.pc = "flush", !.seen = db] \in Sessions
      BY <1>s, <1>d, SessionType DEF TypeOK
    <2>3. req' \in [Requests -> Sessions]
      BY <2>1, <2>2 DEF TypeOK
    <2>4. \A q \in Requests :
            /\ req'[q].pc = "held" <=> req[q].pc = "held"
            /\ req'[q].seen \in {req[q].seen, db}
      BY <1>3, <1>s, <2>1 DEF TypeOK, Get, Sessions
    <2> QED BY <1>3, <2>3, <2>4 DEF TypeOK, Get
  <1>4. ASSUME NEW r \in Requests, Flush(r) PROVE TypeOK'
    <2> DEFINE doc == IF req[r].doc = req[r].seen THEN db ELSE req[r].doc
    <2>1. doc \in Docs
      BY <1>d, <1>s DEF TypeOK, Sessions
    <2>2. req' = [req EXCEPT ![r] = [req[r] EXCEPT !.pc = "held", !.doc = doc]]
      BY <1>4 DEF Flush, TypeOK, Sessions
    <2> HIDE DEF doc
    <2>3. [req[r] EXCEPT !.pc = "held", !.doc = doc] \in Sessions
      BY <1>s, <1>d, <2>1, SessionType
    <2>4. req' \in [Requests -> Sessions]
      BY <2>2, <2>3 DEF TypeOK
    <2>5. \A q \in Requests :
            /\ req'[q].pc = "held" <=> q = r
            /\ req'[q].seen = req[q].seen
      BY <1>4, <1>s, <1>d, <2>2 DEF TypeOK, Flush, Sessions
    <2> QED BY <1>4, <2>4, <2>5 DEF TypeOK, Flush
  <1>5. ASSUME NEW r \in Requests, Conflict(r) PROVE TypeOK'
    <2>1. req' = [req EXCEPT ![r] = [req[r] EXCEPT !.pc = "failed"]]
      BY <1>5 DEF Conflict
    <2>2. req' \in [Requests -> Sessions]
      BY <1>s, <1>d, <2>1, SessionType DEF TypeOK
    <2>3. \A q \in Requests :
            /\ req'[q].pc = "held" <=> req[q].pc = "held"
            /\ req'[q].seen = req[q].seen
      BY <1>5, <1>s, <2>1 DEF TypeOK, Conflict, Sessions
    <2> QED BY <1>5, <2>2, <2>3 DEF TypeOK, Conflict
  <1>6. ASSUME NEW r \in Requests, Commit(r) PROVE TypeOK'
    <2>1. db' \in Docs
      BY <1>6, SettleType DEF Commit
    <2>2. req' = [req EXCEPT ![r] = [req[r] EXCEPT !.pc = "done"]]
      BY <1>6 DEF Commit
    <2>3. req' \in [Requests -> Sessions]
      BY <1>s, <1>d, <2>2, SessionType DEF TypeOK
    <2>4. \A q \in Requests : req'[q].pc # "held"
      BY <1>6, <1>s, <1>d, <2>2 DEF TypeOK, Commit, Sessions
    <2>5. panel' \in Docs
      BY <1>6, <1>s DEF TypeOK, Commit, Sessions
    <2>6. due' \in BOOLEAN
      BY <1>6 DEF TypeOK, Commit
    <2> QED BY <1>6, <1>d, <2>1, <2>3, <2>4, <2>5, <2>6 DEF TypeOK, Commit
  <1>7. ASSUME NEW r \in Requests, Fail(r) PROVE TypeOK'
    <2>1. req' = [req EXCEPT ![r] = [req[r] EXCEPT !.pc = "failed"]]
      BY <1>7 DEF Fail
    <2>2. req' \in [Requests -> Sessions]
      BY <1>s, <1>d, <2>1, SessionType DEF TypeOK
    <2>3. \A q \in Requests :
            /\ req'[q].pc = "held" <=> q # r /\ req[q].pc = "held"
            /\ req'[q].seen = req[q].seen
      BY <1>7, <1>s, <2>1 DEF TypeOK, Sessions
    <2>4. \A q \in Requests : req'[q].pc = "held" <=> lock' = q
      BY <1>7, <1>d, <2>3 DEF TypeOK, Fail
    <2> QED BY <1>7, <2>2, <2>3, <2>4 DEF TypeOK, Fail
  <1>8. CASE Crash
    <2>1. \A q \in Requests :
            req'[q] = IF q \in Active THEN [req[q] EXCEPT !.pc = "failed"] ELSE req[q]
      BY <1>8 DEF Crash
    <2>2. \A q \in Requests : req'[q] \in Sessions
      BY <1>s, <1>d, <2>1, SessionType
    <2>3. req' \in [Requests -> Sessions]
      BY <1>8, <2>2 DEF Crash
    <2>4. \A q \in Requests :
            /\ req'[q].pc # "held"
            /\ req'[q].seen = req[q].seen
      BY <1>s, <2>1 DEF Sessions, Active
    <2> QED BY <1>8, <1>d, <2>3, <2>4 DEF TypeOK, Crash
  <1>9. CASE Refresh \/ OtherSecret
    BY <1>d, <1>9 DEF TypeOK, Refresh, OtherSecret
  <1>10. CASE UNCHANGED vars
    BY <1>10 DEF TypeOK, vars
  <1>11. ASSUME NEW r \in Requests, TokenFails(r) PROVE TypeOK'
    <2>1. req' = [req EXCEPT ![r] = [req[r] EXCEPT !.pc = "failed"]]
      BY <1>11 DEF TokenFails
    <2>2. req' \in [Requests -> Sessions]
      BY <1>s, <1>d, <2>1, SessionType DEF TypeOK
    <2>3. \A q \in Requests :
            /\ req'[q].pc = "held" <=> req[q].pc = "held"
            /\ req'[q].seen = req[q].seen
      BY <1>11, <1>s, <2>1 DEF TypeOK, TokenFails, Sessions
    <2>4. edits' \subseteq Plain
      BY <1>11 DEF TokenFails, TypeOK
    <2> QED BY <1>11, <2>2, <2>3, <2>4 DEF TypeOK, TokenFails
  <1> QED BY <1>1, <1>2, <1>3, <1>4, <1>5, <1>6, <1>7, <1>8, <1>9, <1>10, <1>11
        DEF Next, Proceed

\* Initially nothing is set and nobody is active.
LEMMA TypesInit == Init => TypeOK
  <1> SUFFICES ASSUME Init PROVE TypeOK
    OBVIOUS
  <1>1. Empty \in Docs
    BY DEF Empty, Docs
  <1>2. NoOne \notin Requests
    BY FoundationsAssumption
  <1> QED BY <1>1, <1>2 DEF Init, TypeOK, Sessions

\* The types, the owner of the lock, and rows that stay.
THEOREM FoundationsTypes == Spec => []TypeOK
  BY TypesInit, TypesNext, PTL DEF Spec

-----------------------------------------------------------------------------
(***************************************************************************)
(* References have tokens.                                                 *)
(***************************************************************************)

\* No document a session is going to write has a reference without a token,
\* unless one was lost; and a token that is in the file is in memory.
RefInv ==
  /\ RefHasToken
  /\ \A r \in Requests : req[r].doc["ref"] # Blank => token # NoOne \/ lost
  /\ file # NoOne => token # NoOne

\* Every step keeps that: the token is stored when the reference is made.
LEMMA RefNext == TypeOK /\ RefInv /\ [Next]_vars => RefInv'
  <1> SUFFICES ASSUME TypeOK, RefInv, [Next]_vars PROVE RefInv'
    OBVIOUS
  <1>f. "ref" \in Fields \ Probes /\ NoOne \notin Requests /\ NoRow \notin Docs
    BY FoundationsAssumption DEF Fields, Plain, Proxmox, Docs
  <1>s. \A r \in Requests : req[r] \in Sessions
    BY DEF TypeOK
  <1>1. ASSUME NEW r \in Requests, Write(r) PROVE RefInv'
    <2>1. PICK base \in Docs, E \in SUBSET Fields, B \in SUBSET Fields,
               pc \in {"reread", "get"}, after \in {"nothing", "discover", "probes"},
               page \in {"shows", "rereads", "unaware"} :
            Form(r, base, E, B, pc, after, page)
      BY <1>1, WriteForm DEF Formed
    <2> DEFINE doc == Edited(base, E, B, r)
    <2>2. doc["ref"] # Blank => token' # NoOne \/ lost
      BY <2>1, <1>1, <1>f, TokenStays DEF Form, Edited, RefInv, RefHasToken
    <2>3. \A q \in Requests : req'[q].doc = IF q = r THEN doc ELSE req[q].doc
      BY <2>1, <1>s DEF Form, Arrive, TypeOK, Sessions
    <2>4. UNCHANGED <<db, panel>>
      BY <2>1 DEF Form, Arrive
    <2> HIDE DEF doc
    <2> QED BY <1>1, <2>2, <2>3, <2>4, TokenStays DEF RefInv, RefHasToken, Document
  <1>2. ASSUME NEW r \in Requests, Reread(r) PROVE RefInv'
    <2>1. req'[r].doc["ref"] = Document["ref"]
      BY <1>2, <1>f, <1>s DEF Reread, TypeOK, Sessions
    <2>2. \A q \in Requests \ {r} : req'[q].doc = req[q].doc
      BY <1>2, <1>s DEF Reread, TypeOK, Sessions
    <2> QED BY <1>2, <2>1, <2>2 DEF Reread, RefInv, RefHasToken, Document
  <1>3. ASSUME NEW r \in Requests, Flush(r) PROVE RefInv'
    <2>1. req'[r].doc \in {db, req[r].doc}
      BY <1>3, <1>s DEF Flush, TypeOK, Sessions
    <2>2. req'[r].doc = req[r].doc \/ (db # NoRow /\ req'[r].doc = Document)
      BY <1>3, <1>f, <1>s DEF Flush, TypeOK, Sessions, Document
    <2>3. \A q \in Requests \ {r} : req'[q].doc = req[q].doc
      BY <1>3, <1>s DEF Flush, TypeOK, Sessions
    <2> QED BY <1>3, <2>2, <2>3 DEF Flush, RefInv, RefHasToken, Document
  <1>4. ASSUME NEW r \in Requests, Get(r) \/ Conflict(r) \/ Fail(r) PROVE RefInv'
    <2>1. \A q \in Requests : req'[q].doc = req[q].doc
      BY <1>4, <1>s DEF Get, Conflict, Fail, TypeOK, Sessions
    <2> QED BY <1>4, <2>1 DEF Get, Conflict, Fail, RefInv, RefHasToken, Document
  <1>5. ASSUME NEW r \in Requests, Commit(r) PROVE RefInv'
    <2>1. db' \in Docs /\ db'["ref"] = req[r].doc["ref"]
      BY <1>5, SettleType DEF Commit
    <2>2. \A q \in Requests : req'[q].doc = req[q].doc
      BY <1>5, <1>s DEF Commit, TypeOK, Sessions
    <2>3. Document' = db'
      BY <2>1, <1>f DEF Document
    <2>4. panel' \in {panel, req[r].doc} /\ UNCHANGED <<token, file, lost>>
      BY <1>5 DEF Commit
    <2> QED BY <2>1, <2>2, <2>3, <2>4 DEF RefInv, RefHasToken
  <1>6. CASE Crash
    <2>1. \A q \in Requests : req'[q].doc = req[q].doc
      BY <1>6, <1>s DEF Crash, TypeOK, Sessions
    <2> QED BY <1>6, <2>1 DEF Crash, RefInv, RefHasToken, Document
  <1>7. CASE Refresh \/ OtherSecret
    BY <1>7 DEF Refresh, OtherSecret, RefInv, RefHasToken, Document
  <1>8. CASE UNCHANGED vars
    BY <1>8 DEF vars, RefInv, RefHasToken, Document
  <1>9. ASSUME NEW r \in Requests, TokenFails(r) PROVE RefInv'
    <2>1. \A q \in Requests : req'[q].doc = req[q].doc
      BY <1>9, <1>s DEF TokenFails, TypeOK, Sessions
    <2> QED BY <1>9, <1>f, <2>1 DEF TokenFails, RefInv, RefHasToken, Document
  <1> QED BY <1>1, <1>2, <1>3, <1>4, <1>5, <1>6, <1>7, <1>8, <1>9 DEF Next, Proceed

\* A token reference, in the document or read by the page, has a token behind
\* it, unless a restart has lost one the secrets file never got.
THEOREM RefAlwaysHasToken == Spec => []RefHasToken
  <1>1. Init => RefInv
    BY DEF Init, RefInv, RefHasToken, Document, Empty, Fields, Plain, Proxmox
  <1>2. RefInv => RefHasToken
    BY DEF RefInv
  <1> QED BY <1>1, <1>2, TypesInit, TypesNext, RefNext, PTL DEF Spec

-----------------------------------------------------------------------------
(***************************************************************************)
(* Failures leave nothing, and success means stored.                       *)
(***************************************************************************)

\* Until a request is answered its values are in its own copy only.
Fresh ==
  \A r \in Requests : req[r].pc # "done" =>
    \A f \in Fields :
      /\ Document[f] # r /\ panel[f] # r
      /\ \A q \in Requests : /\ q # r => req[q].doc[f] # r
                             /\ req[q].seen # NoRow => req[q].seen[f] # r

\* The fields a request is for are in its copy, the late ones excepted.
Promised ==
  \A r \in Active :
    /\ \A f \in req[r].sets \ Late(req[r].after) : req[r].doc[f] = r
    /\ Late(req[r].after) \subseteq req[r].sets
    /\ req[r].pc = "reread" => req[r].sets \subseteq Probes

\* A session between its arrival and its answer is active.
LEMMA ActiveNotDone == \A r \in Active : r \in Requests /\ req[r].pc # "done"
  BY DEF Active

\* What changes in the copies: one at a time, to values the request may have.
CopyStep(r) ==
  /\ r \in Requests
  /\ \A q \in Requests \ {r} : req'[q] = req[q]
  /\ \A f \in Fields : req'[r].doc[f] \in {r, Blank, Document[f], panel[f], req[r].doc[f]}
  /\ req'[r].seen \in {req[r].seen, NoRow, db}
  /\ req[r].pc # "done" /\ req'[r].pc # "done"
  /\ Document' = Document
  /\ panel' \in {panel, Document}

\* Such a step keeps the values apart.
LEMMA CopyFresh ==
  ASSUME TypeOK, Fresh, NEW r, CopyStep(r)
  PROVE  Fresh'
  <1> SUFFICES ASSUME NEW q \in Requests, req'[q].pc # "done", NEW f \in Fields
               PROVE  /\ Document'[f] # q /\ panel'[f] # q
                      /\ \A s \in Requests : /\ s # q => req'[s].doc[f] # q
                                             /\ req'[s].seen # NoRow => req'[s].seen[f] # q
    BY DEF Fresh
  <1>b. Blank # q
    BY FoundationsAssumption
  <1>1. req[q].pc # "done"
    BY DEF CopyStep
  <1>2. Document'[f] # q /\ panel'[f] # q
    BY <1>1 DEF CopyStep, Fresh
  <1>3. ASSUME NEW s \in Requests, s # q PROVE req'[s].doc[f] # q
    <2>1. CASE s = r
      BY <1>1, <1>3, <1>b, <2>1 DEF CopyStep, Fresh
    <2>2. CASE s # r
      BY <1>1, <1>3, <2>2 DEF CopyStep, Fresh
    <2> QED BY <2>1, <2>2
  <1>4. ASSUME NEW s \in Requests, req'[s].seen # NoRow PROVE req'[s].seen[f] # q
    <2>1. req'[s].seen \in {req[s].seen, db}
      BY <1>4 DEF CopyStep
    <2>2. db # NoRow => db[f] # q
      BY <1>1 DEF Fresh, Document
    <2> QED BY <1>1, <1>4, <2>1, <2>2 DEF Fresh
  <1> QED BY <1>2, <1>3, <1>4

\* Every step of a session but its commit is such a step.
LEMMA SessionCopies ==
  ASSUME TypeOK, NEW r \in Requests,
         Write(r) \/ Reread(r) \/ Get(r) \/ Flush(r) \/ Conflict(r) \/ Fail(r)
           \/ TokenFails(r)
  PROVE  CopyStep(r)
  <1>s. req[r] \in Sessions /\ req \in [Requests -> Sessions]
    BY DEF TypeOK
  <1>1. CASE Write(r)
    <2>1. PICK base \in Docs, E \in SUBSET Fields, B \in SUBSET Fields,
               pc \in {"reread", "get"}, after \in {"nothing", "discover", "probes"},
               page \in {"shows", "rereads", "unaware"} :
            Form(r, base, E, B, pc, after, page)
      BY <1>1, WriteForm DEF Formed
    <2>2. base = Document \/ base = panel
      BY <2>1 DEF Form
    <2>3. /\ req[r].pc = "idle"
          /\ req' = [req EXCEPT ![r] =
               [pc |-> pc, doc |-> Edited(base, E, B, r), seen |-> NoRow,
                sets |-> E \cup Late(after), after |-> after, page |-> page]]
          /\ UNCHANGED <<db, panel>>
      BY <2>1 DEF Form, Arrive
    <2>4. \A f \in Fields : Edited(base, E, B, r)[f] \in {r, Blank, base[f]}
      BY DEF Edited
    <2>5. /\ req'[r].pc = pc /\ req'[r].seen = NoRow
          /\ req'[r].doc = Edited(base, E, B, r)
          /\ \A q \in Requests \ {r} : req'[q] = req[q]
      BY <1>s, <2>3
    <2>6. Document' = Document
      BY <2>3 DEF Document
    <2> QED BY <2>2, <2>3, <2>4, <2>5, <2>6 DEF CopyStep
  <1>2. CASE Reread(r)
    <2>1. /\ req'[r].pc = "get" /\ req'[r].seen = req[r].seen
          /\ \A f \in Fields : req'[r].doc[f] \in {req[r].doc[f], Document[f]}
          /\ \A q \in Requests \ {r} : req'[q] = req[q]
      BY <1>2, <1>s DEF Reread, Sessions
    <2> QED BY <1>2, <2>1 DEF Reread, CopyStep, Document
  <1>3. CASE Get(r)
    <2>1. /\ req'[r].pc = "flush" /\ req'[r].seen = db
          /\ req'[r].doc = req[r].doc
          /\ \A q \in Requests \ {r} : req'[q] = req[q]
      BY <1>3, <1>s DEF Get, Sessions
    <2> QED BY <1>3, <2>1 DEF Get, CopyStep, Document
  <1>4. CASE Flush(r)
    <2>0. NoRow \notin Docs
      BY FoundationsAssumption DEF Docs
    <2>1. /\ req'[r].pc = "held" /\ req'[r].seen = req[r].seen
          /\ req'[r].doc \in {req[r].doc, Document}
          /\ \A q \in Requests \ {r} : req'[q] = req[q]
      BY <1>4, <1>s, <2>0 DEF Flush, Sessions, TypeOK, Document
    <2> QED BY <1>4, <2>1 DEF Flush, CopyStep, Document
  <1>5. CASE Conflict(r) \/ Fail(r) \/ TokenFails(r)
    <2>1. /\ req'[r].pc = "failed" /\ req'[r].seen = req[r].seen
          /\ req'[r].doc = req[r].doc
          /\ \A q \in Requests \ {r} : req'[q] = req[q]
      BY <1>5, <1>s DEF Conflict, Fail, TokenFails, Sessions
    <2> QED BY <1>5, <2>1 DEF Conflict, Fail, TokenFails, Active, CopyStep, Document
  <1> QED BY <1>1, <1>2, <1>3, <1>4, <1>5

\* What a request adds to its copy while it owns the row.
LEMMA SettleFields ==
  ASSUME TypeOK, NEW r \in Requests, Settle(r)
  PROVE  /\ db' \in Docs
         /\ \A f \in Fields : db'[f] \in {r, Found, req[r].doc[f]}
         /\ \A f \in Fields : req[r].doc[f] = r => db'[f] = r
         /\ \A f \in Late(req[r].after) : db'[f] = r
  <1>0. db' \in Docs
    BY SettleType
  <1>1. req[r].doc \in Docs /\ ApiProbe \in Fields /\ Probes \subseteq Fields
    BY FoundationsAssumption DEF TypeOK, Sessions, Fields
  <1>2. r # Blank /\ ApiProbe \notin Discoverable
    BY FoundationsAssumption DEF Discoverable, Plain, Proxmox
  <1>3. CASE req[r].after = "nothing" /\ db' = req[r].doc
    BY <1>0, <1>3 DEF Late
  <1>4. CASE req[r].after = "discover"
    <2> DEFINE probed == [req[r].doc EXCEPT ![ApiProbe] = r]
    <2>1. \A f \in Fields : probed[f] = IF f = ApiProbe THEN r ELSE req[r].doc[f]
      BY <1>1 DEF Docs
    <2>2. PICK D \in SUBSET {f \in Discoverable : req[r].doc[f] = Blank} :
            db' = Filled(probed, D)
      BY <1>4 DEF Settle
    <2> HIDE DEF probed
    <2>3. \A f \in Fields : db'[f] = IF f \in D THEN Found ELSE probed[f]
      BY <2>2 DEF Filled
    <2>4. Late(req[r].after) = {ApiProbe}
      BY <1>4 DEF Late
    <2> QED BY <1>0, <1>1, <1>2, <2>1, <2>2, <2>3, <2>4
  <1>5. CASE /\ req[r].after = "probes"
             /\ db' = [f \in Fields |-> IF f \in Probes THEN r ELSE req[r].doc[f]]
    BY <1>0, <1>1, <1>5 DEF Late
  <1> QED BY <1>3, <1>4, <1>5 DEF Settle

\* Every step keeps the values of unanswered requests apart.
LEMMA FreshNext == TypeOK /\ Fresh /\ [Next]_vars => Fresh'
  <1> SUFFICES ASSUME TypeOK, Fresh, [Next]_vars PROVE Fresh'
    OBVIOUS
  <1>1. ASSUME NEW r \in Requests,
               Write(r) \/ Reread(r) \/ Get(r) \/ Flush(r) \/ Conflict(r) \/ Fail(r)
           \/ TokenFails(r)
        PROVE  Fresh'
    BY <1>1, SessionCopies, CopyFresh
  <1>2. ASSUME NEW r \in Requests, Commit(r) PROVE Fresh'
    <2>1. /\ db' \in Docs
          /\ \A f \in Fields : db'[f] \in {r, Found, req[r].doc[f]}
      BY <1>2, SettleFields DEF Commit
    <2>2. Document' = db'
      BY <2>1, FoundationsAssumption DEF Document, Docs
    <2>3. /\ req'[r].pc = "done"
          /\ \A q \in Requests : req'[q].doc = req[q].doc /\ req'[q].seen = req[q].seen
          /\ \A q \in Requests \ {r} : req'[q].pc = req[q].pc
          /\ panel' \in {panel, req[r].doc}
      BY <1>2 DEF Commit, TypeOK, Sessions
    <2>4. \A q \in Requests : q # Found
      BY FoundationsAssumption
    <2> QED BY <2>1, <2>2, <2>3, <2>4 DEF Fresh
  <1>3. CASE Crash
    <2>1. /\ \A q \in Requests : req'[q].doc = req[q].doc /\ req'[q].seen = req[q].seen
          /\ \A q \in Requests : req[q].pc = "done" => req'[q].pc = "done"
          /\ Document' = Document /\ panel' = panel
      BY <1>3 DEF Crash, TypeOK, Sessions, Active, Document
    <2> QED BY <2>1 DEF Fresh
  <1>4. CASE Refresh \/ OtherSecret
    <2>1. req' = req /\ Document' = Document /\ panel' \in {panel, Document}
      BY <1>4 DEF Refresh, OtherSecret, Document
    <2> QED BY <2>1 DEF Fresh
  <1>5. CASE UNCHANGED vars
    <2>1. req' = req /\ Document' = Document /\ panel' = panel
      BY <1>5 DEF vars, Document
    <2> QED BY <2>1 DEF Fresh
  <1> QED BY <1>1, <1>2, <1>3, <1>4, <1>5 DEF Next, Proceed

\* Every step keeps what active requests are for in their copies.
LEMMA PromisedNext == TypeOK /\ Fresh /\ Promised /\ [Next]_vars => Promised'
  <1> SUFFICES ASSUME TypeOK, Fresh, Promised, [Next]_vars PROVE Promised'
    OBVIOUS
  <1>s. req \in [Requests -> Sessions]
    BY DEF TypeOK
  <1>1. ASSUME NEW r \in Requests, Write(r) PROVE Promised'
    <2>1. PICK base \in Docs, E \in SUBSET Fields, B \in SUBSET Fields,
               pc \in {"reread", "get"}, after \in {"nothing", "discover", "probes"},
               page \in {"shows", "rereads", "unaware"} :
            Form(r, base, E, B, pc, after, page)
      BY <1>1, WriteForm DEF Formed
    <2>2. \A f \in E : Edited(base, E, B, r)[f] = r
      BY DEF Edited
    <2>3. req' = [req EXCEPT ![r] =
               [pc |-> pc, doc |-> Edited(base, E, B, r), seen |-> NoRow,
                sets |-> E \cup Late(after), after |-> after, page |-> page]]
      BY <2>1 DEF Form, Arrive
    <2>4. /\ req'[r].doc = Edited(base, E, B, r) /\ req'[r].after = after
          /\ req'[r].sets = E \cup Late(after)
          /\ \A q \in Requests \ {r} : req'[q] = req[q]
      BY <1>s, <2>3
    <2>5. pc = "reread" => E \cup Late(after) \subseteq Probes
      BY <2>1, FoundationsAssumption DEF Form, Late
    <2>6. req'[r].pc = pc
      BY <1>s, <2>3
    <2>7. Late(req'[r].after) \subseteq req'[r].sets
      BY <2>4
    <2> QED BY <2>2, <2>4, <2>5, <2>6, <2>7 DEF Promised, Active, Late
  <1>2. ASSUME NEW r \in Requests, Reread(r) PROVE Promised'
    <2>1. /\ req'[r].sets = req[r].sets /\ req'[r].after = req[r].after
          /\ r \in Active /\ req[r].pc = "reread" /\ req'[r].pc = "get"
          /\ \A q \in Requests \ {r} : req'[q] = req[q]
      BY <1>2, <1>s DEF Reread, Sessions, Active
    <2>2. r # Blank
      BY FoundationsAssumption
    <2>3. \A f \in Probes : req[r].doc[f] = r => req'[r].doc[f] = r
      BY <1>2, <1>s, <2>2 DEF Reread, Sessions, Fields
    <2>4. req[r].sets \subseteq Probes
      BY <2>1 DEF Promised
    <2> QED BY <2>1, <2>3, <2>4 DEF Promised, Active
  <1>3. ASSUME NEW r \in Requests, Flush(r) PROVE Promised'
    <2>1. /\ req'[r].sets = req[r].sets /\ req'[r].after = req[r].after
          /\ r \in Active /\ req'[r].pc = "held"
          /\ req[r].doc # req[r].seen => req'[r].doc = req[r].doc
          /\ \A q \in Requests \ {r} : req'[q] = req[q]
      BY <1>3, <1>s DEF Flush, Sessions, Active
    <2>2. req[r].doc \in Docs /\ NoRow \notin Docs /\ req[r].sets \subseteq Fields
      BY <1>s, FoundationsAssumption DEF Sessions, Docs
    <2>3. ASSUME NEW f \in req[r].sets \ Late(req[r].after) PROVE req'[r].doc[f] = r
      <3>1. req[r].doc[f] = r
        BY <2>1 DEF Promised
      <3>2. req[r].seen # NoRow => req[r].seen[f] # r
        BY <2>1, <2>2, ActiveNotDone DEF Fresh
      <3>3. req[r].doc # req[r].seen
        BY <2>2, <3>1, <3>2
      <3> QED BY <2>1, <3>1, <3>3
    <2> QED BY <2>1, <2>3 DEF Promised, Active
  <1>4. ASSUME NEW r \in Requests, Get(r) PROVE Promised'
    <2>1. /\ req'[r].sets = req[r].sets /\ req'[r].after = req[r].after
          /\ r \in Active /\ req'[r].pc = "flush" /\ req'[r].doc = req[r].doc
          /\ \A q \in Requests \ {r} : req'[q] = req[q]
      BY <1>4, <1>s DEF Get, Sessions, Active
    <2> QED BY <2>1 DEF Promised, Active
  <1>5. ASSUME NEW r \in Requests, Conflict(r) \/ Commit(r) \/ Fail(r) \/ TokenFails(r) PROVE Promised'
    <2>1. /\ req'[r].pc \in {"done", "failed"}
          /\ \A q \in Requests \ {r} : req'[q] = req[q]
      BY <1>5, <1>s DEF Conflict, Commit, Fail, TokenFails, Sessions
    <2> QED BY <2>1 DEF Promised, Active
  <1>6. CASE Crash
    <2>1. \A q \in Requests : req'[q].pc \notin {"reread", "get", "flush", "held"}
      BY <1>6, <1>s DEF Crash, Sessions, Active
    <2> QED BY <2>1 DEF Promised, Active
  <1>7. CASE UNCHANGED req
    BY <1>7 DEF Promised, Active
  <1> QED BY <1>1, <1>2, <1>3, <1>4, <1>5, <1>6, <1>7 DEF Next, Proceed, Refresh, OtherSecret, vars

\* Initially no request has any value anywhere.
LEMMA FreshInit == Init => Fresh /\ Promised
  <1> SUFFICES ASSUME Init PROVE Fresh /\ Promised
    OBVIOUS
  <1>1. Active = {}
    BY DEF Init, Active
  <1>2. \A r \in Requests : r # Blank
    BY FoundationsAssumption
  <1>3. Document = Empty /\ panel = Empty
        /\ \A q \in Requests : req[q].doc = Empty /\ req[q].seen = NoRow
    BY DEF Init, Document
  <1> QED BY <1>1, <1>2, <1>3 DEF Fresh, Promised, Empty

\* A request that failed has left nothing in the document, nor in what the page
\* read of it.
THEOREM FailuresLeaveNothing == Spec => []FailedLeavesNothing
  <1>1. Fresh => FailedLeavesNothing
    BY DEF Fresh, FailedLeavesNothing
  <1> QED BY <1>1, TypesInit, TypesNext, FreshInit, FreshNext, PTL DEF Spec

\* A request becomes answered by its commit, which stores what it was for.
LEMMA AckNext ==
  TypeOK /\ Fresh /\ Promised /\ [Next]_vars =>
    \A r \in Requests : req[r].pc # "done" /\ req'[r].pc = "done" =>
      \A f \in req[r].sets : db'[f] = r
  <1> SUFFICES ASSUME TypeOK, Promised, [Next]_vars,
                      NEW r \in Requests, req[r].pc # "done", req'[r].pc = "done",
                      NEW f \in req[r].sets
               PROVE  db'[f] = r
    OBVIOUS
  <1>1. ASSUME NEW q \in Requests,
               Write(q) \/ Reread(q) \/ Get(q) \/ Flush(q) \/ Conflict(q) \/ Fail(q)
                 \/ TokenFails(q)
        PROVE  FALSE
    BY <1>1, SessionCopies DEF CopyStep
  <1>2. CASE Crash
    BY <1>2 DEF Crash, TypeOK, Sessions
  <1>3. CASE UNCHANGED req
    BY <1>3
  <1>4. ASSUME NEW q \in Requests, Commit(q) PROVE db'[f] = r
    <2>0. req[q].pc = "held" /\ \A s \in Requests \ {q} : req'[s] = req[s]
      BY <1>4 DEF Commit, TypeOK
    <2>1. q = r /\ r \in Active
      BY <2>0 DEF Active
    <2>2. req[r].sets \subseteq Fields
      BY DEF TypeOK, Sessions
    <2>3. /\ \A g \in Fields : req[r].doc[g] = r => db'[g] = r
          /\ \A g \in Late(req[r].after) : db'[g] = r
      BY <1>4, <2>1, SettleFields DEF Commit
    <2> QED BY <2>1, <2>2, <2>3 DEF Promised
  <1> QED BY <1>1, <1>2, <1>3, <1>4 DEF Next, Proceed, Refresh, OtherSecret, vars

\* An answered request has stored what it was for, whoever wrote meanwhile.
THEOREM SuccessIsStored == Spec => AckedIsStored
  BY TypesInit, TypesNext, FreshInit, FreshNext, PromisedNext, AckNext, PTL
     DEF Spec, AckedIsStored

-----------------------------------------------------------------------------
(***************************************************************************)
(* One writer at a time writes what it is for and no more.                 *)
(***************************************************************************)

\* The agent sends the Proxmox section whole or not at all.
WholeSections == \A F \in AgentPatches : F \cap Proxmox # {} => Proxmox \subseteq F

\* One request is active, and outside its fields its copy is the document.
Alone ==
  /\ \A q, r \in Active : q = r
  /\ \A r \in Active : \A f \in Fields \ req[r].sets : req[r].doc[f] = Document[f]

\* Every step keeps that, if pages are current and patches whole.
LEMMA AloneNext ==
  ASSUME Serial, WholeSections, TypeOK, Alone, [Next]_vars
  PROVE  Alone'
  <1>s. req \in [Requests -> Sessions] /\ NoRow \notin Docs
    BY FoundationsAssumption DEF TypeOK, Docs
  <1>1. ASSUME NEW r \in Requests, Write(r) PROVE Alone'
    <2>1. PICK base \in Docs, E \in SUBSET Fields, B \in SUBSET Fields,
               pc \in {"reread", "get"}, after \in {"nothing", "discover", "probes"},
               page \in {"shows", "rereads", "unaware"} :
            Form(r, base, E, B, pc, after, page)
      BY <1>1, WriteForm DEF Formed
    <2>2. B = {} /\ base = Document
      BY <2>1 DEF Form, WholeSections
    <2>3. /\ Active = {} /\ UNCHANGED db
          /\ req' = [req EXCEPT ![r] =
               [pc |-> pc, doc |-> Edited(base, E, B, r), seen |-> NoRow,
                sets |-> E \cup Late(after), after |-> after, page |-> page]]
      BY <2>1 DEF Form, Arrive
    <2>4. /\ req'[r].doc = Edited(base, E, B, r)
          /\ req'[r].sets = E \cup Late(after)
          /\ \A q \in Requests \ {r} : req'[q] = req[q]
      BY <1>s, <2>3
    <2>5. Active' \subseteq {r}
      BY <2>3, <2>4 DEF Active
    <2>6. \A f \in Fields \ (E \cup Late(after)) : Edited(base, E, B, r)[f] = Document[f]
      BY <2>2 DEF Edited
    <2> QED BY <2>3, <2>4, <2>5, <2>6 DEF Alone, Document
  <1>2. ASSUME NEW r \in Requests, Reread(r) \/ Get(r) \/ Flush(r) PROVE Alone'
    <2>1. /\ r \in Active /\ req'[r].sets = req[r].sets
          /\ \A q \in Requests \ {r} : req'[q] = req[q]
          /\ UNCHANGED db
      BY <1>2, <1>s DEF Reread, Get, Flush, Sessions, Active
    <2>2. \A f \in Fields : req'[r].doc[f] \in {req[r].doc[f], Document[f]}
      <3>1. CASE Reread(r)
        BY <1>s, <3>1 DEF Reread, Sessions
      <3>2. CASE Get(r)
        BY <1>s, <3>2 DEF Get, Sessions
      <3>3. CASE Flush(r)
        BY <1>s, <3>3 DEF Flush, Sessions, TypeOK, Document
      <3> QED BY <1>2, <3>1, <3>2, <3>3
    <2>3. Active' \subseteq Active
      BY <2>1 DEF Active
    <2> QED BY <2>1, <2>2, <2>3 DEF Alone, Document
  <1>3. ASSUME NEW r \in Requests, Conflict(r) \/ Fail(r) \/ TokenFails(r) PROVE Alone'
    <2>1. /\ Active' \subseteq Active \ {r} /\ UNCHANGED db
          /\ \A q \in Requests \ {r} : req'[q] = req[q]
      BY <1>3, <1>s DEF Conflict, Fail, TokenFails, Sessions, Active
    <2> QED BY <2>1 DEF Alone, Document, Active
  <1>4. ASSUME NEW r \in Requests, Commit(r) PROVE Alone'
    <2>1. r \in Active /\ Active' \subseteq Active \ {r}
      BY <1>4, <1>s DEF Commit, Sessions, Active
    <2> QED BY <2>1 DEF Alone
  <1>5. CASE Crash
    <2>1. Active' = {}
      BY <1>5, <1>s DEF Crash, Sessions, Active
    <2> QED BY <2>1 DEF Alone
  <1>6. CASE UNCHANGED <<db, req>>
    BY <1>6 DEF Alone, Active, Document
  <1> QED BY <1>1, <1>2, <1>3, <1>4, <1>5, <1>6 DEF Next, Proceed, Refresh, OtherSecret, vars

\* What the abstract document's requests have asked for.
Asked == [r \in Requests |-> IF r \in Active THEN req[r].sets ELSE {}]

\* Every step of a lone writer is a step of the abstract document.
LEMMA StepImplements ==
  ASSUME TypeOK, Fresh, Promised, Alone, [Next]_vars
  PROVE  [Abstract!Next]_(Abstract!vars)
  <1>s. req \in [Requests -> Sessions] /\ NoRow \notin Docs
    BY FoundationsAssumption DEF TypeOK, Docs
  <1>1. ASSUME NEW r \in Requests, Write(r) PROVE Abstract!Ask(r)
    <2>1. PICK base \in Docs, E \in SUBSET Fields, B \in SUBSET Fields,
               pc \in {"reread", "get"}, after \in {"nothing", "discover", "probes"},
               page \in {"shows", "rereads", "unaware"} :
            Form(r, base, E, B, pc, after, page)
      BY <1>1, WriteForm DEF Formed
    <2>2. /\ req[r].pc = "idle" /\ UNCHANGED db
          /\ req' = [req EXCEPT ![r] =
               [pc |-> pc, doc |-> Edited(base, E, B, r), seen |-> NoRow,
                sets |-> E \cup Late(after), after |-> after, page |-> page]]
      BY <2>1 DEF Form, Arrive
    <2>3. /\ req'[r].pc = pc /\ req'[r].sets = E \cup Late(after)
          /\ \A q \in Requests \ {r} : req'[q] = req[q]
      BY <1>s, <2>2
    <2>4. E \cup Late(after) \in SUBSET Fields
      BY FoundationsAssumption DEF Late, Fields
    <2>5. r \notin Active /\ Active' = Active \cup {r}
      BY <2>2, <2>3 DEF Active
    <2>6. Asked[r] = {} /\ Asked' = [Asked EXCEPT ![r] = E \cup Late(after)]
      BY <2>3, <2>5 DEF Asked
    <2>7. Document' = Document
      BY <2>2 DEF Document
    <2> QED BY <2>4, <2>6, <2>7 DEF Abstract!Ask, Asked
  <1>2. ASSUME NEW r \in Requests, Reread(r) \/ Get(r) \/ Flush(r)
        PROVE  UNCHANGED Abstract!vars
    <2>1. /\ UNCHANGED db
          /\ \A q \in Requests : req'[q].sets = req[q].sets
          /\ Active' = Active
      BY <1>2, <1>s DEF Reread, Get, Flush, Sessions, Active
    <2>2. Asked' = Asked /\ Document' = Document
      BY <2>1 DEF Asked, Document
    <2> QED BY <2>2 DEF Abstract!vars, Asked
  <1>3. ASSUME NEW r \in Requests, Conflict(r) \/ Fail(r) \/ TokenFails(r)
       PROVE Abstract!Drop
    <2>1. /\ UNCHANGED db
          /\ \A q \in Requests : req'[q].sets = req[q].sets
          /\ Active' = Active \ {r}
      BY <1>3, <1>s DEF Conflict, Fail, TokenFails, Sessions, Active
    <2>2. Asked' = [q \in Requests |-> IF q \in {r} THEN {} ELSE Asked[q]]
      BY <2>1 DEF Asked
    <2>3. {r} \in SUBSET Requests /\ Document' = Document
      BY <2>1 DEF Document
    <2> QED BY <2>2, <2>3 DEF Abstract!Drop, Asked
  <1>4. ASSUME NEW r \in Requests, Commit(r) PROVE Abstract!Save(r)
    <2>1. /\ r \in Active /\ Active' = Active \ {r}
          /\ \A q \in Requests : req'[q].sets = req[q].sets
      BY <1>4, <1>s DEF Commit, Sessions, Active
    <2>2. Asked[r] = req[r].sets /\ Asked' = [Asked EXCEPT ![r] = {}]
      BY <2>1 DEF Asked
    <2>3. db' \in Docs /\ Document' = db'
      BY <1>4, <1>s, SettleType DEF Commit, Document
    <2>4. /\ \A f \in Fields \ req[r].sets : req[r].doc[f] = Document[f]
          /\ \A f \in req[r].sets \ Late(req[r].after) : req[r].doc[f] = r
          /\ req[r].sets \subseteq Fields /\ req[r].doc \in Docs
      BY <1>s, <2>1 DEF Alone, Promised, Sessions
    <2>5. /\ \A f \in Fields : req[r].doc[f] = r => db'[f] = r
          /\ \A f \in Late(req[r].after) : db'[f] = r
      BY <1>4, SettleFields DEF Commit
    <2>6. \A f \in req[r].sets : db'[f] = r
      BY <2>4, <2>5
    <2>7. \E D \in SUBSET {f \in Discoverable : Document[f] = Blank} :
            \A f \in Fields \ req[r].sets :
              db'[f] = IF f \in D THEN Found ELSE Document[f]
      <3> DEFINE Blanks == {f \in Discoverable : Document[f] = Blank}
                 Kept(D) == \A f \in Fields \ req[r].sets :
                              db'[f] = IF f \in D THEN Found ELSE Document[f]
      <3>0. /\ Late(req[r].after) \subseteq req[r].sets
            /\ Discoverable \subseteq Fields /\ ApiProbe \in Fields
            /\ ApiProbe \notin Discoverable /\ r # Blank
        BY <2>1, FoundationsAssumption
           DEF Promised, Discoverable, Fields, Plain, Proxmox
      <3>1. CASE req[r].after = "nothing" /\ db' = req[r].doc
        <4>1. Kept({})
          BY <2>4, <3>1
        <4>2. {} \in SUBSET Blanks
          OBVIOUS
        <4> QED BY <4>1, <4>2
      <3>2. CASE req[r].after = "discover"
        <4> DEFINE probed == [req[r].doc EXCEPT ![ApiProbe] = r]
        <4>1. PICK D \in SUBSET {f \in Discoverable : req[r].doc[f] = Blank} :
                db' = Filled(probed, D)
          BY <1>4, <3>2 DEF Commit, Settle
        <4>2. Late(req[r].after) = {ApiProbe}
          BY <3>2 DEF Late
        <4>3. \A f \in Fields \ req[r].sets : probed[f] = Document[f]
          BY <2>4, <3>0, <4>2 DEF Docs
        <4> HIDE DEF probed
        <4>4. D \in SUBSET Blanks
          BY <2>4, <3>0, <4>1, <4>2
        <4>5. Kept(D)
          BY <4>1, <4>3 DEF Filled
        <4> QED BY <4>4, <4>5
      <3>3. CASE /\ req[r].after = "probes"
                 /\ db' = [f \in Fields |-> IF f \in Probes THEN r ELSE req[r].doc[f]]
        <4>1. Late(req[r].after) = Probes
          BY <3>3 DEF Late
        <4>2. Kept({})
          BY <2>4, <3>0, <3>3, <4>1
        <4>3. {} \in SUBSET Blanks
          OBVIOUS
        <4> QED BY <4>2, <4>3
      <3> QED BY <1>4, <3>1, <3>2, <3>3 DEF Commit, Settle
    <2>8. PICK D \in SUBSET {f \in Discoverable : Document[f] = Blank} :
            \A f \in Fields \ req[r].sets :
              db'[f] = IF f \in D THEN Found ELSE Document[f]
      BY <2>7
    <2>9. db' = [f \in Fields |-> IF f \in Asked[r] THEN r
                                  ELSE IF f \in D THEN Found ELSE Document[f]]
      BY <2>2, <2>3, <2>6, <2>8 DEF Docs
    <2> QED BY <2>2, <2>3, <2>9 DEF Abstract!Save, Asked
  <1>5. CASE Crash
    <2>1. Active' = {} /\ UNCHANGED db
      BY <1>5, <1>s DEF Crash, Sessions, Active
    <2>2. Asked' = [q \in Requests |-> IF q \in Requests THEN {} ELSE Asked[q]]
      BY <2>1 DEF Asked
    <2>3. Document' = Document
      BY <2>1 DEF Document
    <2>4. Abstract!Drop
      BY <2>2, <2>3 DEF Abstract!Drop, Asked
    <2> QED BY <2>4 DEF Abstract!Next
  <1>6. CASE UNCHANGED <<db, req>>
    BY <1>6 DEF Abstract!vars, Active, Document
  <1> QED BY <1>1, <1>2, <1>3, <1>4, <1>5, <1>6
        DEF Next, Proceed, Refresh, OtherSecret, vars, Abstract!Next

\* Requests that do not overlap and come from current pages, with an agent that
\* sends whole sections, use the document as the abstract specification says.
THEOREM LoneWritersImplement ==
  Serial /\ WholeSections => (Spec => ImplementsDocument)
  <1> SUFFICES ASSUME Serial, WholeSections PROVE Spec => ImplementsDocument
    OBVIOUS
  <1>1. Init => Abstract!Init
    BY DEF Init, Abstract!Init, Document, Empty, Active
  <1>2. Init => Alone
    BY DEF Init, Alone, Active
  <1>3. TypeOK /\ Alone /\ [Next]_vars => Alone'
    BY AloneNext
  <1>4. TypeOK /\ Fresh /\ Promised /\ Alone /\ [Next]_vars
          => [Abstract!Next]_(Abstract!vars)
    BY StepImplements
  <1> QED BY <1>1, <1>2, <1>3, <1>4, TypesInit, TypesNext, FreshInit, FreshNext,
             PromisedNext, PTL DEF Spec, ImplementsDocument, Abstract!Spec
=============================================================================
