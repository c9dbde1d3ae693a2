----------------------------- MODULE Foundations -----------------------------
(***************************************************************************)
(* The foundations document: one JSON row that the Foundations page, the   *)
(* onboarding wizard, the probe route and the agent's tools all change by  *)
(* reading all of it and writing all of it back, and the Proxmox token,    *)
(* whose value is in the secrets store and whose reference is in the       *)
(* document.  The store has its values in memory and writes all of them to *)
(* its file after each change; a write that fails leaves the memory        *)
(* changed.                                                                *)
(*                                                                         *)
(* A request is a database session.  It reads the document, finds out      *)
(* whether the row exists, flushes an INSERT or an UPDATE, which waits for *)
(* the row's lock, and commits; every one of these is an await, so other   *)
(* requests come in between.  Every read goes to the database: the session *)
(* holds its objects weakly and the callers keep only copies.              *)
(*                                                                         *)
(* A field stands for a group of keys that are always set together; its    *)
(* value is the request that set it.  "tenant" also stands for intent and  *)
(* "bridge" for the whole network and storage sections.  What the operator *)
(* typed on the page and no Save has stored yet is in edits: it belongs to *)
(* whichever Save sends it.  "ref" in edits stands for the token inputs.   *)
(***************************************************************************)
EXTENDS FiniteSets

CONSTANTS
  Requests,
  Probes,         \* ids of the probes whose results the document keeps
  ApiProbe,       \* the probe the wizard's token step runs
  AgentPatches,   \* sets of fields the agent may send to foundations_write
  Blank, Found,   \* not set; filled from what discovery returned
  NoRow, NoOne,
  Serial          \* TRUE: one request at a time, from a page that is current

Proxmox == {"host", "node", "ref"}
Plain == Proxmox \cup {"tenant", "bridge"}
Fields == Plain \cup Probes
Discoverable == {"node", "bridge"}

ASSUME FoundationsAssumption ==
  /\ ApiProbe \in Probes
  /\ Probes \cap Plain = {}
  /\ AgentPatches \subseteq SUBSET Plain
  /\ Blank \notin Requests \cup {Found}
  /\ Found \notin Requests
  /\ NoOne \notin Requests
  /\ NoRow \notin [Fields -> Requests \cup {Blank, Found}]
  /\ Serial \in BOOLEAN

VARIABLES
  db,      \* the committed row's document, or NoRow
  lock,    \* the request whose uncommitted write others wait for, or NoOne
  req,     \* request -> its session
  token,   \* whose token the secrets store has in memory, or NoOne
  file,    \* whose token is in the secrets file, or NoOne
  panel,   \* the document as the Foundations page last read it
  edits,   \* the fields changed on the page since, and not saved
  due,     \* the page has been told to read the document again
  lost     \* history: a restart has lost a token that was in memory only

vars == <<db, lock, req, token, file, panel, edits, due, lost>>

Docs == [Fields -> Requests \cup {Blank, Found}]
Empty == [f \in Fields |-> Blank]

\* load_foundations: what a request that reads now gets.
Document == IF db = NoRow THEN Empty ELSE db

\* pc: reread is the second read of a probe result, get the look for the row,
\* flush the write, held from the flush to the commit.  sets: the fields the
\* request is for.  seen: what get found.  after: what is still to be changed
\* once the row is locked.  page: what the page does with the answer.
Sessions ==
  [pc : {"idle", "reread", "get", "flush", "held", "done", "failed"},
   doc : Docs, seen : Docs \cup {NoRow}, sets : SUBSET Fields,
   after : {"nothing", "discover", "probes"},
   page : {"shows", "rereads", "unaware"}]

Init ==
  /\ db = NoRow /\ lock = NoOne /\ token = NoOne /\ file = NoOne
  /\ req = [r \in Requests |->
             [pc |-> "idle", doc |-> Empty, seen |-> NoRow, sets |-> {},
              after |-> "nothing", page |-> "unaware"]]
  /\ panel = Empty /\ edits = {} /\ due = FALSE /\ lost = FALSE

Active == {r \in Requests : req[r].pc \in {"reread", "get", "flush", "held"}}

\* A request arrives, reads what it reads, and goes on at pc.
Arrive(r, pc, doc, sets, after, page) ==
  /\ req[r].pc = "idle"
  /\ Serial => Active = {} /\ ~due
  /\ req' = [req EXCEPT ![r] = [pc |-> pc, doc |-> doc, seen |-> NoRow,
                                sets |-> sets, after |-> after, page |-> page]]
  /\ UNCHANGED <<db, lock, panel, due, lost>>

\* persist_proxmox_api_token: the secret is stored at once, the reference is
\* part of the document.
KeepToken(r, sets) ==
  IF "ref" \in sets THEN token' = r /\ file' = r ELSE UNCHANGED <<token, file>>

-----------------------------------------------------------------------------
(* The writers.                                                            *)

\* PUT /foundations sends the page's copy, with a field edited now and the edits
\* no Save has stored.  They stay on the page until it gets an answer, and Save
\* is disabled until then.
PutFoundations(r) ==
  \E f \in Plain :
    /\ Serial => panel = Document
    /\ \A q \in Active : req[q].page # "shows"
    /\ edits' = edits \cup {f}
    /\ Arrive(r, "get", [g \in Fields |-> IF g \in edits' THEN r ELSE panel[g]],
              edits', "nothing", "shows")
    /\ KeepToken(r, edits')

\* A wizard step that changes one section of what it read.
WizardStep(r, f) ==
  /\ Arrive(r, "get", [Document EXCEPT ![f] = r], {f}, "nothing", "rereads")
  /\ UNCHANGED <<token, file, edits>>

HostStep(r) == WizardStep(r, "host")
NetworkStep(r) == WizardStep(r, "bridge")
TenantStep(r) == WizardStep(r, "tenant")

\* The wizard's token step with a new token: the API probe and discovery follow.
WizardToken(r) ==
  /\ Arrive(r, "get", [Document EXCEPT !["ref"] = r], {"ref", ApiProbe},
            "discover", "rereads")
  /\ KeepToken(r, {"ref"})
  /\ UNCHANGED edits

\* The same step with no token: it goes on with the one in memory.
WizardDiscover(r) ==
  /\ token # NoOne
  /\ IF Document["ref"] = Blank
     THEN Arrive(r, "get", [Document EXCEPT !["ref"] = r], {"ref", ApiProbe},
                 "discover", "rereads")
     ELSE Arrive(r, "get", Document, {ApiProbe}, "discover", "rereads")
  /\ UNCHANGED <<token, file, edits>>

\* record_probe_result: the result joins the probes that were read.
RecordProbe(r, page) ==
  \E p \in Probes :
    /\ Arrive(r, "reread", [Document EXCEPT ![p] = r], {p}, "nothing", page)
    /\ UNCHANGED <<token, file, edits>>

\* The page runs a probe and then reads the document.
PostProbe(r) == RecordProbe(r, "rereads")

\* The agent runs one: run_probe, install_ssh_key.
AgentProbe(r) == RecordProbe(r, "unaware")

\* POST /onboarding/complete records one result per probe, in one session.
Complete(r) ==
  \E p \in Probes :
    /\ Arrive(r, "reread", [Document EXCEPT ![p] = r], Probes, "probes", "rereads")
    /\ UNCHANGED <<token, file, edits>>

\* merge_foundations: a section of the patch replaces the whole section.
Merged(doc, F, r) ==
  [f \in Fields |-> IF f \in F THEN r
                    ELSE IF f \in Proxmox /\ F \cap Proxmox # {} THEN Blank
                    ELSE doc[f]]

\* Mistake: the secret is left out of the patch and never stored.
AgentWriteDropsSecret(r) ==
  \E F \in AgentPatches :
    /\ Arrive(r, "get", Merged(Document, F, r), F, "nothing", "unaware")
    /\ UNCHANGED <<token, file, edits>>

\* The agent's foundations_write.
AgentWrite(r) ==
  \E F \in AgentPatches :
    /\ Arrive(r, "get", Merged(Document, F, r), F, "nothing", "unaware")
    /\ KeepToken(r, F)
    /\ UNCHANGED edits

\* A request with a token, from the page, the wizard or the agent, whose write of
\* the secrets file raises: the memory has the token, the file may have it.
TokenFails(r) ==
  /\ req[r].pc = "idle"
  /\ Serial => Active = {} /\ ~due
  /\ req' = [req EXCEPT ![r].pc = "failed"]
  /\ token' = r /\ file' \in {file, r}
  /\ \/ /\ \A q \in Active : req[q].page # "shows"
        /\ \E f \in Plain : "ref" \in edits \cup {f} /\ edits' = edits \cup {f}
     \/ UNCHANGED edits
  /\ UNCHANGED <<db, lock, panel, due, lost>>

\* Any other secret is stored: the file gets all that is in memory.
OtherSecret ==
  /\ file' = token
  /\ UNCHANGED <<db, lock, req, token, panel, edits, due, lost>>

-----------------------------------------------------------------------------
(* The session.                                                            *)

\* patch_foundations reads the document again and merges into it the probe
\* results of the first read, the new one among them.
Reread(r) ==
  /\ req[r].pc = "reread"
  /\ req' = [req EXCEPT ![r].pc = "get",
               ![r].doc = [f \in Fields |-> IF f \in Probes /\ @[f] # Blank
                                            THEN @[f] ELSE Document[f]]]
  /\ UNCHANGED <<db, lock, token, file, panel, edits, due, lost>>

\* save_foundations looks for the row: INSERT or UPDATE is decided here.
Get(r) ==
  /\ req[r].pc = "get"
  /\ req' = [req EXCEPT ![r].pc = "flush", ![r].seen = db]
  /\ UNCHANGED <<db, lock, token, file, panel, edits, due, lost>>

\* Mistake: what is flushed is committed at once.
FlushCommits(r) ==
  /\ req[r].pc = "flush" /\ lock = NoOne
  /\ req[r].seen = NoRow => db = NoRow
  /\ req' = [req EXCEPT ![r].pc = "held"]
  /\ lock' = r /\ db' = req[r].doc
  /\ UNCHANGED <<token, file, panel, edits, due, lost>>

\* The flush gets the row's lock.  An UPDATE leaves out a column that is equal
\* to what the session loaded.
Flush(r) ==
  /\ req[r].pc = "flush" /\ lock = NoOne
  /\ req[r].seen = NoRow => db = NoRow
  /\ req' = [req EXCEPT ![r].pc = "held",
               ![r].doc = IF @ = req[r].seen THEN db ELSE @]
  /\ lock' = r
  /\ UNCHANGED <<db, token, file, panel, edits, due, lost>>

\* Mistake: the failed INSERT is ignored and the request answered.
ConflictIgnored(r) ==
  /\ req[r].pc = "flush" /\ lock = NoOne
  /\ req[r].seen = NoRow /\ db # NoRow
  /\ req' = [req EXCEPT ![r].pc = "done"]
  /\ UNCHANGED <<db, lock, token, file, panel, edits, due, lost>>

\* An INSERT finds that another request has inserted the row.
Conflict(r) ==
  /\ req[r].pc = "flush" /\ lock = NoOne
  /\ req[r].seen = NoRow /\ db # NoRow
  /\ req' = [req EXCEPT ![r].pc = "failed"]
  /\ UNCHANGED <<db, lock, token, file, panel, edits, due, lost>>

\* discovered_defaults: D are the blank fields the host had an answer for.
Filled(doc, D) == [f \in Fields |-> IF f \in D THEN Found ELSE doc[f]]

\* Mistake: discovery also writes fields that are set.
SettleOverwrites(r) ==
  \/ req[r].after # "discover" /\ db' = req[r].doc
  \/ /\ req[r].after = "discover"
     /\ \E D \in SUBSET Discoverable :
          db' = Filled([req[r].doc EXCEPT ![ApiProbe] = r], D)

\* What the rest of the handler, which owns the row now, makes of it: nothing
\* more; the API probe and what discovery fills; or the other probes.
Settle(r) ==
  \/ req[r].after = "nothing" /\ db' = req[r].doc
  \/ /\ req[r].after = "discover"
     /\ \E D \in SUBSET {f \in Discoverable : req[r].doc[f] = Blank} :
          db' = Filled([req[r].doc EXCEPT ![ApiProbe] = r], D)
  \/ /\ req[r].after = "probes"
     /\ db' = [f \in Fields |-> IF f \in Probes THEN r ELSE req[r].doc[f]]

\* The commit and the answer; a Save's answer replaces all that is on the page.
Commit(r) ==
  /\ req[r].pc = "held"
  /\ Settle(r)
  /\ lock' = NoOne
  /\ req' = [req EXCEPT ![r].pc = "done"]
  /\ IF req[r].page = "shows" THEN panel' = req[r].doc /\ edits' = {}
                               ELSE UNCHANGED <<panel, edits>>
  /\ due' = (due \/ req[r].page = "rereads")
  /\ UNCHANGED <<token, file, lost>>

\* Mistake: a handler that raises does not close its session.
FailLeavesOpen(r) ==
  /\ r \in Active
  /\ req' = [req EXCEPT ![r].pc = "failed"]
  /\ UNCHANGED <<db, lock, token, file, panel, edits, due, lost>>

\* A step of the handler raises: the session rolls back; the secret stays in the
\* store, and the edits of a Save on the page.
Fail(r) ==
  /\ r \in Active
  /\ req' = [req EXCEPT ![r].pc = "failed"]
  /\ lock' = IF lock = r THEN NoOne ELSE lock
  /\ UNCHANGED <<db, token, file, panel, edits, due, lost>>

\* The server restarts; what the secrets file has is the memory now.
Crash ==
  /\ req' = [r \in Requests |-> IF r \in Active
                                THEN [req[r] EXCEPT !.pc = "failed"] ELSE req[r]]
  /\ lock' = NoOne /\ token' = file
  /\ lost' = (lost \/ (token # NoOne /\ file = NoOne))
  /\ UNCHANGED <<db, file, panel, edits, due>>

\* The page reads the document over its edits: told to, which leaves the token
\* inputs, or opened again by the operator.
Refresh ==
  /\ panel' = Document /\ due' = FALSE
  /\ edits' \in {edits \cap {"ref"}, {}}
  /\ UNCHANGED <<db, lock, req, token, file, lost>>

Write(r) ==
  \/ PutFoundations(r) \/ HostStep(r) \/ NetworkStep(r) \/ TenantStep(r)
  \/ WizardToken(r) \/ WizardDiscover(r) \/ Complete(r)
  \/ PostProbe(r) \/ AgentProbe(r) \/ AgentWrite(r)

Proceed(r) == Reread(r) \/ Get(r) \/ Flush(r) \/ Conflict(r) \/ Commit(r)

Next ==
  \/ \E r \in Requests : Write(r) \/ TokenFails(r) \/ Proceed(r) \/ Fail(r)
  \/ OtherSecret \/ Crash \/ Refresh

Spec == Init /\ [][Next]_vars

\* The event loop runs what is ready; the database grants a free lock.
FairSpec == Spec /\ \A r \in Requests : WF_vars(Proceed(r))

-----------------------------------------------------------------------------
(* Properties.                                                             *)

\* Types; the lock belongs to the one session that has flushed; and a row that
\* was seen stays.
TypeOK ==
  /\ db \in Docs \cup {NoRow}
  /\ req \in [Requests -> Sessions]
  /\ token \in Requests \cup {NoOne} /\ file \in Requests \cup {NoOne}
  /\ panel \in Docs /\ edits \subseteq Plain
  /\ due \in BOOLEAN /\ lost \in BOOLEAN
  /\ \A r \in Requests : req[r].pc = "held" <=> lock = r
  /\ lock \in Requests \cup {NoOne}
  /\ \A r \in Requests : req[r].seen # NoRow => db # NoRow

\* A token reference, in the document or in what the page read of it, has a
\* token in the store behind it, through races, rollbacks, failed writes of the
\* secrets file and restarts: persist_proxmox_api_token runs before the document
\* is written, and the wizard makes a reference only to a token that is there.
\* The one way to lose it: the file never got a token, and the server restarted.
RefHasToken ==
  (Document["ref"] # Blank \/ panel["ref"] # Blank) => token # NoOne \/ lost

\* A request that failed has left nothing in the document, also when others
\* raced with it, nor in what the page read of it.  What a failed Save was for
\* stays in the page's edits, and is the next Save's if that one sends it.
FailedLeavesNothing ==
  \A r \in Requests : req[r].pc = "failed" =>
    \A f \in Fields : Document[f] # r /\ panel[f] # r

\* A request that is answered with success has put every field it was for in
\* the row, also when others wrote since it read (save_foundations).
AckedIsStored ==
  [][\A r \in Requests : req[r].pc # "done" /\ req'[r].pc = "done" =>
       \A f \in req[r].sets : db'[f] = r]_vars

\* Every accepted request is answered: nobody waits for the row for ever.
RequestsEnd == \A r \in Requests : r \in Active ~> r \notin Active

\* One writer at a time, from a current page, changes what it is for and no
\* more: no handler drops or reverts what was there (merge_foundations,
\* apply_*, take_proxmox_api_token, discovered_defaults).
Abstract == INSTANCE FoundationsDocument
  WITH Writers <- Requests, doc <- Document,
       asked <- [r \in Requests |-> IF r \in Active THEN req[r].sets ELSE {}]
ImplementsDocument == Abstract!Spec

=============================================================================
