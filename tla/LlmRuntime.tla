----------------------------- MODULE LlmRuntime -----------------------------
(***************************************************************************)
(* Which vendor is called, with which key and which model, in the          *)
(* bootstrap profile.  The operator saves a vendor and a key (Settings or  *)
(* the wizard), assigns models to sub-agents, and sends turns; each turn   *)
(* takes the live client when it arrives and resolves its models later.    *)
(*                                                                         *)
(* A request is a process: one action is what its coroutine does from one  *)
(* `await` to the next.  Saving a key has no await, so it is one action,   *)
(* but it writes the secrets file twice and may fail or be cut off between *)
(* the writes.  A cache entry goes with a `set` only: that it may expire   *)
(* is Observability's, and by CacheAgrees Get returns the same.            *)
(***************************************************************************)
EXTENDS LocalSecrets, Naturals, Sequences

CONSTANTS Requests,         \* concurrent requests: turns and assignments
          Vendors,          \* SUPPORTED
          ChatVendors,      \* those _configure_llm builds a client for
          Keys,
          Accepted,         \* vendor -> the keys reject_if_not_api_key lets pass
          Catalogue,        \* vendor -> the models Settings offers for it
          VendorDefault,    \* VENDOR_DEFAULT_MODELS
          ClassifierModel,  \* CLASSIFIER_MODEL, the start-up value
          Registry,         \* the sub-agents in list order: id, provider, model
          Intake,           \* the id of bootstrap.intake
          None,             \* no client, no override, no request
          Nothing, Torn     \* see `saved`

Pair == [vendor : Vendors, key : Keys]

Models == UNION {Catalogue[v] : v \in Vendors}

ASSUME RuntimeAssumption ==
    /\ ChatVendors \subseteq Vendors
    /\ Accepted \in [Vendors -> SUBSET Keys]
    /\ VendorDefault \in [Vendors -> Models] /\ ClassifierModel \in Models
    /\ \A v \in Vendors : VendorDefault[v] \in Catalogue[v]
    /\ Len(Registry) \in Nat \ {0} /\ DOMAIN Registry = 1 .. Len(Registry)
    /\ \A i \in DOMAIN Registry :
          /\ Registry[i].provider \in Vendors
          /\ Registry[i].model \in Catalogue[Registry[i].provider]
    /\ Refs = {"vendor", "key"}
    /\ None \notin Vendors /\ Unset \notin Vendors \cup Keys
    /\ Nothing # Torn /\ {Nothing, Torn} \cap Pair = {}

VARIABLES client,          \* app.state.llm_client: None or its vendor and key
          classifier,      \* app.state.classifier_model
          overrides,       \* sub_agent_model_overrides, committed
          req,             \* the requests in flight
          saved            \* history: the pair of the last save, Nothing before the
                           \* first, Torn if it failed or was cut off

runtimeVars == <<client, classifier, overrides, req, saved>>
vars == <<secretVars, runtimeVars>>

SubAgents == {Registry[i].id : i \in DOMAIN Registry}
Override == UNION {[provider : {v}, model : Catalogue[v]] : v \in Vendors}
VendorOf(c) == IF c = None THEN None ELSE c.vendor

-----------------------------------------------------------------------------
(* Resolution.  An override is None or a row.                              *)

\* resolve_runtime_model.  `vendor` is never empty: the registry names one.
ResolveRuntimeModel(clientVendor, agent, row) ==
    LET vendor == IF clientVendor # None THEN clientVendor
                  ELSE IF row # None THEN row.provider ELSE agent.provider
    IN  IF row # None /\ row.provider = vendor THEN row.model
        ELSE IF agent.provider = vendor THEN agent.model
        ELSE VendorDefault[vendor]

\* pick_connection_setting: the intake agent, else the first with an override,
\* else the first.
PickConnectionSetting(rows) ==
    LET intake == {i \in DOMAIN Registry : Registry[i].id = Intake}
        set    == {i \in DOMAIN Registry : rows[Registry[i].id] # None}
        first(I) == CHOOSE i \in I : \A j \in I : i <= j
    IN  Registry[first(IF intake # {} THEN intake
                       ELSE IF set # {} THEN set ELSE DOMAIN Registry)]

\* resolved_runtime_choice
ResolvedRuntimeChoice(clientVendor, rows) ==
    LET agent == PickConnectionSetting(rows)
    IN  ResolveRuntimeModel(clientVendor, agent, rows[agent.id])

-----------------------------------------------------------------------------
(* The live client.                                                        *)

\* What _configure_llm leaves in llm_client
ClientFor(v, k) == IF v \in ChatVendors THEN [vendor |-> v, key |-> k] ELSE None

ConfigureLlm(v, k) ==
    /\ client' = ClientFor(v, k)
    /\ classifier' = IF v \in ChatVendors THEN VendorDefault[v] ELSE classifier

PairOf(v, k) == [r \in {"vendor", "key"} |-> IF r = "vendor" THEN v ELSE k]

\* POST /settings/provider, and the wizard's step with a key: validated, the
\* vendor is stored, then the key, then the client is replaced.
SaveProvider(v, k) ==
    /\ k \in Accepted[v]
    /\ SetAll(PairOf(v, k))
    /\ ConfigureLlm(v, k)
    /\ saved' = [vendor |-> v, key |-> k]
    /\ UNCHANGED <<overrides, req>>

\* Writing the file raises at the vendor or at the key: the request is a 500,
\* the client stays.
SaveProviderFails(v, k) ==
    /\ k \in Accepted[v]
    /\ \/ SetFails(Keep, [r \in {"vendor"} |-> v])
       \/ SetFails([r \in {"vendor"} |-> v], [r \in {"key"} |-> k])
    /\ saved' = Torn
    /\ UNCHANGED <<client, classifier, overrides, req>>

\* The wizard's step with an empty key: what is stored is validated again and
\* put to use.
ReapplyProvider ==
    LET v == Get("vendor")
        k == Get("key")
    IN  /\ v # Unset /\ k # Unset
        /\ k \in Accepted[v]
        /\ ConfigureLlm(v, k)
        /\ cache' = Cached({"vendor", "key"})
        /\ UNCHANGED <<store, file, overrides, req, saved>>

\* What lifespan makes of the secrets file `f` it finds; the requests are gone.
LlmStart(f) ==
    /\ IF f["vendor"] # Unset /\ f["key"] # Unset
       THEN /\ client' = ClientFor(f["vendor"], f["key"])
            /\ classifier' = IF f["vendor"] \in ChatVendors
                             THEN VendorDefault[f["vendor"]] ELSE ClassifierModel
       ELSE client' = None /\ classifier' = ClassifierModel
    /\ req' = [r \in Requests |-> None]
    /\ UNCHANGED overrides

StartReads(f) == IF f["vendor"] = Unset THEN {} ELSE {"vendor", "key"}

-----------------------------------------------------------------------------
(* Turns and assignments.  A request is None or a record: what it does     *)
(* next, the vendor of the client it took, the model it resolved, and, for *)
(* an assignment, the rows it writes.                                      *)

Idle(r) == req[r] = None
At(r, phase) == req[r] # None /\ req[r].next = phase
Become(r, q) == req' = [req EXCEPT ![r] = q]
Request(next, agents, row) ==
    [next |-> next, vendor |-> VendorOf(client), model |-> None,
     agents |-> agents, row |-> row, found |-> {}]

\* POST /turns, /approvals, /verify: the client and its vendor are read in the
\* same step.
BeginTurn(r) ==
    /\ Idle(r)
    /\ Become(r, Request("resolve", {}, None))
    /\ UNCHANGED <<client, classifier, overrides, saved, secretVars>>

\* POST /settings/model-assignments.  Settings offers the live vendor's models;
\* a row of None clears.
BeginAssign(r, agents, row) ==
    /\ Idle(r)
    /\ row # None => row.provider = VendorOf(client)
    /\ Become(r, Request("lookup", agents, row))
    /\ UNCHANGED <<client, classifier, overrides, saved, secretVars>>

\* set_model_assignments: db.get each row ...
Lookup(r) ==
    /\ At(r, "lookup")
    /\ Become(r, [req[r] EXCEPT !.next = "write",
                    !.found = {a \in req[r].agents : overrides[a] # None}])
    /\ UNCHANGED <<client, classifier, overrides, saved, secretVars>>

\* ... and commit.  An INSERT of a row that appeared, or an UPDATE of one that
\* went, fails the request and none of its rows are written.
Write(r) ==
    /\ At(r, "write")
    /\ LET now == {a \in req[r].agents : overrides[a] # None}
       IN  IF req[r].row # None /\ now # req[r].found
           THEN Become(r, None) /\ UNCHANGED overrides
           ELSE /\ overrides' = [a \in SubAgents |->
                                   IF a \in (IF req[r].row = None THEN req[r].found
                                             ELSE req[r].agents)
                                   THEN req[r].row ELSE overrides[a]]
                /\ Become(r, [req[r] EXCEPT !.next = "resolve", !.row = None, !.found = {}])
    /\ UNCHANGED <<client, classifier, saved, secretVars>>

\* resolved_runtime_choice reads the rows for the vendor the request took ...
Resolve(r) ==
    /\ At(r, "resolve")
    /\ Become(r, [req[r] EXCEPT !.next = "store",
                    !.model = ResolvedRuntimeChoice(req[r].vendor, overrides)])
    /\ UNCHANGED <<client, classifier, overrides, saved, secretVars>>

\* Mutant: the model the process has now
TurnModelOfProcess(q) == classifier

\* The model a turn classifies, synthesizes and verifies with (_resolved_turn_model)
TurnModel(q) == q.model

\* ... and when the answer is there the request stores it for the process.  An
\* assignment is done; a turn without a client answers with an error.
Store(r) ==
    /\ At(r, "store")
    /\ classifier' = req[r].model
    /\ Become(r, IF req[r].agents # {} \/ req[r].vendor = None THEN None
                 ELSE [req[r] EXCEPT !.next = "call"])
    /\ UNCHANGED <<client, overrides, saved, secretVars>>

\* While it is at "call" a turn may at any time call its client: with TurnModel to
\* classify, synthesize and verify, and for a sub-agent with that agent's own
\* model, read when the run begins (_model_for).
ModelFor(q, agent) == ResolveRuntimeModel(q.vendor, agent, overrides[agent.id])

Calls(r) == {TurnModel(req[r])} \cup {ModelFor(req[r], Registry[i]) : i \in DOMAIN Registry}

\* The request ends: answered, failed, or its client has left.
End(r) ==
    /\ ~Idle(r)
    /\ Become(r, None)
    /\ UNCHANGED <<client, classifier, overrides, saved, secretVars>>
-----------------------------------------------------------------------------
Init ==
    /\ SecretsInit
    /\ client = None /\ classifier = ClassifierModel
    /\ overrides = [a \in SubAgents |-> None]
    /\ req = [r \in Requests |-> None]
    /\ saved = Nothing

\* The process stops, between two requests or inside a save, and starts again.
Restart ==
    \/ Load(file, StartReads(file), Keep) /\ LlmStart(file) /\ UNCHANGED saved
    \/ \E v \in Vendors : \E k \in Accepted[v] :
          LET f == Over([r \in {"vendor"} |-> v], store)
          IN  Load(f, StartReads(f), Keep) /\ LlmStart(f) /\ saved' = Torn

RuntimeStep ==
    \/ \E v \in Vendors, k \in Keys : SaveProvider(v, k) \/ SaveProviderFails(v, k)
    \/ ReapplyProvider
    \/ \E r \in Requests :
          \/ BeginTurn(r)
          \/ \E agents \in SUBSET SubAgents \ {{}}, row \in Override \cup {None} :
                BeginAssign(r, agents, row)
          \/ Lookup(r) \/ Write(r) \/ Resolve(r) \/ Store(r)
          \/ End(r)

Next == Restart \/ RuntimeStep

Spec == Init /\ [][Next]_vars
-----------------------------------------------------------------------------
Req == [next : {"lookup", "write", "resolve", "store", "call"},
        vendor : ChatVendors \cup {None},
        model : Models \cup {None},
        agents : SUBSET SubAgents, row : Override \cup {None},
        found : SUBSET SubAgents]

TypeOK ==
    /\ client \in [vendor : ChatVendors, key : Keys] \cup {None}
    /\ classifier \in Models
    /\ overrides \in [SubAgents -> Override \cup {None}]
    /\ req \in [Requests -> Req \cup {None}]
    /\ saved \in Pair \cup {Nothing, Torn}
    /\ \A f \in {store, file, cache} :
          /\ f \in [Refs -> Vendors \cup Keys \cup {Unset}]
          /\ f["vendor"] \in Vendors \cup {Unset}
          /\ f["key"] \in Keys \cup {Unset}

\* Every call names a model of the vendor it is sent to, whatever was saved or
\* assigned while the turn was waiting for the database ("classify, synthesize,
\* and verify use that same resolved model - not a stale classifier_model").
CallsMatchVendor ==
    \A r \in Requests : At(r, "call") => Calls(r) \subseteq Catalogue[req[r].vendor]

\* Unless a save was cut short, memory, file and client are all the pair that
\* was last saved: no vendor is ever paired with another one's key.
SavedIsLive ==
    /\ saved = Nothing => client = None /\ store = NoSecrets /\ file = NoSecrets
    /\ saved \notin {Nothing, Torn} =>
          /\ \A f \in {store, file} : f["vendor"] = saved.vendor /\ f["key"] = saved.key
          /\ client = ClientFor(saved.vendor, saved.key)
=============================================================================
