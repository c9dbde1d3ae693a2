---------------------------- MODULE RuntimeProofs ----------------------------
(***************************************************************************)
(* Theorems about LlmRuntime, for every catalogue, registry, set of keys   *)
(* and set of requests that satisfies RuntimeAssumption.                   *)
(***************************************************************************)
EXTENDS LlmRuntime, WellFoundedInduction, TLAPS

\* Every nonempty set of positions has a first one.
LEMMA FirstExists ==
  ASSUME NEW I \in SUBSET Nat, I # {}
  PROVE  \E i \in I : \A j \in I : i <= j
<1>1. \E i \in I : \A j \in I : ~ (<<j, i>> \in OpToRel(<, Nat))
  BY NatLessThanWellFounded, WFMin
<1>2. PICK i \in I : \A j \in I : ~ (<<j, i>> \in OpToRel(<, Nat))
  BY <1>1
<1>3. ASSUME NEW j \in I PROVE i <= j
  <2>1. i \in Nat /\ j \in Nat
    OBVIOUS
  <2>2. ~ (j < i)
    BY <1>2, <2>1 DEF OpToRel
  <2> QED BY <2>1, <2>2
<1> QED BY <1>3

\* What chat and the header go by is an agent of the registry.
LEMMA PickIsRegistered ==
  ASSUME NEW rows
  PROVE  \E i \in DOMAIN Registry : PickConnectionSetting(rows) = Registry[i]
<1> DEFINE intake == {i \in DOMAIN Registry : Registry[i].id = Intake}
           set    == {i \in DOMAIN Registry : rows[Registry[i].id] # None}
           I      == IF intake # {} THEN intake ELSE IF set # {} THEN set ELSE DOMAIN Registry
<1>1. DOMAIN Registry # {} /\ DOMAIN Registry \subseteq Nat
  <2>1. 1 \in DOMAIN Registry
    BY RuntimeAssumption
  <2> QED BY <2>1, RuntimeAssumption
<1>2. I # {} /\ I \subseteq DOMAIN Registry
  BY <1>1
<1>3. (CHOOSE i \in I : \A j \in I : i <= j) \in I
  <2>1. I \in SUBSET Nat
    BY <1>1, <1>2
  <2>2. \E i \in I : \A j \in I : i <= j
    BY <1>2, <2>1, FirstExists
  <2> QED BY <2>2
<1> QED BY <1>2, <1>3 DEF PickConnectionSetting

-----------------------------------------------------------------------------
(* Resolution.                                                             *)

\* For a vendor, the resolved model is one of its own.
LEMMA OwnModel ==
  ASSUME NEW v \in Vendors, NEW i \in DOMAIN Registry, NEW row \in Override \cup {None}
  PROVE  ResolveRuntimeModel(v, Registry[i], row) \in Catalogue[v]
<1>1. v # None /\ VendorDefault[v] \in Catalogue[v]
  BY RuntimeAssumption
<1>2. Registry[i].model \in Catalogue[Registry[i].provider]
  BY RuntimeAssumption
<1>3. row # None => row.model \in Catalogue[row.provider]
  BY DEF Override
<1> QED BY <1>1, <1>2, <1>3 DEF ResolveRuntimeModel

\* Without a client it is a model of some vendor.
LEMMA SomeModel ==
  ASSUME NEW v \in Vendors \cup {None}, NEW i \in DOMAIN Registry,
         NEW row \in Override \cup {None}
  PROVE  ResolveRuntimeModel(v, Registry[i], row) \in Models
<1>1. CASE v # None
  <2>1. v \in Vendors
    BY <1>1
  <2> QED BY <2>1, OwnModel DEF Models
<1>2. CASE v = None /\ row # None
  <2>1. row.provider \in Vendors /\ row.model \in Catalogue[row.provider]
    BY <1>2 DEF Override
  <2>2. ResolveRuntimeModel(v, Registry[i], row) = row.model
    BY <1>2 DEF ResolveRuntimeModel
  <2> QED BY <2>1, <2>2 DEF Models
<1>3. CASE v = None /\ row = None
  <2>1. Registry[i].provider \in Vendors /\ Registry[i].model \in Catalogue[Registry[i].provider]
    BY RuntimeAssumption
  <2>2. ResolveRuntimeModel(v, Registry[i], row) = Registry[i].model
    BY <1>3 DEF ResolveRuntimeModel
  <2> QED BY <2>1, <2>2 DEF Models
<1> QED BY <1>1, <1>2, <1>3

\* The choice of a turn or an assignment, with whatever rows are committed.
LEMMA ChoiceIsOwn ==
  ASSUME NEW v \in Vendors \cup {None},
         NEW rows \in [SubAgents -> Override \cup {None}]
  PROVE  /\ ResolvedRuntimeChoice(v, rows) \in Models
         /\ v # None => ResolvedRuntimeChoice(v, rows) \in Catalogue[v]
<1>1. PICK i \in DOMAIN Registry : PickConnectionSetting(rows) = Registry[i]
  BY PickIsRegistered
<1>2. rows[Registry[i].id] \in Override \cup {None}
  BY DEF SubAgents
<1>3. ResolvedRuntimeChoice(v, rows) = ResolveRuntimeModel(v, Registry[i], rows[Registry[i].id])
  BY <1>1 DEF ResolvedRuntimeChoice
<1>4. v # None => ResolvedRuntimeChoice(v, rows) \in Catalogue[v]
  BY <1>2, <1>3, OwnModel
<1> QED BY <1>2, <1>3, <1>4, SomeModel

LEMMA DefaultIsModel == ASSUME NEW v \in Vendors PROVE VendorDefault[v] \in Models
  BY RuntimeAssumption DEF Models

-----------------------------------------------------------------------------
(* The secrets: what holds of memory, file and cache in every step.        *)

Secret == [Refs -> Vendors \cup Keys \cup {Unset}]
IsSecret(f) == f \in Secret /\ f["vendor"] \in Vendors \cup {Unset} /\ f["key"] \in Keys \cup {Unset}
SecretsOK == IsSecret(store) /\ IsSecret(file) /\ IsSecret(cache) /\ CacheAgrees

LEMMA LoadKeeps ==
  ASSUME NEW f, IsSecret(f), Load(f, StartReads(f), Keep)
  PROVE  SecretsOK' /\ store' = f /\ file' = f
<1>1. Over(Keep, f) = f
  BY DEF Over, Keep, IsSecret, Secret
<1>2. store' = f /\ file' = f
  BY <1>1 DEF Load
<1>3. cache' \in Secret /\ \A r \in Refs : cache'[r] \in {Unset, f[r]}
  BY DEF Load, IsSecret, Secret
<1>4. IsSecret(cache')
  BY <1>3, RuntimeAssumption DEF IsSecret
<1> QED BY <1>2, <1>3, <1>4 DEF SecretsOK, CacheAgrees, IsSecret

\* A save, as far as it gets, sets the vendor and the key to a vendor and a key.
LEMMA OverKeeps ==
  ASSUME NEW f, IsSecret(f), NEW v \in Vendors, NEW k \in Keys
  PROVE  /\ IsSecret(Over([r \in {"vendor"} |-> v], f))
         /\ IsSecret(Over([r \in {"key"} |-> k], f))
         /\ Over(Keep, f) = f
  BY RuntimeAssumption DEF Over, Keep, PairOf, IsSecret, Secret

LEMMA PairKeeps ==
  ASSUME NEW f, IsSecret(f), NEW v \in Vendors, NEW k \in Keys
  PROVE  LET new == Over(PairOf(v, k), f)
         IN  IsSecret(new) /\ new["vendor"] = v /\ new["key"] = k
  BY RuntimeAssumption DEF Over, PairOf, IsSecret, Secret

LEMMA PoppedKeeps ==
  ASSUME SecretsOK, NEW R
  PROVE  /\ IsSecret(Popped(R))
         /\ \A r \in Refs : Popped(R)[r] \in {Unset, store[r]}
         /\ \A r \in Refs : r \in R => Popped(R)[r] = Unset
  BY RuntimeAssumption DEF SecretsOK, Popped, IsSecret, Secret, CacheAgrees

LEMMA SaveKeeps ==
  ASSUME SecretsOK, NEW v \in Vendors, NEW k \in Keys, SetAll(PairOf(v, k))
  PROVE  /\ SecretsOK' /\ store'["vendor"] = v /\ store'["key"] = k /\ file' = store'
<1>1. DOMAIN PairOf(v, k) = {"vendor", "key"}
  BY DEF PairOf
<1>2. store' = Over(PairOf(v, k), store) /\ file' = store' /\ cache' = Popped({"vendor", "key"})
  BY <1>1 DEF SetAll
<1>3. IsSecret(store') /\ store'["vendor"] = v /\ store'["key"] = k
  <2>1. IsSecret(store)
    BY DEF SecretsOK
  <2> DEFINE new == Over(PairOf(v, k), store)
  <2>2. IsSecret(new) /\ new["vendor"] = v /\ new["key"] = k
    BY <2>1, PairKeeps
  <2>3. store' = new
    BY <1>2
  <2> HIDE DEF new
  <2> QED BY <2>2, <2>3
<1>4. IsSecret(cache') /\ \A r \in Refs : cache'[r] = Unset
  BY <1>2, PoppedKeeps, RuntimeAssumption
<1> QED BY <1>2, <1>3, <1>4 DEF SecretsOK, CacheAgrees

LEMMA FailKeeps ==
  ASSUME SecretsOK, NEW v \in Vendors, NEW k \in Keys,
         \/ SetFails(Keep, [r \in {"vendor"} |-> v])
         \/ SetFails([r \in {"vendor"} |-> v], [r \in {"key"} |-> k])
  PROVE  SecretsOK'
<1> DEFINE nv == [r \in {"vendor"} |-> v]
           nk == [r \in {"key"} |-> k]
<1>1. DOMAIN Keep = {} /\ DOMAIN nv = {"vendor"} /\ DOMAIN nk = {"key"}
  BY DEF Keep
<1>2. Over(Keep, store) = store /\ IsSecret(Over(nv, store)) /\ IsSecret(Over(nk, Over(nv, store)))
  BY OverKeeps DEF SecretsOK
<1>3. CASE SetFails(Keep, nv)
  <2>1. store' = Over(nv, store) /\ file' = file /\ cache' = Popped({"vendor"})
    BY <1>1, <1>2, <1>3 DEF SetFails
  <2>2. \A r \in Refs : cache'[r] \in {Unset, store'[r]}
    BY <2>1, <1>1, PoppedKeeps DEF Over
  <2>3. IsSecret(cache')
    BY <2>1, PoppedKeeps
  <2> QED BY <1>2, <2>1, <2>2, <2>3 DEF SecretsOK, CacheAgrees
<1>4. CASE SetFails(nv, nk)
  <2>1. store' = Over(nk, Over(nv, store)) /\ file' = Over(nv, store)
        /\ cache' = Popped({"vendor"} \cup {"key"})
    BY <1>1, <1>4 DEF SetFails
  <2>2. IsSecret(cache') /\ \A r \in Refs : cache'[r] = Unset
    BY <2>1, PoppedKeeps, RuntimeAssumption
  <2> QED BY <1>2, <2>1, <2>2 DEF SecretsOK, CacheAgrees
<1> QED BY <1>3, <1>4

-----------------------------------------------------------------------------
(* The invariant.                                                          *)

RestOK ==
    /\ client \in [vendor : ChatVendors, key : Keys] \cup {None}
    /\ classifier \in Models
    /\ overrides \in [SubAgents -> Override \cup {None}]
    /\ req \in [Requests -> Req \cup {None}]
    /\ saved \in Pair \cup {Nothing, Torn}

\* A turn that has resolved its model has one of its vendor.
Resolved(q) == /\ q.next = "store" /\ q.vendor # None => q.model \in Catalogue[q.vendor]
               /\ q.next = "store" => q.model \in Models
               /\ q.next = "call" => q.vendor # None /\ q.model \in Catalogue[q.vendor]

TurnsMatch == \A r \in Requests : req[r] # None => Resolved(req[r])

RuntimeInv == SecretsOK /\ RestOK /\ TurnsMatch /\ SavedIsLive

LEMMA ClientIsOfVendor ==
  ASSUME NEW v \in Vendors, NEW k \in Keys
  PROVE  ClientFor(v, k) \in [vendor : ChatVendors, key : Keys] \cup {None}
  BY DEF ClientFor

LEMMA ConfigureKeeps ==
  ASSUME RestOK, NEW v \in Vendors, NEW k \in Keys, ConfigureLlm(v, k)
  PROVE  /\ client' \in [vendor : ChatVendors, key : Keys] \cup {None}
         /\ classifier' \in Models
  BY ClientIsOfVendor, DefaultIsModel DEF RestOK, ConfigureLlm

\* A step that only moves one request, to a well-formed state, keeps the rest.
LEMMA MoveKeeps ==
  ASSUME RuntimeInv, NEW r \in Requests, NEW q \in Req \cup {None}, Become(r, q),
         q # None => Resolved(q)
  PROVE  req' \in [Requests -> Req \cup {None}] /\ TurnsMatch'
<1>1. req \in [Requests -> Req \cup {None}]
  BY DEF RuntimeInv, RestOK
<1>2. req' \in [Requests -> Req \cup {None}]
  BY <1>1 DEF Become
<1>3. \A s \in Requests : req'[s] # None => Resolved(req'[s])
  <2>1. TAKE s \in Requests
  <2>2. CASE s = r
    BY <1>1, <2>2 DEF Become
  <2>3. CASE s # r
    <3>1. req'[s] = req[s]
      BY <1>1, <2>3 DEF Become
    <3> QED BY <3>1 DEF RuntimeInv, TurnsMatch
  <2> QED BY <2>2, <2>3
<1> QED BY <1>2, <1>3 DEF TurnsMatch

LEMMA SecretsStay ==
  ASSUME SecretsOK, UNCHANGED secretVars PROVE SecretsOK'
  BY DEF SecretsOK, secretVars, CacheAgrees

LEMMA SavedStays ==
  ASSUME SavedIsLive, UNCHANGED <<secretVars, client, saved>> PROVE SavedIsLive'
  BY DEF SavedIsLive, secretVars

\* A process that starts on the file f: the client is made from it.
LEMMA StartKeeps ==
  ASSUME RuntimeInv, NEW f, IsSecret(f), LlmStart(f)
  PROVE  /\ client' \in [vendor : ChatVendors, key : Keys] \cup {None}
         /\ classifier' \in Models
         /\ overrides' = overrides
         /\ req' \in [Requests -> Req \cup {None}] /\ TurnsMatch'
<1>1. f["vendor"] \in Vendors \cup {Unset} /\ f["key"] \in Keys \cup {Unset}
  BY DEF IsSecret
<1>2. CASE f["vendor"] # Unset /\ f["key"] # Unset
  <2>1. f["vendor"] \in Vendors /\ f["key"] \in Keys
    BY <1>1, <1>2
  <2>2. client' = ClientFor(f["vendor"], f["key"])
        /\ classifier' \in {VendorDefault[f["vendor"]], ClassifierModel}
    BY <1>2 DEF LlmStart
  <2>3. client' \in [vendor : ChatVendors, key : Keys] \cup {None} /\ classifier' \in Models
    BY <2>1, <2>2, ClientIsOfVendor, DefaultIsModel, RuntimeAssumption
  <2> QED BY <2>3 DEF LlmStart, TurnsMatch
<1>3. CASE ~(f["vendor"] # Unset /\ f["key"] # Unset)
  BY <1>3, RuntimeAssumption DEF LlmStart, TurnsMatch
<1> QED BY <1>2, <1>3

-----------------------------------------------------------------------------
(* One lemma per kind of step.                                             *)

LEMMA InitKeeps == Init => RuntimeInv
<1> SUFFICES ASSUME Init PROVE RuntimeInv
  OBVIOUS
<1>1. SecretsOK
  BY RuntimeAssumption DEF Init, SecretsInit, NoSecrets, SecretsOK, IsSecret, Secret, CacheAgrees
<1>2. RestOK /\ TurnsMatch
  BY RuntimeAssumption DEF Init, RestOK, TurnsMatch
<1>3. SavedIsLive
  BY RuntimeAssumption DEF Init, SecretsInit, SavedIsLive
<1> QED BY <1>1, <1>2, <1>3 DEF RuntimeInv

LEMMA SaveStep ==
  ASSUME RuntimeInv, NEW v \in Vendors, NEW k \in Keys, SaveProvider(v, k)
  PROVE  RuntimeInv'
<1>1. SecretsOK' /\ store'["vendor"] = v /\ store'["key"] = k /\ file' = store'
  BY SaveKeeps DEF RuntimeInv, SaveProvider
<1>2. client' \in [vendor : ChatVendors, key : Keys] \cup {None} /\ classifier' \in Models
  BY ConfigureKeeps DEF RuntimeInv, SaveProvider
<1>3. saved' = [vendor |-> v, key |-> k] /\ saved' \in Pair
  BY DEF SaveProvider, Pair
<1>4. RestOK' /\ TurnsMatch'
  BY <1>2, <1>3 DEF RuntimeInv, SaveProvider, RestOK, TurnsMatch
<1>5. SavedIsLive'
  <2>1. saved' # Nothing
    BY <1>3, RuntimeAssumption
  <2>2. client' = ClientFor(saved'.vendor, saved'.key)
    BY <1>3 DEF SaveProvider, ConfigureLlm
  <2> QED BY <1>1, <1>3, <2>1, <2>2 DEF SavedIsLive
<1> QED BY <1>1, <1>4, <1>5 DEF RuntimeInv

LEMMA FailStep ==
  ASSUME RuntimeInv, NEW v \in Vendors, NEW k \in Keys, SaveProviderFails(v, k)
  PROVE  RuntimeInv'
<1>1. SecretsOK'
  BY FailKeeps DEF RuntimeInv, SaveProviderFails
<1>2. RestOK' /\ TurnsMatch'
  BY DEF RuntimeInv, SaveProviderFails, RestOK, TurnsMatch
<1>3. SavedIsLive'
  BY RuntimeAssumption DEF SaveProviderFails, SavedIsLive
<1> QED BY <1>1, <1>2, <1>3 DEF RuntimeInv

LEMMA ReapplyStep ==
  ASSUME RuntimeInv, ReapplyProvider
  PROVE  RuntimeInv'
<1> DEFINE v == Get("vendor")
           k == Get("key")
<1>0. "vendor" \in Refs /\ "key" \in Refs
  BY RuntimeAssumption
<1>1. v = store["vendor"] /\ k = store["key"]
  BY <1>0 DEF RuntimeInv, SecretsOK, CacheAgrees, Get
<1>2. v \in Vendors /\ k \in Keys
  BY <1>1 DEF RuntimeInv, SecretsOK, IsSecret, ReapplyProvider
<1>3. SecretsOK'
  <2>1. cache' = [r \in Refs |-> IF r \in {"vendor", "key"} THEN Get(r) ELSE cache[r]]
        /\ store' = store /\ file' = file
    BY DEF ReapplyProvider, Cached
  <2>2. \A r \in Refs : cache'[r] \in {Unset, store[r]}
    BY <2>1, RuntimeAssumption DEF RuntimeInv, SecretsOK, CacheAgrees, Get
  <2>3. IsSecret(cache')
    BY <2>1, <2>2, RuntimeAssumption DEF RuntimeInv, SecretsOK, IsSecret, Secret
  <2> QED BY <2>1, <2>2, <2>3 DEF RuntimeInv, SecretsOK, CacheAgrees
<1>4. RestOK' /\ TurnsMatch'
  <2>1. ConfigureLlm(v, k)
    BY DEF ReapplyProvider
  <2>2. client' \in [vendor : ChatVendors, key : Keys] \cup {None} /\ classifier' \in Models
    BY <1>2, <2>1, ConfigureKeeps DEF RuntimeInv
  <2> QED BY <2>2 DEF RuntimeInv, ReapplyProvider, RestOK, TurnsMatch
<1>5. SavedIsLive'
  <2>1. client' = ClientFor(v, k) /\ UNCHANGED <<store, file, saved>>
    BY DEF ReapplyProvider, ConfigureLlm
  <2>2. saved # Nothing
    BY <1>0, <1>1, <1>2, RuntimeAssumption DEF RuntimeInv, SavedIsLive, NoSecrets
  <2>3. saved \notin {Nothing, Torn} => client' = ClientFor(saved.vendor, saved.key)
    BY <1>1, <2>1 DEF RuntimeInv, SavedIsLive
  <2> QED BY <2>1, <2>2, <2>3 DEF RuntimeInv, SavedIsLive
<1> QED BY <1>3, <1>4, <1>5 DEF RuntimeInv

LEMMA RestartStep ==
  ASSUME RuntimeInv, Restart
  PROVE  RuntimeInv'
<1>1. CASE Load(file, StartReads(file), Keep) /\ LlmStart(file) /\ UNCHANGED saved
  <2>1. IsSecret(file)
    BY DEF RuntimeInv, SecretsOK
  <2>2. SecretsOK' /\ store' = file /\ file' = file
    BY <1>1, <2>1, LoadKeeps
  <2>3. RestOK' /\ TurnsMatch'
    BY <1>1, <2>1, StartKeeps DEF RuntimeInv, RestOK
  <2>4. SavedIsLive'
    <3>1. CASE saved = Nothing
      <4>1. file = NoSecrets
        BY <3>1 DEF RuntimeInv, SavedIsLive
      <4>2. client' = None
        BY <1>1, <4>1, RuntimeAssumption DEF LlmStart, NoSecrets
      <4> QED BY <1>1, <2>2, <3>1, <4>1, <4>2, RuntimeAssumption DEF SavedIsLive
    <3>2. CASE saved = Torn
      BY <1>1, <3>2, RuntimeAssumption DEF SavedIsLive
    <3>3. CASE saved \notin {Nothing, Torn}
      <4>1. file["vendor"] = saved.vendor /\ file["key"] = saved.key /\ saved \in Pair
        BY <3>3 DEF RuntimeInv, SavedIsLive, RestOK
      <4>2. file["vendor"] # Unset /\ file["key"] # Unset
        BY <4>1, RuntimeAssumption DEF Pair
      <4>3. client' = ClientFor(saved.vendor, saved.key)
        BY <1>1, <4>1, <4>2 DEF LlmStart
      <4> QED BY <1>1, <2>2, <3>3, <4>1, <4>3 DEF SavedIsLive
    <3> QED BY <3>1, <3>2, <3>3
  <2> QED BY <2>2, <2>3, <2>4 DEF RuntimeInv
<1>2. ASSUME NEW v \in Vendors, NEW k \in Accepted[v],
             LET f == Over([r \in {"vendor"} |-> v], store)
             IN  Load(f, StartReads(f), Keep) /\ LlmStart(f) /\ saved' = Torn
      PROVE  RuntimeInv'
  <2> DEFINE f == Over([r \in {"vendor"} |-> v], store)
  <2>1. IsSecret(f)
    <3>1. k \in Keys
      BY RuntimeAssumption
    <3> QED BY <3>1, OverKeeps DEF RuntimeInv, SecretsOK
  <2>2. Load(f, StartReads(f), Keep) /\ LlmStart(f) /\ saved' = Torn
    BY <1>2
  <2> HIDE DEF f
  <2>3. SecretsOK'
    BY <2>1, <2>2, LoadKeeps
  <2>4. RestOK' /\ TurnsMatch'
    BY <2>1, <2>2, StartKeeps DEF RuntimeInv, RestOK
  <2>5. SavedIsLive'
    BY <2>2, RuntimeAssumption DEF SavedIsLive
  <2> QED BY <2>3, <2>4, <2>5 DEF RuntimeInv
<1> QED BY <1>1, <1>2 DEF Restart

\* What a request does leaves the secrets, the client and the history alone.
LEMMA RequestStep ==
  ASSUME RuntimeInv, UNCHANGED <<secretVars, client, saved>>,
         classifier' \in Models, overrides' \in [SubAgents -> Override \cup {None}],
         NEW r \in Requests, NEW q \in Req \cup {None}, Become(r, q), q # None => Resolved(q)
  PROVE  RuntimeInv'
<1>1. SecretsOK' /\ SavedIsLive'
  BY SecretsStay, SavedStays DEF RuntimeInv
<1>2. req' \in [Requests -> Req \cup {None}] /\ TurnsMatch'
  BY MoveKeeps
<1> QED BY <1>1, <1>2 DEF RuntimeInv, RestOK

LEMMA NextKeeps ==
  ASSUME RuntimeInv, [Next]_vars
  PROVE  RuntimeInv'
<1> USE DEF Resolved
<1>0. /\ req \in [Requests -> Req \cup {None}] /\ classifier \in Models
      /\ overrides \in [SubAgents -> Override \cup {None}]
      /\ client \in [vendor : ChatVendors, key : Keys] \cup {None}
  BY DEF RuntimeInv, RestOK
<1>1. CASE Restart
  BY <1>1, RestartStep
<1>2. ASSUME NEW v \in Vendors, NEW k \in Keys, SaveProvider(v, k) \/ SaveProviderFails(v, k)
      PROVE  RuntimeInv'
  BY <1>2, SaveStep, FailStep
<1>3. CASE ReapplyProvider
  BY <1>3, ReapplyStep
<1>4. ASSUME NEW r \in Requests, BeginTurn(r)
      PROVE  RuntimeInv'
  <2> DEFINE q == Request("resolve", {}, None)
  <2>1. q \in Req
    BY <1>0 DEF Req, Request, VendorOf
  <2>2. Resolved(q)
    BY DEF Request
  <2>3. Become(r, q)
    BY <1>4 DEF BeginTurn
  <2> HIDE DEF q
  <2> QED BY <1>0, <1>4, <2>1, <2>2, <2>3, RequestStep DEF BeginTurn
<1>5. ASSUME NEW r \in Requests, NEW agents \in SUBSET SubAgents \ {{}},
             NEW row \in Override \cup {None}, BeginAssign(r, agents, row)
      PROVE  RuntimeInv'
  <2> DEFINE q == Request("lookup", agents, row)
  <2>1. q \in Req
    BY <1>0 DEF Req, Request, VendorOf
  <2>2. Resolved(q)
    BY DEF Request
  <2>3. Become(r, q)
    BY <1>5 DEF BeginAssign
  <2> HIDE DEF q
  <2> QED BY <1>0, <1>5, <2>1, <2>2, <2>3, RequestStep DEF BeginAssign
<1>6. ASSUME NEW r \in Requests, Lookup(r)
      PROVE  RuntimeInv'
  <2> DEFINE q == [req[r] EXCEPT !.next = "write",
                     !.found = {a \in req[r].agents : overrides[a] # None}]
  <2>1. req[r] \in Req
    BY <1>0, <1>6 DEF Lookup, At
  <2>2. q \in Req /\ Resolved(q)
    BY <2>1 DEF Req
  <2>3. Become(r, q)
    BY <1>6 DEF Lookup
  <2> HIDE DEF q
  <2> QED BY <1>0, <1>6, <2>2, <2>3, RequestStep DEF Lookup
<1>7. ASSUME NEW r \in Requests, Write(r)
      PROVE  RuntimeInv'
  <2>1. req[r] \in Req
    BY <1>0, <1>7 DEF Write, At
  <2>2. CASE Become(r, None) /\ UNCHANGED overrides
    BY <1>0, <1>7, <2>2, RequestStep DEF Write
  <2>3. CASE ~(Become(r, None) /\ UNCHANGED overrides)
    <3> DEFINE q == [req[r] EXCEPT !.next = "resolve", !.row = None, !.found = {}]
    <3>1. q \in Req /\ Resolved(q)
      BY <2>1 DEF Req
    <3>2. Become(r, q) /\ overrides' \in [SubAgents -> Override \cup {None}]
      BY <1>0, <1>7, <2>1, <2>3 DEF Write, Req
    <3> HIDE DEF q
    <3> QED BY <1>0, <1>7, <3>1, <3>2, RequestStep DEF Write
  <2> QED BY <2>2, <2>3
<1>8. ASSUME NEW r \in Requests, Resolve(r)
      PROVE  RuntimeInv'
  <2> DEFINE m == ResolvedRuntimeChoice(req[r].vendor, overrides)
             q == [req[r] EXCEPT !.next = "store", !.model = m]
  <2>1. req[r] \in Req /\ req[r].vendor \in Vendors \cup {None}
    BY <1>0, <1>8, RuntimeAssumption DEF Resolve, At, Req
  <2>2. m \in Models /\ (req[r].vendor # None => m \in Catalogue[req[r].vendor])
    BY <1>0, <2>1, ChoiceIsOwn
  <2>3. Become(r, q)
    BY <1>8 DEF Resolve
  <2> HIDE DEF m
  <2>4. q \in Req /\ Resolved(q)
    BY <2>1, <2>2 DEF Req
  <2> HIDE DEF q
  <2> QED BY <1>0, <1>8, <2>3, <2>4, RequestStep DEF Resolve
<1>9. ASSUME NEW r \in Requests, Store(r)
      PROVE  RuntimeInv'
  <2> DEFINE q == IF req[r].agents # {} \/ req[r].vendor = None THEN None
                  ELSE [req[r] EXCEPT !.next = "call"]
  <2>1. req[r] \in Req /\ Resolved(req[r]) /\ req[r].next = "store"
    BY <1>0, <1>9 DEF Store, At, RuntimeInv, TurnsMatch
  <2>2. q \in Req \cup {None} /\ (q # None => Resolved(q))
    BY <2>1 DEF Req
  <2>3. Become(r, q) /\ classifier' \in Models
    BY <1>9, <2>1 DEF Store
  <2> HIDE DEF q
  <2> QED BY <1>0, <1>9, <2>2, <2>3, RequestStep DEF Store
<1>10. ASSUME NEW r \in Requests, End(r)
       PROVE  RuntimeInv'
  BY <1>0, <1>10, RequestStep DEF End
<1>11. CASE UNCHANGED vars
  BY <1>11, SecretsStay, SavedStays DEF RuntimeInv, RestOK, TurnsMatch, vars, runtimeVars
<1> QED
  BY <1>1, <1>2, <1>3, <1>4, <1>5, <1>6, <1>7, <1>8, <1>9, <1>10, <1>11 DEF Next, RuntimeStep

-----------------------------------------------------------------------------
(* The theorems.                                                           *)

\* The invariant holds of every behaviour.
THEOREM RuntimeInvariant == Spec => []RuntimeInv
  BY InitKeeps, NextKeeps, PTL DEF Spec

\* Type correctness, of the secrets and of the process.
THEOREM RuntimeTypes == Spec => []TypeOK
<1>1. RuntimeInv => TypeOK
  BY DEF RuntimeInv, SecretsOK, RestOK, TypeOK, IsSecret, Secret
<1> QED BY <1>1, RuntimeInvariant, PTL

\* Whatever keys are saved and models assigned while a turn waits, it never
\* sends a vendor the model of another.
THEOREM RuntimeCallsMatch == Spec => []CallsMatchVendor
<1>1. RuntimeInv => CallsMatchVendor
  <2> SUFFICES ASSUME RuntimeInv, NEW r \in Requests, At(r, "call")
               PROVE  Calls(r) \subseteq Catalogue[req[r].vendor]
    BY DEF CallsMatchVendor
  <2>1. /\ req[r] \in Req /\ req[r].vendor # None
        /\ req[r].model \in Catalogue[req[r].vendor]
    BY DEF RuntimeInv, RestOK, TurnsMatch, Resolved, At
  <2>2. req[r].vendor \in Vendors
    BY <2>1, RuntimeAssumption DEF Req
  <2>3. ASSUME NEW i \in DOMAIN Registry
        PROVE  ModelFor(req[r], Registry[i]) \in Catalogue[req[r].vendor]
    <3>1. overrides[Registry[i].id] \in Override \cup {None}
      BY DEF RuntimeInv, RestOK, SubAgents
    <3> QED BY <2>2, <3>1, OwnModel DEF ModelFor
  <2> QED BY <2>1, <2>3 DEF Calls, TurnModel
<1> QED BY <1>1, RuntimeInvariant, PTL

\* Memory, file and live client are one saved pair, unless a save was cut short.
THEOREM RuntimeSavedIsLive == Spec => []SavedIsLive
  BY RuntimeInvariant, PTL DEF RuntimeInv

\* No reader of a secret is given a value that has been replaced.
THEOREM RuntimeCacheAgrees == Spec => []CacheAgrees
<1>1. RuntimeInv => CacheAgrees
  BY DEF RuntimeInv, SecretsOK
<1> QED BY <1>1, RuntimeInvariant, PTL
=============================================================================
