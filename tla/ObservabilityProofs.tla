------------------------ MODULE ObservabilityProofs ------------------------
(***************************************************************************)
(* Proofs about Observability, for every set of fields and values and for  *)
(* every environment a process may start with.                             *)
(***************************************************************************)
EXTENDS Observability, TLAPS

Secrets == [Refs -> Words]

SecretsOK ==
  /\ store \in Secrets /\ file \in Secrets
  /\ CacheAgrees
  /\ file[Key] # Unset => store[Key] # Unset

ObsInv ==
  /\ SecretsOK
  /\ env \in [FieldSet -> Words]
  /\ tracer # Off => DOMAIN tracer \subseteq FieldSet
  /\ ShownIsApplied

\* What a handler or a restart may set: the key never to nothing
Settable(new) ==
  /\ DOMAIN new \subseteq Refs
  /\ \A r \in DOMAIN new : new[r] \in Words /\ (r = Key => new[r] # Unset)

Forms == [FieldSet -> Values \cup {Unset, Absent}]

-----------------------------------------------------------------------------
(* The secrets.                                                            *)

LEMMA GetIsStore ==
  ASSUME CacheAgrees, NEW r \in Refs PROVE Get(r) = store[r]
BY DEF CacheAgrees, Get

LEMMA FieldsAreRefs ==
  /\ Key \in Refs /\ Key \in FieldSet /\ FieldSet \subseteq Refs
  /\ DebugRef \in Refs /\ DebugRef \notin FieldSet /\ DebugRef # Key
  /\ \A i \in DOMAIN Fields : Fields[i] \in FieldSet
  /\ Unset \in Words /\ "0" \in Words /\ "1" \in Words
BY ObservabilityAssumption DEF FieldSet, Words

LEMMA OverIs ==
  ASSUME NEW new, Settable(new), NEW f \in Secrets
  PROVE  /\ Over(new, f) \in Secrets
         /\ \A r \in Refs \ DOMAIN new : Over(new, f)[r] = f[r]
         /\ \A r \in DOMAIN new : Over(new, f)[r] = new[r]
         /\ f[Key] # Unset \/ Key \in DOMAIN new => Over(new, f)[Key] # Unset
BY FieldsAreRefs DEF Settable, Over, Secrets

LEMMA KeepIsSettable == Settable(Keep) /\ DOMAIN Keep = {}
BY DEF Settable, Keep

LEMMA DebugIsSettable ==
  ASSUME NEW w \in {"0", "1"}
  PROVE  Settable([r \in {DebugRef} |-> w])
BY FieldsAreRefs DEF Settable

LEMMA FormIsSettable ==
  ASSUME NEW form \in Forms, NEW F, F \subseteq Stored(form)
  PROVE  Settable(New(form, F)) /\ DOMAIN New(form, F) = F
<1>1. \A f \in F : /\ f \in FieldSet /\ form[f] \in Words
                   /\ f = Key => form[f] # Unset
  BY DEF Stored, Forms, Words
<1> QED BY <1>1, FieldsAreRefs DEF Settable, New

LEMMA PoppedAgrees ==
  ASSUME CacheAgrees, NEW R, cache' = Popped(R),
         \A r \in Refs \ R : store'[r] = store[r]
  PROVE  CacheAgrees'
BY DEF CacheAgrees, Popped

LEMMA SetAllKeeps ==
  ASSUME SecretsOK, NEW new, Settable(new), SetAll(new)
  PROVE  SecretsOK' /\ store' = Over(new, store)
<1>1. store' = Over(new, store) /\ store' \in Secrets
  BY OverIs DEF SetAll, SecretsOK
<1>2. file' \in {file, store'}
  BY DEF SetAll
<1>3. CacheAgrees'
  BY <1>1, OverIs, PoppedAgrees DEF SetAll, SecretsOK
<1>4. store[Key] # Unset => store'[Key] # Unset
  BY <1>1, OverIs DEF SecretsOK
<1> QED BY <1>1, <1>2, <1>3, <1>4 DEF SecretsOK

LEMMA SetFailsKeeps ==
  ASSUME SecretsOK, NEW done, NEW last, Settable(done), Settable(last),
         SetFails(done, last)
  PROVE  SecretsOK' /\ store' = Over(last, Over(done, store))
<1> DEFINE half == Over(done, store)
<1>1. half \in Secrets /\ store' = Over(last, half) /\ store' \in Secrets
  BY OverIs DEF SetFails, SecretsOK
<1>2. file' \in {file, half}
  BY DEF SetFails
<1>3. CacheAgrees'
  <2>1. \A r \in Refs \ (DOMAIN done \cup DOMAIN last) : store'[r] = store[r]
    <3>1. \A r \in Refs \ DOMAIN done : half[r] = store[r]
      BY OverIs DEF SecretsOK
    <3> HIDE DEF half
    <3>2. \A r \in Refs \ DOMAIN last : store'[r] = half[r]
      BY <1>1, OverIs
    <3> QED BY <3>1, <3>2
  <2> QED BY <2>1, PoppedAgrees DEF SetFails, SecretsOK
<1>4. /\ half[Key] # Unset => store'[Key] # Unset
      /\ store[Key] # Unset => half[Key] # Unset
  <2>1. store[Key] # Unset => half[Key] # Unset
    BY OverIs DEF SecretsOK
  <2>2. half[Key] # Unset => store'[Key] # Unset
    <3> HIDE DEF half
    <3> QED BY <1>1, OverIs
  <2> QED BY <2>1, <2>2
<1>5. file' \in Secrets /\ (file'[Key] # Unset => store'[Key] # Unset)
  <2> HIDE DEF half
  <2> QED BY <1>1, <1>2, <1>4 DEF SecretsOK
<1> QED BY <1>1, <1>3, <1>5 DEF SecretsOK

LEMMA LoadKeeps ==
  ASSUME NEW f \in Secrets, NEW seed, Settable(seed), Load(f, FieldSet, seed)
  PROVE  SecretsOK' /\ store' = Over(seed, f) /\ file' = store'
<1>1. store' = Over(seed, f) /\ file' = store' /\ store' \in Secrets
  BY OverIs DEF Load
<1>2. CacheAgrees'
  BY <1>1, OverIs DEF CacheAgrees, Load
<1> QED BY <1>1, <1>2 DEF SecretsOK

-----------------------------------------------------------------------------
(* The settings.                                                           *)

LEMMA ShownIs ==
  ASSUME CacheAgrees, NEW f \in FieldSet
  PROVE  Shown[f] = SecretOrEnv(store, env, f)
<1>1. f \in Refs /\ Get(f) = store[f]
  BY GetIsStore, FieldsAreRefs
<1> QED BY <1>1 DEF Shown, Settings, SecretOrEnv

\* The same of the next state
LEMMA ShownIsNext ==
  ASSUME CacheAgrees', NEW f \in FieldSet
  PROVE  Shown'[f] = SecretOrEnv(store', env', f)
<1>1. f \in Refs /\ Get(f)' = store'[f]
  BY FieldsAreRefs DEF CacheAgrees, Get
<1> QED BY <1>1 DEF Shown, Settings, SecretOrEnv

LEMMA SettingsType ==
  ASSUME NEW g, \A f \in FieldSet : g[f] \in Words, NEW e \in [FieldSet -> Words]
  PROVE  /\ DOMAIN Settings(g, e) = FieldSet
         /\ \A f \in FieldSet : Settings(g, e)[f] = SecretOrEnv(g, e, f)
         /\ \A f \in FieldSet : Settings(g, e)[f] \in Words
BY DEF Settings, SecretOrEnv, Words

\* What has been applied is shown from then on: the environment now has every
\* value the page had, whichever of the two places it came from.
LEMMA ApplyShows ==
  ASSUME SecretsOK', NEW e \in [FieldSet -> Words], NEW g,
         \A f \in FieldSet : g[f] = store'[f],
         Apply(Settings(g, e), e)
  PROVE  /\ env' \in [FieldSet -> Words]
         /\ ShownIsApplied'
         /\ \A f \in FieldSet : Shown'[f] = Settings(g, e)[f]
         /\ tracer' # Off <=> Settings(g, e)[Key] # Unset
         /\ tracer' # Off => DOMAIN tracer' \subseteq FieldSet
<1> DEFINE S == Settings(g, e)
<1>0. Key \in FieldSet /\ FieldSet \subseteq Refs
  BY FieldsAreRefs
<1>1. \A f \in FieldSet : /\ S[f] = SecretOrEnv(g, e, f)
                          /\ S[f] \in Words /\ g[f] \in Words
  <2>1. \A f \in FieldSet : g[f] \in Words
    BY <1>0 DEF SecretsOK, Secrets
  <2> QED BY <2>1, SettingsType
<1>2. \A f \in FieldSet : env'[f] = IF S[f] # Unset THEN S[f] ELSE e[f]
  BY DEF Apply
<1>3. env' \in [FieldSet -> Words]
  <2>1. env' = [f \in FieldSet |-> IF S[f] # Unset THEN S[f] ELSE e[f]]
    BY DEF Apply
  <2> HIDE DEF S
  <2> QED BY <1>1, <2>1
<1>4. ASSUME NEW f \in FieldSet PROVE Shown'[f] = S[f]
  <2>1. Shown'[f] = SecretOrEnv(store', env', f)
    BY ShownIsNext DEF SecretsOK
  <2> HIDE DEF S
  <2> QED BY <1>1, <1>2, <2>1 DEF SecretOrEnv
<1>5. tracer' = IF S[Key] = Unset THEN Off ELSE [f \in FieldSet \ {Key} |-> S[f]]
  BY DEF Apply
<1>6. tracer' # Off <=> S[Key] # Unset
  <2> HIDE DEF S
  <2>1. [f \in FieldSet \ {Key} |-> S[f]] \in [FieldSet \ {Key} -> Words]
    BY <1>1
  <2> QED BY <1>5, <2>1, ObservabilityAssumption
<1>7. ShownIsApplied'
  <2> HIDE DEF S
  <2>1. \A f \in FieldSet : Shown'[f] # Unset => env'[f] = Shown'[f]
    BY <1>2, <1>4
  <2>2. (Shown'[Key] = Unset) <=> (tracer' = Off)
    BY <1>0, <1>4, <1>6
  <2>3. tracer' # Off => \A f \in DOMAIN tracer' : tracer'[f] = Shown'[f]
    BY <1>4, <1>5
  <2> QED BY <2>1, <2>2, <2>3 DEF ShownIsApplied
<1>8. tracer' # Off => DOMAIN tracer' \subseteq FieldSet
  BY <1>5
<1> QED BY <1>3, <1>4, <1>6, <1>7, <1>8

-----------------------------------------------------------------------------
(* The steps.                                                              *)

LEMMA SaveStep ==
  ASSUME ObsInv, NEW form \in Forms, SaveGalileo(form)
  PROVE  /\ ObsInv'
         /\ file[Key] # Unset => tracer' # Off
<1> DEFINE new == New(form, Stored(form))
<1>1. Settable(new)
  BY FormIsSettable
<1>2. SecretsOK' /\ store' = Over(new, store)
  BY <1>1, SetAllKeeps DEF ObsInv, SaveGalileo
<1>3. /\ env' \in [FieldSet -> Words] /\ ShownIsApplied'
      /\ tracer' # Off <=> Settings(store', env)[Key] # Unset
      /\ tracer' # Off => DOMAIN tracer' \subseteq FieldSet
  BY <1>2, ApplyShows DEF ObsInv, SaveGalileo
<1>4. ASSUME file[Key] # Unset PROVE Settings(store', env)[Key] # Unset
  <2>1. store[Key] # Unset /\ store \in Secrets
    BY <1>4 DEF ObsInv, SecretsOK
  <2>2. store'[Key] # Unset
    <3> HIDE DEF new
    <3> QED BY <1>1, <1>2, <2>1, OverIs
  <2> QED BY <2>2, FieldsAreRefs DEF Settings, SecretOrEnv
<1> QED BY <1>2, <1>3, <1>4 DEF ObsInv

LEMMA SaveFailsStep ==
  ASSUME ObsInv, NEW form \in Forms, SaveGalileoFails(form)
  PROVE  ObsInv' /\ tracer' = tracer
<1>1. PICK i \in DOMAIN Fields :
        /\ Fields[i] \in Stored(form)
        /\ SetFails(New(form, Stored(form) \cap {Fields[j] : j \in 1 .. i - 1}),
                    New(form, {Fields[i]}))
  BY DEF SaveGalileoFails
<1> DEFINE done == New(form, Stored(form) \cap {Fields[j] : j \in 1 .. i - 1})
           last == New(form, {Fields[i]})
<1>2. Settable(done) /\ Settable(last)
  BY <1>1, FormIsSettable
<1>3. SecretsOK'
  BY <1>1, <1>2, SetFailsKeeps DEF ObsInv
<1> QED BY <1>3 DEF ObsInv, SaveGalileoFails, ShownIsApplied

\* A step that changes no field, and nothing the settings are applied to.
LEMMA FieldsStay ==
  ASSUME ObsInv, SecretsOK', UNCHANGED <<env, tracer, behind>>,
         \A f \in FieldSet : store'[f] = store[f]
  PROVE  ObsInv'
<1>1. ASSUME NEW f \in FieldSet PROVE Shown'[f] = Shown[f]
  BY ShownIs, ShownIsNext DEF ObsInv, SecretsOK, SecretOrEnv
<1>2. ShownIsApplied'
  <2>1. ShownIsApplied /\ Key \in FieldSet
    BY FieldsAreRefs DEF ObsInv
  <2> SUFFICES ASSUME ~behind'
               PROVE  /\ \A f \in FieldSet : Shown'[f] # Unset => env'[f] = Shown'[f]
                      /\ (Shown'[Key] = Unset) <=> (tracer' = Off)
                      /\ tracer' # Off => \A f \in DOMAIN tracer' : tracer'[f] = Shown'[f]
    BY DEF ShownIsApplied
  <2>2. \A f \in FieldSet : Shown'[f] # Unset => env'[f] = Shown'[f]
    BY <1>1, <2>1 DEF ShownIsApplied
  <2>3. (Shown'[Key] = Unset) <=> (tracer' = Off)
    BY <1>1, <2>1 DEF ShownIsApplied
  <2> QED BY <1>1, <2>1, <2>2, <2>3 DEF ShownIsApplied, ObsInv
<1> QED BY <1>2 DEF ObsInv

LEMMA DebugStep ==
  ASSUME ObsInv, NEW on \in BOOLEAN, SetDebug(on)
  PROVE  ObsInv' /\ tracer' = tracer
<1> DEFINE new == [r \in {DebugRef} |-> IF on THEN "1" ELSE "0"]
<1>1. Settable(new) /\ Settable(Keep) /\ DOMAIN new = {DebugRef}
  BY DebugIsSettable, KeepIsSettable
<1>2. SetAll(new) \/ SetFails(Keep, new)
  BY DEF SetDebug
<1>3. SecretsOK' /\ \A f \in FieldSet : store'[f] = store[f]
  <2> HIDE DEF new
  <2>1. CASE SetAll(new)
    BY <1>1, <2>1, SetAllKeeps, OverIs, FieldsAreRefs DEF ObsInv, SecretsOK
  <2>2. CASE SetFails(Keep, new)
    <3>1. SecretsOK' /\ store' = Over(new, Over(Keep, store))
      BY <1>1, <2>2, SetFailsKeeps DEF ObsInv
    <3>2. Over(Keep, store) = store
      BY KeepIsSettable DEF Over, ObsInv, SecretsOK, Secrets
    <3> QED BY <1>1, <3>1, <3>2, OverIs, FieldsAreRefs DEF ObsInv, SecretsOK
  <2> QED BY <1>2, <2>1, <2>2
<1> QED BY <1>3, FieldsStay DEF SetDebug

LEMMA StartStep ==
  ASSUME NEW f \in Secrets, NEW on, NEW e \in StartEnvs, Start(f, on, e)
  PROVE  /\ ObsInv'
         /\ \A g \in FieldSet : store'[g] = f[g]
         /\ f[Key] # Unset => tracer' # Off
<1> DEFINE seed == IF on /\ f[DebugRef] = Unset THEN [r \in {DebugRef} |-> "1"] ELSE Keep
<1>1. Settable(seed) /\ DOMAIN seed \subseteq {DebugRef}
  BY DebugIsSettable, KeepIsSettable
<1>2. e \in [FieldSet -> Words]
  BY ObservabilityAssumption DEF Words
<1>3. SecretsOK' /\ store' = Over(seed, f)
  BY <1>1, LoadKeeps DEF Start
<1>4. \A g \in FieldSet : f[g] = store'[g]
  <2> HIDE DEF seed
  <2> QED BY <1>1, <1>3, OverIs, FieldsAreRefs
<1>5. /\ env' \in [FieldSet -> Words] /\ ShownIsApplied'
      /\ tracer' # Off <=> Settings(f, e)[Key] # Unset
      /\ tracer' # Off => DOMAIN tracer' \subseteq FieldSet
  BY <1>2, <1>3, <1>4, ApplyShows DEF Start
<1>6. f[Key] # Unset => Settings(f, e)[Key] # Unset
  BY FieldsAreRefs DEF Settings, SecretOrEnv
<1> QED BY <1>3, <1>4, <1>5, <1>6 DEF ObsInv

LEMMA RestartStep ==
  ASSUME ObsInv, Restart
  PROVE  ObsInv' /\ (file[Key] # Unset => tracer' # Off)
<1>1. PICK on \in BOOLEAN, e \in StartEnvs :
        \/ Start(file, on, e)
        \/ \E form \in Forms, i \in DOMAIN Fields :
             /\ Fields[i] \in Stored(form)
             /\ Start(Over(New(form, Stored(form) \cap {Fields[j] : j \in 1 .. i}), store), on, e)
  BY DEF Restart, Forms
<1>2. CASE Start(file, on, e)
  BY <1>2, StartStep DEF ObsInv, SecretsOK
<1>3. ASSUME NEW form \in Forms, NEW i \in DOMAIN Fields,
             Start(Over(New(form, Stored(form) \cap {Fields[j] : j \in 1 .. i}), store), on, e)
      PROVE  ObsInv' /\ (file[Key] # Unset => tracer' # Off)
  <2> DEFINE new == New(form, Stored(form) \cap {Fields[j] : j \in 1 .. i})
  <2>1. Settable(new)
    BY FormIsSettable
  <2> HIDE DEF new
  <2>2. /\ Over(new, store) \in Secrets
        /\ store[Key] # Unset => Over(new, store)[Key] # Unset
    BY <2>1, OverIs DEF ObsInv, SecretsOK
  <2>3. Start(Over(new, store), on, e)
    BY <1>3 DEF new
  <2> QED BY <2>2, <2>3, StartStep DEF ObsInv, SecretsOK
<1> QED BY <1>1, <1>2, <1>3

LEMMA ReadStep ==
  ASSUME ObsInv, NEW r \in Refs, Look(r) \/ Expire(r),
         UNCHANGED <<env, debugEnv, tracer, behind>>
  PROVE  ObsInv'
<1>1. UNCHANGED <<store, file>> /\ CacheAgrees'
  BY DEF Look, Expire, Cached, Popped, Get, ObsInv, SecretsOK, CacheAgrees
<1>2. SecretsOK'
  BY <1>1 DEF ObsInv, SecretsOK
<1> QED BY <1>1, <1>2, FieldsStay

LEMMA NextStep ==
  ASSUME ObsInv, [Next]_vars
  PROVE  ObsInv' /\ (tracer # Off /\ file[Key] # Unset => tracer' # Off)
<1>1. CASE UNCHANGED vars
  <2>1. SecretsOK' /\ \A f \in FieldSet : store'[f] = store[f]
    BY <1>1 DEF vars, secretVars, ObsInv, SecretsOK, CacheAgrees
  <2> QED BY <1>1, <2>1, FieldsStay DEF vars
<1>2. ASSUME NEW form \in Forms, SaveGalileo(form) \/ SaveGalileoFails(form)
      PROVE  ObsInv' /\ (tracer # Off /\ file[Key] # Unset => tracer' # Off)
  BY <1>2, SaveStep, SaveFailsStep
<1>3. ASSUME NEW on \in BOOLEAN, SetDebug(on)
      PROVE  ObsInv' /\ (tracer # Off /\ file[Key] # Unset => tracer' # Off)
  BY <1>3, DebugStep
<1>4. CASE Restart
  BY <1>4, RestartStep
<1>5. ASSUME NEW r \in Refs, Look(r) \/ Expire(r),
             UNCHANGED <<env, debugEnv, tracer, behind>>
      PROVE  ObsInv' /\ (tracer # Off /\ file[Key] # Unset => tracer' # Off)
  BY <1>5, ReadStep
<1> QED BY <1>1, <1>2, <1>3, <1>4, <1>5 DEF Next, Forms

\* A process starts with what its environment says.
LEMMA InitStep == ASSUME Init PROVE ObsInv
<1>1. PICK e \in StartEnvs : env = [f \in FieldSet |-> SecretOrEnv(NoSecrets, e, f)]
  BY DEF Init
<1>2. SecretsOK
  BY FieldsAreRefs DEF Init, SecretsInit, NoSecrets, SecretsOK, Secrets, CacheAgrees
<1>3. \A f \in FieldSet : env[f] = IF e[f] # Unset THEN e[f] ELSE Default[f]
  BY <1>1, FieldsAreRefs DEF SecretOrEnv, NoSecrets
<1>4. env \in [FieldSet -> Words]
  <2>1. \A f \in FieldSet : env[f] \in Words
    BY <1>3, ObservabilityAssumption DEF Words
  <2> QED BY <1>1, <2>1
<1>5. ASSUME NEW f \in FieldSet PROVE Shown[f] = env[f]
  <2>1. Shown[f] = SecretOrEnv(store, env, f)
    BY <1>2, ShownIs DEF SecretsOK
  <2>2. store[f] = Unset
    BY FieldsAreRefs DEF Init, SecretsInit, NoSecrets
  <2> QED BY <1>3, <2>1, <2>2 DEF SecretOrEnv
<1>6. tracer = IF env[Key] = Unset THEN Off ELSE [f \in FieldSet \ {Key} |-> env[f]]
  BY DEF Init
<1>7. env[Key] # Unset <=> tracer # Off
  <2>1. [f \in FieldSet \ {Key} |-> env[f]] \in [FieldSet \ {Key} -> Words]
    BY <1>4
  <2> QED BY <1>6, <2>1, ObservabilityAssumption
<1>8. ShownIsApplied
  <2>1. (Shown[Key] = Unset) <=> (tracer = Off)
    BY <1>5, <1>7, FieldsAreRefs
  <2>2. tracer # Off => \A f \in DOMAIN tracer : tracer[f] = Shown[f]
    BY <1>5, <1>6
  <2> QED BY <1>5, <2>1, <2>2 DEF ShownIsApplied
<1>9. tracer # Off => DOMAIN tracer \subseteq FieldSet
  BY <1>6
<1> QED BY <1>2, <1>4, <1>8, <1>9 DEF ObsInv

LEMMA Invariance == Spec => []ObsInv
<1>1. ObsInv /\ [Next]_vars => ObsInv'
  BY NextStep
<1> QED BY <1>1, InitStep, PTL DEF Spec

\* The Settings page, the process environment and the tracer agree, whatever is
\* missing from the secrets and whatever environment the process was given.
THEOREM PageShowsTheTracer == Spec => []ShownIsApplied
<1>1. ObsInv => ShownIsApplied
  BY DEF ObsInv
<1> QED BY <1>1, Invariance, PTL

\* Whatever the file holds is shown after a restart, in any environment.
THEOREM SettingsSurviveRestarts == Spec => SavedSettingsSurvive
<1> DEFINE Survives ==
      (\E e \in StartEnvs : Start(file, debugEnv', e)) =>
          /\ \A f \in FieldSet : store[f] = file[f] /\ file[f] # Unset => Shown'[f] = Shown[f]
          /\ store[DebugRef] = file[DebugRef] /\ file[DebugRef] # Unset
                => DebugEnabled' = DebugEnabled
<1>1. ASSUME ObsInv PROVE Survives
  <2> SUFFICES ASSUME NEW e \in StartEnvs, Start(file, debugEnv', e)
               PROVE  /\ \A f \in FieldSet : store[f] = file[f] /\ file[f] # Unset
                                                => Shown'[f] = Shown[f]
                      /\ store[DebugRef] = file[DebugRef] /\ file[DebugRef] # Unset
                            => DebugEnabled' = DebugEnabled
    OBVIOUS
  <2>1. SecretsOK' /\ \A f \in FieldSet : store'[f] = file[f]
    BY <1>1, StartStep DEF ObsInv, SecretsOK
  <2>2. ASSUME NEW f \in FieldSet, store[f] = file[f], file[f] # Unset
        PROVE  Shown'[f] = Shown[f]
    <3>1. Shown[f] = file[f]
      BY <1>1, <2>2, ShownIs DEF ObsInv, SecretsOK, SecretOrEnv
    <3>2. Shown'[f] = file[f]
      BY <2>1, <2>2, ShownIsNext DEF SecretsOK, SecretOrEnv
    <3> QED BY <3>1, <3>2
  <2>3. ASSUME store[DebugRef] = file[DebugRef], file[DebugRef] # Unset
        PROVE  DebugEnabled' = DebugEnabled
    <3>1. Get(DebugRef) = file[DebugRef]
      BY <1>1, <2>3, GetIsStore, FieldsAreRefs DEF ObsInv, SecretsOK
    <3>2. Load(file, FieldSet, Keep)
      BY <2>3 DEF Start
    <3>3. store'[DebugRef] = file[DebugRef] /\ cache'[DebugRef] = Unset
      BY <3>2, KeepIsSettable, FieldsAreRefs DEF Load, Over
    <3>4. Get(DebugRef)' = file[DebugRef]
      BY <3>3 DEF Get
    <3> QED BY <2>3, <3>1, <3>4 DEF DebugEnabled
  <2> QED BY <2>2, <2>3
<1> QED BY <1>1, Invariance, PTL DEF Spec, SavedSettingsSurvive

\* With a key in the file nothing turns the tracer off: not a save that leaves
\* the key blank, not a failed one, not a restart after half of one.
THEOREM TracerStaysOn == Spec => TracingStaysOn
<1>1. ASSUME ObsInv, [Next]_vars
      PROVE  tracer # Off /\ file[Key] # Unset => tracer' # Off
  BY <1>1, NextStep
<1> QED BY <1>1, Invariance, PTL DEF Spec, TracingStaysOn
=============================================================================
