--------------------------- MODULE Observability ---------------------------
(***************************************************************************)
(* The settings of the tracer (Galileo) and the debug toggle: kept in the  *)
(* local secrets, pushed into the process environment and the tracer       *)
(* factory, read back from the secrets first and the environment second.   *)
(* Every handler here is one asyncio step; a write of the file may raise   *)
(* half way, and the process may restart with another environment.         *)
(***************************************************************************)
EXTENDS LocalSecrets, Naturals, Sequences

CONSTANTS Fields,    \* in the order they are stored: project, host, ...; the key last
          Key,       \* the field that is the API key
          Values,
          Default,   \* field -> DEFAULT_PROJECT, DEFAULT_LOG_STREAM, or Unset
          StartEnvs, \* field -> GALILEO_*, of the environments a process starts with
          Absent,    \* a field the request does not have
          Off        \* the no-op tracer

FieldSet == {Fields[i] : i \in DOMAIN Fields}
DebugRef == "debug"

\* What a reference or a variable of the environment can hold
Words == Values \cup {Unset, "0", "1"} \cup {Default[f] : f \in FieldSet}

ASSUME ObservabilityAssumption ==
    /\ Refs = FieldSet \cup {DebugRef} /\ DebugRef \notin FieldSet /\ Key \in FieldSet
    /\ Default[Key] = Unset
    /\ StartEnvs \subseteq [FieldSet -> Values \cup {Unset}]
    /\ Unset \notin {"0", "1"} /\ Off \notin [FieldSet \ {Key} -> Words]

VARIABLES env,        \* os.environ: GALILEO_API_KEY, GALILEO_CONSOLE_URL, ...
          debugEnv,   \* THESHED_DEBUG of the process
          tracer,     \* what tracer_factory makes: Off, or with which settings
          behind      \* history: a save failed and nothing has been applied since

vars == <<secretVars, env, debugEnv, tracer, behind>>

-----------------------------------------------------------------------------
\* _secret_or_env on the secrets `s` and the environment `e`
EnvOrSecret(s, e, f) ==   \* mutant: the environment first
    IF e[f] # Unset THEN e[f] ELSE IF s[f] # Unset THEN s[f] ELSE Default[f]
SecretOrEnv(s, e, f) == IF s[f] # Unset THEN s[f] ELSE IF e[f] # Unset THEN e[f] ELSE Default[f]

\* read_galileo_settings
Settings(s, e) == [f \in FieldSet |-> SecretOrEnv(s, e, f)]

\* What the page shows
Shown == Settings([r \in Refs |-> Get(r)], env)

\* Mutant: the tracer is left as it was
ApplyEnvOnly(shown, e) ==
    /\ env' = [f \in FieldSet |-> IF shown[f] # Unset THEN shown[f] ELSE e[f]]
    /\ behind' = FALSE /\ UNCHANGED tracer

\* apply_galileo_runtime: a value that is missing leaves the environment as it is.
Apply(shown, e) ==
    /\ env' = [f \in FieldSet |-> IF shown[f] # Unset THEN shown[f] ELSE e[f]]
    /\ tracer' = IF shown[Key] = Unset THEN Off
                 ELSE [f \in FieldSet \ {Key} |-> shown[f]]
    /\ behind' = FALSE

\* write_galileo_settings: the fields that are present; a blank key keeps the key.
StoredBlankKey(form) == {f \in FieldSet : form[f] # Absent}      \* mutant: no `api_key.strip()`
Stored(form) == {f \in FieldSet : form[f] # Absent /\ (f = Key => form[f] # Unset)}
New(form, F) == [f \in F |-> form[f]]

\* POST /settings/galileo
SaveGalileo(form) ==
    /\ SetAll(New(form, Stored(form)))
    /\ Apply(Settings(store', env), env)
    /\ UNCHANGED debugEnv

\* Writing the file raises at one field, after those before it.
SaveGalileoFails(form) ==
    /\ \E i \in DOMAIN Fields :
          /\ Fields[i] \in Stored(form)
          /\ SetFails(New(form, Stored(form) \cap {Fields[j] : j \in 1 .. i - 1}),
                      New(form, {Fields[i]}))
    /\ behind' = TRUE
    /\ UNCHANGED <<env, debugEnv, tracer>>

\* is_enabled: the toggle wins over the environment.
DebugEnabled == IF Get(DebugRef) # Unset THEN Get(DebugRef) = "1" ELSE debugEnv

\* set_enabled
SetDebug(on) ==
    /\ LET new == [r \in {DebugRef} |-> IF on THEN "1" ELSE "0"]
       IN  SetAll(new) \/ SetFails(Keep, new)
    /\ UNCHANGED <<env, debugEnv, tracer, behind>>

\* lifespan: read the file, apply what it says over the environment the process
\* was started with, and make THESHED_DEBUG the toggle if there is none yet.
Start(f, on, e) ==
    /\ Load(f, FieldSet, IF on /\ f[DebugRef] = Unset THEN [r \in {DebugRef} |-> "1"] ELSE Keep)
    /\ debugEnv' = on
    /\ Apply(Settings(f, e), e)

\* A crash may have cut off a save after some of its fields.
Restart ==
    \E on \in BOOLEAN, e \in StartEnvs :
       \/ Start(file, on, e)
       \/ \E form \in [FieldSet -> Values \cup {Unset, Absent}], i \in DOMAIN Fields :
             /\ Fields[i] \in Stored(form)
             /\ Start(Over(New(form, Stored(form) \cap {Fields[j] : j \in 1 .. i}), store), on, e)

Init ==
    /\ SecretsInit
    /\ \E e \in StartEnvs : env = [f \in FieldSet |-> SecretOrEnv(NoSecrets, e, f)]
    /\ debugEnv = FALSE
    /\ tracer = IF env[Key] = Unset THEN Off
                ELSE [f \in FieldSet \ {Key} |-> env[f]]
    /\ behind = FALSE

Next ==
    \/ \E form \in [FieldSet -> Values \cup {Unset, Absent}] :
          SaveGalileo(form) \/ SaveGalileoFails(form)
    \/ \E on \in BOOLEAN : SetDebug(on)
    \/ Restart
    \/ \E r \in Refs : (Look(r) \/ Expire(r)) /\ UNCHANGED <<env, debugEnv, tracer, behind>>

Spec == Init /\ [][Next]_vars
-----------------------------------------------------------------------------
\* What the Settings page shows is what the tracer and the SDK use, unless the
\* last save failed: a value cleared on the page is still shown as long as the
\* environment of the process still has it.
ShownIsApplied ==
    ~behind => /\ \A f \in FieldSet : Shown[f] # Unset => env[f] = Shown[f]
               /\ Shown[Key] = Unset <=> tracer = Off
               /\ tracer # Off => \A f \in DOMAIN tracer : tracer[f] = Shown[f]

\* What is saved survives a restart, whatever environment the new process has:
\* the values in the file are shown again, and a toggle that was switched stays.
SavedSettingsSurvive ==
    [][(\E e \in StartEnvs : Start(file, debugEnv', e)) =>
          /\ \A f \in FieldSet : store[f] = file[f] /\ file[f] # Unset => Shown'[f] = Shown[f]
          /\ store[DebugRef] = file[DebugRef] /\ file[DebugRef] # Unset
                => DebugEnabled' = DebugEnabled]_vars

\* Tracing that is on with a stored key is never switched off again, by a save
\* that leaves the key blank, by a failed one or by a restart.
TracingStaysOn ==
    [][tracer # Off /\ file[Key] # Unset => tracer' # Off]_vars
=============================================================================
