----------------------------- MODULE Onboarding -----------------------------
(***************************************************************************)
(* The onboarding wizard: pages/OnboardingWizard.tsx and its endpoints     *)
(* under /onboarding, over the foundations document and the local secrets. *)
(*                                                                         *)
(* The wizard sends one request at a time, and nobody else changes the     *)
(* document meanwhile (module Foundations has concurrent writers).  A      *)
(* request may be refused, fail half way, or succeed with its response     *)
(* lost; the page may be loaded anew and the server restarted at any       *)
(* moment.  A request that is refused changes nothing on either side, and  *)
(* is left out.  "bridge" stands for the network and storage sections, the *)
(* Token ID for the whole token, "key" for the provider and its API key.   *)
(***************************************************************************)
EXTENDS LocalSecrets, Naturals

CONSTANTS Hosts, Ids, Bridges, Tenants, Key   \* what the operator may type

ASSUME OnboardingAssumption ==
    /\ Refs = {"token", "key"}
    /\ Unset \notin Hosts \cup Ids \cup Bridges \cup Tenants \cup {Key}

VARIABLES
    doc,       \* the committed foundations document
    step,      \* the page's step, 0 .. 7
    form,      \* what its fields show
    pasted,    \* a Token Secret has been pasted
    typed,     \* an API key has been typed
    tokenSet,  \* status.proxmox.api_token_set
    checked,   \* `checks` of the last validation are there
    ok,        \* summaryOk
    loose,     \* history: fields that have left the page's control (see Drift)
    lost       \* history: a restart lost secrets since the last validation

page == <<step, form, pasted, typed, tokenSet, checked, ok>>
vars == <<secretVars, doc, page, loose, lost>>

Ready == 7
Values(f) == CASE f = "host" -> Hosts [] f = "id" -> Ids
               [] f = "bridge" -> Bridges [] f = "tenant" -> Tenants
FieldAt(s) == CASE s = 0 -> "host" [] s = 1 -> "id" [] s = 3 -> "bridge"
                [] s = 5 -> "tenant" [] OTHER -> "none"

-----------------------------------------------------------------------------
(* What the server says of a document d and secrets s                      *)

\* present_foundations
IsTokenSet(d, s) == d.ref /\ s["token"] # Unset

\* present_status: the Token ID is the stored token's, or else the document's.
Saved(d, s) ==
    [host |-> d.host, bridge |-> d.bridge, tenant |-> d.tenant,
     id |-> IF IsTokenSet(d, s) THEN s["token"] ELSE d.id]

\* onboarding_needed
Needed(d, s) ==
    ~(d.tenant # Unset /\ d.host # Unset /\ IsTokenSet(d, s) /\ s["key"] # Unset)

\* Mistake: the API key is not one of the required checks.
SummaryWithoutKey(d, s, accepted) ==
    d.tenant # Unset /\ d.host # Unset /\ IsTokenSet(d, s) /\ accepted

\* summary_ok over run_summary_probes: tenant, llm_key and proxmox_api, which
\* asks the host whether it accepts the token.
SummaryOk(d, s, accepted) ==
    /\ d.tenant # Unset /\ s["key"] # Unset
    /\ d.host # Unset /\ IsTokenSet(d, s) /\ accepted

\* discovered_defaults: fills what is empty with what the host answered.
Filled(d, found) == IF d.bridge = Unset THEN [d EXCEPT !.bridge = found] ELSE d

-----------------------------------------------------------------------------
(* The page                                                                *)

\* The fields whose value on the page is not the saved one.
Drift(f, saved) == {x \in DOMAIN f : f[x] # saved[x]}

Advance == IF checked /\ step < 6 THEN Ready ELSE step + 1

\* The response arrives: `new` is what the fields show then.
Answered(new) ==
    /\ step' = Advance /\ form' = new
    /\ loose' = loose \cap Drift(new, Saved(doc', store'))
    /\ UNCHANGED lost

\* It does not: an error is shown, and the step stays.
Unanswered ==
    /\ loose' = loose \cup Drift(form, Saved(doc', store'))
    /\ UNCHANGED <<page, lost>>

\* mergeStatus never takes back that a token is set; step 5 and 6 do.
Merge == tokenSet' = (tokenSet \/ IsTokenSet(doc', store'))
Replace == tokenSet' = IsTokenSet(doc', store')

-----------------------------------------------------------------------------
(* Continue, step by step: the handler and its response                    *)

\* The sections that are sent as they are
SendField(f) ==
    /\ doc' = [doc EXCEPT ![f] = form[f]]
    /\ UNCHANGED secretVars
    /\ \/ Answered(form) /\ UNCHANGED <<pasted, typed, checked, ok>>
          /\ IF f = "tenant" THEN Replace ELSE Merge
       \/ Unanswered

\* POST /onboarding/proxmox with a host: it must be there and reachable.
HostStep == step = 0 /\ form.host # Unset /\ SendField("host")

\* The Token ID is not sent before the secret.
IdStep ==
    /\ step = 1
    /\ step' = Advance
    /\ loose' = loose \cup Drift(form, Saved(doc, store))
    /\ UNCHANGED <<secretVars, doc, form, pasted, typed, tokenSet, checked, ok, lost>>

\* save_proxmox_token: the token is stored before the document is saved.  With
\* none sent, the stored one is used, also when the document does not name it.
TokenDocument ==
    IF pasted THEN [doc EXCEPT !.ref = TRUE, !.id = form.id]
    ELSE [doc EXCEPT !.ref = TRUE]

KeepToken ==
    IF pasted THEN form.id # Unset /\ SetAll([r \in {"token"} |-> form.id])
    ELSE store["token"] # Unset /\ SetAll(Keep)

\* Mistake: the form takes what was discovered, not what was saved.
AfterDiscoveryShowsFound(found) ==
    [form EXCEPT !.id = Saved(doc', store').id,
                 !.bridge = IF found # Unset THEN found ELSE @]

\* The fields after the token step
AfterDiscovery(found) ==
    [form EXCEPT !.id = Saved(doc', store').id,
                 !.bridge = IF doc'.bridge # Unset THEN doc'.bridge ELSE @]

\* POST /onboarding/proxmox with discovery: the probe fails and there is none,
\* or the inventory is read, or reading it raises and the session rolls back.
TokenStep ==
    /\ step = 2 /\ (pasted \/ tokenSet)
    /\ \/ /\ KeepToken
          /\ \E found \in Bridges \cup {Unset} :
                /\ doc' = Filled(TokenDocument, found)
                /\ \/ /\ Answered(AfterDiscovery(found)) /\ Merge
                      /\ pasted' = FALSE /\ UNCHANGED <<typed, checked, ok>>
                   \/ Unanswered
       \/ KeepToken /\ UNCHANGED doc /\ Unanswered
       \/ /\ pasted /\ form.id # Unset
          /\ SetFails(Keep, [r \in {"token"} |-> form.id])
          /\ UNCHANGED doc /\ Unanswered

\* POST /onboarding/network: any value, the empty one included
NetworkStep == step = 3 /\ SendField("bridge")

\* POST /onboarding/provider: without a key the saved one is checked again.
ProviderStep ==
    /\ step = 4
    /\ UNCHANGED doc
    /\ \/ /\ IF typed THEN SetAll([r \in {"key"} |-> Key])
             ELSE store["key"] # Unset /\ SetAll(Keep)
          /\ \/ Answered(form) /\ typed' = FALSE /\ UNCHANGED <<pasted, tokenSet, checked, ok>>
             \/ Unanswered
       \/ typed /\ SetFails(Keep, [r \in {"key"} |-> Key]) /\ Unanswered

\* POST /onboarding/tenant
TenantStep == step = 5 /\ form.tenant # Unset /\ SendField("tenant")

\* POST /onboarding/intent and then /onboarding/complete
ValidateStep ==
    /\ step = 6
    /\ UNCHANGED <<secretVars, doc, form, pasted, typed>>
    /\ \E accepted \in BOOLEAN : ok' = SummaryOk(doc, store, accepted)
    /\ checked' = TRUE /\ step' = Ready /\ lost' = FALSE
    /\ loose' = loose \cap Drift(form, Saved(doc, store))
    /\ Replace

-----------------------------------------------------------------------------
(* The operator and the environment                                        *)

Edit ==
    /\ \/ /\ FieldAt(step) # "none"
          /\ \E v \in Values(FieldAt(step)) \cup {Unset} : form' = [form EXCEPT ![FieldAt(step)] = v]
          /\ UNCHANGED <<pasted, typed>>
       \/ step = 2 /\ pasted' = ~pasted /\ UNCHANGED <<form, typed>>
       \/ step = 4 /\ typed' = ~typed /\ UNCHANGED <<form, pasted>>
    /\ UNCHANGED <<secretVars, doc, step, tokenSet, checked, ok, loose, lost>>

\* Back keeps what was typed, and does not save it.
Back ==
    /\ step \in 1 .. 6
    /\ step' = step - 1
    /\ loose' = loose \cup Drift(form, Saved(doc, store))
    /\ UNCHANGED <<secretVars, doc, form, pasted, typed, tokenSet, checked, ok, lost>>

\* A row of the review opens its step.
Review ==
    /\ step = Ready
    /\ \E s \in 0 .. 6 : step' = s
    /\ UNCHANGED <<secretVars, doc, form, pasted, typed, tokenSet, checked, ok, loose, lost>>

\* The wizard is opened again and reads GET /onboarding/status.
Open ==
    /\ step' = 0 /\ form' = Saved(doc, store)
    /\ pasted' = FALSE /\ typed' = FALSE /\ checked' = FALSE /\ ok' = FALSE
    /\ tokenSet' = IsTokenSet(doc, store)
    /\ loose' = {} /\ lost' = FALSE
    /\ UNCHANGED <<secretVars, doc>>

Restart ==
    /\ Load(file, {}, Keep)
    /\ lost' = (lost \/ store # file)
    /\ loose' = loose \cup (IF store # file THEN Drift(form, Saved(doc, file)) ELSE {})
    /\ UNCHANGED <<doc, page>>

Init ==
    /\ SecretsInit
    /\ doc = [host |-> Unset, ref |-> FALSE, id |-> Unset, bridge |-> Unset, tenant |-> Unset]
    /\ step = 0 /\ form = Saved(doc, store)
    /\ pasted = FALSE /\ typed = FALSE /\ tokenSet = FALSE /\ checked = FALSE /\ ok = FALSE
    /\ loose = {} /\ lost = FALSE

Next ==
    \/ HostStep \/ IdStep \/ TokenStep \/ NetworkStep \/ ProviderStep
    \/ TenantStep \/ ValidateStep
    \/ Edit \/ Back \/ Review \/ Open \/ Restart

Spec == Init /\ [][Next]_vars
-----------------------------------------------------------------------------
\* "Ready" is true: the application would not open the wizard again, now or
\* after a restart, unless that restart lost a secret whose write had failed
\* (summary_ok and onboarding_needed look at different things).
ReadyMeansDone ==
    step = Ready /\ ok => ~Needed(doc, store) \/ lost

\* The review shows what is saved, but for fields that were left unsaved with
\* Back, a Token ID that never was sent, a lost response or a lost secret.
ReviewShowsSaved == step = Ready => Drift(form, Saved(doc, store)) \subseteq loose
=============================================================================
