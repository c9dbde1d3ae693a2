-------------------------- MODULE OnboardingProofs --------------------------
(***************************************************************************)
(* Theorems about Onboarding, for whatever hosts, tokens, bridges and      *)
(* tenants the operator may type.                                          *)
(***************************************************************************)
EXTENDS Onboarding, TLAPS

Inputs == {"host", "id", "bridge", "tenant"}

Documents == [host : Hosts \cup {Unset}, ref : BOOLEAN, id : Ids \cup {Unset},
              bridge : Bridges \cup {Unset}, tenant : Tenants \cup {Unset}]
Forms == [host : Hosts \cup {Unset}, id : Ids \cup {Unset},
          bridge : Bridges \cup {Unset}, tenant : Tenants \cup {Unset}]

IsSecret(f) ==
  /\ f \in [Refs -> Ids \cup {Key, Unset}]
  /\ f["token"] \in Ids \cup {Unset}

TypeInv ==
  /\ doc \in Documents /\ form \in Forms
  /\ IsSecret(store) /\ IsSecret(file)
  /\ step \in 0 .. 7
  /\ pasted \in BOOLEAN /\ typed \in BOOLEAN /\ checked \in BOOLEAN /\ ok \in BOOLEAN

\* The step whose field may have been edited aside, what is not loose is saved.
Kept(F, s, saved, L) == \A f \in Inputs : f \notin L /\ f # FieldAt(s) => F[f] = saved[f]

\* A good summary stays true, and the page agrees with what is saved: each
\* property is of step 7 only, and what leads there has to be known as well.
OnboardingInv ==
  /\ TypeInv
  /\ ok => ~Needed(doc, store) \/ lost
  /\ Kept(form, step, Saved(doc, store), loose)

-----------------------------------------------------------------------------
\* What the fields are compared with is a form itself.
LEMMA SavedIsForm ==
  ASSUME NEW d \in Documents, NEW s, IsSecret(s) PROVE Saved(d, s) \in Forms
<1>1. IsTokenSet(d, s) => s["token"] \in Ids
  BY DEF IsTokenSet, IsSecret
<1>2. d.host \in Hosts \cup {Unset} /\ d.id \in Ids \cup {Unset}
      /\ d.bridge \in Bridges \cup {Unset} /\ d.tenant \in Tenants \cup {Unset}
  BY DEF Documents
<1> QED BY <1>1, <1>2 DEF Saved, Forms

LEMMA DriftOfForm ==
  ASSUME NEW F \in Forms, NEW saved
  PROVE  Drift(F, saved) = {f \in Inputs : F[f] # saved[f]}
<1>1. DOMAIN F = Inputs
  BY DEF Forms, Inputs
<1> QED BY <1>1 DEF Drift

\* A document and secrets that have all that others had are no less complete.
LEMMA StaysDone ==
  ASSUME NEW d, NEW s, NEW d2, NEW s2,
         d.tenant # Unset => d2.tenant # Unset, d.host # Unset => d2.host # Unset,
         d.ref => d2.ref, s["token"] # Unset => s2["token"] # Unset,
         s["key"] # Unset => s2["key"] # Unset,
         ~Needed(d, s)
  PROVE  ~Needed(d2, s2)
  BY DEF Needed, IsTokenSet

\* A write of one secret, the file's fate aside.
LEMMA OverToken ==
  ASSUME NEW f, IsSecret(f), NEW i \in Ids
  PROVE  /\ IsSecret(Over([r \in {"token"} |-> i], f))
         /\ Over([r \in {"token"} |-> i], f)["token"] = i
         /\ Over([r \in {"token"} |-> i], f)["key"] = f["key"]
  BY OnboardingAssumption DEF Over, Keep, IsSecret

LEMMA OverKey ==
  ASSUME NEW f, IsSecret(f)
  PROVE  /\ IsSecret(Over([r \in {"key"} |-> Key], f))
         /\ Over([r \in {"key"} |-> Key], f)["key"] = Key
         /\ Over([r \in {"key"} |-> Key], f)["token"] = f["token"]
         /\ Over(Keep, f) = f
  BY OnboardingAssumption DEF Over, Keep, IsSecret

-----------------------------------------------------------------------------
(* What each kind of step leaves of Kept                                   *)

LEMMA AnsweredKeeps ==
  ASSUME NEW new \in Forms, Answered(new),
         \A f \in Inputs : f \notin loose => new[f] = Saved(doc', store')[f]
  PROVE  Kept(form', step', Saved(doc', store'), loose')
<1>1. form' = new /\ loose' = loose \cap {f \in Inputs : new[f] # Saved(doc', store')[f]}
  BY DriftOfForm DEF Answered
<1> QED BY <1>1 DEF Kept

LEMMA UnansweredKeeps ==
  ASSUME form \in Forms, Unanswered
  PROVE  Kept(form', step', Saved(doc', store'), loose')
<1>1. form' = form /\ loose' = loose \cup {f \in Inputs : form[f] # Saved(doc', store')[f]}
  BY DriftOfForm DEF Unanswered, page
<1> QED BY <1>1 DEF Kept

-----------------------------------------------------------------------------
(* One lemma per action                                                    *)

LEMMA SendFieldKeeps ==
  ASSUME OnboardingInv, NEW f \in {"host", "bridge", "tenant"}, f = FieldAt(step),
         f \in {"host", "tenant"} => form[f] # Unset, step \in 0 .. 5, SendField(f)
  PROVE  OnboardingInv'
<1> USE DEF OnboardingInv
<1>1. doc' = [doc EXCEPT ![f] = form[f]] /\ store' = store /\ file' = file
  BY DEF SendField, secretVars
<1>2. doc' \in Documents
  BY <1>1 DEF TypeInv, Documents, Forms
<1>3. \A g \in Inputs : g \notin loose => form[g] = Saved(doc', store')[g]
  <2>1. \A g \in Inputs \ {f} : Saved(doc', store')[g] = Saved(doc, store)[g]
    BY <1>1 DEF Saved, IsTokenSet, TypeInv, Documents, Inputs
  <2>2. Saved(doc', store')[f] = form[f]
    BY <1>1 DEF Saved, TypeInv, Documents
  <2>3. \A g \in Inputs \ {f} : g \notin loose => form[g] = Saved(doc, store)[g]
    BY DEF Kept
  <2> QED BY <2>1, <2>2, <2>3
<1>4. ~Needed(doc, store) => ~Needed(doc', store')
  <2>1. doc.tenant # Unset => doc'.tenant # Unset
    BY <1>1 DEF TypeInv, Documents
  <2>2. doc.host # Unset => doc'.host # Unset
    BY <1>1 DEF TypeInv, Documents
  <2>3. doc.ref => doc'.ref
    BY <1>1 DEF TypeInv, Documents
  <2>4. store' = store
    BY <1>1
  <2> QED BY <2>1, <2>2, <2>3, <2>4 DEF Needed, IsTokenSet
<1>5. CASE Answered(form) /\ UNCHANGED <<pasted, typed, checked, ok>>
  <2>1. Kept(form', step', Saved(doc', store'), loose')
    BY <1>3, <1>5, AnsweredKeeps DEF TypeInv
  <2>2. TypeInv'
    <3>1. step' \in 0 .. 7 /\ form' = form
      BY <1>5 DEF Answered, Advance, Ready
    <3> QED BY <1>1, <1>2, <1>5, <3>1 DEF TypeInv, IsSecret
  <2>3. ok' = ok /\ lost' = lost
    BY <1>5 DEF Answered
  <2> QED BY <1>4, <2>1, <2>2, <2>3
<1>6. CASE Unanswered
  <2>1. Kept(form', step', Saved(doc', store'), loose')
    BY <1>6, UnansweredKeeps DEF TypeInv
  <2>2. TypeInv' /\ ok' = ok /\ lost' = lost
    BY <1>1, <1>2, <1>6 DEF TypeInv, Unanswered, page, IsSecret
  <2> QED BY <1>4, <2>1, <2>2
<1> QED BY <1>5, <1>6 DEF SendField

LEMMA TokenStepKeeps == ASSUME OnboardingInv, TokenStep PROVE OnboardingInv'
<1> USE DEF OnboardingInv
<1>0. step = 2 /\ FieldAt(step) = "none" /\ (\A f \in Inputs : f # FieldAt(step))
  BY DEF TokenStep, FieldAt, Inputs
<1>1. ASSUME KeepToken
      PROVE  /\ IsSecret(store') /\ IsSecret(file') /\ store'["token"] # Unset
             /\ store'["key"] = store["key"]
             /\ (~pasted => store' = store)
             /\ (pasted => form.id \in Ids /\ store'["token"] = form.id)
  <2>1. CASE pasted
    <3>1. form.id \in Ids
      BY <1>1, <2>1 DEF KeepToken, TypeInv, Forms
    <3>2. store' = Over([r \in {"token"} |-> form.id], store) /\ file' = store'
      BY <1>1, <2>1 DEF KeepToken, SetAll
    <3>3. IsSecret(store') /\ store'["token"] = form.id /\ store'["key"] = store["key"]
      BY <3>1, <3>2, OverToken DEF TypeInv
    <3>4. form.id # Unset
      BY <3>1, OnboardingAssumption
    <3>5. IsSecret(file')
      BY <3>2, <3>3 DEF IsSecret
    <3> QED BY <2>1, <3>1, <3>3, <3>4, <3>5
  <2>2. CASE ~pasted
    <3>1. store["token"] # Unset /\ store' = Over(Keep, store) /\ file' = file
      BY <1>1, <2>2 DEF KeepToken, SetAll, Keep
    <3>2. store' = store
      BY <3>1, OverKey DEF TypeInv
    <3> QED BY <2>2, <3>1, <3>2 DEF TypeInv
  <2> QED BY <2>1, <2>2
<1>2. ASSUME KeepToken, UNCHANGED doc PROVE ~Needed(doc, store) => ~Needed(doc', store')
  BY <1>1, <1>2, StaysDone
<1>3. CASE KeepToken /\ UNCHANGED doc /\ Unanswered
  <2>1. Kept(form', step', Saved(doc', store'), loose')
    BY <1>3, UnansweredKeeps DEF TypeInv
  <2>2. TypeInv' /\ ok' = ok /\ lost' = lost
    BY <1>1, <1>3 DEF TypeInv, Unanswered, page
  <2> QED BY <1>2, <1>3, <2>1, <2>2
<1>4. CASE /\ pasted /\ form.id # Unset
           /\ SetFails(Keep, [r \in {"token"} |-> form.id])
           /\ UNCHANGED doc /\ Unanswered
  <2>1. form.id \in Ids
    BY <1>4 DEF TypeInv, Forms
  <2>2. file' = file /\ store' = Over([r \in {"token"} |-> form.id], Over(Keep, store))
    BY <1>4 DEF SetFails, Keep
  <2>3. store' = Over([r \in {"token"} |-> form.id], store)
    BY <2>2, OverKey DEF TypeInv
  <2>4. IsSecret(store') /\ store'["token"] = form.id /\ store'["key"] = store["key"]
    BY <2>1, <2>3, OverToken DEF TypeInv
  <2>5. ~Needed(doc, store) => ~Needed(doc', store')
    BY <1>4, <2>4, StaysDone
  <2>6. Kept(form', step', Saved(doc', store'), loose')
    BY <1>4, UnansweredKeeps DEF TypeInv
  <2>7. TypeInv' /\ ok' = ok /\ lost' = lost
    BY <1>4, <2>2, <2>4 DEF TypeInv, Unanswered, page
  <2> QED BY <2>5, <2>6, <2>7
<1>5. ASSUME KeepToken, NEW found \in Bridges \cup {Unset},
             doc' = Filled(TokenDocument, found),
             \/ /\ Answered(AfterDiscovery(found)) /\ Merge
                /\ pasted' = FALSE /\ UNCHANGED <<typed, checked, ok>>
             \/ Unanswered
      PROVE  OnboardingInv'
  <2>1. TokenDocument \in Documents /\ TokenDocument.ref = TRUE
        /\ TokenDocument.host = doc.host /\ TokenDocument.tenant = doc.tenant
        /\ TokenDocument.bridge = doc.bridge
    BY DEF TokenDocument, TypeInv, Documents, Forms
  <2>2. /\ doc' \in Documents /\ doc'.ref = TRUE /\ doc'.host = doc.host
        /\ doc'.tenant = doc.tenant
        /\ doc'.bridge = IF doc.bridge = Unset THEN found ELSE doc.bridge
    BY <1>5, <2>1 DEF Filled, Documents
  <2>3. ~Needed(doc, store) => ~Needed(doc', store')
    BY <1>1, <1>5, <2>2, StaysDone
  <2>4. Saved(doc', store') \in Forms /\ AfterDiscovery(found) \in Forms
    <3>1. Saved(doc', store') \in Forms
      BY <1>1, <1>5, <2>2, SavedIsForm
    <3>2. Saved(doc', store').id \in Ids \cup {Unset}
      BY <3>1 DEF Forms
    <3>3. doc'.bridge \in Bridges \cup {Unset}
      BY <2>2 DEF Documents
    <3> QED BY <3>1, <3>2, <3>3 DEF AfterDiscovery, TypeInv, Forms
  <2>5. CASE Unanswered
    <3>1. Kept(form', step', Saved(doc', store'), loose')
      BY <2>5, UnansweredKeeps DEF TypeInv
    <3>2. TypeInv' /\ ok' = ok /\ lost' = lost
      BY <1>1, <1>5, <2>2, <2>5 DEF TypeInv, Unanswered, page
    <3> QED BY <2>3, <3>1, <3>2
  <2>6. CASE /\ Answered(AfterDiscovery(found))
             /\ pasted' = FALSE /\ UNCHANGED <<typed, checked, ok>>
    <3>1. \A f \in Inputs : f \notin loose => AfterDiscovery(found)[f] = Saved(doc', store')[f]
      <4>1. \A f \in Inputs : f \notin loose => form[f] = Saved(doc, store)[f]
        BY <1>0 DEF Kept
      <4>2. AfterDiscovery(found)["id"] = Saved(doc', store')["id"]
        BY DEF AfterDiscovery, TypeInv, Forms
      <4>3. /\ AfterDiscovery(found)["host"] = form["host"]
            /\ AfterDiscovery(found)["tenant"] = form["tenant"]
            /\ AfterDiscovery(found)["bridge"] = IF doc'.bridge # Unset THEN doc'.bridge
                                                 ELSE form["bridge"]
        BY DEF AfterDiscovery, TypeInv, Forms
      <4>4. /\ Saved(doc', store')["host"] = Saved(doc, store)["host"]
            /\ Saved(doc', store')["tenant"] = Saved(doc, store)["tenant"]
            /\ Saved(doc', store')["bridge"] = doc'.bridge
            /\ Saved(doc, store)["bridge"] = doc.bridge
        BY <2>2 DEF Saved
      <4>5. doc'.bridge = Unset => doc.bridge = Unset
        BY <2>2
      <4>6. "bridge" \notin loose => AfterDiscovery(found)["bridge"] = Saved(doc', store')["bridge"]
        BY <4>1, <4>3, <4>4, <4>5 DEF Inputs
      <4> QED BY <4>1, <4>2, <4>3, <4>4, <4>6 DEF Inputs
    <3>2. Kept(form', step', Saved(doc', store'), loose')
      BY <2>4, <2>6, <3>1, AnsweredKeeps
    <3>3. step' \in 0 .. 7 /\ form' \in Forms /\ lost' = lost
      BY <1>0, <2>4, <2>6 DEF Answered, Advance, Ready
    <3>4. TypeInv'
      BY <1>1, <1>5, <2>2, <2>6, <3>3 DEF TypeInv
    <3> QED BY <2>3, <2>6, <3>2, <3>3, <3>4
  <2> QED BY <1>5, <2>5, <2>6
<1> QED BY <1>3, <1>4, <1>5 DEF TokenStep

LEMMA ProviderStepKeeps == ASSUME OnboardingInv, ProviderStep PROVE OnboardingInv'
<1> USE DEF OnboardingInv
<1>0. step = 4 /\ FieldAt(step) = "none" /\ doc' = doc
  BY DEF ProviderStep, FieldAt
<1>1. /\ IsSecret(store') /\ IsSecret(file') /\ store'["token"] = store["token"]
      /\ store["key"] # Unset => store'["key"] # Unset
  <2>1. CASE typed /\ SetAll([r \in {"key"} |-> Key])
    <3>1. store' = Over([r \in {"key"} |-> Key], store) /\ file' = store'
      BY <2>1 DEF SetAll
    <3> QED BY <3>1, OverKey, OnboardingAssumption DEF TypeInv
  <2>2. CASE SetAll(Keep)
    <3>1. store' = Over(Keep, store) /\ file' = file
      BY <2>2 DEF SetAll, Keep
    <3> QED BY <3>1, OverKey DEF TypeInv
  <2>3. CASE SetFails(Keep, [r \in {"key"} |-> Key])
    <3>1. store' = Over([r \in {"key"} |-> Key], Over(Keep, store)) /\ file' = file
      BY <2>3 DEF SetFails, Keep
    <3> QED BY <3>1, OverKey, OnboardingAssumption DEF TypeInv
  <2> QED BY <2>1, <2>2, <2>3 DEF ProviderStep
<1>2. ~Needed(doc, store) => ~Needed(doc', store')
  BY <1>0, <1>1, StaysDone
<1>3. Saved(doc', store') = Saved(doc, store)
  BY <1>0, <1>1 DEF Saved, IsTokenSet
<1>4. CASE Answered(form) /\ typed' = FALSE /\ UNCHANGED <<pasted, tokenSet, checked, ok>>
  <2>1. \A f \in Inputs : f \notin loose => form[f] = Saved(doc', store')[f]
    BY <1>0, <1>3 DEF Kept, Inputs
  <2>2. Kept(form', step', Saved(doc', store'), loose')
    BY <1>4, <2>1, AnsweredKeeps DEF TypeInv
  <2>3. step' \in 0 .. 7 /\ form' = form /\ lost' = lost
    BY <1>0, <1>4 DEF Answered, Advance, Ready
  <2>4. TypeInv'
    BY <1>0, <1>1, <1>4, <2>3 DEF TypeInv
  <2> QED BY <1>2, <1>4, <2>2, <2>3, <2>4
<1>5. CASE Unanswered
  <2>1. Kept(form', step', Saved(doc', store'), loose')
    BY <1>5, UnansweredKeeps DEF TypeInv
  <2>2. TypeInv' /\ ok' = ok /\ lost' = lost
    BY <1>0, <1>1, <1>5 DEF TypeInv, Unanswered, page
  <2> QED BY <1>2, <2>1, <2>2
<1> QED BY <1>4, <1>5 DEF ProviderStep

LEMMA ValidateStepKeeps == ASSUME OnboardingInv, ValidateStep PROVE OnboardingInv'
<1> USE DEF OnboardingInv
<1>1. step = 6 /\ store' = store /\ file' = file /\ doc' = doc /\ form' = form
      /\ pasted' = pasted /\ typed' = typed /\ step' = 7 /\ checked' = TRUE
  BY DEF ValidateStep, secretVars, Ready
<1>2. ok' \in BOOLEAN /\ (ok' => ~Needed(doc', store'))
  BY <1>1 DEF ValidateStep, SummaryOk, Needed
<1>3. Kept(form', step', Saved(doc', store'), loose')
  <2>1. loose' = loose \cap {f \in Inputs : form[f] # Saved(doc, store)[f]}
    BY DriftOfForm DEF ValidateStep, TypeInv
  <2>2. \A f \in Inputs : f \notin loose => form[f] = Saved(doc, store)[f]
    BY <1>1 DEF Kept, FieldAt, Inputs
  <2> QED BY <1>1, <2>1, <2>2 DEF Kept
<1>4. TypeInv'
  BY <1>1, <1>2 DEF TypeInv, IsSecret
<1> QED BY <1>2, <1>3, <1>4

\* The steps that only change the page
LEMMA PageStepKeeps ==
  ASSUME OnboardingInv, IdStep \/ Edit \/ Back \/ Review \/ Open PROVE OnboardingInv'
<1> USE DEF OnboardingInv
<1>1. store' = store /\ file' = file /\ doc' = doc
  BY DEF IdStep, Edit, Back, Review, Open, secretVars
<1>2. IsSecret(store') /\ IsSecret(file') /\ doc' \in Documents
  BY <1>1 DEF TypeInv
<1>3. ASSUME loose' = loose \cup Drift(form, Saved(doc, store)), form' = form
      PROVE  Kept(form', step', Saved(doc', store'), loose')
  BY <1>1, <1>3, DriftOfForm DEF Kept, TypeInv
<1>4. CASE IdStep
  BY <1>1, <1>2, <1>3, <1>4 DEF IdStep, TypeInv, Advance, Ready
<1>5. CASE Back
  BY <1>1, <1>2, <1>3, <1>5 DEF Back, TypeInv
<1>6. CASE Edit
  <2>1. form' \in Forms
    <3>1. CASE form' = form
      BY <3>1 DEF TypeInv
    <3>2. ASSUME FieldAt(step) # "none", NEW v \in Values(FieldAt(step)) \cup {Unset},
                 form' = [form EXCEPT ![FieldAt(step)] = v]
          PROVE  form' \in Forms
      <4>1. FieldAt(step) \in Inputs
        BY <3>2 DEF FieldAt, Inputs
      <4> QED BY <3>2, <4>1 DEF Values, Forms, TypeInv, Inputs
    <3> QED BY <1>6, <3>1, <3>2 DEF Edit
  <2>2. \A f \in Inputs : f # FieldAt(step) => form'[f] = form[f]
    BY <1>6 DEF Edit, TypeInv, Forms, Inputs
  <2>3. pasted' \in BOOLEAN /\ typed' \in BOOLEAN /\ step' = step /\ checked' = checked
        /\ ok' = ok /\ lost' = lost /\ loose' = loose
    BY <1>6 DEF Edit, TypeInv
  <2>4. Kept(form', step', Saved(doc', store'), loose')
    BY <1>1, <2>2, <2>3 DEF Kept
  <2> QED BY <1>1, <1>2, <2>1, <2>3, <2>4 DEF TypeInv
<1>7. CASE Review
  <2>1. \A f \in Inputs : f # FieldAt(step)
    BY <1>7 DEF Review, Ready, FieldAt, Inputs
  <2> QED BY <1>1, <1>2, <1>7, <2>1 DEF Review, TypeInv, Kept
<1>8. CASE Open
  <2>1. form' = Saved(doc', store') /\ form' \in Forms
    BY <1>1, <1>8, SavedIsForm DEF Open, TypeInv
  <2>2. Kept(form', step', Saved(doc', store'), loose')
    BY <2>1 DEF Kept
  <2>3. step' \in 0 .. 7
    BY <1>8 DEF Open
  <2>4. /\ pasted' \in BOOLEAN /\ typed' \in BOOLEAN /\ checked' \in BOOLEAN
        /\ ok' \in BOOLEAN /\ ~ok'
    BY <1>8 DEF Open
  <2>5. TypeInv'
    BY <1>2, <2>1, <2>3, <2>4 DEF TypeInv
  <2> QED BY <2>2, <2>4, <2>5
<1> QED BY <1>4, <1>5, <1>6, <1>7, <1>8

LEMMA RestartKeeps == ASSUME OnboardingInv, Restart PROVE OnboardingInv'
<1> USE DEF OnboardingInv
<1>1. store' = file /\ file' = file /\ doc' = doc
  BY OverKey DEF Restart, Load, TypeInv
<1>2. TypeInv' /\ ok' = ok /\ form' = form /\ step' = step
  BY <1>1 DEF Restart, page, TypeInv, IsSecret
<1>3. CASE store = file
  BY <1>1, <1>2, <1>3 DEF Restart, Kept
<1>4. CASE store # file
  <2>1. lost' = TRUE
    BY <1>4 DEF Restart
  <2>2. loose' = loose \cup {f \in Inputs : form[f] # Saved(doc, file)[f]}
    BY <1>4, DriftOfForm DEF Restart, TypeInv
  <2> QED BY <1>1, <1>2, <2>1, <2>2 DEF Kept
<1> QED BY <1>3, <1>4

-----------------------------------------------------------------------------
LEMMA InitHolds == Init => OnboardingInv
<1> SUFFICES ASSUME Init PROVE OnboardingInv
  OBVIOUS
<1>1. IsSecret(store) /\ IsSecret(file)
  BY OnboardingAssumption DEF Init, SecretsInit, NoSecrets, IsSecret
<1>2. doc \in Documents
  BY DEF Init, Documents
<1>3. form = Saved(doc, store) /\ form \in Forms
  BY <1>1, <1>2, SavedIsForm DEF Init
<1>4. /\ step \in 0 .. 7
      /\ pasted \in BOOLEAN /\ typed \in BOOLEAN /\ checked \in BOOLEAN /\ ok \in BOOLEAN
      /\ ~ok
  <2>1. step = 0 /\ ~pasted /\ ~typed /\ ~checked /\ ~ok
    BY DEF Init
  <2>2. /\ pasted \in BOOLEAN /\ typed \in BOOLEAN /\ checked \in BOOLEAN
        /\ ok \in BOOLEAN
    BY Zenon DEF Init
  <2> QED BY <2>1, <2>2
<1>5. TypeInv
  BY <1>1, <1>2, <1>3, <1>4 DEF TypeInv
<1>6. Kept(form, step, Saved(doc, store), loose)
  BY <1>3 DEF Kept
<1> QED BY <1>4, <1>5, <1>6 DEF OnboardingInv

LEMMA StepHolds == OnboardingInv /\ [Next]_vars => OnboardingInv'
<1> SUFFICES ASSUME OnboardingInv, [Next]_vars PROVE OnboardingInv'
  OBVIOUS
<1>1. CASE HostStep
  <2>1. FieldAt(step) = "host" /\ form["host"] # Unset /\ SendField("host")
    BY <1>1 DEF HostStep, FieldAt
  <2> QED BY <1>1, <2>1, SendFieldKeeps DEF HostStep
<1>2. CASE NetworkStep
  <2>1. FieldAt(step) = "bridge" /\ SendField("bridge")
    BY <1>2 DEF NetworkStep, FieldAt
  <2> QED BY <1>2, <2>1, SendFieldKeeps DEF NetworkStep
<1>3. CASE TenantStep
  <2>1. FieldAt(step) = "tenant" /\ form["tenant"] # Unset /\ SendField("tenant")
    BY <1>3 DEF TenantStep, FieldAt
  <2> QED BY <1>3, <2>1, SendFieldKeeps DEF TenantStep
<1>4. CASE UNCHANGED vars
  BY <1>4 DEF vars, secretVars, page, OnboardingInv, TypeInv, Kept, Needed, IsTokenSet, IsSecret
<1> QED
  BY <1>1, <1>2, <1>3, <1>4, TokenStepKeeps, ProviderStepKeeps, ValidateStepKeeps,
     PageStepKeeps, RestartKeeps DEF Next

THEOREM OnboardingInvHolds == Spec => []OnboardingInv
BY InitHolds, StepHolds, PTL DEF Spec

\* "Ready" is true for every operator input, order of steps, failure and
\* restart: summary_ok implies that onboarding_needed has nothing to ask for.
THEOREM OnboardingReadyMeansDone == Spec => []ReadyMeansDone
<1>1. OnboardingInv => ReadyMeansDone
  BY DEF OnboardingInv, ReadyMeansDone
<1> QED BY <1>1, OnboardingInvHolds, PTL

\* What the review shows is what is saved, the named exceptions aside.
THEOREM OnboardingReviewShowsSaved == Spec => []ReviewShowsSaved
<1>1. OnboardingInv => ReviewShowsSaved
  <2> SUFFICES ASSUME OnboardingInv, step = Ready
               PROVE  Drift(form, Saved(doc, store)) \subseteq loose
    BY DEF ReviewShowsSaved
  <2>1. \A f \in Inputs : f # FieldAt(step)
    BY DEF Ready, FieldAt, Inputs
  <2> QED BY <2>1, DriftOfForm DEF OnboardingInv, TypeInv, Kept
<1> QED BY <1>1, OnboardingInvHolds, PTL
=============================================================================
