-------------------------- MODULE MCObservability --------------------------
(* Instances of Observability for TLC: a field with a default, and the key. *)
EXTENDS Observability
MCFields == <<"project", "api_key">>
MCDefault == [f \in {"project", "api_key"} |-> IF f = "project" THEN "shed" ELSE Unset]
MCStartEnvs == {[f \in {"project", "api_key"} |-> IF f = "project" THEN "b" ELSE key] : key \in {"a", Unset}}
=============================================================================
