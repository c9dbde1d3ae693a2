----------------------------- MODULE MCRuntime -----------------------------
EXTENDS LlmRuntime, TLC
CONSTANTS r1, r2
MCVendors == {"anthropic", "openai", "gemini"}
MCAccepted == ("anthropic" :> {"ant"}) @@ ("openai" :> {"oai"}) @@ ("gemini" :> {"oai"})
MCCatalogue == ("anthropic" :> {"haiku"}) @@ ("openai" :> {"mini", "gpt"}) @@ ("gemini" :> {"flash"})
MCDefault == ("anthropic" :> "haiku") @@ ("openai" :> "mini") @@ ("gemini" :> "flash")
MCRegistry == <<[id |-> "intake", provider |-> "openai", model |-> "mini"]>>
Symmetry == Permutations(Requests)
=============================================================================
