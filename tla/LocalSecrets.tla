---------------------------- MODULE LocalSecrets ----------------------------
(***************************************************************************)
(* LocalSecretsClient: secrets in memory, in one JSON file, and in the TTL *)
(* cache that SecretsClient.get keeps in front of _fetch.  A reference     *)
(* with no value and one with an empty value are the same to every reader  *)
(* (_fetch raises SecretNotFoundError for both): both are Unset here.      *)
(*                                                                         *)
(* A handler that stores several references does it in one asyncio step,   *)
(* one `set` after another.  So what matters is how far it got: all of     *)
(* them, or a `set` whose write of the file raised (the memory of that one *)
(* has changed, the file has not), or a process that died in between.      *)
(***************************************************************************)
CONSTANTS Refs,     \* the references the program uses
          Unset     \* no value, or an empty one

VARIABLES store,    \* _store, in memory
          file,     \* what the JSON file holds
          cache     \* _cache without the entries that have expired

secretVars == <<store, file, cache>>

NoSecrets == [r \in Refs |-> Unset]

SecretsInit == store = NoSecrets /\ file = NoSecrets /\ cache = NoSecrets

\* No reference at all
Keep == [r \in {} |-> Unset]

\* f after the references in the domain of `new` were set
Over(new, f) == [r \in Refs |-> IF r \in DOMAIN new THEN new[r] ELSE f[r]]

\* SecretsClient.get
Get(r) == IF cache[r] # Unset THEN cache[r] ELSE store[r]

\* What `get` leaves in the cache; a missing value is not cached.
Cached(R) == [r \in Refs |-> IF r \in R THEN Get(r) ELSE cache[r]]

\* The pop in `set`
PoppedNothing(R) == cache   \* mutant: `set` leaves the cache alone
Popped(R) == [r \in Refs |-> IF r \in R THEN Unset ELSE cache[r]]

\* Mutant: `set` without _persist
SetAllInMemory(new) ==
    store' = Over(new, store) /\ file' = file /\ cache' = Popped(DOMAIN new)

\* Every `set` of the handler succeeds.  _persist writes the whole memory,
\* what an earlier failed write left behind included.
SetAll(new) ==
    /\ store' = Over(new, store)
    /\ file' = IF DOMAIN new = {} THEN file ELSE Over(new, store)
    /\ cache' = Popped(DOMAIN new)

\* The references in `done` were set, then writing the file for `last` raised.
SetFails(done, last) ==
    /\ store' = Over(last, Over(done, store))
    /\ file' = IF DOMAIN done = {} THEN file ELSE Over(done, store)
    /\ cache' = Popped(DOMAIN done \cup DOMAIN last)

\* A new process: LocalSecretsClient(path) reads the file `f` it finds, start-up
\* reads R, and then sets `seed`.
Load(f, R, seed) ==
    /\ store' = Over(seed, f)
    /\ file' = Over(seed, f)
    /\ cache' = [r \in Refs |-> IF r \in R \ DOMAIN seed THEN f[r] ELSE Unset]

\* A reader asks for one reference; its entry expires.
Look(r) == cache' = Cached({r}) /\ UNCHANGED <<store, file>>
Expire(r) == cache[r] # Unset /\ cache' = Popped({r}) /\ UNCHANGED <<store, file>>

-----------------------------------------------------------------------------
\* No reader is given a value that has been replaced: whatever the cache still
\* holds is what the memory holds (SecretsClient.get trusts an unexpired entry,
\* so `set` has to drop it before anybody can ask again).
CacheAgrees == \A r \in Refs : cache[r] \in {Unset, store[r]}
=============================================================================
