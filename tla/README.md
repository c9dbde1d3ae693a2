# Verification of The Shed

The Shed is a single-process FastAPI server (asyncio, one event loop) with a React client, a Postgres
database, Redis for sessions and a local secrets file. An operator chats with it; a classifier routes each
message to sub-agents; a sub-agent runs a tool-calling loop that must stop and ask before any tool with side
effects. This directory holds the TLA+ models of that program, their TLC runs, and the TLAPS proofs.

Run a model with `tlc -config <cfg> <module>`, a proof with `tlapm <module>Proofs.tla`.

## 1. The system

| Part | Source | State it keeps | Operations |
|---|---|---|---|
| Sub-agent tool loop | `agents/tool_loop.py`, `agents/orchestrator.py` | the `LoopGuard` (round, calls seen, recent results), the transcript | run, pause, resume (approve / decline) |
| Turn lifecycle | `turns/service.py`, `turns/routes.py` | tables `turns`, `pending_turn_approvals`, `turn_sub_agent_results`, `turn_verifications`; each request's uncommitted session | `POST /turns`, `POST /turns/{id}/approvals`, `POST /turns/{id}/verify` |
| Foundations document | `foundations/*` | one JSON row, id 1 of the table `foundations`; the Proxmox token in the secrets store | `PUT /foundations`, `POST /probes/{id}`, the onboarding steps, the agent's tools |
| Bootstrap executor | `bootstrap/tools.py` | none of its own: it commits the session of the turn that called it | ten tools, `install_ssh_key` behind the gate |
| Onboarding | `onboarding/*` | `app.state.proxmox_facts`, the document, the secrets | the wizard's steps, `complete` |
| Secrets and LLM runtime | `secrets/client.py`, `settings/*`, `agents/models.py`, `main.py` | the store, its file and its TTL cache; `llm_client`, `classifier_model` | save a key, assign a model, resolve the model of a call, restart |
| Setup and sessions | `setup/routes.py`, `auth/*`, `bootstrap/operator.py` | `users`, `identities`; sessions in Redis | first-run setup, seeding, login, logout |
| Installer | `bootstrap/install.sh`, `bootstrap/install_state.py` | the container, its `.env`, the host's state file | fresh install, update, delete |
| Probes, discovery, playbooks | `probes/*`, `bootstrap/discovery.py`, `playbooks/*` | none | classify what a host answers; run a fixed list of steps |
| Web client | `frontend/src` | the chat's messages, the open approval card; the wizard's step and fields; the panel's copy of the document | submit, approve, verify; parse the event stream; edit, continue, back, review; save |
| Observability, issues | `observability/*`, `debug/*`, `issues/*` | a ring of events, issue rows; the Galileo settings in secrets, process environment and tracer | record, list; save the settings, toggle |

**How they interact.** A request handler owns one SQLAlchemy session and shares the process's `app.state`
(LLM client, secrets, probe host). `turns` calls the orchestrator, which calls the provider SDK (synchronous:
it blocks the event loop) and the tool executor (asynchronous). The bootstrap executor is built over the
*turn's own session* and commits it. Everything a paused loop needs goes through one row,
`pending_turn_approvals`, and comes back in another HTTP request. The foundations row is written by the UI,
the wizard, the probe route and the agent, each by reading all of it and writing all of it back.

**What makes it hard.** Handlers interleave at every `await` and `yield`; a turn holds a transaction open
across model and tool calls; a tool's effect is not undone by the rollback that follows a failure; a stream
is cancelled wherever its client leaves it; the process can be restarted between any two steps; the guard's
memory must survive a pause in the database. The hazards, each with its line, are in `PROJECT.json`.

**What makes each part correct.** Tool loop: no side effect without an approval of that very call, no call
twice unless its request was rolled back, a bounded number of rounds, an end. Turns: a submitted turn is answered, waiting or being worked on,
each sub-agent it was routed to leaves one result, one question gets one answer, an approved tool runs for
the approval it got. Foundations: a save is not lost to another, a token reference has its token. Runtime: a
model is only ever sent to its own vendor, and no vendor is paired with another's key. Observability: the page
shows what the tracer uses. Wizard: "Ready" is true and the review shows what is saved. Chat: the question on
the page is the one that is answered. Setup and sessions: a session is its user's, an accepted setup's account
can log in, a setup that comes after an operator exists is refused, logout is final. Installer: an interrupted
install can be run again, the password it prints is the one that works, and nothing is destroyed or taken over that was not
announced.

## 2. Modules

| Module | Models | Checked by |
|---|---|---|
| `EffectGate` | abstract: an effect is asked for, then happens or is refused, for good once the answer is committed | `ToolLoop` refines it |
| `ToolLoop` | `LoopGuard`, `_run_loop`, `run_sub_agent`, `resume_sub_agent` | `toolloop`, `toolloop_transcript` |
| `TurnLifecycle` | abstract: none, waiting, final; each question settled once | `Turns` refines it |
| `Turns` | the two streams and verify as concurrent database sessions | `turns_lab`, `turns_concurrent` |
| `Chat` | the chat page and its event-stream reader, composed with `Turns` | `chat` |
| `FoundationsDocument` | abstract: a request changes the fields it is for, at once or not at all | `Foundations` refines it |
| `Foundations` | every writer of the document as a session, the token beside it, the page's copy | `foundations_*` |
| `LocalSecrets` | the secrets store: memory, file, cache | part of the next three |
| `LlmRuntime` | which vendor, key and model a call uses | `runtime` |
| `Observability` | Galileo settings, the tracer, the debug toggle | `observability` |
| `Onboarding` | the wizard's page and its endpoints | `onboarding` |
| `Installer` | `install.sh` on one host, and the first start of what it installs | `install` |
| `Access` | first-run setup, seeding, login, logout, the sessions in Redis | `access` |
| `ToolLoopProofs`, `TurnsProofs`, `FoundationsProofs`, `RuntimeProofs`, `OnboardingProofs`, `ObservabilityProofs`, `InstallerProofs`, `AccessProofs` | theorems; those about `Chat` are the second part of `TurnsProofs` | `tlapm` |
| `MC*` | the instances TLC explores | |

### ToolLoop

`guard` is the `LoopGuard` object, `saved` the committed pending row (its tool call, `guard_snapshot` and
transcript), `response`/`next` the `for tc in response.tool_calls` loop. A call stands for its canonical key (tool name and
canonicalized arguments), which is all `before_call` compares. Each exit of the loop is an action: `ModelAnswers`,
`StopAtMaxRounds`, `StopAtRepeat`, `Pause`, the `Unproductive` disjunct of `ToolReturns`, `Decline`; they leave it
`done`, and `Settle` is the commit of the request it ran in.

The row outlives the answer: `resume_turn` deletes it (`turns/service.py:351`) in the transaction that ends with the request, so
`saved` stays until `Settle`, the next `Pause`, or a tool that commits the session itself (`ToolCommits`, the bootstrap executor).
A raise, a closed stream or a crash before that is `RollBack`: the same question waits again with the same
snapshot, whatever its tool has done, and may be approved again (`resume_sub_agent` does not call `before_call`) or
declined. With no row behind the request, `Fail` ends the loop. One request at a time works on the loop; those that race are in `Turns`.

`line`, `base`, `undone` and `answers` are history: no guard or assignment of the program's own variables reads them. `line` is what the
requests that still count have run and seen, and goes back to `base` with a roll-back; `undone` keeps the side
effects that rolled-back requests had. What is promised of a call, a round or a result is promised on `line`; what is promised
of an approval is promised of everything that happened. `EffectGate` states it as a life cycle: asked, granted or refused; the answer
is undone or it stands; and a question whose answer stands is not asked again.

### Turns

Each request is a process (`req[r]`) with its own session: `newResults` and `newRow` are the rows it has
added and not committed, `read` the pending row it loaded. `db` holds committed rows only; `lock[t]` is the
request whose uncommitted `DELETE` of the pending row makes others wait (Postgres, READ COMMITTED). An action
runs from one `await`/`yield` to the next. `Raise`, `Disconnect` and `Crash` may come at any of these points
and roll back. A run of a sub-agent is one step here (it answers, pauses or raises) because `ToolLoop` models
its inside. `ExecutorCommits` selects the bootstrap profile, where a tool commits the session. `Serial = TRUE`
stands for an operator who waits for one stream's end before answering again.

### Chat

`Chat` EXTENDS `Turns`: the page (`messages`, `card`, `sending`, `responding`, `conversationId`), one `stream`
per request, and the server. `Serve` is each step of `Turns` with the event it yields; a stream's `sent`
holds the events written, `at` how many have been read, `buffer` what no blank line has closed yet. `Receive`
is one chunk: some whole events and possibly the next one up to the middle of its `\r\n`, which is never seen
as a boundary afterwards, so that event is parsed together with the one after it and both are dropped. `End`
is the end of a stream (the rest of the buffer is an event too), `Fail` the handlers' `catch`, `Leave` the wizard
or Deploy in its place, or a reload. Faults (a cut chunk, a failed read, an exception, a crash, leaving) are bounded by
`MaxFaults`. Token text, the status line and progress not tied to a step of `Turns` are left out.

### Foundations

A field of the model is a group of keys that are always set together; its value is the request that set it, so
a lost update or a value out of place is visible. `req[r]` is a request's session: it *arrives* (reads, or takes
the page's copy), a probe result is `Reread`, `Get` looks for the row (INSERT or UPDATE is decided here), `Flush`
waits for the row's lock and may find a `Conflict`, `Commit` stores what the rest of the handler makes of the
document (`Settle`). `Fail` and `Crash` may come at any of these points. `token` is set when the handler calls
`persist_proxmox_api_token`, before any database write, and survives the request. It is in memory first and in the
secrets file (`file`) after; `TokenFails` is a write that raises in between, `OtherSecret` the next successful write of
anything, which puts it in the file after all, and a `Crash` leaves what the file has (`lost` is history: that was nothing).
`panel` is the document as the Foundations page last read it, `edits` what was typed over it and not saved: a Save sends both,
and its answer replaces both; if it fails, the edits stay and go with the next Save. `due` says that the page has been told to read again. SQLAlchemy's identity map is
weak and the callers keep copies only, so every read goes to the database; an UPDATE leaves out a column that
equals what the session loaded. `AgentPatches` are the sets of fields the agent sends: a patch with one Proxmox
key blanks the others (`merge_foundations` replaces sections), so `foundations_serial` and the theorem about it
take patches with whole sections. The page's read is one step; a slow answer overtaken by a later one is not
modelled. The secrets store is a `LocalSecretsClient` with a file, as the bootstrap profile configures it.

### LocalSecrets and LlmRuntime

`store` is the client's memory, `file` the JSON file, `cache` the unexpired entries of the TTL cache. A handler
that stores several references does so without an `await`, so what matters is how far it got: `SetAll`,
`SetFails` (the memory of the reference whose write raised has changed, the file has not) or a process that
died after some of them (`Load` of a file in between).

`LlmRuntime` has the live client, the process's `classifier_model`, the committed overrides and two kinds of
request: turns, which take the client when they arrive and resolve their model after an `await`, and
assignments, which read rows, write them, and then resolve. `Registry` is the list of sub-agents in list order.
`saved` is history: the pair of the last save, or `Torn` once one has failed or been cut off.

### Observability

A save stores the fields of the form in a fixed order and then applies what the page would show to the process
environment and the tracer; `Restart` loads the file a finished or interrupted save has left and starts with
one of `StartEnvs`, the environments the operator may have configured. Values that are missing from the secrets fall back to the
environment, which is itself written by earlier saves: that is the hazard.

### Onboarding

`step`, `form`, `pasted`, `typed`, `tokenSet`, `checked` and `ok` are the wizard's React state; `doc` and the
secrets are the server's. One action is a click on *Continue* with the whole handler behind it and the page's
reaction, in three outcomes: answered, failed half way, or saved with the response lost. `Filled` is
`discovered_defaults`, `SummaryOk` the summary, `Needed` what makes the application open the wizard again. The
network and storage sections are one field, `bridge`; the Proxmox host's replies (token accepted, what was
discovered) are nondeterministic; the intent fields and recorded probe results are left out; the vendor and its
key are one secret here, because `LlmRuntime` has the pair. A refused request changes nothing on either side.
`loose` is history: the fields that have left the page's control (moved away from with *Back* or Continue on
the Token ID, a lost response, a restart that lost a secret) and not been seen to agree with the server since.

### Installer

One action per command or group of commands between which the script cannot be observed: inspect and plan
(`Plans`), `Delete`, `Create`, `Clone`, `WriteEnv`; and for an update `BeginUpdate`, `Backup`, `Remove`,
`CloneAgain`, `Restore`, `Upsert`; then `ComposeUp`, `Reload`, `Persist`, `Finish`. `Interrupt` may come
anywhere: `set -e`, Ctrl-C, a wait that times out. Meanwhile the CT goes down and up (its containers do not come back by
themselves, `/tmp` may be emptied), Postgres initialises its volume with the password of its container, the app seeds the
operator, and guests appear or are destroyed. A secret is named by the run that generated it, so that two
passwords are equal only if one was copied from the other. `run.shown` is what `print_plan` announces. The rules
the script shares with `install_state.py`, which states them as the tested contract, are operators of their own:
`Classified` (`classify_install`), `RecordedOr` (`delete_target_ctid`), `Warning` (`install_plan_warning`) and
`Summary` (`completion_summary`). Not in it: `THESHED_CTID`, `THESHED_HOSTNAME`, `THESHED_IMAGE`, storage and
template selection. The plan is made before the prompt and acted on after it; meanwhile any guest may go, the planned one too, and another take
its VMID. With several Shed CTs the operator types the VMID to upgrade, and `Upgradable` is what `select_ct` accepts: any CT of
the host. `BeginUpdate` checks nothing more: whatever CT is there gets a Shed hostname (`Claimed`). Assumed: one installer at a
time, and nobody destroys the CT a run is at work in. `Finish` compares the running ref for every version;
`verify_running_image` skips that for refs too old to report it.

### Access

A request is a transaction (READ COMMITTED), single Redis commands, and an answer that reaches its browser or is
lost; an action runs from one `await` to the next. A request is also the name of what it makes: its user id and
its session id are new random values. `Holds` says that its row is flushed and not committed; the unique
constraint on `(provider, provider_user_id)` then makes another INSERT of that name wait (`Contended`), and fail
once it is committed (`Taken`). Setup creates its session *before* it commits, so the two may disagree:
`CommitFails`, `RedisFails`, `Lose` and `Crash` may come in between, and each may have had its effect. `Start` is
a start of the process, which seeds the environment's operator if there is none. `late` is history: the setups
that arrived when an operator was committed. Abstracted: argon2 (a password verifies if it is equal), the CSRF
pair and the cookies' flags. Assumed: Redis keeps an acknowledged DEL. The compose files run it with its default snapshots only, so
a hard stop of Redis itself may bring back a session that was logged out shortly before; a stop of the server does not.

## 3. Runs

| Run | Shows | Bounds |
|---|---|---|
| `toolloop` | gate, no repeats, round cap, no spinning, refinement of `EffectGate`, with requests that are rolled back; the loop ends if the operator answers | 4 calls, 2 with side effects, 2 results, 3 rounds, window 3, 2 calls a response |
| `toolloop_transcript` | **violated**: tool_use blocks without results after a pause | the same |
| `turns_lab` | never stranded, one result per match, verifications stand, no run after a decline, refinement of `TurnLifecycle` | 1 turn, 3 approvals, 1 verify, 2 sub-agents, 2 matches, one approval at a time |
| `turns_concurrent` | what holds when approvals of one turn race and tools commit, and that every accepted request ends | 1 turn, 2 approvals, 2 matches, requests overlap |
| `chat` | questions stay answerable, answers go to the question shown, only cut events are lost, the conversation forks only while something is unfinished | 2 turns, 2 answers, 1 sub-agent, 1 fault anywhere |
| `foundations_serial` | lone writers implement `FoundationsDocument`, also with unsaved edits on the page | 3 requests of any kind, 1 probe |
| `foundations_concurrent` | what holds when writers race, fail or are cut off and the secrets file cannot be written, and that nobody waits for the row for ever | 2 requests at once, 2 probes |
| `runtime` | a call's model is its vendor's; memory, file and client are one pair; the cache is never stale | 2 requests, 3 vendors (one without a chat client), 2 keys, 1 sub-agent |
| `observability` | page, environment and tracer agree; settings survive a restart; tracing is not lost | a field with a default and the key, 2 values, environments with and without a key |
| `onboarding` | Ready is true, and the review shows what is saved | 2 hosts, tokens and bridges, 1 tenant |
| `install` | logins and data survive interrupted runs; nothing unannounced is destroyed or taken over | 2 runs, 3 VMIDs, 2 versions |
| `access` | sessions are of their users, accepted setups log in, late ones are refused, logout is final | 3 requests, 2 browsers, 2 names and a blank one, 2 passwords |

`TypeOK` of a module is proved (§4) and not repeated in a run.

**Bounds, and why they are enough.** `MaxRounds` is 3 instead of 8, which the code treats uniformly: the cap, and a window of 3
with a pause before or inside it, still fit; the proofs cover every value. Four calls with two side effects allow two pauses around
executed calls, one more call than rounds, and any number of answers rolled back at any point; a batch of two has a call
before or after the gated one. Turns of one conversation do not touch each other's rows, so one turn
with several requests is where they can interfere. `turns_lab` has three answers one after another: to the question, to the question its resumption asks, and a late one. `turns_concurrent` has the
two that race, with two matches so that the loser can still owe a sub-agent. `chat` has two messages, so that
streams overlap on one page and a conversation can fork, and two answers, so that one can be overtaken; every
position of a single fault is explored; the proofs cover any number of messages, answers and faults. The
foundations document is written by three requests in a row in `foundations_serial` (they differ only in name,
so they are symmetric) and by two at once in `foundations_concurrent`, which states a liveness property and
therefore uses no symmetry; the proofs cover any number. Two requests, and vendors and keys that do not match,
are what `runtime` needs for a stale client; its proofs cover the rest, and those of `onboarding` too. `foundations_serial` has one probe, the token step's; the others
write probes in the same way. `install`
has a run that is cut off and one that repeats it, or one that deletes or takes over what the first has made; three
VMIDs let two Shed CTs and another guest be there at once, so that a foreign VMID can be typed. Its proofs cover any number of both.
`access` has two setups that overlap and a login or logout beside them, or a login, its logout and another login.

**Deadlock** is checked in `runtime`, `observability`, `onboarding` and `access`, whose processes always have a next step. In
`toolloop` a loop that has ended stays so; in the others every request, run or fault happens a bounded number of times, and then the system stops.

**Fairness.** `ToolLoop!FairSpec` assumes only that the server takes its own steps (`LoopStep`): the event
loop runs a ready coroutine, and a model or tool call returns or raises. The operator's answers carry no
fairness, and neither have failures; `TerminatesIfAnswered` has "no pause lasts for ever, and requests are not rolled back for ever" as its hypothesis. `Turns!FairSpec` assumes
weak fairness of what an accepted request does by itself; arrivals, failures, disconnects, crashes and the
executor's commits are unfair. `Foundations!FairSpec` assumes it of a session's own steps (`Proceed`). The other
modules state no liveness: what they wait for (the operator, a network, a container) is nobody's duty.

**A property that is about a loss states its exception**, and each exception is a limitation of the code listed
in section 5: `ReadyMeansDone` excepts secrets whose write failed, `ReviewShowsSaved` the `loose` fields,
`SavedIsLive` a torn save, `RefHasToken` a token that was never in the file and a restart, `EachCallRunsOnce` and
`RunsWithinRounds` what rolled-back requests ran, `ForeignOnlyAsPlanned` the update of a CT that was announced, `SummaryLogsIn` an `.env`
made by an update, `CanRecover` a CT that restarts inside an update, `QuestionsStayAnswerable` a failed stream,
`AnswersWhatWasShown` a hasty click, `ShownIsApplied` a failed save.

## 4. Proofs

`ToolLoopProofs` proves for all `Calls`, `SideEffects`, `Results`, `MaxRounds`, `Window` and `MaxBatch`
satisfying `LoopAssumption` (side effects are calls, "none" is none of them; the numbers are naturals, the window and the batch
positive), with no other assumption, so with roll-backs at any point:

- `LoopTypes`: `[]TypeOK`, with the round counter at most `MaxRounds + 1`;
- `LoopNeedsApproval`, `LoopRunsOnce`, `LoopWithinRounds`, `LoopStopsSpinning`: the four safety invariants;
- `LoopImplementsGate`: `Spec => Gate!Spec`, the refinement of `EffectGate`.

None of the invariants is inductive alone. `LoopInvariant` proves the strengthening: wherever the guard of the
loop currently lives (`guard` while it runs, `saved.snapshot` while it is paused: `Current`), it is *sound* -
its `seen` has at most as many members as its `round` counts - every call of `line` is in `seen`, and a call
being asked about is not in `line`; and the same of `base` and the committed snapshot, to which a roll-back returns. That is what
makes one bound (`MaxRounds`) hold over several requests. `LoopStopsSpinning` rests on a second invariant relating `streak`
to the tail of the guard's `recent`. `LoopImplementsGate` maps each action to a step of the gate or a stutter: `RollBack` to `Undo`,
`Settle` to `Close`, `ToolCommits` to `Keep`.

`TurnsProofs` proves for all sets of requests, sub-agents and every `MaxMatches` satisfying `TurnsAssumption`
(the three kinds of request are disjoint; approvals and sub-agents are finitely many). Three theorems need
nothing else, whatever races, fails, disconnects or crashes, and with tools that commit:

- `Consistency`: `[]Inv`, the types and with them what a request's phase says of its session (`SessionOK`,
  `EndpointOK`), that a row's lock belongs to an open approval of its turn (`LockOK`), that a turn has no rows before
  it is routed (`FreshOK`), and that a row, committed or read, was asked by a request that is over (`RowsOK`);
- `RunsAreApproved`: `EachRunWasApproved`. Its invariant `RunsOwed` counts: a question's tool has run at most as
  often as there are requests that approved that question and are past the point where they run it;
- `MatchesAreKept`: `NoMatchLost`. Its invariant `Kept` says the same of what is on its way: results plus what a
  row, or a request with its own uncommitted results, still owes is never less than what was matched.

The others have a hypothesis because the code does not do it otherwise (§5):

- `TurnsAreNotStranded` assumes that no tool commits; a turn that is not final then has a question (`Asked`);
- `MatchesCountOnce`, `VerificationsAreOfTheAnswer` and `DeclinesStand` assume `Serial`, tools that commit included.
  Their common invariant `SerialInv` says that an open request of a turn is alone, that the turn has no answer,
  and that its row is the one that request read, is gone, or goes with the request's commit. `Exactly`
  is `Kept` with equality;
- `TurnsImplementLifecycle` assumes both, and proves `Spec => ImplementsLifecycle`. `LifeInv` adds that the row
  an open approval read still waits, so that the end of its stream, which is written once, is the question's settlement.

The second part of `TurnsProofs` is about `Chat`, for the same constants and every `MaxFaults`, with no other
assumption (`Serve` has no commit by an executor):

- `ChatConsistency`: `[]ChatInv`; from it follow the four properties of `chat`: `ResponsesAnswerWhatWasShown`,
  `WaitingQuestionsHaveCards`, `OnlyCutsLoseEvents`, `PagesKeepOneConversation`;
- `PageDrivesTurns`: `ChatSpec => Spec`, so that the theorems about `Turns` hold of page and server together.

`ChatInv` contains `Inv`, the types (`PageOK`) and four parts. `StreamsOK`: the buffer is the end of what was read
(`ReadingOK`); the page has seen as many events as have been taken in without a cut, each in its place (`SeenOK`, a
count); the event of a question is written once, while its request asks (`ServedOK`). `ChainOK`: the questions of a
message are a chain, its submission's and then those of the answers clicked on it, each question with at most one answer
and at most one with none; that one is on the card once it is shown. `AnswersInv` is why an answer, which names
only a turn, finds the question it was clicked for: a committed question whose answer has done nothing yet is in the
row, and unlocked (`Awaited`); an answer that read a row read its own question's (`OnIt`) unless it was hasty; and
while it holds the row, no other request changes it. That in turn needs `LastButOne`: whatever still
works on the turn is that question or its answer. `OneConversation` says of every message whose answer may still
come that it goes with the others, and if it is finished, with `conversationId`.

`FoundationsProofs` proves for all `Requests`, `Probes` and `AgentPatches` satisfying `FoundationsAssumption`
(the special values are distinct from requests, probe ids are not other fields):

- `FoundationsTypes`, `RefAlwaysHasToken`, `FailuresLeaveNothing`, `SuccessIsStored`: the properties of
  `foundations_concurrent`, for racing requests, failures and restarts;
- `LoneWritersImplement`: if `Serial` (requests do not overlap and the page is current) and the agent sends whole
  sections, `Spec => ImplementsDocument`.

`WriteForm` is the lemma the rest stands on: all ten writers arrive in one form, an edit of what was read or
shown. `RefInv` adds that no session's copy has a reference without a token in memory, unless a restart has lost one; a failed write of the
file keeps it, because the memory has changed. `Fresh` says that the values of an
unanswered request are in its own copy and nowhere else, not even in what another has loaded; that is why an
UPDATE that leaves out an unchanged document cannot leave out a request's own field, and with `Promised` (the
copy has the fields the request is for) it gives `SuccessIsStored`. `Alone` says that outside its fields the one
active copy is the document.

`RuntimeProofs` proves for every catalogue, registry, set of keys and set of requests satisfying
`RuntimeAssumption` (each vendor's default and each agent's own model is in its provider's catalogue, the
registry is not empty):

- `RuntimeTypes`, `RuntimeCallsMatch`, `RuntimeSavedIsLive`, `RuntimeCacheAgrees`: the types and the
  properties of `runtime`.

Their common invariant is `RuntimeInv`. `TurnsMatch` is why `CallsMatchVendor` holds: the vendor a request *took* and
the model it resolved belong together, whatever the client of the process is by then; `OwnModel` is the lemma about
`resolve_runtime_model` it rests on, and `PickIsRegistered` (a well-founded induction over positions) says that
there always is an agent to go by. `SecretsOK` has the cache's agreement, without which `SavedIsLive` would not
follow a `ReapplyProvider`.

`OnboardingProofs` proves for all `Hosts`, `Ids`, `Bridges` and `Tenants` satisfying `OnboardingAssumption`
(`Unset` is none of the values):

- `OnboardingReadyMeansDone`, `OnboardingReviewShowsSaved`: both properties of `onboarding`.

Both speak of step 7 only, which says nothing about how it is reached. `OnboardingInv` says that a good summary
stays true at any step (no handler makes a complete document incomplete: `StaysDone`), and `Kept`
that every field but the one being edited is saved or `loose`; a request either brings its own field in
line (`AnsweredKeeps`) or makes it loose (`UnansweredKeeps`).

`ObservabilityProofs` proves for every set of fields, values and start environments satisfying
`ObservabilityAssumption` (the key is a field without a default, the debug toggle is not one):

- `PageShowsTheTracer`, `SettingsSurviveRestarts`, `TracerStaysOn`: the three properties of `observability`.

`ObsInv` adds to `ShownIsApplied` that the cache agrees with the store, without which the page could show
an older value than the one applied, and that a key in the file is also in memory (`SecretsOK`): a save that raised
half way may leave memory ahead of the file, never without a key the file has.

`InstallerProofs` proves for all `Vmids`, `Versions`, foreign guests and every `MaxRuns` satisfying
`InstallerAssumption` (the markers are distinct from the values):

- `PrintedLoginsWork`, `UpdatesCanBeRepeated`, `ForeignGuestsByChoice`, `DeletesWhatWasShown`, `YesUpdatesWhatIsThere`:
  the five properties of `install`.

`InstallInv` has three parts besides the types. `RunOK` says, step by step, how far a run has brought its CT: from
which command on `.env`, its copy in `/tmp`, the containers and the root password agree with what the run will
print. `Sound` is what any Shed CT is like, whoever last worked on it, and says that its secrets come from runs that have been:
a new run's cannot collide with them. `Opens` is the database's password. `Asked` remembers of an update that
it is the one that was announced, and who chose it; `NewCtKeeps` is the step that makes a Shed CT of a free VMID or of somebody else's CT.
A lemma on guests (`GuestStep`) says what a step of a run may do to the host.

`AccessProofs` proves for any numbers of requests and browsers, any names and passwords satisfying `AccessAssumption`
(the blank name is one of the names, the seeded user is no request's, `None` is no value):

- `SessionsNameTheirUsers`, `SetupsMakeTheAccount`, `NoLateOperators`, `LogoutIsFinal`: the four properties of `access`.

In `AccessInv`, `SessionOK` allows a session whose user was never committed (setup creates it first), and
`CookiesOK` says that no browser was ever given such a one. `NamesOK` is the unique constraint at work: a flushed name is
nobody else's, committed or flushed. `RowsOK` says that every operator but the seeded one was made by a setup that was not late.

Model-checked only: liveness (`TerminatesIfAnswered`, `ResponsesEnd`, `RequestsEnd`), and the finding of `toolloop_transcript`.
Every other property of a run is stated by a theorem.

## 5. Findings and known limitations

`toolloop_transcript` is the one finding with a run of its own: a pause inside a response of several calls leaves
tool_use blocks that never get a tool_result, which the vendor rejects; the docstring of the pause promises
"everything needed to resume later". `PROJECT.json` has the quotation.

Met while modelling, each the reason for an exception or a precondition of a property:

- Turns. An approved tool runs before the request that deletes its question commits: if anything after it fails, the
  question is back, and the tool runs a second time if it is approved again (`EffectGate!Undo`, then `Grant`), or its effect has happened and is
  declined. With tools that commit (bootstrap profile), such a failure leaves the turn without an answer and without a question. Two answers that read the same pending row both resume the turn. A failed turn leaves no record.
- Foundations. The page does not learn of the agent's writes: its next Save reverts them. When the write of the secrets file
  raises, the token is in memory all the same: the wizard's next step without a token makes a reference to it, and after a restart
  the reference has no token.
- Chat. A click on a question before its commit gets a 404, or resumes the previous question again. A
  chunk boundary between the `\r` and the `\n` of a blank line loses the events on both sides. Leaving the chat for a view that unmounts it loses
  cards and conversation (Settings does not: `Chat` stays mounted under it). A message sent while an earlier one is unfinished opens a second conversation. `sending` is
  cleared by whichever stream ends first.
- Runtime. A save whose second write fails pairs the new vendor with the old key at the next start.
- Observability. A cleared field comes back as long as the process environment has it.
- Onboarding. After a validation, editing a step returns to the review with the old checks. *Back* leaves what
  was not saved shown in the review, and a Token ID edited from there is never sent without a new secret. Another
  host keeps the node and bridge of the first. A PermissionError of the secrets file is reported as a rejected
  token. A key whose write failed works until the next restart.
- Setup. Two setups under different names that overlap both make an operator, although setup is "Refused once
  any identity exists" (`docs/spec/auth.md:54`); `LateSetupsAreRefused` is about setups that arrive after the commit.
- Installer. With several Shed CTs, *upgrade* takes any VMID that is typed: a CT that is not The Shed's is
  shown with its own hostname, and after the confirmation renamed and installed into (`install.sh:394`, `:825`). The same happens without
  a word to a CT that has taken the VMID of the planned one before the confirmation. If the recorded CT is gone and another Shed CT is listed, `--delete` announces that the listed one is destroyed;
  `delete_existing_ct` goes by the record, destroys nothing, and a second CT is created next to it. The `.env` an update has to make gets a root password that is printed and never set
  (`install.sh:847`, `:1019`). An update cut off between removing the directory and restoring `.env` loses the
  database password if the CT restarts before the next run, although "Operator login and data volumes are
  kept" (`install.sh:500`).

## 6. Plan

Done: the core (`ToolLoop`, `Turns`, `Foundations`) with its abstract specifications, then the runtime and its
secrets, observability, the installer, the chat page over `Turns`, the wizard, setup and sessions; and the proofs of
the safety properties of all of them. Left, in order of what matters most:

1. An executor that commits under the chat page, and what the page then shows of a turn that is stranded.
2. The secrets of `Onboarding` as an instance of `LlmRuntime`'s, so that the wizard and Settings write one pair.
3. The lab profile's several clients in `LlmRuntime`.

## 7. Not modelled

Probes, discovery, hostnames and playbooks: pure
classification or a loop over a fixed list, their outcomes arbitrary in the models that use them. The vendor
SDK adapters and the MCP client (their answers are arbitrary values or exceptions), spans and the debug ring (no
other component reads them), issue rows and their redaction, the installer's choice of template and storage, the
login page, the middleware's CSRF check, the migrations (a linear history applied at start-up), styling and layout of the client.
The text of answers, prompts and arguments is abstracted everywhere.

Liveness stays with TLC: the provers here do not reason about fairness or ENABLED. No theorem rests on what a recursive
definition computes; the models use none.
