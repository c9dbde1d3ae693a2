------------------------------ MODULE ToolLoop ------------------------------
(***************************************************************************)
(* One sub-agent's tool-calling loop: LoopGuard in agents/tool_loop.py and *)
(* _run_loop, run_sub_agent and resume_sub_agent in agents/orchestrator.py.*)
(*                                                                         *)
(* The model (the LLM) and the tools are the environment: a response is    *)
(* any sequence of tool calls, a tool returns any result or raises.  A     *)
(* call is its canonical key (tool name, canonicalized arguments), which   *)
(* is all the guard compares.  A pause ends the HTTP request: what         *)
(* survives it is the pending row, `saved', and nothing in memory.  The    *)
(* request that answers it deletes the row in its own transaction (turns/  *)
(* service.py), so until that commits a failure brings the same question   *)
(* back, whatever the tool has done by then.  One request at a time works  *)
(* on the loop here; Turns has the requests that race.                     *)
(***************************************************************************)
EXTENDS Integers, Sequences, FiniteSets

CONSTANTS
  Calls,        \* canonical keys of the calls a model may ask for
  SideEffects,  \* the keys whose tool the registry flags has_side_effects
  Results,      \* what a tool may return
  MaxRounds,    \* LoopGuard.max_rounds (8 in the code)
  Window,       \* LoopGuard.unproductive_window (3 in the code)
  MaxBatch      \* bound: the most tool calls in one model response

ASSUME LoopAssumption ==
  /\ SideEffects \subseteq Calls
  /\ "none" \notin Calls
  /\ MaxRounds \in Nat
  /\ Window \in Nat \ {0}
  /\ MaxBatch \in Nat \ {0}

VARIABLES
  pc,        \* where the loop is
  guard,     \* the LoopGuard of the running request
  saved,     \* the committed pending row: the call asked for, guard.snapshot()
             \* and the transcript's unanswered calls
  response,  \* tool calls of the response being worked through
  next,      \* position in it of the next call
  outcome,   \* why the loop ended, or "none"
  orphans,   \* calls the transcript requests and will never answer
  line,      \* history: what the requests that still count have run (NoLine)
  base,      \* history: the line when the pending row was committed, or NoLine
  undone,    \* history: side effects that requests rolled back had run
  answers    \* history: the answers the operator gave to each question

memory == <<guard, response, next, orphans>>
historyVars == <<line, base, undone, answers>>
vars == <<pc, guard, saved, response, next, outcome, orphans,
          line, base, undone, answers>>

-----------------------------------------------------------------------------
(* LoopGuard                                                               *)

FreshGuard == [round |-> 0, seen |-> {}, recent |-> <<>>]

\* Mistake: the cap compared with the count before this call.
ExceedsOneLate(g) == g.round > MaxRounds
Exceeds(g) == g.round + 1 > MaxRounds
Repeats(g, c) == c \in g.seen
\* Mistake: one approval opens the gate for the rest of the loop.
ApprovedForGood(c) ==
  c \in SideEffects /\ \A d \in SideEffects : "approved" \notin answers[d]
NeedsApproval(c) == c \in SideEffects

\* A call the guard refuses still counts as a round.
Counted(g) == [g EXCEPT !.round = @ + 1]
Admitted(g, c) ==
  [round |-> g.round + 1, seen |-> g.seen \cup {c}, recent |-> g.recent]
AfterResult(g, res) == [g EXCEPT !.recent = Append(@, res)]

\* after_result raises: the last Window results are all equal.
Unproductive(g) ==
  LET n == Len(g.recent) IN
  /\ n >= Window
  /\ \A i \in (n - Window + 1) .. n : g.recent[i] = g.recent[n]

\* snapshot() and restore(): every field makes the round trip.
Snapshot(g) == [round |-> g.round, seen |-> g.seen, recent |-> g.recent]
\* Mistakes: a fresh guard on resume; results left out of the round trip.
RestoreNothing(s) == FreshGuard
RestoreNoResults(s) == [round |-> s.round, seen |-> s.seen, recent |-> <<>>]
Restore(s) == [round |-> s.round, seen |-> s.seen, recent |-> s.recent]

-----------------------------------------------------------------------------
(* The loop                                                                *)

NoPending == [call |-> "none", snapshot |-> FreshGuard, orphans |-> {}]
NoResult == "no result yet"
\* How often each call reached the executor (2 = more), the latest result and
\* how often it came in a row.
NoLine == [runs |-> [c \in Calls |-> 0], last |-> NoResult, streak |-> 0]
Outcomes == {"answered", "max_rounds", "repeated", "unproductive",
             "declined", "raised"}
Responses == UNION {[1 .. n -> Calls] : n \in 1 .. MaxBatch}

Init ==
  /\ pc = "model"
  /\ guard = FreshGuard
  /\ saved = NoPending
  /\ response = <<>>
  /\ next = 1
  /\ outcome = "none"
  /\ orphans = {}
  /\ line = NoLine /\ base = NoLine
  /\ undone = {}
  /\ answers = [c \in Calls |-> {}]

\* The loop has its outcome; the request it ran in is not committed yet.
End(why) == pc' = "done" /\ outcome' = why

MarkRun(c) == line' = [line EXCEPT !.runs[c] = IF @ = 0 THEN 1 ELSE 2]

NoteResult(res) ==
  line' = [runs |-> line.runs, last |-> res,
           streak |-> IF res # line.last THEN 1
                      ELSE IF line.streak < Window THEN line.streak + 1
                      ELSE line.streak]

\* llm.complete returns no tool call: its text is the outcome.
ModelAnswers ==
  /\ pc = "model"
  /\ End("answered")
  /\ UNCHANGED <<guard, saved, response, next, orphans, historyVars>>

\* llm.complete asks for calls: the assistant message joins the transcript.
ModelRequests(r) ==
  /\ pc = "model"
  /\ pc' = "calls"
  /\ response' = r
  /\ next' = 1
  /\ UNCHANGED <<guard, saved, outcome, orphans, historyVars>>

\* The request is over: its guard and its transcript go with it.
ForgetMemory ==
  guard' = FreshGuard /\ response' = <<>> /\ next' = 1 /\ orphans' = {}

Considering(c) == pc = "calls" /\ next <= Len(response) /\ c = response[next]

StopAtMaxRounds(c) ==
  /\ Considering(c)
  /\ Exceeds(guard)
  /\ guard' = Counted(guard)
  /\ End("max_rounds")
  /\ UNCHANGED <<saved, response, next, orphans, historyVars>>

StopAtRepeat(c) ==
  /\ Considering(c)
  /\ ~Exceeds(guard)
  /\ Repeats(guard, c)
  /\ guard' = Counted(guard)
  /\ End("repeated")
  /\ UNCHANGED <<saved, response, next, orphans, historyVars>>

\* ApprovalRequired: SubAgentPaused carries the call, the transcript and the
\* guard, and the request commits them as the pending row, in one transaction
\* with the DELETE of the row it answered.  The results of the calls before it
\* in the same response, and the calls after it, are in none of these.
Pause(c) ==
  /\ Considering(c)
  /\ ~Exceeds(guard) /\ ~Repeats(guard, c) /\ NeedsApproval(c)
  /\ pc' = "paused"
  /\ saved' = [call |-> c, snapshot |-> Snapshot(Admitted(guard, c)),
               orphans |-> orphans \cup
                           {response[i] : i \in DOMAIN response \ {next}}]
  /\ ForgetMemory
  /\ base' = line
  /\ UNCHANGED <<outcome, line, undone, answers>>

HandOver(c) ==
  /\ Considering(c)
  /\ ~Exceeds(guard) /\ ~Repeats(guard, c) /\ ~NeedsApproval(c)
  /\ pc' = "executing"
  /\ guard' = Admitted(guard, c)
  /\ MarkRun(c)
  /\ UNCHANGED <<saved, response, next, outcome, orphans,
                 base, undone, answers>>

ToolReturns(res) ==
  /\ pc = "executing"
  /\ guard' = AfterResult(guard, res)
  /\ NoteResult(res)
  /\ \/ /\ Unproductive(guard')
        /\ End("unproductive")
        /\ UNCHANGED next
     \/ /\ ~Unproductive(guard')
        /\ pc' = "calls" /\ next' = next + 1
        /\ UNCHANGED outcome
  /\ UNCHANGED <<saved, response, orphans, base, undone, answers>>

\* Every call of the response has its tool_result: back to the model.
DeliverResults ==
  /\ pc = "calls" /\ next > Len(response)
  /\ pc' = "model" /\ response' = <<>> /\ next' = 1
  /\ UNCHANGED <<guard, saved, outcome, orphans, historyVars>>

-----------------------------------------------------------------------------
(* resume_sub_agent, in the request that answers the approval              *)

\* The guard and the transcript come from the row, the call goes straight to
\* the executor: before_call does not see it again.
Approve ==
  /\ pc = "paused"
  /\ pc' = "resuming"
  /\ guard' = Restore(saved.snapshot)
  /\ orphans' = saved.orphans
  /\ answers' = [answers EXCEPT ![saved.call] = @ \cup {"approved"}]
  /\ MarkRun(saved.call)
  /\ UNCHANGED <<saved, response, next, outcome, base, undone>>

\* Mistake: the declined sub-agent goes back to its model.
DeclineGoesOn ==
  /\ pc = "paused"
  /\ answers' = [answers EXCEPT ![saved.call] = @ \cup {"declined"}]
  /\ guard' = Restore(saved.snapshot)
  /\ orphans' = saved.orphans
  /\ pc' = "model"
  /\ UNCHANGED <<saved, response, next, outcome, line, base, undone>>

Decline ==
  /\ pc = "paused"
  /\ answers' = [answers EXCEPT ![saved.call] = @ \cup {"declined"}]
  /\ End("declined")
  /\ UNCHANGED <<memory, saved, line, base, undone>>

\* The approved call's result is the only one appended to the transcript.
ResumedReturns(res) ==
  /\ pc = "resuming"
  /\ guard' = AfterResult(guard, res)
  /\ NoteResult(res)
  /\ \/ /\ Unproductive(guard')
        /\ End("unproductive")
     \/ /\ ~Unproductive(guard')
        /\ pc' = "model"
        /\ UNCHANGED outcome
  /\ UNCHANGED <<saved, response, next, orphans, base, undone, answers>>

-----------------------------------------------------------------------------
(* The transaction of the request the loop runs in                         *)

\* The turn's answer, or a later sub-agent's pause, is committed, and the
\* DELETE of the pending row with it.
Settle ==
  /\ pc = "done"
  /\ pc' = "ended"
  /\ saved' = NoPending /\ base' = NoLine
  /\ ForgetMemory
  /\ UNCHANGED <<outcome, line, undone, answers>>

\* A tool that commits the session it was given (the bootstrap executor)
\* commits the DELETE half-way.
ToolCommits ==
  /\ pc \in {"executing", "resuming"}
  /\ saved # NoPending
  /\ saved' = NoPending /\ base' = NoLine
  /\ UNCHANGED <<pc, memory, outcome, line, undone, answers>>

\* The model or the tool raises, a later step of the turn fails, the client
\* hangs up or the process dies.  With no row behind it the loop is gone.
Fail ==
  /\ pc \notin {"paused", "ended"} /\ saved = NoPending
  /\ pc' = "ended" /\ outcome' = "raised"
  /\ ForgetMemory
  /\ UNCHANGED <<saved, historyVars>>

\* The same with the DELETE uncommitted: the transaction rolls back and the
\* row waits as it did before the answer.  What the tools did stays done.
RollBack ==
  /\ pc \notin {"paused", "ended"} /\ saved # NoPending
  /\ pc' = "paused" /\ outcome' = "none"
  /\ ForgetMemory
  /\ line' = base
  /\ undone' = undone \cup {c \in SideEffects : line.runs[c] > base.runs[c]}
  /\ UNCHANGED <<saved, base, answers>>

-----------------------------------------------------------------------------
\* What the server does by itself when nothing fails; the operator's answers
\* are not among them.
LoopStep ==
  \/ ModelAnswers
  \/ \E r \in Responses : ModelRequests(r)
  \/ \E c \in Calls : \/ StopAtMaxRounds(c) \/ StopAtRepeat(c)
                      \/ Pause(c) \/ HandOver(c)
  \/ \E res \in Results : ToolReturns(res) \/ ResumedReturns(res)
  \/ DeliverResults
  \/ ToolCommits
  \/ Settle

Next == LoopStep \/ Approve \/ Decline \/ Fail \/ RollBack

Spec == Init /\ [][Next]_vars
FairSpec == Spec /\ WF_vars(LoopStep)

-----------------------------------------------------------------------------
(* Properties                                                              *)

Guards == [round : 0 .. MaxRounds + 1, seen : SUBSET Calls,
           recent : Seq(Results)]

Lines == [runs : [Calls -> 0 .. 2], last : Results \cup {NoResult},
          streak : 0 .. Window]

\* The loop's variables keep their types, and the round counter never passes
\* the first refused round, whatever pauses come between (before_call).
TypeOK ==
  /\ pc \in {"model", "calls", "executing", "paused", "resuming", "done", "ended"}
  /\ guard \in Guards
  /\ saved \in [call : Calls \cup {"none"}, snapshot : Guards,
                orphans : SUBSET Calls]
  /\ response \in Seq(Calls)
  /\ next \in Nat \ {0}
  /\ outcome \in Outcomes \cup {"none"}
  /\ orphans \in SUBSET Calls
  /\ line \in Lines /\ base \in Lines
  /\ undone \in SUBSET SideEffects
  /\ answers \in [Calls -> SUBSET {"approved", "declined"}]

\* The side effects that reached the executor, in whatever request.
Happened == {c \in SideEffects : line.runs[c] > 0} \cup undone

\* A call of a side-effect tool reaches the executor only after the operator
\* approved that call (before_call's gate, over every path into the executor,
\* those of requests that were rolled back afterwards included).
NoUnapprovedEffect == \A c \in Happened : "approved" \in answers[c]

\* A call reaches the executor a second time only if the request it ran in was
\* rolled back, even when the repetition straddles a pause and its resume in
\* another request (_seen_calls, restore).  After a roll-back the question is
\* back and a second approval does run the call again.
EachCallRunsOnce == \A c \in Calls : line.runs[c] <= 1

\* However responses batch their calls and however often the loop pauses, the
\* requests that were not rolled back execute at most MaxRounds different calls
\* (_round, snapshot, restore).
RunsWithinRounds == Cardinality({c \in Calls : line.runs[c] > 0}) <= MaxRounds

\* Once the last Window results, those before a pause included and those of
\* rolled-back requests not, are the same, the loop is over: neither the model
\* nor a tool is called again.
SpinningStops == line.streak >= Window => pc \in {"done", "ended"}

\* If the operator answers each pause and requests do not fail for ever, the
\* loop ends, whatever the model asks.
TerminatesIfAnswered ==
  []<>(pc # "paused") /\ ~[]<><<RollBack>>_vars => <>(pc = "ended")

\* When the model is called, each tool_use block of the transcript has its
\* tool_result (the vendor rule quoted in _run_loop).
TranscriptAnswered == pc = "model" => orphans = {}

-----------------------------------------------------------------------------
(* The loop implements the approval gate.                                  *)

QuestionOf(e) ==
  IF saved.call = e
  THEN IF pc = "paused" THEN "asked"
       ELSE IF outcome = "declined" THEN "refused" ELSE "granted"
  ELSE IF line.runs[e] > 0 THEN "kept"
  ELSE IF "declined" \in answers[e] THEN "dropped"
  ELSE "unasked"

Gate == INSTANCE EffectGate WITH
          Effects <- SideEffects,
          question <- [e \in SideEffects |-> QuestionOf(e)],
          happened <- Happened,
          open <- (pc # "ended")

\* Across every pause, resume, commit and roll-back the loop behaves as the
\* gate: an effect happens only as an answer to its open question, and only an
\* answer that was rolled back is followed by the same question again
\* (docs/architecture.md).
ImplementsGate == Gate!Spec
=============================================================================
