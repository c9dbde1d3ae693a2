-------------------------------- MODULE Turns --------------------------------
(***************************************************************************)
(* The turn lifecycle: turns/service.py, turns/routes.py, and              *)
(* resolve_matches in agents/orchestrator.py, over one Postgres database.  *)
(*                                                                         *)
(* Each HTTP request is a process with its own database session: it reads  *)
(* committed rows, keeps its writes to itself until it commits, and rolls  *)
(* them back when it fails, its client goes away or the server dies.  It   *)
(* can lose the processor at every await and yield, so each action below   *)
(* runs from one of these points to the next.  A sub-agent's own tool loop *)
(* is module ToolLoop; here a run of it answers, pauses or raises.         *)
(*                                                                         *)
(* A turn is named by the request that submitted it, and a question (a     *)
(* pause for approval) by the request that asked it: each asks at most one.*)
(***************************************************************************)
EXTENDS Integers, Sequences, FiniteSets

CONSTANTS
  Submits, Approvals, Verifies,  \* the requests, by endpoint
  Agents,           \* the registered sub-agents
  Fallback,         \* FALLBACK_SUB_AGENT_ID ("assist")
  MaxMatches,       \* bound: the most ids the classifier names
  ExecutorCommits,  \* the bootstrap executor commits the turn's own session
  Serial            \* a turn's approvals come one after the other, as from
                    \* the Chat page; FALSE: from several clients at once

ASSUME TurnsAssumption ==
  /\ Submits \cap Approvals = {} /\ Submits \cap Verifies = {}
  /\ Approvals \cap Verifies = {}
  /\ "none" \notin Submits \cup Approvals \cup Verifies
  /\ IsFiniteSet(Approvals) /\ IsFiniteSet(Agents)
  /\ MaxMatches \in Nat
  /\ ExecutorCommits \in BOOLEAN /\ Serial \in BOOLEAN

VARIABLES
  db,       \* the committed rows of each turn
  lock,     \* the request whose uncommitted DELETE holds a pending row
  req,      \* the requests: phase, session, what they read
  executed, \* history: executor calls made for each question
  refused,  \* history: questions whose decline was committed
  matched   \* history: the sub-agents each turn was routed to

vars == <<db, lock, req, executed, refused, matched>>
history == <<executed, refused, matched>>

Requests == Submits \cup Approvals \cup Verifies
Questions == Submits \cup Approvals
NoRow == [by |-> "none", agent |-> "none", rest |-> <<>>, done |-> {}]
Nobody == "none"
NoRows == [a \in Agents |-> 0]

\* A turn's rows: turns, pending_turn_approvals, turn_sub_agent_results.
\* answer is the request that wrote final_response.
NoTurn == [turn |-> "absent", answer |-> Nobody, pending |-> NoRow,
           results |-> NoRows]

Idle == [phase |-> "idle", turn |-> Nobody, end |-> "none",
         todo |-> <<>>, done |-> {}, newResults |-> NoRows, newRow |-> NoRow,
         read |-> NoRow, approved |-> FALSE, judged |-> Nobody]

Init ==
  /\ db = [t \in Submits |-> NoTurn]
  /\ lock = [t \in Submits |-> Nobody]
  /\ req = [r \in Requests |-> Idle]
  /\ executed = [q \in Questions |-> 0]
  /\ refused = {}
  /\ matched = [t \in Submits |-> <<>>]

Open(r) == req[r].phase \notin {"idle", "closed"}
TurnOf(r) == req[r].turn

-----------------------------------------------------------------------------
(* The session: commit and rollback                                        *)

AddRow(rows, a) == [rows EXCEPT ![a] = @ + 1]

\* Mistake: the answered question's row survives the commit.
WrittenKeepsPending(r, turn) ==
  [turn |-> IF turn.turn = "absent" THEN "open" ELSE turn.turn,
   answer |-> turn.answer,
   pending |-> IF req[r].newRow # NoRow THEN req[r].newRow ELSE turn.pending,
   results |-> [a \in Agents |-> turn.results[a] + req[r].newResults[a]]]

\* The committed rows of r's turn after r's session is committed.
Written(r, turn) ==
  [turn |-> IF turn.turn = "absent" THEN "open" ELSE turn.turn,
   answer |-> turn.answer,
   pending |-> IF req[r].newRow # NoRow THEN req[r].newRow
               ELSE IF lock[TurnOf(r)] = r THEN NoRow ELSE turn.pending,
   results |-> [a \in Agents |-> turn.results[a] + req[r].newResults[a]]]

Answered(r, turn) == [Written(r, turn) EXCEPT !.turn = "final", !.answer = r]

Unlock(r) == lock' = [lock EXCEPT ![TurnOf(r)] = IF @ = r THEN Nobody ELSE @]

\* Mistake: a request waiting for a row is never resumed.
WakeNobody(r, phase) == req

\* A DELETE that waited for r's lock finds the row gone once r commits (the
\* ORM only warns), and tries again once r rolls back.
WakeAs(r, phase) ==
  [w \in Requests |->
     IF /\ req[w].phase = "blocked" /\ TurnOf(w) = TurnOf(r)
        /\ lock[TurnOf(r)] = r
     THEN [req[w] EXCEPT !.phase = phase] ELSE req[w]]

\* What a commit of r's session settles: past the decline, its question is
\* declined for good.
Declined(r) ==
  IF r \in Approvals /\ ~req[r].approved THEN {req[r].read.by} ELSE {}

Close(r, end) ==
  req' = [WakeAs(r, "reading") EXCEPT ![r].phase = "closed", ![r].end = end]

CommitAndClose(r, turn, end) ==
  /\ db' = [db EXCEPT ![TurnOf(r)] = turn]
  /\ Unlock(r)
  /\ req' = [WakeAs(r, "resuming") EXCEPT ![r].phase = "closed",
                                          ![r].end = end]
  /\ refused' = refused \cup Declined(r)

Rollback(r, end) ==
  /\ Close(r, end) /\ Unlock(r)
  /\ UNCHANGED <<db, history>>

-----------------------------------------------------------------------------
(* POST /turns                                                             *)

\* Conversation and Turn are flushed, not committed.
Submit(r) ==
  /\ req[r].phase = "idle"
  /\ req' = [req EXCEPT ![r].phase = "opened", ![r].turn = r]
  /\ UNCHANGED <<db, lock, history>>

\* app.state.llm_client is None: an error event, and nothing is committed.
SubmitWithoutModel(r) ==
  /\ req[r].phase = "idle"
  /\ req' = [req EXCEPT ![r].phase = "closed", ![r].turn = r,
                        ![r].end = "error"]
  /\ UNCHANGED <<db, lock, history>>

\* resolve_matches: a registry of one answers everything; an empty
\* classification falls back; a name the classifier repeats stays repeated.
Resolve(named) ==
  IF Cardinality(Agents) = 1 THEN <<CHOOSE a \in Agents : TRUE>>
  ELSE IF named # <<>> THEN named
  ELSE IF Fallback \in Agents THEN <<Fallback>> ELSE <<>>

Classifications == UNION {[1 .. n -> Agents] : n \in 0 .. MaxMatches}

Classify(r, named) ==
  /\ req[r].phase = "opened"
  /\ req' = [req EXCEPT ![r].phase = "fanout", ![r].todo = Resolve(named)]
  /\ matched' = [matched EXCEPT ![TurnOf(r)] = Resolve(named)]
  /\ UNCHANGED <<db, lock, executed, refused>>

-----------------------------------------------------------------------------
(* The fan-out, shared by both streams                                     *)

\* The sub-agent at the head of todo ends with a result, good or bad.
Finish(rec) == LET a == Head(rec.todo) IN
  [rec EXCEPT !.phase = "fanout", !.todo = Tail(@), !.done = @ \cup {a},
              !.newResults = AddRow(@, a)]

AgentEnds(r) ==
  /\ req[r].phase = "fanout" /\ req[r].todo # <<>>
  /\ req' = [req EXCEPT ![r] = Finish(@)]
  /\ UNCHANGED <<db, lock, history>>

\* Mistakes: matches[i:] or [] kept as the remaining sub-agents.
QuestionKeepsSelf(r) == [by |-> r, agent |-> Head(req[r].todo),
                         rest |-> req[r].todo, done |-> req[r].done]
QuestionForgetsRest(r) == [by |-> r, agent |-> Head(req[r].todo),
                           rest |-> <<>>, done |-> req[r].done]

Question(r) == [by |-> r, agent |-> Head(req[r].todo),
                rest |-> Tail(req[r].todo), done |-> req[r].done]

\* The row is added to the session and the event sent; the commit is next.
AgentPauses(r) ==
  /\ req[r].phase = "fanout" /\ req[r].todo # <<>>
  /\ req' = [req EXCEPT ![r].phase = "asking", ![r].newRow = Question(r)]
  /\ UNCHANGED <<db, lock, history>>

\* A tool of the bootstrap executor commits the session it shares.
ExecutorCommit(r) ==
  /\ ExecutorCommits
  /\ req[r].phase = "fanout" /\ req[r].todo # <<>>
  /\ db' = [db EXCEPT ![TurnOf(r)] = Written(r, @)]
  /\ Unlock(r)
  /\ req' = [WakeAs(r, "resuming") EXCEPT ![r].newResults = NoRows]
  /\ refused' = refused \cup Declined(r)
  /\ UNCHANGED <<executed, matched>>

\* Another session's row, or its uncommitted DELETE, is in the INSERT's way.
RowInTheWay(r) ==
  /\ db[TurnOf(r)].pending # NoRow
  /\ lock[TurnOf(r)] # r

CommitPause(r) ==
  /\ req[r].phase = "asking"
  /\ ~RowInTheWay(r)
  /\ CommitAndClose(r, Written(r, db[TurnOf(r)]), "paused")
  /\ UNCHANGED <<executed, matched>>

\* The INSERT violates the primary key (after waiting out a DELETE).
PauseConflicts(r) ==
  /\ req[r].phase = "asking"
  /\ RowInTheWay(r) /\ lock[TurnOf(r)] = Nobody
  /\ Rollback(r, "error")

\* _finalize: the answer is streamed, then written with everything else.
Reply(r) ==
  /\ req[r].phase = "fanout" /\ req[r].todo = <<>>
  /\ req' = [req EXCEPT ![r].phase = "replying"]
  /\ UNCHANGED <<db, lock, history>>

CommitAnswer(r) ==
  /\ req[r].phase = "replying"
  /\ CommitAndClose(r, Answered(r, db[TurnOf(r)]), "done")
  /\ UNCHANGED <<executed, matched>>

-----------------------------------------------------------------------------
(* POST /turns/{id}/approvals                                              *)

\* The route reads the pending row; a 404 if there is none.
Respond(r, t, yes) ==
  /\ req[r].phase = "idle"
  /\ Serial => \A s \in Approvals : ~(Open(s) /\ TurnOf(s) = t)
  /\ req[t].phase # "idle"
  /\ req' = [req EXCEPT ![r].turn = t, ![r].approved = yes,
       ![r].read = db[t].pending,
       ![r].phase = IF db[t].pending = NoRow THEN "closed" ELSE "reading",
       ![r].end = IF db[t].pending = NoRow THEN "404" ELSE @,
       ![r].done = db[t].pending.done]
  /\ UNCHANGED <<db, lock, history>>

\* Mistakes: the deletion committed by itself; only approvals delete the row.
DeletePendingAtOnce(r) ==
  /\ req[r].phase = "reading"
  /\ lock[TurnOf(r)] = Nobody
  /\ db' = [db EXCEPT ![TurnOf(r)].pending = NoRow]
  /\ req' = [req EXCEPT ![r].phase = "resuming"]
  /\ UNCHANGED <<lock, history>>
DeletePendingIfApproved(r) ==
  /\ req[r].phase = "reading"
  /\ lock[TurnOf(r)] = Nobody
  /\ lock' = IF db[TurnOf(r)].pending = NoRow \/ ~req[r].approved THEN lock
             ELSE [lock EXCEPT ![TurnOf(r)] = r]
  /\ req' = [req EXCEPT ![r].phase = "resuming"]
  /\ UNCHANGED <<db, history>>

\* db.delete(pending), flushed by the next query.  It deletes the row that
\* has the turn's key now, which need not be the one that was read.
DeletePending(r) ==
  /\ req[r].phase = "reading"
  /\ lock[TurnOf(r)] = Nobody
  /\ lock' = IF db[TurnOf(r)].pending = NoRow THEN lock
             ELSE [lock EXCEPT ![TurnOf(r)] = r]
  /\ req' = [req EXCEPT ![r].phase = "resuming"]
  /\ UNCHANGED <<db, history>>

WaitForRow(r) ==
  /\ req[r].phase = "reading"
  /\ lock[TurnOf(r)] # Nobody
  /\ req' = [req EXCEPT ![r].phase = "blocked"]
  /\ UNCHANGED <<db, lock, history>>

\* resume_sub_agent with what was read: the tool runs, and the paused
\* sub-agent and those after it are still to finish.
Resumed(rec) ==
  [rec EXCEPT !.phase = "fanout",
              !.todo = <<rec.read.agent>> \o rec.read.rest]

\* Mistake: the operator's answer is not looked at.
ExecuteRegardless(r) ==
  /\ req[r].phase = "resuming"
  /\ executed' = [executed EXCEPT ![req[r].read.by] = @ + 1]
  /\ req' = [req EXCEPT ![r] = Resumed(@)]
  /\ UNCHANGED <<db, lock, refused, matched>>

Execute(r) ==
  /\ req[r].phase = "resuming" /\ req[r].approved
  /\ executed' = [executed EXCEPT ![req[r].read.by] = @ + 1]
  /\ req' = [req EXCEPT ![r] = Resumed(@)]
  /\ UNCHANGED <<db, lock, refused, matched>>

\* The sub-agent ends with the "was declined" result.
ApplyDecline(r) ==
  /\ req[r].phase = "resuming" /\ ~req[r].approved
  /\ req' = [req EXCEPT ![r] = Finish(Resumed(@))]
  /\ UNCHANGED <<db, lock, history>>

-----------------------------------------------------------------------------
(* POST /turns/{id}/verify                                                 *)

\* Mistake: a turn without a final response is verified too.
VerifyAnyTurn(r, t) ==
  /\ req[r].phase = "idle"
  /\ req' = [req EXCEPT ![r].turn = t,
       ![r].phase = IF db[t].turn # "absent" THEN "verifying" ELSE "closed",
       ![r].end = IF db[t].turn # "absent" THEN @ ELSE "404",
       ![r].judged = db[t].answer]
  /\ UNCHANGED <<db, lock, history>>

Verify(r, t) ==
  /\ req[r].phase = "idle"
  /\ req' = [req EXCEPT ![r].turn = t,
       ![r].phase = IF db[t].turn = "final" THEN "verifying" ELSE "closed",
       ![r].end = IF db[t].turn = "final" THEN @ ELSE "404",
       ![r].judged = db[t].answer]
  /\ UNCHANGED <<db, lock, history>>

CommitVerification(r) ==
  /\ req[r].phase = "verifying"
  /\ req' = [req EXCEPT ![r].phase = "closed", ![r].end = "done"]
  /\ UNCHANGED <<db, lock, history>>

-----------------------------------------------------------------------------
(* Failures                                                                *)

\* A model, tool or database call raises.  stream_turn turns it into an error
\* event, resume_turn does not catch it; either way the session rolls back.
Raise(r) ==
  /\ Open(r)
  /\ Rollback(r, "error")

\* The client closes the stream: the generator is cancelled where it waits.
Disconnect(r) ==
  /\ r \in Questions /\ Open(r)
  /\ Rollback(r, "gone")

Crash ==
  /\ \E r \in Requests : Open(r)
  /\ req' = [r \in Requests |->
       IF Open(r) THEN [req[r] EXCEPT !.phase = "closed", !.end = "gone"]
       ELSE req[r]]
  /\ lock' = [t \in Submits |-> Nobody]
  /\ UNCHANGED <<db, history>>

-----------------------------------------------------------------------------
\* What a request that has been accepted goes on to do by itself.
Progress(r) ==
  \/ \E named \in Classifications : Classify(r, named)
  \/ AgentEnds(r) \/ AgentPauses(r)
  \/ CommitPause(r) \/ PauseConflicts(r)
  \/ Reply(r) \/ CommitAnswer(r)
  \/ DeletePending(r) \/ WaitForRow(r)
  \/ Execute(r) \/ ApplyDecline(r)
  \/ CommitVerification(r)

Arrive ==
  \/ \E r \in Submits : Submit(r) \/ SubmitWithoutModel(r)
  \/ \E r \in Approvals, t \in Submits, yes \in BOOLEAN : Respond(r, t, yes)
  \/ \E r \in Verifies, t \in Submits : Verify(r, t)

Next ==
  \/ Arrive
  \/ \E r \in Requests : Progress(r) \/ ExecutorCommit(r)
                         \/ Raise(r) \/ Disconnect(r)
  \/ Crash

Spec == Init /\ [][Next]_vars
FairSpec == Spec /\ \A r \in Requests : WF_vars(Progress(r))

-----------------------------------------------------------------------------
(* Properties                                                              *)

\* A committed turn has its final answer, or waits for an approval that can
\* still be given, or a request is at work on it: it is never left unanswered
\* with nothing to resume (stream_turn and resume_turn commit once, at the end).
Resolvable(t) ==
  \/ db[t].pending # NoRow
  \/ \E r \in Requests : Open(r) /\ TurnOf(r) = t
NeverStranded ==
  \A t \in Submits : db[t].turn = "open" => Resolvable(t)

Occurrences(s, a) == Cardinality({i \in DOMAIN s : s[i] = a})

\* A final turn has one turn_sub_agent_results row for each sub-agent it was
\* routed to, however many pauses, failures and retries it went through
\* (completed_results and remaining_sub_agent_ids carry them across).
OneResultPerMatch ==
  \A t \in Submits : db[t].turn = "final" =>
    \A a \in Agents : db[t].results[a] = Occurrences(matched[t], a)

\* Even under concurrent approvals no matched sub-agent is left out.
NoMatchLost ==
  \A t \in Submits : db[t].turn = "final" =>
    \A a \in Agents : db[t].results[a] >= Occurrences(matched[t], a)

\* Each execution of a gated tool is owed to an approve request of its own:
\* a declined, failed or concurrent request never adds one.
EachRunWasApproved ==
  \A q \in Questions : executed[q] <=
    Cardinality({r \in Approvals : req[r].read.by = q /\ req[r].approved})

\* A gated tool does not run for a question whose decline is committed.
NoRunAfterDecline ==
  [][\A q \in Questions : executed'[q] # executed[q] => q \notin refused]_vars

\* A stored verification assesses the answer the turn has (verify_turn).
VerificationsStand ==
  \A v \in Verifies : req[v].end = "done" =>
    req[v].judged = db[TurnOf(v)].answer

\* Every accepted request ends: no approval waits forever for another's row.
ResponsesEnd == \A r \in Requests : Open(r) ~> ~Open(r)

-----------------------------------------------------------------------------
(* With one approval at a time the turns implement the turn lifecycle.     *)

Stage(t) == CASE db[t].turn = "absent" -> "none"
              [] db[t].turn = "open" -> "waiting"
              [] db[t].turn = "final" -> "final"

Settled == {q \in Questions : \E r \in Approvals :
              req[r].read.by = q /\ req[r].end \in {"done", "paused"}}

Lifecycle == INSTANCE TurnLifecycle WITH
               Turns <- Submits, Questions <- Questions, NoQuestion <- Nobody,
               stage <- [t \in Submits |-> Stage(t)],
               question <- [t \in Submits |-> db[t].pending.by],
               settled <- Settled

\* A turn goes from nothing to waiting or final; each question is settled by
\* one committed answer; final is final.
ImplementsLifecycle == Lifecycle!Spec
=============================================================================
