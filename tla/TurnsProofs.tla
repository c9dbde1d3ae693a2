----------------------------- MODULE TurnsProofs -----------------------------
(***************************************************************************)
(* Theorems about Turns, for every set of requests and sub-agents that     *)
(* satisfies TurnsAssumption.  The inductive invariant has two halves: one *)
(* that holds however the requests interleave, and one that needs a turn's *)
(* approvals to come one after the other (Serial).  The second part of the *)
(* module is about Chat, the page on top of Turns: its invariant, ChatInv, *)
(* contains the first half and says how the page's streams and cards go    *)
(* with the server's rows, for any number of faults.                       *)
(***************************************************************************)
EXTENDS Chat, FiniteSetTheorems, SequenceTheorems, TLAPS

Rows == [by : Questions, agent : Agents, rest : Seq(Agents),
         done : SUBSET Agents]
Counts == [Agents -> Nat]
Phases == {"idle", "opened", "fanout", "asking", "replying", "reading",
           "blocked", "resuming", "verifying", "closed"}
TurnRows == [turn : {"absent", "open", "final"},
             answer : Questions \cup {Nobody},
             pending : Rows \cup {NoRow}, results : Counts]
Sessions == [phase : Phases, turn : Submits \cup {Nobody},
             end : {"none", "error", "gone", "done", "paused", "404"},
             todo : Seq(Agents), done : SUBSET Agents, newResults : Counts,
             newRow : Rows \cup {NoRow}, read : Rows \cup {NoRow},
             approved : BOOLEAN, judged : Questions \cup {Nobody}]

TypeOK ==
  /\ db \in [Submits -> TurnRows]
  /\ lock \in [Submits -> Approvals \cup {Nobody}]
  /\ req \in [Requests -> Sessions]
  /\ executed \in [Questions -> Nat]
  /\ refused \subseteq Questions
  /\ matched \in [Submits -> Seq(Agents)]

Unread == {"reading", "blocked", "resuming"}
Working == {"fanout", "asking", "replying"}

\* What a request's phase says of the rest of its session.
SessionOK(r) ==
  /\ req[r].phase = "idle" => req[r] = Idle
  /\ req[r].phase # "idle" => req[r].turn \in Submits
  /\ req[r].phase = "asking" => req[r].newRow = Question(r) /\ req[r].todo # <<>>
  /\ Open(r) /\ req[r].phase # "asking" => req[r].newRow = NoRow
  /\ req[r].phase \in Unread \cup {"opened"} => req[r].newResults = NoRows
  /\ req[r].phase = "replying" => req[r].todo = <<>>

\* What the endpoint of a request says of its session.
EndpointOK(r) ==
  /\ r \in Submits => /\ req[r].phase \notin Unread \cup {"verifying"}
                      /\ req[r].read = NoRow
                      /\ req[r].phase # "idle" => req[r].turn = r
  /\ r \in Approvals => /\ req[r].phase \notin {"opened", "verifying"}
                        /\ Open(r) => req[r].read # NoRow
  /\ r \in Verifies => /\ req[r].phase \in {"idle", "verifying", "closed"}
                       /\ req[r].read = NoRow

\* A row lock belongs to an open approval of that turn.
LockOK(t) ==
  lock[t] # Nobody => /\ req[lock[t]].turn = t
                      /\ req[lock[t]].phase \in Working \cup {"resuming"}

\* A turn has no rows before it is routed, so no approval found any.
FreshOK(t) ==
  req[t].phase \in {"idle", "opened"} =>
    /\ db[t] = NoTurn
    /\ \A r \in Approvals : req[r].turn = t => ~Open(r)

\* A row that was committed or read comes from a request that paused its turn.
AskedBy(row, t) ==
  row # NoRow => /\ req[row.by].phase = "closed"
                 /\ req[row.by].end = "paused"
                 /\ req[row.by].turn = t
RowsOK ==
  /\ \A t \in Submits : AskedBy(db[t].pending, t)
  /\ \A r \in Approvals : AskedBy(req[r].read, req[r].turn)

Inv ==
  /\ TypeOK
  /\ \A r \in Requests : SessionOK(r) /\ EndpointOK(r)
  /\ \A t \in Submits : LockOK(t) /\ FreshOK(t)
  /\ RowsOK

-----------------------------------------------------------------------------
(* Counting: runs and results.                                             *)

Yes(q) == {r \in Approvals : req[r].read.by = q /\ req[r].approved}
Ran(q) == {r \in Yes(q) : req[r].phase \notin Unread}
RunsOwed == \A q \in Questions : executed[q] <= Cardinality(Ran(q))

Owed(row) == <<row.agent>> \o row.rest
Work(r) == IF req[r].phase \in Unread THEN Owed(req[r].read) ELSE req[r].todo

Mine(r, a) == req[r].newResults[a] + Occurrences(Work(r), a)
Routed(r) == Open(r) /\ req[r].phase # "opened"

\* What a turn's rows, or a request with its own, still bring in.
Kept ==
  \A a \in Agents :
    /\ \A t \in Submits : db[t].pending # NoRow =>
         db[t].results[a] + Occurrences(Owed(db[t].pending), a)
           >= Occurrences(matched[t], a)
    /\ \A r \in Questions : Routed(r) =>
         db[req[r].turn].results[a] + Mine(r, a)
           >= Occurrences(matched[req[r].turn], a)
    /\ \A t \in Submits : db[t].turn = "final" =>
         db[t].results[a] >= Occurrences(matched[t], a)

\* Without an executor that commits, a turn that is not final has a question.
Asked == \A t \in Submits : db[t].turn = "open" => db[t].pending # NoRow

-----------------------------------------------------------------------------
(* With one approval at a time.                                            *)

OneAtATime ==
  \A r, s \in Questions :
    Open(r) /\ Open(s) /\ req[r].turn = req[s].turn => r = s

\* The turn of an open request has no answer, and its row is the one the
\* request read, or is gone, or goes with the request's commit.
HeldOK(r) ==
  Open(r) =>
    /\ db[req[r].turn].turn # "final"
    /\ req[r].phase \in Unread => db[req[r].turn].pending = req[r].read
    /\ req[r].phase \notin {"reading", "blocked"} =>
         db[req[r].turn].pending = NoRow \/ lock[req[r].turn] = r

SerialInv ==
  /\ OneAtATime
  /\ \A r \in Questions : HeldOK(r)
  /\ \A t \in Submits : db[t].turn = "final" => db[t].pending = NoRow

\* No row asks what has been declined.
NotRefused ==
  /\ \A q \in refused : req[q].phase = "closed"
  /\ \A t \in Submits : db[t].pending.by \notin refused

Judged ==
  \A v \in Verifies : req[v].phase = "verifying" \/ req[v].end = "done" =>
    /\ db[req[v].turn].turn = "final"
    /\ req[v].judged = db[req[v].turn].answer

\* Kept, with nothing counted twice.
Exactly ==
  \A a \in Agents :
    /\ \A t \in Submits : db[t].pending # NoRow =>
         db[t].results[a] + Occurrences(Owed(db[t].pending), a)
           = Occurrences(matched[t], a)
    /\ \A r \in Questions : Routed(r) =>
         db[req[r].turn].results[a] + Mine(r, a)
           = Occurrences(matched[req[r].turn], a)
    /\ \A t \in Submits : db[t].turn = "final" =>
         db[t].results[a] = Occurrences(matched[t], a)

-----------------------------------------------------------------------------
(* Typing.                                                                 *)

\* What answers a turn is a sequence of registered sub-agents.
LEMMA ResolveType ==
  ASSUME NEW named \in Classifications
  PROVE  Resolve(named) \in Seq(Agents)
<1>1. named \in Seq(Agents)
  BY DEF Classifications
<1>2. CASE Cardinality(Agents) = 1
  <2>1. \E a : Agents = {a}
    BY <1>2, FS_Singleton, TurnsAssumption
  <2>2. (CHOOSE a \in Agents : TRUE) \in Agents
    BY <2>1
  <2> QED BY <1>2, <2>2 DEF Resolve
<1>3. CASE Cardinality(Agents) # 1
  BY <1>1, <1>3 DEF Resolve
<1> QED BY <1>2, <1>3

\* The rows a commit of r leaves are rows of a turn.
LEMMA WrittenType ==
  ASSUME TypeOK, NEW r \in Requests, NEW turn \in TurnRows
  PROVE  /\ Written(r, turn) \in TurnRows
         /\ r \in Questions => Answered(r, turn) \in TurnRows
<1>1. req[r] \in Sessions
  BY DEF TypeOK
<1>2. [a \in Agents |-> turn.results[a] + req[r].newResults[a]] \in Counts
  <2> SUFFICES ASSUME NEW a \in Agents
               PROVE  turn.results[a] + req[r].newResults[a] \in Nat
    BY DEF Counts
  <2>1. turn.results \in [Agents -> Nat] /\ req[r].newResults \in [Agents -> Nat]
    BY <1>1 DEF TurnRows, Sessions, Counts
  <2>2. turn.results[a] \in Nat /\ req[r].newResults[a] \in Nat
    BY <2>1
  <2> QED BY <2>2
<1>3. Written(r, turn) \in TurnRows
  BY <1>1, <1>2 DEF Written, TurnRows, Sessions
<1> QED BY <1>3 DEF Answered, TurnRows

LEMMA WakeType ==
  ASSUME TypeOK, NEW r \in Requests, NEW p \in Phases
  PROVE  WakeAs(r, p) \in [Requests -> Sessions]
<1> SUFFICES ASSUME NEW w \in Requests
             PROVE  [req[w] EXCEPT !.phase = p] \in Sessions
  BY DEF WakeAs, TypeOK
<1>1. req[w] \in Sessions
  BY DEF TypeOK
<1> QED BY <1>1 DEF Sessions

LEMMA FinishType ==
  ASSUME NEW rec \in Sessions, rec.todo # <<>>
  PROVE  Finish(rec) \in Sessions
<1>1. Head(rec.todo) \in Agents /\ Tail(rec.todo) \in Seq(Agents)
  BY DEF Sessions
<1>2. AddRow(rec.newResults, Head(rec.todo)) \in Counts
  BY DEF Sessions, Counts, AddRow
<1> QED BY <1>1, <1>2 DEF Finish, Sessions, Phases

LEMMA ResumedType ==
  ASSUME NEW rec \in Sessions, rec.read # NoRow
  PROVE  /\ Resumed(rec) \in Sessions
         /\ Resumed(rec).todo = Owed(rec.read)
         /\ Owed(rec.read) # <<>>
<1>1. rec.read \in Rows
  BY DEF Sessions
<1>2. rec.read.agent \in Agents /\ rec.read.rest \in Seq(Agents)
  BY <1>1 DEF Rows
<1>3. Owed(rec.read) \in Seq(Agents) /\ Owed(rec.read) # <<>>
  BY <1>2 DEF Owed
<1> QED BY <1>3 DEF Resumed, Sessions, Phases, Owed

-----------------------------------------------------------------------------
(* What a step does to the sessions: its own request's record, and the     *)
(* records of the requests it wakes.                                       *)

Ends == {"error", "gone", "done", "paused"}
Ended(r, e) == [req[r] EXCEPT !.phase = "closed", !.end = e]

\* w waited for r's lock, and goes on in another phase.
Woken(r, w) ==
  /\ req[w].phase = "blocked" /\ req[w].turn = req[r].turn
  /\ lock[req[r].turn] = r
  /\ \E p \in {"reading", "resuming"} : req'[w] = [req[w] EXCEPT !.phase = p]

Others(r) == \A w \in Requests : w # r => req'[w] = req[w] \/ Woken(r, w)

LEMMA Closing ==
  ASSUME TypeOK, NEW r \in Requests, NEW p \in {"reading", "resuming"},
         NEW e \in Ends,
         req' = [WakeAs(r, p) EXCEPT ![r].phase = "closed", ![r].end = e]
  PROVE  /\ req' \in [Requests -> Sessions]
         /\ req'[r] = Ended(r, e)
         /\ Others(r)
<1> DEFINE W == WakeAs(r, p)
<1>1. W \in [Requests -> Sessions]
  BY WakeType DEF Phases
<1>2. W[r] \in Sessions /\ Ended(r, e) \in Sessions
  <2>1. req[r] \in Sessions
    BY DEF TypeOK
  <2>2. Ended(r, e) \in Sessions
    BY <2>1 DEF Ended, Sessions, Phases, Ends
  <2> QED BY <1>1, <2>2
<1>3. [W[r] EXCEPT !.phase = "closed", !.end = e] = Ended(r, e)
  <2>1. W[r] = req[r] \/ W[r] = [req[r] EXCEPT !.phase = p]
    BY DEF WakeAs
  <2>2. req[r] \in Sessions
    BY DEF TypeOK
  <2> HIDE DEF W
  <2>3. CASE W[r] = req[r]
    BY <2>3 DEF Ended
  <2>4. CASE W[r] = [req[r] EXCEPT !.phase = p]
    BY <2>2, <2>4 DEF Ended, Sessions
  <2> QED BY <2>1, <2>3, <2>4
<1>4. \A w \in Requests : W[w] = req[w] \/
        /\ req[w].phase = "blocked" /\ req[w].turn = req[r].turn
        /\ lock[req[r].turn] = r /\ W[w] = [req[w] EXCEPT !.phase = p]
  BY DEF WakeAs, TurnOf
<1> HIDE DEF W
<1>5. req' = [W EXCEPT ![r] = [W[r] EXCEPT !.phase = "closed", !.end = e]]
  BY <1>1 DEF W
<1>6. req' = [W EXCEPT ![r] = Ended(r, e)]
  BY ONLY <1>3, <1>5
<1>7. /\ req' \in [Requests -> Sessions] /\ req'[r] = Ended(r, e)
      /\ \A w \in Requests : w # r => req'[w] = W[w]
  BY <1>1, <1>2, <1>6
<1>8. Others(r)
  BY <1>4, <1>7 DEF Others, Woken
<1> QED BY <1>7, <1>8

\* An executor's commit keeps its request where it is.
LEMMA Committing ==
  ASSUME TypeOK, NEW r \in Requests, ExecutorCommit(r)
  PROVE  /\ req' \in [Requests -> Sessions]
         /\ req'[r] = [req[r] EXCEPT !.newResults = NoRows]
         /\ Others(r)
<1> DEFINE W == WakeAs(r, "resuming")
<1>1. W \in [Requests -> Sessions]
  BY WakeType DEF Phases
<1>2. W[r] = req[r]
  BY DEF ExecutorCommit, WakeAs
<1>3. [req[r] EXCEPT !.newResults = NoRows] \in Sessions
  <2>1. req[r] \in Sessions /\ NoRows \in Counts
    BY DEF TypeOK, NoRows, Counts
  <2> QED BY <2>1 DEF Sessions
<1>4. \A w \in Requests : W[w] = req[w] \/
        /\ req[w].phase = "blocked" /\ req[w].turn = req[r].turn
        /\ lock[req[r].turn] = r /\ W[w] = [req[w] EXCEPT !.phase = "resuming"]
  BY DEF WakeAs, TurnOf
<1> HIDE DEF W
<1>5. req' = [W EXCEPT ![r] = [W[r] EXCEPT !.newResults = NoRows]]
  BY <1>1 DEF W, ExecutorCommit
<1> QED BY <1>1, <1>2, <1>3, <1>4, <1>5 DEF Others, Woken

\* The steps that leave the database and the locks alone change one record.
Moves(r, rec) ==
  /\ rec \in Sessions
  /\ req' = [req EXCEPT ![r] = rec]
  /\ UNCHANGED <<db, refused>>

LEMMA Submitting ==
  ASSUME TypeOK, NEW r \in Submits
  PROVE  /\ Submit(r) => Moves(r, [req[r] EXCEPT !.phase = "opened", !.turn = r])
         /\ SubmitWithoutModel(r) =>
              Moves(r, [req[r] EXCEPT !.phase = "closed", !.turn = r,
                                      !.end = "error"])
<1>1. req[r] \in Sessions /\ r \in Requests /\ req \in [Requests -> Sessions]
  BY DEF TypeOK, Requests
<1>2. /\ [req[r] EXCEPT !.phase = "opened", !.turn = r] \in Sessions
      /\ [req[r] EXCEPT !.phase = "closed", !.turn = r, !.end = "error"] \in Sessions
  BY <1>1 DEF Sessions, Phases
<1> QED BY <1>1, <1>2 DEF Submit, SubmitWithoutModel, history, Moves

Responded(r, t, yes) ==
  [req[r] EXCEPT !.turn = t, !.approved = yes, !.read = db[t].pending,
     !.phase = IF db[t].pending = NoRow THEN "closed" ELSE "reading",
     !.end = IF db[t].pending = NoRow THEN "404" ELSE req[r].end,
     !.done = db[t].pending.done]

Opened(r, t) ==
  [req[r] EXCEPT !.turn = t,
     !.phase = IF db[t].turn = "final" THEN "verifying" ELSE "closed",
     !.end = IF db[t].turn = "final" THEN req[r].end ELSE "404",
     !.judged = db[t].answer]

LEMMA Responding ==
  ASSUME TypeOK, NEW r \in Approvals, NEW t \in Submits, NEW yes \in BOOLEAN,
         Respond(r, t, yes)
  PROVE  Moves(r, Responded(r, t, yes))
<1>1. req[r] \in Sessions /\ r \in Requests /\ req \in [Requests -> Sessions]
  BY DEF TypeOK, Requests
<1>2. db[t].pending \in Rows \cup {NoRow} /\ db[t].pending.done \in SUBSET Agents
  <2>1. db[t].pending \in Rows \cup {NoRow}
    BY DEF TypeOK, TurnRows
  <2> QED BY <2>1 DEF Rows, NoRow
<1> DEFINE row == db[t].pending
           ph  == IF row = NoRow THEN "closed" ELSE "reading"
           en  == IF row = NoRow THEN "404" ELSE req[r].end
<1>3. ph \in Phases /\ en \in {"none", "error", "gone", "done", "paused", "404"}
  BY <1>1 DEF Phases, Sessions
<1>4. req' = [req EXCEPT ![r] = [req[r] EXCEPT !.turn = t, !.approved = yes,
           !.read = row, !.phase = ph, !.end = en, !.done = row.done]]
  BY <1>1 DEF Respond
<1> HIDE DEF ph, en
<1>5. [req[r] EXCEPT !.turn = t, !.approved = yes, !.read = row, !.phase = ph,
                     !.end = en, !.done = row.done] \in Sessions
  BY <1>1, <1>2, <1>3 DEF Sessions
<1>6. [req[r] EXCEPT !.turn = t, !.approved = yes, !.read = row, !.phase = ph,
                     !.end = en, !.done = row.done] = Responded(r, t, yes)
  BY DEF Responded, ph, en
<1> QED BY <1>4, <1>5, <1>6 DEF Respond, history, Moves

LEMMA Verifying ==
  ASSUME TypeOK, NEW r \in Verifies, NEW t \in Submits, Verify(r, t)
  PROVE  Moves(r, Opened(r, t))
<1>1. req[r] \in Sessions /\ r \in Requests /\ req \in [Requests -> Sessions]
  BY DEF TypeOK, Requests
<1>2. db[t].answer \in Questions \cup {Nobody}
  BY DEF TypeOK, TurnRows
<1> DEFINE ph == IF db[t].turn = "final" THEN "verifying" ELSE "closed"
           en == IF db[t].turn = "final" THEN req[r].end ELSE "404"
<1>3. ph \in Phases /\ en \in {"none", "error", "gone", "done", "paused", "404"}
  BY <1>1 DEF Phases, Sessions
<1>4. req' = [req EXCEPT ![r] = [req[r] EXCEPT !.turn = t, !.phase = ph,
                                   !.end = en, !.judged = db[t].answer]]
  BY <1>1 DEF Verify
<1> HIDE DEF ph, en
<1>5. [req[r] EXCEPT !.turn = t, !.phase = ph, !.end = en,
                     !.judged = db[t].answer] \in Sessions
  BY <1>1, <1>2, <1>3 DEF Sessions
<1>6. [req[r] EXCEPT !.turn = t, !.phase = ph, !.end = en,
                     !.judged = db[t].answer] = Opened(r, t)
  BY DEF Opened, ph, en
<1> QED BY <1>4, <1>5, <1>6 DEF Verify, history, Moves

\* The steps of the fan-out before its commit.
LEMMA FanningOut ==
  ASSUME TypeOK, NEW r \in Requests
  PROVE  /\ \A named \in Classifications : Classify(r, named) =>
              Moves(r, [req[r] EXCEPT !.phase = "fanout",
                                      !.todo = Resolve(named)])
         /\ AgentEnds(r) => Moves(r, Finish(req[r]))
         /\ AgentPauses(r) /\ r \in Questions =>
              Moves(r, [req[r] EXCEPT !.phase = "asking",
                                      !.newRow = Question(r)])
         /\ Reply(r) => Moves(r, [req[r] EXCEPT !.phase = "replying"])
<1>1. req[r] \in Sessions /\ req \in [Requests -> Sessions]
  BY DEF TypeOK
<1>2. ASSUME NEW named \in Classifications, Classify(r, named)
      PROVE  Moves(r, [req[r] EXCEPT !.phase = "fanout",
                                     !.todo = Resolve(named)])
  <2>1. [req[r] EXCEPT !.phase = "fanout", !.todo = Resolve(named)] \in Sessions
    BY <1>1, ResolveType DEF Sessions, Phases
  <2> QED BY <1>1, <1>2, <2>1 DEF Classify, Moves
<1>3. ASSUME AgentEnds(r) PROVE Moves(r, Finish(req[r]))
  BY <1>1, <1>3, FinishType DEF AgentEnds, history, Moves
<1>4. ASSUME AgentPauses(r), r \in Questions
      PROVE  Moves(r, [req[r] EXCEPT !.phase = "asking", !.newRow = Question(r)])
  <2>1. req[r].todo \in Seq(Agents) /\ req[r].todo # <<>>
    BY <1>1, <1>4 DEF AgentPauses, Sessions
  <2>2. Head(req[r].todo) \in Agents /\ Tail(req[r].todo) \in Seq(Agents)
    BY <2>1
  <2>3. Question(r) \in Rows
    BY <1>1, <1>4, <2>2 DEF Question, Rows, Sessions
  <2>4. [req[r] EXCEPT !.phase = "asking", !.newRow = Question(r)] \in Sessions
    BY <1>1, <2>3 DEF Sessions, Phases
  <2> QED BY <1>1, <1>4, <2>4 DEF AgentPauses, history, Moves
<1>5. ASSUME Reply(r) PROVE Moves(r, [req[r] EXCEPT !.phase = "replying"])
  <2>1. [req[r] EXCEPT !.phase = "replying"] \in Sessions
    BY <1>1 DEF Sessions, Phases
  <2> QED BY <1>1, <1>5, <2>1 DEF Reply, history, Moves
<1> QED BY <1>2, <1>3, <1>4, <1>5

\* The steps of a verification's commit and of an approval that resumes.
LEMMA Resuming ==
  ASSUME TypeOK, NEW r \in Requests
  PROVE  /\ DeletePending(r) => Moves(r, [req[r] EXCEPT !.phase = "resuming"])
         /\ WaitForRow(r) => Moves(r, [req[r] EXCEPT !.phase = "blocked"])
         /\ CommitVerification(r) =>
              Moves(r, [req[r] EXCEPT !.phase = "closed", !.end = "done"])
         /\ Execute(r) /\ req[r].read # NoRow => Moves(r, Resumed(req[r]))
         /\ ApplyDecline(r) /\ req[r].read # NoRow =>
              Moves(r, Finish(Resumed(req[r])))
<1>1. req[r] \in Sessions /\ req \in [Requests -> Sessions]
  BY DEF TypeOK
<1>2. /\ [req[r] EXCEPT !.phase = "resuming"] \in Sessions
      /\ [req[r] EXCEPT !.phase = "blocked"] \in Sessions
      /\ [req[r] EXCEPT !.phase = "closed", !.end = "done"] \in Sessions
  BY <1>1 DEF Sessions, Phases
<1>3. /\ DeletePending(r) => Moves(r, [req[r] EXCEPT !.phase = "resuming"])
      /\ WaitForRow(r) => Moves(r, [req[r] EXCEPT !.phase = "blocked"])
  BY <1>1, <1>2 DEF DeletePending, WaitForRow, history, Moves
<1>4. CommitVerification(r) =>
        Moves(r, [req[r] EXCEPT !.phase = "closed", !.end = "done"])
  BY <1>1, <1>2 DEF CommitVerification, history, Moves
<1>5. Execute(r) /\ req[r].read # NoRow => Moves(r, Resumed(req[r]))
  BY <1>1, ResumedType DEF Execute, history, Moves
<1>6. ApplyDecline(r) /\ req[r].read # NoRow => Moves(r, Finish(Resumed(req[r])))
  <2>1. req[r].read # NoRow => Finish(Resumed(req[r])) \in Sessions
    BY <1>1, ResumedType, FinishType
  <2> QED BY <1>1, <2>1 DEF ApplyDecline, history, Moves
<1> QED BY <1>3, <1>4, <1>5, <1>6

\* The steps that roll back, and those that commit and close.
RollsBack(r) == PauseConflicts(r) \/ Raise(r) \/ Disconnect(r)

LEMMA RollingBack ==
  ASSUME TypeOK, NEW r \in Requests, RollsBack(r)
  PROVE  /\ req' \in [Requests -> Sessions]
         /\ \E e \in Ends : req'[r] = Ended(r, e)
         /\ Others(r) /\ Open(r) /\ Unlock(r)
         /\ UNCHANGED <<db, history>>
<1>1. PICK e \in Ends : Rollback(r, e) /\ Open(r)
  BY DEF RollsBack, PauseConflicts, Raise, Disconnect, Ends, Open
<1>2. req' = [WakeAs(r, "reading") EXCEPT ![r].phase = "closed", ![r].end = e]
  BY <1>1 DEF Rollback, Close
<1>3. req' \in [Requests -> Sessions] /\ req'[r] = Ended(r, e) /\ Others(r)
  BY <1>2, Closing
<1> QED BY <1>1, <1>3 DEF Rollback

LEMMA Moving ==
  ASSUME TypeOK, NEW r \in Requests, NEW rec, Moves(r, rec)
  PROVE  /\ req' \in [Requests -> Sessions]
         /\ req'[r] = rec
         /\ \A w \in Requests : w # r => req'[w] = req[w]
         /\ db' = db /\ refused' = refused
BY DEF TypeOK, Moves

\* TypeOK' from its parts, when only the sessions change.
LEMMA TypeFromSessions ==
  ASSUME TypeOK, req' \in [Requests -> Sessions], db' = db, lock' = lock,
         executed' = executed, refused' = refused, matched' = matched
  PROVE  TypeOK'
BY DEF TypeOK

LEMMA UnlockType ==
  ASSUME lock \in [Submits -> Approvals \cup {Nobody}], NEW r, Unlock(r)
  PROVE  lock' \in [Submits -> Approvals \cup {Nobody}]
<1>1. \A t \in Submits : (IF lock[t] = r THEN Nobody ELSE lock[t])
                            \in Approvals \cup {Nobody}
  OBVIOUS
<1> QED BY <1>1 DEF Unlock

LEMMA EndedType ==
  ASSUME NEW r, req[r] \in Sessions, NEW e \in Ends
  PROVE  Ended(r, e) \in Sessions
<1>1. "closed" \in Phases
  BY DEF Phases
<1> QED BY <1>1 DEF Ended, Sessions, Ends

LEMMA TypeStep ==
  ASSUME TypeOK, \A r \in Requests : EndpointOK(r), [Next]_vars
  PROVE  TypeOK'
<1>0. /\ db \in [Submits -> TurnRows]
      /\ lock \in [Submits -> Approvals \cup {Nobody}]
      /\ req \in [Requests -> Sessions]
      /\ executed \in [Questions -> Nat]
      /\ refused \subseteq Questions
      /\ matched \in [Submits -> Seq(Agents)]
  BY DEF TypeOK
<1>1. ASSUME NEW r \in Submits, Submit(r) \/ SubmitWithoutModel(r)
      PROVE  TypeOK'
  <2>1. r \in Requests /\ \E rec : Moves(r, rec)
    BY <1>1, Submitting DEF Requests
  <2> QED BY <1>1, <2>1, Moving, TypeFromSessions
          DEF Submit, SubmitWithoutModel, history
<1>2. ASSUME NEW r \in Approvals, NEW t \in Submits, NEW yes \in BOOLEAN,
             Respond(r, t, yes)
      PROVE  TypeOK'
  <2>1. r \in Requests /\ \E rec : Moves(r, rec)
    BY <1>2, Responding DEF Requests
  <2> QED BY <1>2, <2>1, Moving, TypeFromSessions DEF Respond, history
<1>3. ASSUME NEW r \in Verifies, NEW t \in Submits, Verify(r, t)
      PROVE  TypeOK'
  <2>1. r \in Requests /\ \E rec : Moves(r, rec)
    BY <1>3, Verifying DEF Requests
  <2> QED BY <1>3, <2>1, Moving, TypeFromSessions DEF Verify, history
<1>4. ASSUME NEW r \in Requests, NEW named \in Classifications,
             Classify(r, named)
      PROVE  TypeOK'
  <2>1. \E rec : Moves(r, rec)
    BY <1>4, FanningOut
  <2>2. matched' \in [Submits -> Seq(Agents)]
    BY <1>0, <1>4, ResolveType DEF Classify
  <2> QED BY <1>0, <1>4, <2>1, <2>2, Moving DEF Classify, TypeOK
<1>5. ASSUME NEW r \in Requests, AgentEnds(r) \/ Reply(r)
      PROVE  TypeOK'
  <2>1. \E rec : Moves(r, rec)
    BY <1>5, FanningOut
  <2> QED BY <1>5, <2>1, Moving, TypeFromSessions DEF AgentEnds, Reply, history
<1>6. ASSUME NEW r \in Requests, AgentPauses(r)
      PROVE  TypeOK'
  <2>1. r \in Questions
    BY <1>6 DEF AgentPauses, EndpointOK, Questions, Requests
  <2>2. \E rec : Moves(r, rec)
    BY <1>6, <2>1, FanningOut
  <2> QED BY <1>6, <2>2, Moving, TypeFromSessions DEF AgentPauses, history
<1>7. ASSUME NEW r \in Requests, CommitPause(r) \/ CommitAnswer(r)
      PROVE  TypeOK'
  <2>1. r \in Questions /\ req[r] \in Sessions
    BY <1>0, <1>7 DEF CommitPause, CommitAnswer, EndpointOK, Questions, Requests
  <2>2. PICK turn \in {Written(r, db[TurnOf(r)]), Answered(r, db[TurnOf(r)])},
             e \in Ends : CommitAndClose(r, turn, e)
    BY <1>7 DEF CommitPause, CommitAnswer, Ends
  <2>3. req' \in [Requests -> Sessions]
    BY <2>2, Closing DEF CommitAndClose
  <2>4. ASSUME TurnOf(r) \in Submits PROVE turn \in TurnRows
    BY <1>0, <2>1, <2>2, <2>4, WrittenType
  <2>5. db' \in [Submits -> TurnRows]
    BY <1>0, <2>2, <2>4 DEF CommitAndClose
  <2>6. lock' \in [Submits -> Approvals \cup {Nobody}]
    BY <1>0, <2>2, UnlockType DEF CommitAndClose
  <2>7. Declined(r) \subseteq Questions
    <3>1. r \in Approvals => req[r].read \in Rows
      BY <1>7, <2>1 DEF CommitPause, CommitAnswer, EndpointOK, Open, Sessions,
                        Requests
    <3> QED BY <3>1 DEF Declined, Rows
  <2>8. /\ refused' = refused \cup Declined(r)
        /\ executed' = executed /\ matched' = matched
    BY <1>7, <2>2 DEF CommitPause, CommitAnswer, CommitAndClose
  <2> QED BY <1>0, <2>3, <2>5, <2>6, <2>7, <2>8 DEF TypeOK
<1>8. ASSUME NEW r \in Requests, ExecutorCommit(r)
      PROVE  TypeOK'
  <2>1. req' \in [Requests -> Sessions]
    BY <1>8, Committing
  <2>2. ASSUME TurnOf(r) \in Submits
        PROVE  Written(r, db[TurnOf(r)]) \in TurnRows
    BY <1>0, <2>2, WrittenType
  <2>3. db' \in [Submits -> TurnRows]
    BY <1>0, <1>8, <2>2 DEF ExecutorCommit
  <2>4. lock' \in [Submits -> Approvals \cup {Nobody}]
    BY <1>0, <1>8, UnlockType DEF ExecutorCommit
  <2>5. Declined(r) \subseteq Questions
    <3>1. r \in Approvals => req[r].read \in Rows
      BY <1>0, <1>8 DEF ExecutorCommit, EndpointOK, Open, Sessions
    <3> QED BY <3>1 DEF Declined, Rows
  <2> QED BY <1>0, <1>8, <2>1, <2>3, <2>4, <2>5 DEF ExecutorCommit, TypeOK
<1>9. ASSUME NEW r \in Requests, RollsBack(r)
      PROVE  TypeOK'
  <2>1. lock' \in [Submits -> Approvals \cup {Nobody}]
    BY <1>0, <1>9, RollingBack, UnlockType
  <2> QED BY <1>0, <1>9, <2>1, RollingBack DEF history, TypeOK
<1>10. ASSUME NEW r \in Requests, WaitForRow(r) \/ CommitVerification(r)
       PROVE  TypeOK'
  <2>1. \E rec : Moves(r, rec)
    BY <1>10, Resuming
  <2> QED BY <1>10, <2>1, Moving, TypeFromSessions
          DEF WaitForRow, CommitVerification, history
<1>11. ASSUME NEW r \in Requests, DeletePending(r)
       PROVE  TypeOK'
  <2>1. r \in Approvals
    BY <1>11 DEF DeletePending, EndpointOK, Requests, Unread
  <2>2. \E rec : Moves(r, rec)
    BY <1>11, Resuming
  <2>3. lock' \in [Submits -> Approvals \cup {Nobody}]
    BY <1>0, <1>11, <2>1 DEF DeletePending
  <2> QED BY <1>0, <1>11, <2>2, <2>3, Moving DEF DeletePending, history, TypeOK
<1>12. ASSUME NEW r \in Requests, Execute(r) \/ ApplyDecline(r)
       PROVE  TypeOK'
  <2>1. r \in Approvals /\ req[r] \in Sessions /\ req[r].read # NoRow
    BY <1>0, <1>12 DEF Execute, ApplyDecline, EndpointOK, Open, Requests, Unread
  <2>2. req[r].read.by \in Questions
    BY <2>1 DEF Sessions, Rows
  <2>3. \E rec : Moves(r, rec)
    BY <1>12, <2>1, Resuming
  <2>4. executed' \in [Questions -> Nat]
    BY <1>0, <1>12, <2>2 DEF Execute, ApplyDecline, history
  <2> QED BY <1>0, <1>12, <2>3, <2>4, Moving
          DEF Execute, ApplyDecline, history, TypeOK
<1>13. CASE Crash
  <2>1. ASSUME NEW r \in Requests
        PROVE  Ended(r, "gone") \in Sessions
    BY <1>0, <2>1, EndedType DEF Ends
  <2>2. req' = [r \in Requests |-> IF Open(r) THEN Ended(r, "gone") ELSE req[r]]
    BY <1>13 DEF Crash, Ended
  <2> QED BY <1>0, <1>13, <2>1, <2>2 DEF Crash, history, TypeOK
<1>14. CASE UNCHANGED vars
  BY <1>14 DEF vars, TypeOK
<1> QED
  BY <1>1, <1>2, <1>3, <1>4, <1>5, <1>6, <1>7, <1>8, <1>9, <1>10, <1>11,
     <1>12, <1>13, <1>14 DEF Next, Arrive, Progress, RollsBack

-----------------------------------------------------------------------------
(* A closed session never changes, and what an open one read stays read.   *)

Same(old, new) ==
  /\ new.turn = old.turn /\ new.read = old.read
  /\ new.approved = old.approved /\ new.judged = old.judged
Keeps(w) ==
  /\ req[w].phase = "closed" => req'[w] = req[w]
  /\ req[w].phase # "idle" => Same(req[w], req'[w]) /\ req'[w].phase # "idle"

\* It is enough to look at the request that acts.
LEMMA KeepsOthers ==
  ASSUME TypeOK, NEW r \in Requests, Others(r), Keeps(r), NEW w \in Requests
  PROVE  Keeps(w)
<1>1. CASE w = r
  BY <1>1
<1>2. CASE req'[w] = req[w]
  BY <1>2 DEF Keeps, Same
<1>3. CASE Woken(r, w)
  <2>1. req[w] \in Sessions
    BY DEF TypeOK
  <2> QED BY <1>3, <2>1 DEF Keeps, Same, Woken, Sessions
<1> QED BY <1>1, <1>2, <1>3 DEF Others

LEMMA MovesOthers ==
  ASSUME TypeOK, NEW r \in Requests, NEW rec, Moves(r, rec)
  PROVE  Others(r)
BY Moving DEF Others

LEMMA Frame ==
  ASSUME TypeOK, \A r \in Requests : EndpointOK(r), [Next]_vars,
         NEW w \in Requests
  PROVE  Keeps(w)
<1>0. \A r \in Requests : req[r] \in Sessions
  BY DEF TypeOK
<1>1. ASSUME NEW r \in Submits, Submit(r) \/ SubmitWithoutModel(r)
      PROVE  Keeps(w)
  <2>1. r \in Requests /\ \E rec : Moves(r, rec)
    BY <1>1, Submitting DEF Requests
  <2>2. Keeps(r)
    BY <1>1 DEF Submit, SubmitWithoutModel, Keeps
  <2> QED BY <2>1, <2>2, MovesOthers, KeepsOthers
<1>2. ASSUME NEW r \in Approvals, NEW t \in Submits, NEW yes \in BOOLEAN,
             Respond(r, t, yes)
      PROVE  Keeps(w)
  <2>1. r \in Requests /\ \E rec : Moves(r, rec)
    BY <1>2, Responding DEF Requests
  <2>2. Keeps(r)
    BY <1>2 DEF Respond, Keeps
  <2> QED BY <2>1, <2>2, MovesOthers, KeepsOthers
<1>3. ASSUME NEW r \in Verifies, NEW t \in Submits, Verify(r, t)
      PROVE  Keeps(w)
  <2>1. r \in Requests /\ \E rec : Moves(r, rec)
    BY <1>3, Verifying DEF Requests
  <2>2. Keeps(r)
    BY <1>3 DEF Verify, Keeps
  <2> QED BY <2>1, <2>2, MovesOthers, KeepsOthers
<1>4. ASSUME NEW r \in Requests, NEW named \in Classifications,
             Classify(r, named)
      PROVE  Keeps(w)
  <2> DEFINE rec == [req[r] EXCEPT !.phase = "fanout", !.todo = Resolve(named)]
  <2>1. Moves(r, rec)
    BY <1>4, FanningOut
  <2>2. Same(req[r], rec) /\ rec.phase = "fanout"
    BY <1>0 DEF Same, Sessions
  <2>3. req[r].phase = "opened"
    BY <1>4 DEF Classify
  <2>4. Keeps(r)
    BY <2>1, <2>2, <2>3, Moving DEF Keeps
  <2> QED BY <2>1, <2>4, MovesOthers, KeepsOthers
<1>5. ASSUME NEW r \in Requests, AgentEnds(r) \/ AgentPauses(r) \/ Reply(r)
      PROVE  Keeps(w)
  <2>1. PICK rec \in Sessions : /\ Moves(r, rec) /\ Same(req[r], rec)
                                /\ rec.phase # "idle"
    <3>1. CASE AgentEnds(r)
      <4>1. Same(req[r], Finish(req[r])) /\ Finish(req[r]).phase # "idle"
        BY <1>0 DEF Same, Finish, Sessions
      <4> QED BY <3>1, <4>1, FanningOut DEF Moves
    <3>2. CASE AgentPauses(r)
      <4> DEFINE new == [req[r] EXCEPT !.phase = "asking", !.newRow = Question(r)]
      <4>1. Same(req[r], new) /\ new.phase # "idle"
        BY <1>0 DEF Same, Sessions
      <4>2. r \in Questions
        BY <3>2 DEF AgentPauses, EndpointOK, Questions, Requests
      <4> QED BY <3>2, <4>1, <4>2, FanningOut DEF Moves
    <3>3. CASE Reply(r)
      <4> DEFINE new == [req[r] EXCEPT !.phase = "replying"]
      <4>1. Same(req[r], new) /\ new.phase # "idle"
        BY <1>0 DEF Same, Sessions
      <4> QED BY <3>3, <4>1, FanningOut DEF Moves
    <3> QED BY <1>5, <3>1, <3>2, <3>3
  <2>2. req[r].phase = "fanout"
    BY <1>5 DEF AgentEnds, AgentPauses, Reply
  <2>3. Keeps(r)
    BY <2>1, <2>2, Moving DEF Keeps
  <2> QED BY <2>1, <2>3, MovesOthers, KeepsOthers
<1>6. ASSUME NEW r \in Requests, Others(r), Open(r), NEW e \in Ends,
             req'[r] = Ended(r, e)
      PROVE  Keeps(w)
  <2>1. Same(req[r], Ended(r, e)) /\ Ended(r, e).phase = "closed"
    BY <1>0 DEF Same, Ended, Sessions
  <2>2. Keeps(r)
    BY <1>6, <2>1 DEF Keeps, Open
  <2> QED BY <1>6, <2>2, KeepsOthers
<1>7. ASSUME NEW r \in Requests, CommitPause(r) \/ CommitAnswer(r)
      PROVE  Keeps(w)
  <2>1. Open(r) /\ \E e \in Ends : \E turn : CommitAndClose(r, turn, e)
    BY <1>7 DEF CommitPause, CommitAnswer, Ends, Open
  <2> QED BY <1>6, <2>1, Closing DEF CommitAndClose
<1>8. ASSUME NEW r \in Requests, ExecutorCommit(r)
      PROVE  Keeps(w)
  <2> DEFINE rec == [req[r] EXCEPT !.newResults = NoRows]
  <2>1. Same(req[r], rec) /\ rec.phase = req[r].phase
    BY <1>0 DEF Same, Sessions
  <2>2. req[r].phase = "fanout" /\ req'[r] = rec /\ Others(r)
    BY <1>8, Committing DEF ExecutorCommit
  <2>3. Keeps(r)
    BY <2>1, <2>2 DEF Keeps
  <2> QED BY <2>2, <2>3, KeepsOthers
<1>9. ASSUME NEW r \in Requests, RollsBack(r)
      PROVE  Keeps(w)
  BY <1>6, <1>9, RollingBack
<1>10. ASSUME NEW r \in Requests,
              DeletePending(r) \/ WaitForRow(r) \/ CommitVerification(r)
       PROVE  Keeps(w)
  <2>1. PICK p \in {"resuming", "blocked"} :
          \/ Moves(r, [req[r] EXCEPT !.phase = p])
          \/ Moves(r, Ended(r, "done"))
    BY <1>10, Resuming DEF Ended
  <2>2. Same(req[r], Ended(r, "done")) /\ Ended(r, "done").phase # "idle"
    BY <1>0 DEF Same, Sessions, Ended
  <2>3. /\ Same(req[r], [req[r] EXCEPT !.phase = p])
        /\ [req[r] EXCEPT !.phase = p].phase # "idle"
    BY <1>0 DEF Same, Sessions
  <2>4. req[r].phase # "closed"
    BY <1>10 DEF DeletePending, WaitForRow, CommitVerification
  <2>5. Keeps(r)
    BY <2>1, <2>2, <2>3, <2>4, Moving DEF Keeps
  <2> QED BY <2>1, <2>5, MovesOthers, KeepsOthers
<1>11. ASSUME NEW r \in Requests, Execute(r) \/ ApplyDecline(r)
       PROVE  Keeps(w)
  <2>1. req[r].read # NoRow /\ req[r].phase = "resuming"
    BY <1>11 DEF Execute, ApplyDecline, EndpointOK, Open, Requests, Unread
  <2>2. Same(req[r], Resumed(req[r])) /\ Resumed(req[r]).phase = "fanout"
    BY <1>0 DEF Same, Sessions, Resumed
  <2>3. /\ Same(req[r], Finish(Resumed(req[r])))
        /\ Finish(Resumed(req[r])).phase = "fanout"
    BY <1>0 DEF Same, Sessions, Resumed, Finish
  <2>4. Moves(r, Resumed(req[r])) \/ Moves(r, Finish(Resumed(req[r])))
    BY <1>11, <2>1, Resuming
  <2>5. Keeps(r)
    BY <2>1, <2>2, <2>3, <2>4, Moving DEF Keeps
  <2> QED BY <2>4, <2>5, MovesOthers, KeepsOthers
<1>12. CASE Crash
  <2>1. req'[w] = IF Open(w) THEN Ended(w, "gone") ELSE req[w]
    BY <1>12 DEF Crash, Ended
  <2>2. Same(req[w], Ended(w, "gone")) /\ Ended(w, "gone").phase = "closed"
    BY <1>0 DEF Same, Ended, Sessions
  <2> QED BY <2>1, <2>2 DEF Keeps, Open, Same
<1>13. CASE UNCHANGED vars
  BY <1>13 DEF vars, Keeps, Same
<1> QED
  BY <1>1, <1>2, <1>3, <1>4, <1>5, <1>7, <1>8, <1>9, <1>10, <1>11,
     <1>12, <1>13 DEF Next, Arrive, Progress, RollsBack

-----------------------------------------------------------------------------
(* What the phases and the endpoints say of a session.                     *)

Good(w) == SessionOK(w) /\ EndpointOK(w)

LEMMA GoodOthers ==
  ASSUME TypeOK, NEW r \in Requests, Others(r), Good(r)', NEW w \in Requests,
         Good(w)
  PROVE  Good(w)'
<1>1. CASE w = r
  BY <1>1
<1>2. CASE req'[w] = req[w]
  BY <1>2 DEF Good, SessionOK, EndpointOK, Question, Open
<1>3. CASE Woken(r, w)
  <2>1. req[w] \in Sessions /\ req[w].phase = "blocked"
    BY <1>3 DEF TypeOK, Woken
  <2>2. PICK p \in {"reading", "resuming"} : req'[w] = [req[w] EXCEPT !.phase = p]
    BY <1>3 DEF Woken
  <2>3. /\ req'[w].phase \in {"reading", "resuming"}
        /\ req'[w].turn = req[w].turn /\ req'[w].read = req[w].read
        /\ req'[w].newRow = req[w].newRow
        /\ req'[w].newResults = req[w].newResults
    BY <2>1, <2>2 DEF Sessions
  <2>4. SessionOK(w)'
    BY <2>1, <2>3 DEF Good, SessionOK, Open, Unread
  <2>5. EndpointOK(w)'
    BY <2>1, <2>3 DEF Good, EndpointOK, Open, Unread
  <2> QED BY <2>4, <2>5 DEF Good
<1> QED BY <1>1, <1>2, <1>3 DEF Others

\* A session that ends is good whatever it was.
LEMMA GoodEnd ==
  ASSUME TypeOK, NEW r \in Requests, Good(r), Open(r), NEW e \in Ends,
         req'[r] = Ended(r, e)
  PROVE  Good(r)'
<1>1. req[r] \in Sessions
  BY DEF TypeOK
<1>2. /\ req'[r].phase = "closed" /\ req'[r].turn = req[r].turn
      /\ req'[r].read = req[r].read
  BY <1>1 DEF Sessions, Ended
<1>3. SessionOK(r)'
  BY <1>2 DEF Good, SessionOK, Open, Unread
<1>4. EndpointOK(r)'
  BY <1>2 DEF Good, EndpointOK, Open, Unread
<1> QED BY <1>3, <1>4 DEF Good

LEMMA IdleIs ==
  ASSUME NEW r \in Requests, Good(r), req[r].phase = "idle"
  PROVE  req[r].newRow = NoRow /\ req[r].newResults = NoRows
         /\ req[r].read = NoRow /\ req[r].todo = <<>> /\ req[r].end = "none"
BY DEF Good, SessionOK, Idle

LEMMA GoodStep ==
  ASSUME TypeOK, \A r \in Requests : Good(r), [Next]_vars, NEW w \in Requests
  PROVE  Good(w)'
<1>0. \A r \in Requests : req[r] \in Sessions /\ EndpointOK(r)
  BY DEF TypeOK, Good
<1>a. Submits \cap Approvals = {} /\ Submits \cap Verifies = {} /\ Approvals \cap Verifies = {}
  BY TurnsAssumption
<1>1. ASSUME NEW r \in Submits, Submit(r) \/ SubmitWithoutModel(r)
      PROVE  Good(w)'
  <2>1. r \in Requests /\ \E rec : Moves(r, rec)
    BY <1>1, Submitting DEF Requests
  <2>2. req[r].phase = "idle"
    BY <1>1 DEF Submit, SubmitWithoutModel
  <2>3. req[r].newRow = NoRow /\ req[r].newResults = NoRows /\ req[r].read = NoRow
    BY <2>1, <2>2, IdleIs
  <2>4. /\ req'[r].phase \in {"opened", "closed"} /\ req'[r].turn = r
        /\ req'[r].newRow = NoRow /\ req'[r].newResults = NoRows
        /\ req'[r].read = NoRow
    <3>1. CASE Submit(r)
      <4>1. Moves(r, [req[r] EXCEPT !.phase = "opened", !.turn = r])
        BY <3>1, Submitting
      <4>2. req'[r] = [req[r] EXCEPT !.phase = "opened", !.turn = r]
        BY <2>1, <4>1, Moving
      <4> QED BY <1>0, <2>1, <2>3, <4>2 DEF Sessions
    <3>2. CASE SubmitWithoutModel(r)
      <4>1. Moves(r, [req[r] EXCEPT !.phase = "closed", !.turn = r, !.end = "error"])
        BY <3>2, Submitting
      <4>2. req'[r] = [req[r] EXCEPT !.phase = "closed", !.turn = r, !.end = "error"]
        BY <2>1, <4>1, Moving
      <4> QED BY <1>0, <2>1, <2>3, <4>2 DEF Sessions
    <3> QED BY <1>1, <3>1, <3>2
  <2>5. SessionOK(r)'
    BY <2>4 DEF SessionOK, Unread
  <2>6. EndpointOK(r)'
    BY <1>a, <2>4 DEF EndpointOK, Unread
  <2> QED BY <2>1, <2>5, <2>6, MovesOthers, GoodOthers DEF Good
<1>2. ASSUME NEW r \in Approvals, NEW t \in Submits, NEW yes \in BOOLEAN,
             Respond(r, t, yes)
      PROVE  Good(w)'
  <2>1. r \in Requests /\ \E rec : Moves(r, rec)
    BY <1>2, Responding DEF Requests
  <2>2. req[r].phase = "idle"
    BY <1>2 DEF Respond
  <2>3. req[r].newRow = NoRow /\ req[r].newResults = NoRows
    BY <2>1, <2>2, IdleIs
  <2>4. /\ req'[r].phase = IF db[t].pending = NoRow THEN "closed" ELSE "reading"
        /\ req'[r].turn = t /\ req'[r].read = db[t].pending
        /\ req'[r].newRow = NoRow /\ req'[r].newResults = NoRows
    <3>1. req'[r] = Responded(r, t, yes)
      BY <1>2, <2>1, Responding, Moving
    <3> QED BY <1>0, <2>1, <2>3, <3>1 DEF Sessions, Responded
  <2>5. SessionOK(r)'
    BY <2>4 DEF SessionOK, Unread
  <2>6. EndpointOK(r)'
    BY <1>a, <2>4 DEF EndpointOK, Unread, Open
  <2> QED BY <2>1, <2>5, <2>6, MovesOthers, GoodOthers DEF Good
<1>3. ASSUME NEW r \in Verifies, NEW t \in Submits, Verify(r, t)
      PROVE  Good(w)'
  <2>1. r \in Requests /\ \E rec : Moves(r, rec)
    BY <1>3, Verifying DEF Requests
  <2>2. req[r].phase = "idle"
    BY <1>3 DEF Verify
  <2>3. req[r].newRow = NoRow /\ req[r].read = NoRow
    BY <2>1, <2>2, IdleIs
  <2>4. /\ req'[r].phase = IF db[t].turn = "final" THEN "verifying" ELSE "closed"
        /\ req'[r].turn = t /\ req'[r].read = NoRow
        /\ req'[r].newRow = NoRow
    <3>1. req'[r] = Opened(r, t)
      BY <1>3, <2>1, Verifying, Moving
    <3> QED BY <1>0, <2>1, <2>3, <3>1 DEF Sessions, Opened
  <2>5. SessionOK(r)'
    BY <2>4 DEF SessionOK, Unread
  <2>6. EndpointOK(r)'
    BY <1>a, <2>4 DEF EndpointOK
  <2> QED BY <2>1, <2>5, <2>6, MovesOthers, GoodOthers DEF Good
<1>4. ASSUME NEW r \in Requests, Others(r), req[r].phase \in {"opened", "fanout"},
             req'[r].phase \in {"fanout", "replying"}, Same(req[r], req'[r]),
             req'[r].newRow = req[r].newRow,
             req'[r].phase = "replying" => req'[r].todo = <<>>
      PROVE  Good(w)'
  <2>1. req[r].newRow = NoRow
    BY <1>4 DEF Good, SessionOK, Open
  <2>2. SessionOK(r)'
    BY <1>4, <2>1 DEF Good, SessionOK, Same, Unread
  <2>3. EndpointOK(r)'
    BY <1>4 DEF Good, EndpointOK, Same, Unread, Open
  <2> QED BY <1>4, <2>2, <2>3, GoodOthers DEF Good
<1>5. ASSUME NEW r \in Requests, NEW named \in Classifications,
             Classify(r, named)
      PROVE  Good(w)'
  <2>1. Moves(r, [req[r] EXCEPT !.phase = "fanout", !.todo = Resolve(named)])
    BY <1>5, FanningOut
  <2>2. /\ req'[r].phase = "fanout" /\ Same(req[r], req'[r])
        /\ req'[r].newRow = req[r].newRow
    <3>1. req'[r] = [req[r] EXCEPT !.phase = "fanout", !.todo = Resolve(named)]
      BY <2>1, Moving
    <3> QED BY <1>0, <3>1 DEF Same, Sessions
  <2>3. req[r].phase = "opened"
    BY <1>5 DEF Classify
  <2> QED BY <1>4, <2>1, <2>2, <2>3, MovesOthers
<1>6. ASSUME NEW r \in Requests, AgentEnds(r) \/ Reply(r)
      PROVE  Good(w)'
  <2>1. req[r].phase = "fanout"
    BY <1>6 DEF AgentEnds, Reply
  <2>2. CASE AgentEnds(r)
    <3>1. Moves(r, Finish(req[r]))
      BY <2>2, FanningOut
    <3>2. /\ req'[r].phase = "fanout" /\ Same(req[r], req'[r])
          /\ req'[r].newRow = req[r].newRow
      <4>1. req'[r] = Finish(req[r])
        BY <3>1, Moving
      <4> QED BY <1>0, <4>1 DEF Same, Sessions, Finish
    <3> QED BY <1>4, <2>1, <3>1, <3>2, MovesOthers
  <2>3. CASE Reply(r)
    <3>1. Moves(r, [req[r] EXCEPT !.phase = "replying"]) /\ req[r].todo = <<>>
      BY <2>3, FanningOut DEF Reply
    <3>2. /\ req'[r].phase = "replying" /\ Same(req[r], req'[r])
          /\ req'[r].newRow = req[r].newRow /\ req'[r].todo = <<>>
      <4>1. req'[r] = [req[r] EXCEPT !.phase = "replying"]
        BY <3>1, Moving
      <4> QED BY <1>0, <3>1, <4>1 DEF Same, Sessions
    <3> QED BY <1>4, <2>1, <3>1, <3>2, MovesOthers
  <2> QED BY <1>6, <2>2, <2>3
<1>7. ASSUME NEW r \in Requests, AgentPauses(r)
      PROVE  Good(w)'
  <2>1. r \in Questions
    BY <1>0, <1>7 DEF AgentPauses, EndpointOK, Questions, Requests
  <2>2. Moves(r, [req[r] EXCEPT !.phase = "asking", !.newRow = Question(r)])
    BY <1>7, <2>1, FanningOut
  <2>3. /\ req'[r].phase = "asking" /\ req'[r].newRow = Question(r)
        /\ req'[r].todo = req[r].todo /\ req'[r].done = req[r].done
        /\ Same(req[r], req'[r])
    <3>1. req'[r] = [req[r] EXCEPT !.phase = "asking", !.newRow = Question(r)]
      BY <2>2, Moving
    <3> QED BY <1>0, <3>1 DEF Same, Sessions
  <2>4. req[r].phase = "fanout" /\ req[r].todo # <<>>
    BY <1>7 DEF AgentPauses
  <2>5. SessionOK(r)'
    BY <2>3, <2>4 DEF Good, SessionOK, Same, Unread, Question
  <2>6. EndpointOK(r)'
    BY <2>3, <2>4 DEF Good, EndpointOK, Same, Unread, Open
  <2> QED BY <2>2, <2>5, <2>6, MovesOthers, GoodOthers DEF Good
<1>8. ASSUME NEW r \in Requests, CommitPause(r) \/ CommitAnswer(r)
      PROVE  Good(w)'
  <2>1. Open(r) /\ \E e \in Ends : \E turn : CommitAndClose(r, turn, e)
    BY <1>8 DEF CommitPause, CommitAnswer, Ends, Open
  <2>2. Others(r) /\ \E e \in Ends : req'[r] = Ended(r, e)
    BY <2>1, Closing DEF CommitAndClose
  <2>3. Good(r)'
    BY <2>1, <2>2, GoodEnd
  <2> QED BY <2>2, <2>3, GoodOthers
<1>9. ASSUME NEW r \in Requests, ExecutorCommit(r)
      PROVE  Good(w)'
  <2>1. req'[r] = [req[r] EXCEPT !.newResults = NoRows] /\ Others(r)
    BY <1>9, Committing
  <2>2. /\ req'[r].phase = req[r].phase /\ Same(req[r], req'[r])
        /\ req'[r].newRow = req[r].newRow
    BY <1>0, <2>1 DEF Same, Sessions
  <2>3. req[r].phase = "fanout"
    BY <1>9 DEF ExecutorCommit
  <2> QED BY <1>4, <2>1, <2>2, <2>3
<1>10. ASSUME NEW r \in Requests, RollsBack(r)
      PROVE  Good(w)'
  BY <1>10, RollingBack, GoodEnd, GoodOthers
<1>11. ASSUME NEW r \in Requests, CommitVerification(r)
      PROVE  Good(w)'
  <2>1. Moves(r, Ended(r, "done")) /\ Open(r)
    BY <1>11, Resuming DEF Ended, CommitVerification, Open
  <2> QED BY <2>1, Moving, MovesOthers, GoodEnd, GoodOthers DEF Ends
<1>12. ASSUME NEW r \in Requests, DeletePending(r) \/ WaitForRow(r)
      PROVE  Good(w)'
  <2>1. PICK p \in {"resuming", "blocked"} : Moves(r, [req[r] EXCEPT !.phase = p])
    BY <1>12, Resuming
  <2>2. /\ req'[r].phase \in {"resuming", "blocked"} /\ Same(req[r], req'[r])
        /\ req'[r].newRow = req[r].newRow /\ req'[r].newResults = req[r].newResults
    <3>1. req'[r] = [req[r] EXCEPT !.phase = p]
      BY <2>1, Moving
    <3> QED BY <1>0, <3>1 DEF Same, Sessions
  <2>3. req[r].phase = "reading"
    BY <1>12 DEF DeletePending, WaitForRow
  <2>4. SessionOK(r)'
    BY <2>2, <2>3 DEF Good, SessionOK, Same, Unread, Open
  <2>5. EndpointOK(r)'
    BY <2>2, <2>3 DEF Good, EndpointOK, Same, Unread, Open
  <2> QED BY <2>1, <2>4, <2>5, MovesOthers, GoodOthers DEF Good
<1>13. ASSUME NEW r \in Requests, Execute(r) \/ ApplyDecline(r)
       PROVE  Good(w)'
  <2>1. req[r].read # NoRow /\ req[r].phase = "resuming"
    BY <1>0, <1>13 DEF Execute, ApplyDecline, EndpointOK, Open, Requests, Unread
  <2>2. PICK rec \in {Resumed(req[r]), Finish(Resumed(req[r]))} : Moves(r, rec)
    BY <1>13, <2>1, Resuming
  <2>3. /\ req'[r].phase = "fanout" /\ Same(req[r], req'[r])
        /\ req'[r].newRow = req[r].newRow
    <3>1. /\ rec.phase = "fanout" /\ Same(req[r], rec)
          /\ rec.newRow = req[r].newRow
      BY <1>0, <2>2 DEF Same, Sessions, Resumed, Finish
    <3> QED BY <2>2, <3>1, Moving
  <2>4. req[r].newRow = NoRow
    BY <2>1 DEF Good, SessionOK, Open
  <2>5. SessionOK(r)'
    BY <2>1, <2>3, <2>4 DEF Good, SessionOK, Same, Unread
  <2>6. EndpointOK(r)'
    BY <2>1, <2>3 DEF Good, EndpointOK, Same, Unread, Open
  <2> QED BY <2>2, <2>5, <2>6, MovesOthers, GoodOthers DEF Good
<1>14. CASE Crash
  <2>1. req'[w] = IF Open(w) THEN Ended(w, "gone") ELSE req[w]
    BY <1>14 DEF Crash, Ended
  <2>2. CASE Open(w)
    BY <2>1, <2>2, GoodEnd DEF Ends
  <2>3. CASE ~Open(w)
    BY <2>1, <2>3 DEF Good, SessionOK, EndpointOK, Question, Open
  <2> QED BY <2>2, <2>3
<1>15. CASE UNCHANGED vars
  BY <1>15 DEF vars, Good, SessionOK, EndpointOK, Question, Open
<1> QED
  BY <1>1, <1>2, <1>3, <1>5, <1>6, <1>7, <1>8, <1>9, <1>10, <1>11,
     <1>12, <1>13, <1>14, <1>15 DEF Next, Arrive, Progress, RollsBack

-----------------------------------------------------------------------------
(* The steps by kind.                                                      *)

Arrives(r) ==
  \/ r \in Submits /\ (Submit(r) \/ SubmitWithoutModel(r))
  \/ r \in Approvals /\ \E t \in Submits, yes \in BOOLEAN : Respond(r, t, yes)
  \/ r \in Verifies /\ \E t \in Submits : Verify(r, t)
Works(r) ==
  AgentEnds(r) \/ AgentPauses(r) \/ Reply(r) \/ Execute(r) \/ ApplyDecline(r)
Commits(r) == CommitPause(r) \/ CommitAnswer(r)

LEMMA Kinds ==
  ASSUME Next
  PROVE  \/ Crash
         \/ \E r \in Requests :
              \/ Arrives(r)
              \/ \E named \in Classifications : Classify(r, named)
              \/ Works(r)
              \/ DeletePending(r) \/ WaitForRow(r) \/ CommitVerification(r)
              \/ Commits(r) \/ ExecutorCommit(r) \/ RollsBack(r)
BY DEF Next, Arrive, Progress, Arrives, Works, Commits, RollsBack, Requests

LEMMA Arriving ==
  ASSUME TypeOK, NEW r \in Requests, Arrives(r)
  PROVE  /\ Others(r) /\ req[r].phase = "idle"
         /\ UNCHANGED <<db, lock, history>>
         /\ \E rec : Moves(r, rec)
<1>1. \E rec : Moves(r, rec)
  BY Submitting, Responding, Verifying DEF Arrives
<1>2. req[r].phase = "idle" /\ UNCHANGED <<db, lock, history>>
  BY DEF Arrives, Submit, SubmitWithoutModel, Respond, Verify
<1> QED BY <1>1, <1>2, MovesOthers

LEMMA Routing ==
  ASSUME TypeOK, NEW r \in Requests, NEW named \in Classifications,
         Classify(r, named)
  PROVE  /\ Others(r) /\ req[r].phase = "opened" /\ req'[r].phase = "fanout"
         /\ req'[r].todo = Resolve(named)
         /\ req'[r].newResults = req[r].newResults
         /\ UNCHANGED <<db, lock, refused, executed>>
<1>1. Moves(r, [req[r] EXCEPT !.phase = "fanout", !.todo = Resolve(named)])
  BY FanningOut
<1>2. req'[r] = [req[r] EXCEPT !.phase = "fanout", !.todo = Resolve(named)]
  BY <1>1, Moving
<1>3. req[r] \in Sessions
  BY DEF TypeOK
<1>4. /\ req'[r].phase = "fanout" /\ req'[r].todo = Resolve(named)
      /\ req'[r].newResults = req[r].newResults
  BY <1>2, <1>3 DEF Sessions
<1> QED BY <1>1, <1>4, MovesOthers DEF Classify

LEMMA Worked ==
  ASSUME TypeOK, \A r \in Requests : Good(r), NEW r \in Requests, Works(r)
  PROVE  /\ Others(r)
         /\ req[r].phase \in {"fanout", "resuming"} /\ req'[r].phase \in Working
         /\ r \in Questions
         /\ UNCHANGED <<db, lock, refused, matched>>
<1>0. req[r] \in Sessions /\ SessionOK(r) /\ EndpointOK(r)
  BY DEF TypeOK, Good
<1>1. r \in Questions /\ req[r].phase \in {"fanout", "resuming"}
  BY <1>0 DEF Works, AgentEnds, AgentPauses, Reply, Execute, ApplyDecline,
              EndpointOK, Questions, Requests
<1>2. CASE AgentEnds(r)
  <2>1. Moves(r, Finish(req[r])) /\ Finish(req[r]).phase = "fanout"
    BY <1>0, <1>2, FanningOut DEF Finish, Sessions
  <2> QED BY <1>1, <1>2, <2>1, Moving, MovesOthers
          DEF AgentEnds, history, Working
<1>3. CASE AgentPauses(r)
  <2> DEFINE rec == [req[r] EXCEPT !.phase = "asking", !.newRow = Question(r)]
  <2>1. Moves(r, rec) /\ rec.phase = "asking"
    BY <1>0, <1>1, <1>3, FanningOut DEF Sessions
  <2> QED BY <1>1, <1>3, <2>1, Moving, MovesOthers
          DEF AgentPauses, history, Working
<1>4. CASE Reply(r)
  <2> DEFINE rec == [req[r] EXCEPT !.phase = "replying"]
  <2>1. Moves(r, rec) /\ rec.phase = "replying"
    BY <1>0, <1>4, FanningOut DEF Sessions
  <2> QED BY <1>1, <1>4, <2>1, Moving, MovesOthers DEF Reply, history, Working
<1>5. CASE Execute(r) \/ ApplyDecline(r)
  <2>1. req[r].read # NoRow
    BY <1>0, <1>5 DEF Execute, ApplyDecline, EndpointOK, Open, Requests, Unread
  <2>2. PICK rec \in {Resumed(req[r]), Finish(Resumed(req[r]))} : Moves(r, rec)
    BY <1>5, <2>1, Resuming
  <2>3. rec.phase = "fanout"
    BY <1>0, <2>2 DEF Resumed, Finish, Sessions
  <2> QED BY <1>1, <1>5, <2>2, <2>3, Moving, MovesOthers
          DEF Execute, ApplyDecline, history, Working
<1> QED BY <1>2, <1>3, <1>4, <1>5 DEF Works

LEMMA Committed ==
  ASSUME TypeOK, NEW r \in Requests, Commits(r)
  PROVE  /\ req[r].phase \in {"asking", "replying"}
         /\ Others(r) /\ Unlock(r)
         /\ \/ /\ req[r].phase = "asking" /\ req'[r] = Ended(r, "paused")
               /\ db' = [db EXCEPT ![TurnOf(r)] = Written(r, db[TurnOf(r)])]
               /\ ~RowInTheWay(r)
            \/ /\ req[r].phase = "replying" /\ req'[r] = Ended(r, "done")
               /\ db' = [db EXCEPT ![TurnOf(r)] = Answered(r, db[TurnOf(r)])]
         /\ refused' = refused \cup Declined(r)
         /\ UNCHANGED <<executed, matched>>
<1>1. CASE CommitPause(r)
  <2>1. CommitAndClose(r, Written(r, db[TurnOf(r)]), "paused")
    BY <1>1 DEF CommitPause
  <2>2. req'[r] = Ended(r, "paused") /\ Others(r)
    BY <2>1, Closing DEF CommitAndClose, Ends
  <2> QED BY <1>1, <2>1, <2>2 DEF CommitPause, CommitAndClose
<1>2. CASE CommitAnswer(r)
  <2>1. CommitAndClose(r, Answered(r, db[TurnOf(r)]), "done")
    BY <1>2 DEF CommitAnswer
  <2>2. req'[r] = Ended(r, "done") /\ Others(r)
    BY <2>1, Closing DEF CommitAndClose, Ends
  <2> QED BY <1>2, <2>1, <2>2 DEF CommitAnswer, CommitAndClose
<1> QED BY <1>1, <1>2 DEF Commits

\* The other steps of a request's own phase.
LEMMA Stepping ==
  ASSUME TypeOK, NEW r \in Requests
  PROVE  /\ DeletePending(r) =>
              /\ Others(r) /\ req[r].phase = "reading"
              /\ req'[r] = [req[r] EXCEPT !.phase = "resuming"]
              /\ UNCHANGED <<db, history>>
         /\ WaitForRow(r) =>
              /\ Others(r) /\ req[r].phase = "reading"
              /\ req'[r] = [req[r] EXCEPT !.phase = "blocked"]
              /\ UNCHANGED <<db, lock, history>>
         /\ CommitVerification(r) =>
              /\ Others(r) /\ req[r].phase = "verifying"
              /\ req'[r] = Ended(r, "done")
              /\ UNCHANGED <<db, lock, history>>
<1>1. DeletePending(r) => Moves(r, [req[r] EXCEPT !.phase = "resuming"])
  BY Resuming
<1>2. WaitForRow(r) => Moves(r, [req[r] EXCEPT !.phase = "blocked"])
  BY Resuming
<1>3. CommitVerification(r) => Moves(r, Ended(r, "done"))
  BY Resuming DEF Ended
<1> QED BY <1>1, <1>2, <1>3, Moving, MovesOthers
        DEF DeletePending, WaitForRow, CommitVerification

LEMMA Crashing ==
  ASSUME TypeOK, Crash, NEW w \in Requests
  PROVE  /\ req'[w] = IF Open(w) THEN Ended(w, "gone") ELSE req[w]
         /\ \A t \in Submits : lock'[t] = Nobody
         /\ UNCHANGED <<db, history>>
BY DEF Crash, Ended

\* What a request does by itself.
Acts(w) ==
  \/ Arrives(w)
  \/ \E named \in Classifications : Classify(w, named)
  \/ Works(w)
  \/ DeletePending(w) \/ WaitForRow(w) \/ CommitVerification(w)
  \/ Commits(w) \/ ExecutorCommit(w) \/ RollsBack(w)

LEMMA Acting ==
  ASSUME TypeOK, \A r \in Requests : Good(r), NEW r \in Requests, Acts(r)
  PROVE  /\ Others(r) /\ req[r].phase # "closed"
         /\ Arrives(r) <=> req[r].phase = "idle"
<1>1. ASSUME Arrives(r)
      PROVE  Others(r) /\ req[r].phase = "idle"
  BY <1>1, Arriving
<1>2. ASSUME NEW named \in Classifications, Classify(r, named)
      PROVE  Others(r) /\ Open(r)
  BY <1>2, Routing DEF Open
<1>3. ASSUME Works(r) PROVE Others(r) /\ Open(r)
  BY <1>3, Worked DEF Open
<1>4. ASSUME DeletePending(r) \/ WaitForRow(r) \/ CommitVerification(r)
      PROVE  Others(r) /\ Open(r)
  BY <1>4, Stepping DEF Open
<1>5. ASSUME Commits(r) \/ ExecutorCommit(r) \/ RollsBack(r)
      PROVE  Others(r) /\ Open(r)
  BY <1>5, Committed, Committing, RollingBack DEF Open, ExecutorCommit
<1> QED BY <1>1, <1>2, <1>3, <1>4, <1>5 DEF Acts, Open

\* A record changes by what its request does, by a wake-up or by a crash.
LEMMA Changes ==
  ASSUME TypeOK, \A r \in Requests : Good(r), [Next]_vars, NEW w \in Requests
  PROVE  req'[w] = req[w] \/ Acts(w) \/ Crash \/ \E r \in Requests : Woken(r, w)
<1>1. CASE UNCHANGED vars
  BY <1>1 DEF vars
<1>2. ASSUME NEW r \in Requests, Acts(r)
      PROVE  req'[w] = req[w] \/ Acts(w) \/ Woken(r, w)
  BY <1>2, Acting DEF Others
<1> QED BY <1>1, <1>2, Kinds DEF Acts

\* The rows of a turn change by a commit of one of its requests.
LEMMA RowChanges ==
  ASSUME TypeOK, \A r \in Requests : Good(r), [Next]_vars, NEW t \in Submits
  PROVE  \/ db'[t] = db[t]
         \/ \E r \in Questions : /\ Commits(r) \/ ExecutorCommit(r)
                                 /\ req[r].turn = t
<1>1. CASE UNCHANGED vars
  BY <1>1 DEF vars
<1>2. ASSUME NEW r \in Requests, Commits(r) \/ ExecutorCommit(r), db'[t] # db[t]
      PROVE  r \in Questions /\ req[r].turn = t
  <2>1. r \in Questions
    <3>1. req[r].phase \in {"fanout", "asking", "replying"} /\ EndpointOK(r)
      BY <1>2, Committed DEF ExecutorCommit, Good
    <3> QED BY <3>1 DEF EndpointOK, Questions, Requests
  <2>2. req[r].turn = t
    BY <1>2, Committed DEF ExecutorCommit, TypeOK, TurnOf
  <2> QED BY <2>1, <2>2
<1>3. ASSUME NEW r \in Requests, ~(Commits(r) \/ ExecutorCommit(r)), Acts(r)
      PROVE  db' = db
  BY <1>3, Arriving, Routing, Worked, Stepping, RollingBack DEF Acts
<1>4. CASE Crash
  BY <1>4 DEF Crash
<1> QED BY <1>1, <1>2, <1>3, <1>4, Kinds DEF Acts

-----------------------------------------------------------------------------
(* Row locks.                                                              *)

Holding == Working \cup {"resuming"}

LEMMA LockKept ==
  ASSUME TypeOK, NEW r \in Requests, Others(r), Keeps(r), lock' = lock,
         NEW t \in Submits, LockOK(t),
         req[r].phase \in Holding => req'[r].phase \in Holding
  PROVE  LockOK(t)'
<1> SUFFICES ASSUME lock[t] # Nobody
             PROVE  /\ req'[lock[t]].turn = t
                    /\ req'[lock[t]].phase \in Holding
  BY DEF LockOK, Holding
<1>1. /\ lock[t] \in Requests /\ req[lock[t]].turn = t
      /\ req[lock[t]].phase \in Holding
  BY DEF TypeOK, LockOK, Holding, Requests
<1>2. CASE lock[t] = r
  BY <1>1, <1>2 DEF Keeps, Same, Holding, Working
<1>3. CASE lock[t] # r
  BY <1>1, <1>3 DEF Others, Woken, Holding, Working
<1> QED BY <1>2, <1>3

LEMMA LockLeft ==
  ASSUME TypeOK, NEW r \in Requests, Others(r), Unlock(r),
         NEW t \in Submits, LockOK(t)
  PROVE  LockOK(t)'
<1>1. lock'[t] = IF t = req[r].turn /\ lock[t] = r THEN Nobody ELSE lock[t]
  BY DEF TypeOK, Unlock, TurnOf
<1> SUFFICES ASSUME lock'[t] # Nobody
             PROVE  /\ req'[lock[t]].turn = t
                    /\ req'[lock[t]].phase \in Holding
  BY <1>1 DEF LockOK, Holding
<1>2. /\ lock[t] \in Requests /\ req[lock[t]].turn = t
      /\ req[lock[t]].phase \in Holding
  BY <1>1 DEF TypeOK, LockOK, Holding, Requests
<1>3. lock[t] # r
  BY <1>1, <1>2
<1> QED BY <1>2, <1>3 DEF Others, Woken, Holding, Working

LEMMA LockStep ==
  ASSUME TypeOK, \A r \in Requests : Good(r), [Next]_vars,
         NEW t \in Submits, LockOK(t)
  PROVE  LockOK(t)'
<1>0. \A r \in Requests : Keeps(r)
  BY Frame DEF Good
<1>1. ASSUME NEW r \in Requests, Arrives(r)
      PROVE  LockOK(t)'
  BY <1>0, <1>1, Arriving, LockKept DEF Holding, Working
<1>2. ASSUME NEW r \in Requests, NEW named \in Classifications, Classify(r, named)
      PROVE  LockOK(t)'
  BY <1>0, <1>2, Routing, LockKept DEF Holding, Working
<1>3. ASSUME NEW r \in Requests, Works(r)
      PROVE  LockOK(t)'
  BY <1>0, <1>3, Worked, LockKept DEF Holding, Working
<1>4. ASSUME NEW r \in Requests, WaitForRow(r) \/ CommitVerification(r)
      PROVE  LockOK(t)'
  BY <1>0, <1>4, Stepping, LockKept DEF Holding, Working
<1>5. ASSUME NEW r \in Requests, DeletePending(r)
      PROVE  LockOK(t)'
  <2>1. /\ Others(r) /\ req[r].phase = "reading"
        /\ req'[r] = [req[r] EXCEPT !.phase = "resuming"]
    BY <1>5, Stepping
  <2>2. req'[r].phase = "resuming" /\ req'[r].turn = req[r].turn
    BY <2>1 DEF TypeOK, Sessions
  <2>3. CASE lock'[t] = lock[t]
    <3> SUFFICES ASSUME lock[t] # Nobody
                 PROVE  /\ req'[lock[t]].turn = t
                        /\ req'[lock[t]].phase \in Holding
      BY <2>3 DEF LockOK, Holding
    <3>1. /\ lock[t] \in Requests /\ req[lock[t]].turn = t
          /\ req[lock[t]].phase \in Holding
      BY DEF TypeOK, LockOK, Holding, Requests
    <3> QED BY <2>1, <3>1 DEF Others, Woken, Holding, Working
  <2>4. CASE lock'[t] # lock[t]
    <3>1. t = req[r].turn /\ lock'[t] = r
      BY <1>5, <2>4 DEF DeletePending, TypeOK, TurnOf
    <3> QED BY <2>2, <3>1 DEF LockOK, Working
  <2> QED BY <2>3, <2>4
<1>6. ASSUME NEW r \in Requests, Commits(r) \/ ExecutorCommit(r) \/ RollsBack(r)
      PROVE  LockOK(t)'
  <2>1. Others(r) /\ Unlock(r)
    BY <1>6, Committed, Committing, RollingBack DEF ExecutorCommit
  <2> QED BY <2>1, LockLeft
<1>7. CASE Crash
  BY <1>7 DEF Crash, LockOK
<1>8. CASE UNCHANGED vars
  BY <1>8 DEF vars, LockOK
<1> QED BY <1>1, <1>2, <1>3, <1>4, <1>5, <1>6, <1>7, <1>8, Kinds

-----------------------------------------------------------------------------
(* Before a turn is routed.                                                *)

LEMMA FreshStep ==
  ASSUME TypeOK, \A r \in Requests : Good(r), [Next]_vars,
         NEW t \in Submits, FreshOK(t)
  PROVE  FreshOK(t)'
<1>0. \A r \in Requests : Keeps(r) /\ SessionOK(r) /\ EndpointOK(r) /\ req[r] \in Sessions
  BY Frame DEF Good, TypeOK
<1>a. t \in Requests
  BY DEF Requests
<1> SUFFICES ASSUME req'[t].phase \in {"idle", "opened"}
             PROVE  /\ db'[t] = NoTurn
                    /\ \A r \in Approvals : req'[r].turn = t => ~Open(r)'
  BY DEF FreshOK
<1>1. req[t].phase \in {"idle", "opened"}
  <2>1. CASE Acts(t)
    <3>1. ASSUME Commits(t) \/ ExecutorCommit(t) \/ RollsBack(t) PROVE FALSE
      <4>1. req'[t].phase \in {"closed", "fanout"}
        <5>1. CASE Commits(t)
          <6>1. \E e \in Ends : req'[t] = Ended(t, e)
            BY <1>0, <1>a, <5>1, Committed DEF Ends
          <6> QED BY <1>0, <6>1 DEF Ended, Sessions
        <5>2. CASE ExecutorCommit(t)
          <6>1. /\ req'[t] = [req[t] EXCEPT !.newResults = NoRows]
                /\ req[t].phase = "fanout"
            BY <1>a, <5>2, Committing DEF ExecutorCommit
          <6> QED BY <1>0, <1>a, <6>1 DEF Sessions
        <5>3. CASE RollsBack(t)
          BY <1>0, <1>a, <5>3, RollingBack DEF Ended, Sessions
        <5> QED BY <3>1, <5>1, <5>2, <5>3
      <4> QED BY <4>1
    <3>2. ASSUME DeletePending(t) \/ WaitForRow(t) \/ CommitVerification(t) PROVE FALSE
      BY <1>0, <1>a, <3>2, Stepping DEF EndpointOK, Unread
    <3>3. ASSUME Works(t) PROVE FALSE
      BY <1>a, <3>3, Worked DEF Working
    <3> QED BY <1>a, <2>1, <3>1, <3>2, <3>3, Arriving, Routing DEF Acts
  <2>2. ASSUME NEW r \in Requests, Woken(r, t) PROVE FALSE
    BY <1>0, <1>a, <2>2 DEF Woken, EndpointOK, Unread
  <2>3. CASE Crash
    BY <1>0, <1>a, <2>3, Crashing DEF Ended, Sessions
  <2> QED BY <1>a, <2>1, <2>2, <2>3, Changes
<1>2. db[t] = NoTurn /\ \A r \in Approvals : req[r].turn = t => ~Open(r)
  BY <1>1 DEF FreshOK
<1>3. db'[t] = NoTurn
  <2>1. ASSUME NEW r \in Questions, Commits(r) \/ ExecutorCommit(r),
               req[r].turn = t
        PROVE  FALSE
    <3>1. r \in Requests /\ req[r].phase \in Working
      BY <2>1, Committed DEF ExecutorCommit, Working, Questions, Requests
    <3>2. r # t
      BY <1>1, <3>1 DEF Working
    <3>3. r \in Approvals
      BY <1>0, <2>1, <3>1, <3>2 DEF EndpointOK, Questions, Working
    <3> QED BY <1>2, <2>1, <3>1, <3>3 DEF Open, Working
  <2> QED BY <1>2, <2>1, RowChanges
\* An approval of the turn would have to arrive now, and finds no row.
<1>4. ASSUME NEW r \in Approvals, req'[r].turn = t, Open(r)'
      PROVE  FALSE
  <2>1. r \in Requests
    BY DEF Requests
  <2>2. CASE req[r].phase = "idle"
    <3>1. Acts(r)
      <4>1. req'[r] # req[r]
        BY <1>4, <2>2 DEF Open
      <4>2. ~Crash
        BY <2>1, <2>2, <4>1, Crashing DEF Open
      <4> QED BY <2>1, <2>2, <4>1, <4>2, Changes DEF Woken
    <3>2. PICK u \in Submits, yes \in BOOLEAN : Respond(r, u, yes)
      BY <2>1, <2>2, <3>1, Acting, TurnsAssumption DEF Arrives
    <3>3. req'[r] = Responded(r, u, yes)
      BY <2>1, <3>2, Responding, Moving
    <3>4. req'[r].turn = u /\ (db[u].pending = NoRow => req'[r].phase = "closed")
      BY <1>0, <2>1, <3>3 DEF Responded, Sessions
    <3> QED BY <1>2, <1>4, <3>4 DEF NoTurn, Open
  <2>3. CASE req[r].phase = "closed"
    BY <1>0, <1>4, <2>1, <2>3 DEF Keeps, Open
  <2>4. CASE Open(r)
    BY <1>0, <1>2, <1>4, <2>1, <2>4 DEF Keeps, Same, Open
  <2> QED BY <2>2, <2>3, <2>4 DEF Open
<1> QED BY <1>3, <1>4

-----------------------------------------------------------------------------
(* The rows a commit leaves.                                               *)

Plus(f, g) == [a \in Agents |-> f[a] + g[a]]

LEMMA WrittenIs ==
  ASSUME NEW r \in Requests, NEW turn \in TurnRows
  PROVE  LET w == Written(r, turn)  a == Answered(r, turn) IN
         /\ w.turn = (IF turn.turn = "absent" THEN "open" ELSE turn.turn)
         /\ a.turn = "final" /\ a.answer = r /\ w.answer = turn.answer
         /\ w.pending = IF req[r].newRow # NoRow THEN req[r].newRow
                        ELSE IF lock[req[r].turn] = r THEN NoRow ELSE turn.pending
         /\ w.results = Plus(turn.results, req[r].newResults)
         /\ a.pending = w.pending /\ a.results = w.results
BY DEF Written, Answered, TurnRows, Plus, TurnOf

\* What the committed row becomes: the request's question, nothing, or itself.
LEMMA CommitDoes ==
  ASSUME TypeOK, \A r \in Requests : Good(r), NEW r \in Questions,
         Commits(r) \/ ExecutorCommit(r)
  PROVE  LET t == req[r].turn  left == IF lock[t] = r THEN NoRow ELSE db[t].pending IN
         /\ t \in Submits /\ Open(r) /\ Others(r) /\ Unlock(r)
         /\ req[r].phase \in Working
         /\ db' = [db EXCEPT ![t] = db'[t]]
         /\ db'[t].results = Plus(db[t].results, req[r].newResults)
         /\ refused' = refused \cup Declined(r)
         /\ UNCHANGED <<executed, matched>>
         /\ \/ /\ req[r].phase = "asking" /\ req'[r] = Ended(r, "paused")
               /\ db'[t].pending = Question(r) /\ ~RowInTheWay(r)
               /\ db'[t].turn = IF db[t].turn = "absent" THEN "open" ELSE db[t].turn
               /\ db'[t].answer = db[t].answer
            \/ /\ req[r].phase = "replying" /\ req'[r] = Ended(r, "done")
               /\ db'[t].turn = "final" /\ db'[t].answer = r
               /\ db'[t].pending = left
            \/ /\ req[r].phase = "fanout" /\ ExecutorCommit(r)
               /\ req'[r] = [req[r] EXCEPT !.newResults = NoRows]
               /\ db'[t].pending = left
               /\ db'[t].turn = IF db[t].turn = "absent" THEN "open" ELSE db[t].turn
               /\ db'[t].answer = db[t].answer
<1> DEFINE t == req[r].turn
           W == Written(r, db[t])
           A == Answered(r, db[t])
<1>1. r \in Requests /\ SessionOK(r) /\ req[r].phase \in Working
  BY Committed DEF Requests, Questions, Good, ExecutorCommit, Working
<1>2. t \in Submits /\ db[t] \in TurnRows /\ Open(r)
  BY <1>1 DEF SessionOK, TypeOK, Open, Working
<1>3. /\ W.turn = (IF db[t].turn = "absent" THEN "open" ELSE db[t].turn)
      /\ A.turn = "final" /\ A.answer = r /\ W.answer = db[t].answer
      /\ W.pending = IF req[r].newRow # NoRow THEN req[r].newRow
                     ELSE IF lock[t] = r THEN NoRow ELSE db[t].pending
      /\ W.results = Plus(db[t].results, req[r].newResults)
      /\ A.pending = W.pending /\ A.results = W.results
  BY <1>1, <1>2, WrittenIs
<1> HIDE DEF W, A
<1>4. /\ req[r].phase = "asking" => W.pending = Question(r)
      /\ req[r].phase # "asking" =>
           W.pending = IF lock[t] = r THEN NoRow ELSE db[t].pending
  <2>1. Question(r) # NoRow
    BY <1>1, TurnsAssumption DEF Question, NoRow, Requests
  <2> QED BY <1>1, <1>2, <1>3, <2>1 DEF SessionOK, Open
<1>5. CASE Commits(r)
  <2>1. /\ Others(r) /\ Unlock(r)
        /\ \/ /\ req[r].phase = "asking" /\ req'[r] = Ended(r, "paused")
              /\ db' = [db EXCEPT ![t] = W] /\ ~RowInTheWay(r)
           \/ /\ req[r].phase = "replying" /\ req'[r] = Ended(r, "done")
              /\ db' = [db EXCEPT ![t] = A]
        /\ refused' = refused \cup Declined(r)
        /\ UNCHANGED <<executed, matched>>
    BY <1>1, <1>5, Committed DEF W, A, TurnOf
  <2>2. db \in [Submits -> TurnRows]
    BY DEF TypeOK
  <2> QED BY <1>1, <1>2, <1>3, <1>4, <2>1, <2>2
<1>6. CASE ExecutorCommit(r)
  <2>1. /\ Others(r) /\ Unlock(r) /\ req[r].phase = "fanout"
        /\ req'[r] = [req[r] EXCEPT !.newResults = NoRows]
        /\ db' = [db EXCEPT ![t] = W]
        /\ refused' = refused \cup Declined(r)
        /\ UNCHANGED <<executed, matched>>
    BY <1>1, <1>6, Committing DEF ExecutorCommit, W, TurnOf
  <2>2. db \in [Submits -> TurnRows]
    BY DEF TypeOK
  <2> QED BY <1>1, <1>2, <1>3, <1>4, <1>6, <2>1, <2>2
<1> QED BY <1>5, <1>6

-----------------------------------------------------------------------------
(* Where rows come from.                                                   *)

AskedThen(row, t) ==
  row # NoRow => /\ req'[row.by].phase = "closed"
                 /\ req'[row.by].end = "paused"
                 /\ req'[row.by].turn = t

LEMMA RowsStep ==
  ASSUME TypeOK, \A r \in Requests : Good(r), RowsOK, [Next]_vars
  PROVE  RowsOK'
<1>0. \A r \in Requests : Keeps(r) /\ SessionOK(r) /\ EndpointOK(r) /\ req[r] \in Sessions
  BY Frame DEF Good, TypeOK
<1>1. ASSUME NEW row \in Rows \cup {NoRow}, NEW t, AskedBy(row, t)
      PROVE  AskedThen(row, t)
  <2>1. row # NoRow => row.by \in Requests
    BY DEF Rows, Questions, Requests
  <2> QED BY <1>0, <1>1, <2>1 DEF AskedBy, AskedThen, Keeps
<1>2. ASSUME NEW t \in Submits PROVE AskedThen(db'[t].pending, t)
  <2>0. AskedThen(db[t].pending, t)
    BY <1>1 DEF RowsOK, TypeOK, TurnRows
  <2>1. ASSUME NEW r \in Questions, Commits(r) \/ ExecutorCommit(r),
               req[r].turn = t
        PROVE  AskedThen(db'[t].pending, t)
    <3>1. r \in Requests
      BY DEF Questions, Requests
    <3>2. CASE db'[t].pending \in {NoRow, db[t].pending}
      BY <2>0, <3>2 DEF AskedThen
    <3>3. CASE req'[r] = Ended(r, "paused") /\ db'[t].pending = Question(r)
      <4>1. /\ req'[r].phase = "closed" /\ req'[r].end = "paused"
            /\ req'[r].turn = t
        BY <1>0, <2>1, <3>1, <3>3 DEF Ended, Sessions
      <4> QED BY <3>3, <4>1 DEF AskedThen, Question
    <3> QED BY <2>1, <3>2, <3>3, CommitDoes
  <2> QED BY <2>0, <2>1, RowChanges
<1>3. ASSUME NEW r \in Approvals PROVE AskedThen(req'[r].read, req'[r].turn)
  <2>0. r \in Requests /\ AskedThen(req[r].read, req[r].turn)
    BY <1>0, <1>1 DEF RowsOK, Requests, Sessions
  <2>1. CASE req[r].phase # "idle"
    BY <1>0, <2>0, <2>1 DEF Keeps, Same
  <2>2. CASE req'[r] = req[r]
    BY <2>0, <2>2
  <2>3. CASE req[r].phase = "idle" /\ req'[r] # req[r]
    <3>1. Acts(r)
      BY <2>0, <2>3, Changes, Crashing DEF Woken, Open
    <3>2. PICK u \in Submits, yes \in BOOLEAN : Respond(r, u, yes)
      BY <2>0, <2>3, <3>1, Acting, TurnsAssumption DEF Arrives
    <3>3. req'[r] = Responded(r, u, yes)
      BY <2>0, <3>2, Responding, Moving
    <3>4. req'[r].turn = u /\ req'[r].read = db[u].pending
      BY <1>0, <2>0, <3>3 DEF Responded, Sessions
    <3>5. AskedThen(db[u].pending, u)
      BY <1>1 DEF RowsOK, TypeOK, TurnRows
    <3> QED BY <3>4, <3>5
  <2> QED BY <2>1, <2>2, <2>3
<1> QED BY <1>2, <1>3 DEF RowsOK, AskedBy, AskedThen

LEMMA InvInit == Init => Inv
<1> SUFFICES ASSUME Init PROVE Inv
  OBVIOUS
<1>1. NoRows \in Counts
  BY DEF NoRows, Counts
<1>2. NoTurn \in TurnRows /\ Idle \in Sessions
  BY <1>1 DEF NoTurn, TurnRows, Idle, Sessions, Phases
<1>3. TypeOK
  BY <1>2 DEF Init, TypeOK
<1>4. \A r \in Requests : req[r] = Idle
  BY DEF Init
<1>5. ASSUME NEW r \in Requests PROVE SessionOK(r) /\ EndpointOK(r)
  <2>0. Idle.phase = "idle" /\ Idle.read = NoRow
    BY DEF Idle
  <2>1. /\ req[r] = Idle /\ req[r].phase = "idle" /\ req[r].read = NoRow
        /\ ~Open(r)
    BY <1>4, <2>0 DEF Open
  <2>2. SessionOK(r)
    BY <2>1 DEF SessionOK, Unread
  <2>3. EndpointOK(r)
    BY <2>1 DEF EndpointOK, Unread
  <2> QED BY <2>2, <2>3
<1>6. \A t \in Submits : LockOK(t) /\ FreshOK(t)
  BY <1>4 DEF Init, LockOK, FreshOK, Idle, Open, Requests
<1>7. RowsOK
  BY <1>4 DEF Init, RowsOK, AskedBy, NoTurn, Idle, Requests
<1> QED BY <1>3, <1>5, <1>6, <1>7 DEF Inv

LEMMA InvStep == Inv /\ [Next]_vars => Inv'
<1> SUFFICES ASSUME Inv, [Next]_vars PROVE Inv'
  OBVIOUS
<1>1. TypeOK /\ (\A r \in Requests : Good(r)) /\ RowsOK
  BY DEF Inv, Good
<1>2. TypeOK' /\ \A r \in Requests : Good(r)'
  BY <1>1, TypeStep, GoodStep DEF Good
<1>3. \A t \in Submits : LockOK(t)' /\ FreshOK(t)'
  BY <1>1, LockStep, FreshStep DEF Inv
<1>4. RowsOK'
  BY <1>1, RowsStep
<1> QED BY <1>2, <1>3, <1>4 DEF Inv, Good

\* How sessions, locks and rows relate, however requests interleave.
THEOREM Consistency == Spec => []Inv
BY InvInit, InvStep, PTL DEF Spec

-----------------------------------------------------------------------------
(* Each execution is owed to an approval.                                  *)

\* Once an approval is past its reading, it stays past it.
LEMMA PastReading ==
  ASSUME TypeOK, \A r \in Requests : Good(r), [Next]_vars, NEW w \in Requests,
         req[w].phase \notin Unread \cup {"idle"}
  PROVE  req'[w].phase \notin Unread \cup {"idle"}
<1>0. req[w] \in Sessions
  BY DEF TypeOK
<1>1. ASSUME NEW e \in Ends, req'[w] = Ended(w, e)
      PROVE  req'[w].phase = "closed"
  BY <1>0, <1>1 DEF Ended, Sessions
<1>2. CASE Acts(w)
  <2>1. ~Arrives(w) /\ ~DeletePending(w) /\ ~WaitForRow(w)
    BY Arriving, Stepping DEF Unread
  <2>2. ASSUME NEW named \in Classifications, Classify(w, named)
        PROVE  req'[w].phase = "fanout"
    BY <2>2, Routing
  <2>3. Works(w) => req'[w].phase \in Working
    BY Worked
  <2>4. CommitVerification(w) \/ Commits(w) \/ RollsBack(w) => req'[w].phase = "closed"
    BY <1>1, Stepping, Committed, RollingBack DEF Ends
  <2>5. ExecutorCommit(w) => req'[w].phase = "fanout"
    <3>1. ExecutorCommit(w) => /\ req'[w] = [req[w] EXCEPT !.newResults = NoRows]
                               /\ req[w].phase = "fanout"
      BY Committing DEF ExecutorCommit
    <3> QED BY <1>0, <3>1 DEF Sessions
  <2> QED BY <1>2, <2>1, <2>2, <2>3, <2>4, <2>5 DEF Acts, Working, Unread
<1>3. CASE Crash
  BY <1>1, <1>3, Crashing DEF Ends, Unread
<1>4. ASSUME NEW r \in Requests, Woken(r, w) PROVE FALSE
  BY <1>4 DEF Woken, Unread
<1> QED BY <1>2, <1>3, <1>4, Changes

LEMMA OnlyExecuteRuns ==
  ASSUME TypeOK, \A r \in Requests : Good(r), [Next]_vars, executed' # executed
  PROVE  \E r \in Requests : Execute(r)
<1>1. ASSUME NEW r \in Requests, Acts(r), ~Execute(r)
      PROVE  executed' = executed
  <2>1. Works(r) => executed' = executed
    BY <1>1 DEF Works, AgentEnds, AgentPauses, Reply, ApplyDecline, history
  <2>2. ExecutorCommit(r) => executed' = executed
    BY DEF ExecutorCommit
  <2> QED BY <1>1, <2>1, <2>2, Arriving, Routing, Stepping, Committed, RollingBack
          DEF Acts, history
<1>2. Crash \/ UNCHANGED vars => executed' = executed
  BY DEF Crash, vars, history
<1> QED BY <1>1, <1>2, Kinds DEF Acts

LEMMA RunsStep ==
  ASSUME Inv, RunsOwed, [Next]_vars
  PROVE  RunsOwed'
<1>0. /\ TypeOK /\ \A r \in Requests : Good(r)
      /\ \A r \in Requests : Keeps(r) /\ SessionOK(r) /\ EndpointOK(r)
  BY Frame DEF Inv, Good
<1> SUFFICES ASSUME NEW q \in Questions
             PROVE  executed'[q] <= Cardinality(Ran(q)')
  BY DEF RunsOwed
<1>1. Ran(q) \subseteq Ran(q)'
  <2> SUFFICES ASSUME NEW r \in Ran(q) PROVE r \in Ran(q)'
    OBVIOUS
  <2>1. /\ r \in Approvals /\ r \in Requests /\ req[r].read.by = q
        /\ req[r].approved /\ req[r].phase \notin Unread
    BY DEF Ran, Yes, Requests
  <2>2. req[r].phase # "idle"
    <3>1. Idle.read.by \notin Requests
      BY TurnsAssumption DEF Idle, NoRow, Requests
    <3>2. q \in Requests
      BY DEF Questions, Requests
    <3> QED BY <1>0, <2>1, <3>1, <3>2 DEF SessionOK
  <2>3. /\ req'[r].read = req[r].read /\ req'[r].approved = req[r].approved
        /\ req'[r].phase \notin Unread
    BY <1>0, <2>1, <2>2, PastReading DEF Keeps, Same
  <2> QED BY <2>1, <2>3 DEF Ran, Yes
<1>2. /\ IsFiniteSet(Ran(q)) /\ IsFiniteSet(Ran(q)')
      /\ Cardinality(Ran(q)) \in Nat /\ Cardinality(Ran(q)') \in Nat
      /\ Cardinality(Ran(q)) <= Cardinality(Ran(q)')
  <2>1. Ran(q)' \subseteq Approvals
    BY DEF Ran, Yes
  <2>2. IsFiniteSet(Ran(q)')
    BY <2>1, FS_Subset, TurnsAssumption
  <2> QED BY <1>1, <2>2, FS_Subset, FS_CardinalityType
<1>3. executed[q] \in Nat /\ executed[q] <= Cardinality(Ran(q))
  BY <1>0 DEF RunsOwed, TypeOK
<1>4. CASE executed'[q] = executed[q]
  BY <1>2, <1>3, <1>4
<1>5. CASE executed'[q] # executed[q]
  <2>1. PICK r \in Requests : Execute(r)
    BY <1>0, <1>5, OnlyExecuteRuns
  <2>2. executed'[q] = executed[q] + 1 /\ req[r].read.by = q
    BY <1>0, <1>5, <2>1 DEF Execute, TypeOK
  <2>3. r \notin Ran(q)
    BY <2>1 DEF Execute, Ran, Unread
  <2>4. r \in Ran(q)'
    <3>1. r \in Approvals /\ req[r].approved /\ req[r].phase = "resuming"
      BY <1>0, <2>1 DEF Execute, EndpointOK, Requests, Unread
    <3>2. req'[r].phase \in Working
      BY <1>0, <2>1, Worked DEF Works
    <3>3. req'[r].read = req[r].read /\ req'[r].approved = req[r].approved
      BY <1>0, <3>1 DEF Keeps, Same
    <3> QED BY <2>2, <3>1, <3>2, <3>3 DEF Ran, Yes, Working, Unread
  <2>5. Cardinality(Ran(q) \cup {r}) = Cardinality(Ran(q)) + 1
    BY <1>2, <2>3, FS_AddElement
  <2>6. Cardinality(Ran(q) \cup {r}) <= Cardinality(Ran(q)')
    BY <1>1, <1>2, <2>4, FS_Subset
  <2> QED BY <1>2, <1>3, <2>2, <2>5, <2>6
<1> QED BY <1>4, <1>5

\* No execution of a gated tool without an approve request of its own.
THEOREM RunsAreApproved == Spec => []EachRunWasApproved
<1>1. Init => RunsOwed
  <2> SUFFICES ASSUME Init, NEW q \in Questions
               PROVE  executed[q] <= Cardinality(Ran(q))
    BY DEF RunsOwed
  <2>1. Ran(q) \subseteq Approvals
    BY DEF Ran, Yes
  <2>2. Cardinality(Ran(q)) \in Nat
    BY <2>1, FS_Subset, FS_CardinalityType, TurnsAssumption
  <2> QED BY <2>2 DEF Init
<1>2. Inv /\ RunsOwed /\ [Next]_vars => RunsOwed'
  BY RunsStep
<1>3. Inv /\ RunsOwed => EachRunWasApproved
  <2> SUFFICES ASSUME Inv, RunsOwed, NEW q \in Questions
               PROVE  executed[q] <= Cardinality(Yes(q))
    BY DEF EachRunWasApproved, Yes
  <2>1. Ran(q) \subseteq Yes(q) /\ Yes(q) \subseteq Approvals
    BY DEF Ran, Yes
  <2>2. IsFiniteSet(Yes(q))
    BY <2>1, FS_Subset, TurnsAssumption
  <2>3. /\ Cardinality(Ran(q)) \in Nat /\ Cardinality(Yes(q)) \in Nat
        /\ Cardinality(Ran(q)) <= Cardinality(Yes(q))
    BY <2>1, <2>2, FS_Subset, FS_CardinalityType
  <2>4. executed[q] \in Nat /\ executed[q] <= Cardinality(Ran(q))
    BY DEF Inv, TypeOK, RunsOwed
  <2> QED BY <2>3, <2>4
<1> QED BY <1>1, <1>2, <1>3, Consistency, PTL DEF Spec

-----------------------------------------------------------------------------
(* Counting occurrences.                                                   *)

LEMMA OccType ==
  ASSUME NEW s \in Seq(Agents), NEW a
  PROVE  /\ IsFiniteSet({i \in DOMAIN s : s[i] = a})
         /\ Occurrences(s, a) \in Nat
<1>1. DOMAIN s = 1 .. Len(s) /\ Len(s) \in Nat
  OBVIOUS
<1>2. IsFiniteSet(DOMAIN s)
  BY <1>1, FS_Interval
<1>3. IsFiniteSet({i \in DOMAIN s : s[i] = a})
  BY <1>2, FS_Subset
<1> QED BY <1>3, FS_CardinalityType DEF Occurrences

LEMMA OccEmpty == \A a : Occurrences(<<>>, a) = 0
<1>1. \A a : {i \in DOMAIN <<>> : <<>>[i] = a} = {}
  OBVIOUS
<1> QED BY <1>1, FS_EmptySet DEF Occurrences

LEMMA OccTail ==
  ASSUME NEW s \in Seq(Agents), s # <<>>, NEW a
  PROVE  Occurrences(s, a) =
           Occurrences(Tail(s), a) + (IF Head(s) = a THEN 1 ELSE 0)
<1> DEFINE I == {i \in DOMAIN s : s[i] = a}
           J == {j \in DOMAIN Tail(s) : Tail(s)[j] = a}
           f == [j \in J |-> j + 1]
<1>1. /\ Len(s) \in Nat \ {0} /\ DOMAIN s = 1 .. Len(s)
      /\ Tail(s) \in Seq(Agents) /\ DOMAIN Tail(s) = 1 .. (Len(s) - 1)
      /\ \A j \in DOMAIN Tail(s) : Tail(s)[j] = s[j + 1]
      /\ Head(s) = s[1]
  OBVIOUS
<1>2. IsFiniteSet(J) /\ IsFiniteSet(I)
  BY <1>1, OccType
<1>3. f \in Bijection(J, I \ {1})
  <2>1. f \in [J -> I \ {1}]
    <3> SUFFICES ASSUME NEW j \in J PROVE j + 1 \in I \ {1}
      OBVIOUS
    <3>1. j \in 1 .. (Len(s) - 1) /\ s[j + 1] = a
      BY <1>1
    <3> QED BY <1>1, <3>1
  <2>2. \A i, j \in J : f[i] = f[j] => i = j
    <3>1. J \subseteq Nat
      BY <1>1
    <3> QED BY <3>1
  <2>3. \A i \in I \ {1} : \E j \in J : f[j] = i
    <3> SUFFICES ASSUME NEW i \in I \ {1} PROVE i - 1 \in J /\ f[i - 1] = i
      OBVIOUS
    <3>1. i \in 2 .. Len(s) /\ s[i] = a
      BY <1>1
    <3>2. i - 1 \in DOMAIN Tail(s) /\ (i - 1) + 1 = i
      BY <1>1, <3>1
    <3>3. i - 1 \in J
      BY <1>1, <3>1, <3>2
    <3> QED BY <3>2, <3>3
  <2> HIDE DEF f, I, J
  <2> QED BY <2>1, <2>2, <2>3 DEF Bijection, Injection, Surjection, IsInjective
<1>4. Cardinality(I \ {1}) = Cardinality(J)
  <2>1. ExistsBijection(J, I \ {1})
    BY <1>3 DEF ExistsBijection
  <2> HIDE DEF I, J
  <2> QED BY <1>2, <2>1, FS_Bijection
<1>5. Cardinality(I) \in Nat /\ Cardinality(I \ {1}) = IF 1 \in I THEN Cardinality(I) - 1 ELSE Cardinality(I)
  BY <1>2, FS_RemoveElement, FS_CardinalityType
<1>6. 1 \in I <=> Head(s) = a
  BY <1>1
<1>7. Cardinality(I) = Cardinality(J) + (IF Head(s) = a THEN 1 ELSE 0)
  <2> HIDE DEF I, J
  <2>1. CASE 1 \in I
    BY <1>4, <1>5, <1>6, <2>1
  <2>2. CASE 1 \notin I
    BY <1>4, <1>5, <1>6, <2>2
  <2> QED BY <2>1, <2>2
<1> QED BY <1>7 DEF Occurrences

-----------------------------------------------------------------------------
(* What a request still brings in to its turn.                             *)

LEMMA OwedType ==
  ASSUME NEW row \in Rows, NEW a
  PROVE  /\ Owed(row) \in Seq(Agents) /\ Owed(row) # <<>>
         /\ Occurrences(Owed(row), a) \in Nat
<1>1. row.agent \in Agents /\ row.rest \in Seq(Agents)
  BY DEF Rows
<1>2. Owed(row) \in Seq(Agents) /\ Owed(row) # <<>>
  BY <1>1 DEF Owed
<1> QED BY <1>2, OccType

LEMMA MineType ==
  ASSUME Inv, NEW r \in Questions, Routed(r), NEW a \in Agents
  PROVE  /\ req[r].newResults[a] \in Nat
         /\ Occurrences(Work(r), a) \in Nat /\ Mine(r, a) \in Nat
         /\ Work(r) \in Seq(Agents)
<1>1. r \in Requests /\ req[r] \in Sessions
  BY DEF Inv, TypeOK, Questions, Requests
<1>2. req[r].newResults[a] \in Nat
  BY <1>1 DEF Sessions, Counts
<1>3. Work(r) \in Seq(Agents)
  <2>1. req[r].phase \in Unread => req[r].read \in Rows
    BY <1>1 DEF Inv, EndpointOK, Questions, Sessions, Routed
  <2> QED BY <1>1, <2>1, OwedType DEF Work, Sessions
<1>4. Occurrences(Work(r), a) \in Nat
  BY <1>3, OccType
<1> QED BY <1>2, <1>3, <1>4 DEF Mine

LEMMA FinishKeeps ==
  ASSUME NEW rec \in Sessions, rec.todo # <<>>, NEW a \in Agents
  PROVE  /\ Finish(rec).newResults[a] + Occurrences(Finish(rec).todo, a)
              = rec.newResults[a] + Occurrences(rec.todo, a)
         /\ Finish(rec).phase = "fanout"
<1> DEFINE h == Head(rec.todo)
<1>1. /\ rec.todo \in Seq(Agents) /\ Tail(rec.todo) \in Seq(Agents) /\ h \in Agents
      /\ rec.newResults \in [Agents -> Nat]
  BY DEF Sessions, Counts
<1>2. /\ Finish(rec).todo = Tail(rec.todo) /\ Finish(rec).phase = "fanout"
      /\ Finish(rec).newResults = AddRow(rec.newResults, h)
  BY DEF Finish, Sessions
<1>3. AddRow(rec.newResults, h)[a] = rec.newResults[a] + (IF h = a THEN 1 ELSE 0)
  BY <1>1 DEF AddRow
<1>4. Occurrences(rec.todo, a) = Occurrences(Tail(rec.todo), a) + (IF h = a THEN 1 ELSE 0)
  BY <1>1, OccTail
<1>5. /\ rec.newResults[a] \in Nat /\ Occurrences(Tail(rec.todo), a) \in Nat
  BY <1>1, OccType
<1>6. CASE h = a
  BY <1>2, <1>3, <1>4, <1>5, <1>6
<1>7. CASE h # a
  BY <1>2, <1>3, <1>4, <1>5, <1>7
<1> QED BY <1>2, <1>6, <1>7

\* The fan-out moves sub-agents from what is to do to what is done.
LEMMA WorkKeeps ==
  ASSUME Inv, NEW r \in Requests, Works(r), NEW a \in Agents
  PROVE  Mine(r, a)' = Mine(r, a)
<1>0. /\ TypeOK /\ req[r] \in Sessions /\ (\A w \in Requests : Good(w))
      /\ SessionOK(r) /\ EndpointOK(r)
  BY DEF Inv, TypeOK, Good
<1>1. req'[r].phase \in Working /\ r \in Questions
  BY <1>0, Worked
<1>2. Mine(r, a)' = req'[r].newResults[a] + Occurrences(req'[r].todo, a)
  BY <1>1 DEF Mine, Work, Working, Unread
<1>3. CASE AgentEnds(r)
  <2>1. req'[r] = Finish(req[r]) /\ req[r].phase = "fanout" /\ req[r].todo # <<>>
    BY <1>0, <1>3, FanningOut, Moving DEF AgentEnds
  <2>2. Mine(r, a) = req[r].newResults[a] + Occurrences(req[r].todo, a)
    BY <2>1 DEF Mine, Work, Unread
  <2> QED BY <1>0, <1>2, <2>1, <2>2, FinishKeeps
<1>4. ASSUME NEW rec, req'[r] = rec, req[r].phase = "fanout",
             rec.newResults = req[r].newResults, rec.todo = req[r].todo
      PROVE  Mine(r, a)' = Mine(r, a)
  BY <1>2, <1>4 DEF Mine, Work, Unread
<1>5. CASE AgentPauses(r)
  <2> DEFINE rec == [req[r] EXCEPT !.phase = "asking", !.newRow = Question(r)]
  <2>1. req'[r] = rec /\ req[r].phase = "fanout"
    BY <1>0, <1>1, <1>5, FanningOut, Moving DEF AgentPauses
  <2>2. rec.newResults = req[r].newResults /\ rec.todo = req[r].todo
    BY <1>0 DEF Sessions
  <2> QED BY <1>4, <2>1, <2>2
<1>6. CASE Reply(r)
  <2> DEFINE rec == [req[r] EXCEPT !.phase = "replying"]
  <2>1. req'[r] = rec /\ req[r].phase = "fanout"
    BY <1>0, <1>6, FanningOut, Moving DEF Reply
  <2>2. rec.newResults = req[r].newResults /\ rec.todo = req[r].todo
    BY <1>0 DEF Sessions
  <2> QED BY <1>4, <2>1, <2>2
<1>7. CASE Execute(r) \/ ApplyDecline(r)
  <2>1. req[r].read # NoRow /\ req[r].phase = "resuming"
    BY <1>0, <1>7 DEF Execute, ApplyDecline, EndpointOK, Open, Requests, Unread
  <2>2. /\ Resumed(req[r]) \in Sessions
        /\ Resumed(req[r]).todo = Owed(req[r].read) /\ Owed(req[r].read) # <<>>
    BY <1>0, <2>1, ResumedType
  <2>3. Resumed(req[r]).newResults = req[r].newResults
    BY <1>0 DEF Resumed, Sessions
  <2>4. Mine(r, a) = req[r].newResults[a] + Occurrences(Owed(req[r].read), a)
    BY <2>1 DEF Mine, Work, Unread
  <2>5. \/ req'[r] = Resumed(req[r])
        \/ req'[r] = Finish(Resumed(req[r]))
    BY <1>0, <1>7, <2>1, Resuming, Moving
  <2>6. CASE req'[r] = Resumed(req[r])
    BY <1>2, <2>2, <2>3, <2>4, <2>6
  <2>7. CASE req'[r] = Finish(Resumed(req[r]))
    BY <1>2, <2>2, <2>3, <2>4, <2>7, FinishKeeps
  <2> QED BY <2>5, <2>6, <2>7
<1> QED BY <1>3, <1>5, <1>6, <1>7 DEF Works

LEMMA MatchedStep ==
  ASSUME TypeOK, \A r \in Requests : Good(r), [Next]_vars, NEW t \in Submits
  PROVE  \/ matched'[t] = matched[t]
         \/ \E r \in Requests, named \in Classifications :
              Classify(r, named) /\ req[r].turn = t
<1>1. ASSUME NEW r \in Requests, NEW named \in Classifications, Classify(r, named)
      PROVE  matched'[t] = matched[t] \/ req[r].turn = t
  BY <1>1 DEF Classify, TypeOK, TurnOf
<1>2. ASSUME NEW r \in Requests, Acts(r),
             ~ \E named \in Classifications : Classify(r, named)
      PROVE  matched' = matched
  <2>1. ExecutorCommit(r) => matched' = matched
    BY DEF ExecutorCommit
  <2> QED BY <1>2, <2>1, Arriving, Worked, Stepping, Committed, RollingBack
          DEF Acts, history
<1>3. Crash \/ UNCHANGED vars => matched' = matched
  BY DEF Crash, vars, history
<1> QED BY <1>1, <1>2, <1>3, Kinds DEF Acts

\* What a request brings in changes by its executor's commit, when it is
\* routed, and when it reads a row; otherwise it stays.
LEMMA MineStep ==
  ASSUME Inv, [Next]_vars, NEW r \in Questions, Routed(r)', NEW a \in Agents
  PROVE  \/ Routed(r) /\ ~ExecutorCommit(r) /\ Mine(r, a)' = Mine(r, a)
         \/ /\ Routed(r) /\ ExecutorCommit(r)
            /\ req[r].newResults[a] + Mine(r, a)' = Mine(r, a)
         \/ /\ req[r].phase = "opened" /\ r \in Submits
            /\ req'[r].turn = r /\ db'[r].results[a] = 0
            /\ Mine(r, a)' = Occurrences(matched'[r], a)
         \/ /\ req[r].phase = "idle" /\ req'[r].turn \in Submits
            /\ db[req'[r].turn].pending # NoRow /\ UNCHANGED <<db, matched>>
            /\ Mine(r, a)' = Occurrences(Owed(db[req'[r].turn].pending), a)
<1>0. /\ TypeOK /\ req[r] \in Sessions /\ (\A w \in Requests : Good(w))
      /\ SessionOK(r) /\ EndpointOK(r) /\ r \in Requests /\ Good(r)'
      /\ Keeps(r)
  BY Frame, GoodStep DEF Inv, TypeOK, Good, Questions, Requests
<1>a. req[r].phase # "closed"
  BY <1>0 DEF Keeps, Routed, Open
<1>b. req[r].phase \notin {"idle", "opened"} => Routed(r)
  BY <1>a DEF Routed, Open
<1>1. CASE ExecutorCommit(r)
  <2>1. /\ req'[r] = [req[r] EXCEPT !.newResults = NoRows]
        /\ req[r].phase = "fanout"
    BY <1>0, <1>1, Committing DEF ExecutorCommit
  <2>2. /\ req'[r].phase = "fanout" /\ req'[r].todo = req[r].todo
        /\ req'[r].newResults = NoRows
    BY <1>0, <2>1 DEF Sessions
  <2>3. Mine(r, a)' = 0 + Occurrences(req[r].todo, a)
    BY <2>2 DEF Mine, Work, Unread, NoRows
  <2>4. Mine(r, a) = req[r].newResults[a] + Occurrences(req[r].todo, a)
    BY <2>1 DEF Mine, Work, Unread
  <2>5. Occurrences(req[r].todo, a) \in Nat /\ req[r].newResults[a] \in Nat
    BY <1>0, OccType DEF Sessions, Counts
  <2> QED BY <1>1, <1>b, <2>1, <2>3, <2>4, <2>5
<1>2. CASE ~ExecutorCommit(r) /\ req'[r] = req[r]
  <2>1. Routed(r)
    BY <1>2 DEF Routed, Open
  <2>2. Mine(r, a)' = Mine(r, a)
    BY <1>2 DEF Mine, Work
  <2> QED BY <1>2, <2>1, <2>2
<1>3. ASSUME req[r].phase \in Unread, req'[r].phase \in Unread,
             Same(req[r], req'[r]), req'[r].newResults = req[r].newResults
      PROVE  Mine(r, a)' = Mine(r, a)
  BY <1>3 DEF Mine, Work, Same
<1>4. ASSUME NEW w \in Requests, Woken(w, r), ~ExecutorCommit(r)
      PROVE  Routed(r) /\ Mine(r, a)' = Mine(r, a)
  <2>1. PICK p \in {"reading", "resuming"} : req'[r] = [req[r] EXCEPT !.phase = p]
    BY <1>4 DEF Woken
  <2>2. /\ req'[r].phase \in Unread /\ Same(req[r], req'[r])
        /\ req'[r].newResults = req[r].newResults
    BY <1>0, <2>1 DEF Sessions, Same, Unread
  <2>3. req[r].phase = "blocked"
    BY <1>4 DEF Woken
  <2> QED BY <1>b, <1>3, <2>2, <2>3 DEF Unread
<1>5. CASE Acts(r) /\ ~ExecutorCommit(r)
  <2>1. CASE Works(r)
    <3>1. Routed(r)
      BY <1>0, <1>b, <2>1, Worked
    <3> QED BY <1>0, <1>5, <2>1, <3>1, WorkKeeps
  <2>2. CASE DeletePending(r) \/ WaitForRow(r)
    <3>1. PICK p \in {"resuming", "blocked"} : /\ req'[r] = [req[r] EXCEPT !.phase = p]
                                               /\ req[r].phase = "reading"
      BY <1>0, <2>2, Stepping
    <3>2. /\ req'[r].phase \in Unread /\ Same(req[r], req'[r])
          /\ req'[r].newResults = req[r].newResults
      BY <1>0, <3>1 DEF Sessions, Same, Unread
    <3> QED BY <1>5, <1>b, <1>3, <3>1, <3>2 DEF Unread
  <2>3. CASE CommitVerification(r) \/ Commits(r) \/ RollsBack(r)
    <3>1. \E e \in Ends : req'[r] = Ended(r, e)
      BY <1>0, <2>3, Stepping, Committed, RollingBack DEF Ends
    <3>2. req'[r].phase = "closed"
      BY <1>0, <3>1 DEF Ended, Sessions
    <3> QED BY <3>2 DEF Routed, Open
  <2>4. ASSUME NEW named \in Classifications, Classify(r, named)
        PROVE  /\ req[r].phase = "opened" /\ r \in Submits
               /\ req'[r].turn = r /\ db'[r].results[a] = 0
               /\ Mine(r, a)' = Occurrences(matched'[r], a)
    <3>1. req[r].phase = "opened" /\ r \in Submits /\ req[r].turn = r
      BY <1>0, <2>4 DEF Classify, EndpointOK, Questions
    <3>2. /\ req'[r].phase = "fanout" /\ req'[r].todo = Resolve(named)
          /\ req'[r].newResults = req[r].newResults /\ db' = db
      BY <1>0, <2>4, Routing
    <3>3. req[r].newResults = NoRows /\ db[r] = NoTurn
      BY <1>0, <3>1 DEF SessionOK, Inv, FreshOK
    <3>4. matched'[r] = Resolve(named)
      BY <1>0, <2>4, <3>1 DEF Classify, TypeOK, TurnOf
    <3>5. Mine(r, a)' = 0 + Occurrences(Resolve(named), a)
      BY <3>2, <3>3 DEF Mine, Work, Unread, NoRows
    <3>6. Occurrences(Resolve(named), a) \in Nat
      BY ResolveType, OccType
    <3>7. req'[r].turn = r
      BY <1>0, <3>1 DEF Keeps, Same
    <3>8. NoTurn.results[a] = 0
      BY DEF NoTurn, NoRows
    <3> QED BY <3>1, <3>2, <3>3, <3>4, <3>5, <3>6, <3>7, <3>8
  <2>5. CASE Arrives(r)
    <3>1. r \notin Verifies
      BY TurnsAssumption DEF Questions
    <3>2. req[r].phase = "idle" /\ req[r].newResults = NoRows
      BY <1>0, <2>5, Arriving, IdleIs
    <3>3. ASSUME r \in Submits, Submit(r) \/ SubmitWithoutModel(r) PROVE FALSE
      <4>1. req'[r].phase \in {"opened", "closed"}
        <5>1. CASE Submit(r)
          <6>1. req'[r] = [req[r] EXCEPT !.phase = "opened", !.turn = r]
            BY <1>0, <3>3, <5>1, Submitting, Moving
          <6> QED BY <1>0, <6>1 DEF Sessions
        <5>2. CASE SubmitWithoutModel(r)
          <6>1. req'[r] = [req[r] EXCEPT !.phase = "closed", !.turn = r, !.end = "error"]
            BY <1>0, <3>3, <5>2, Submitting, Moving
          <6> QED BY <1>0, <6>1 DEF Sessions
        <5> QED BY <3>3, <5>1, <5>2
      <4> QED BY <4>1 DEF Routed, Open
    <3>4. PICK t \in Submits, yes \in BOOLEAN : Respond(r, t, yes) /\ r \in Approvals
      BY <2>5, <3>1, <3>3 DEF Arrives
    <3>5. req'[r] = Responded(r, t, yes)
      BY <1>0, <3>4, Responding, Moving
    <3>6. /\ req'[r].turn = t /\ req'[r].read = db[t].pending
          /\ req'[r].phase = IF db[t].pending = NoRow THEN "closed" ELSE "reading"
          /\ req'[r].newResults = NoRows
      BY <1>0, <3>2, <3>5 DEF Responded, Sessions
    <3>7. db[t].pending # NoRow /\ req'[r].phase = "reading"
      BY <3>6 DEF Routed, Open
    <3>8. Mine(r, a)' = 0 + Occurrences(Owed(db[t].pending), a)
      BY <3>6, <3>7 DEF Mine, Work, Unread, NoRows
    <3>9. Occurrences(Owed(db[t].pending), a) \in Nat
      BY <1>0, <3>7, OwedType DEF TypeOK, TurnRows
    <3>10. UNCHANGED <<db, matched>>
      BY <3>4 DEF Respond, history
    <3> QED BY <3>2, <3>4, <3>6, <3>7, <3>8, <3>9, <3>10
  <2> QED BY <1>5, <2>1, <2>2, <2>3, <2>4, <2>5 DEF Acts
<1>6. CASE Crash
  <2>1. req'[r] = req[r] \/ req'[r] = Ended(r, "gone")
    BY <1>0, <1>6, Crashing
  <2>2. req'[r].phase # "closed"
    BY DEF Routed, Open
  <2>3. req'[r] = req[r]
    BY <1>0, <2>1, <2>2 DEF Ended, Sessions
  <2> QED BY <1>1, <1>2, <2>3
<1> QED BY <1>0, <1>1, <1>2, <1>4, <1>5, <1>6, Changes

-----------------------------------------------------------------------------
(* The totals of a turn, step by step.                                     *)

\* r commits rows of turn t.
CommitsTo(r, t) == (Commits(r) \/ ExecutorCommit(r)) /\ req[r].turn = t

LEMMA CommitAdds ==
  ASSUME Inv, NEW r \in Questions, NEW t \in Submits, CommitsTo(r, t),
         NEW a \in Agents
  PROVE  /\ db'[t].results[a] = db[t].results[a] + req[r].newResults[a]
         /\ db[t].results[a] \in Nat /\ req[r].newResults[a] \in Nat
         /\ Routed(r) /\ matched' = matched
<1>1. /\ TypeOK /\ (\A w \in Requests : Good(w)) /\ r \in Requests
      /\ req[r] \in Sessions /\ db[t] \in TurnRows
  BY DEF Inv, TypeOK, Good, Questions, Requests
<1>2. /\ db'[t].results = Plus(db[t].results, req[r].newResults)
      /\ req[r].phase \in Working /\ matched' = matched
  BY <1>1, CommitDoes DEF CommitsTo
<1>3. db[t].results[a] \in Nat /\ req[r].newResults[a] \in Nat
  BY <1>1 DEF TurnRows, Sessions, Counts
<1> QED BY <1>2, <1>3 DEF Plus, Routed, Open, Working

\* While a turn has rows or is at work it is not routed again.
LEMMA RoutedOnce ==
  ASSUME Inv, [Next]_vars, NEW t \in Submits,
         db[t] # NoTurn \/ \E r \in Questions : Routed(r) /\ req[r].turn = t
  PROVE  matched'[t] = matched[t]
<1>0. TypeOK /\ \A w \in Requests : Good(w) /\ SessionOK(w) /\ EndpointOK(w)
  BY DEF Inv, Good
<1> SUFFICES ASSUME NEW s \in Requests, NEW named \in Classifications,
                    Classify(s, named), req[s].turn = t
             PROVE  FALSE
  BY <1>0, MatchedStep
<1>1. req[s].phase = "opened"
  BY DEF Classify
<1>2. s \in Submits
  BY <1>0, <1>1 DEF EndpointOK, Requests
<1>3. s = t
  BY <1>0, <1>1, <1>2 DEF EndpointOK
<1>4. db[t] = NoTurn /\ \A r \in Approvals : req[r].turn = t => ~Open(r)
  BY <1>1, <1>3 DEF Inv, FreshOK
<1>5. PICK r \in Questions : Routed(r) /\ req[r].turn = t
  BY <1>4
<1>6. r \in Submits
  BY <1>4, <1>5 DEF Routed, Questions
<1>7. r = t
  BY <1>0, <1>5, <1>6 DEF EndpointOK, Requests, Routed, Open
<1> QED BY <1>1, <1>3, <1>5, <1>7 DEF Routed

LEMMA RowTotals ==
  ASSUME Inv, [Next]_vars, NEW t \in Submits, NEW a \in Agents,
         db'[t].pending # NoRow
  PROVE  /\ \/ /\ db'[t] = db[t] /\ db[t].pending # NoRow
            \/ \E r \in Questions :
                 /\ CommitsTo(r, t) /\ Routed(r)
                 /\ db'[t].results[a] + Occurrences(Owed(db'[t].pending), a)
                      = db[t].results[a] + Mine(r, a)
            \/ \E r \in Questions :
                 /\ CommitsTo(r, t) /\ lock[t] # r
                 /\ db[t].pending # NoRow /\ db'[t].pending = db[t].pending
                 /\ db'[t].results[a] >= db[t].results[a]
         /\ matched'[t] = matched[t]
<1>0. TypeOK /\ \A w \in Requests : Good(w)
  BY DEF Inv, Good
<1>1. CASE db'[t] = db[t]
  BY <1>1, RoutedOnce DEF NoTurn
<1>2. ASSUME NEW r \in Questions, CommitsTo(r, t)
      PROVE  /\ \/ /\ Routed(r)
                   /\ db'[t].results[a] + Occurrences(Owed(db'[t].pending), a)
                        = db[t].results[a] + Mine(r, a)
                \/ /\ lock[t] # r /\ db[t].pending # NoRow
                   /\ db'[t].pending = db[t].pending
                   /\ db'[t].results[a] >= db[t].results[a]
             /\ matched'[t] = matched[t]
  <2>1. /\ db'[t].results[a] = db[t].results[a] + req[r].newResults[a]
        /\ db[t].results[a] \in Nat /\ req[r].newResults[a] \in Nat
        /\ Routed(r) /\ matched' = matched
    BY <1>2, CommitAdds
  <2>2. CASE req[r].phase = "asking"
    <3>1. db'[t].pending = Question(r)
      BY <1>0, <1>2, <2>2, CommitDoes DEF CommitsTo
    <3>2. req[r].todo \in Seq(Agents) /\ req[r].todo # <<>>
      BY <2>2 DEF Inv, TypeOK, SessionOK, Sessions, Questions, Requests
    <3>3. Owed(Question(r)) = req[r].todo
      BY <3>2 DEF Owed, Question
    <3>4. Mine(r, a) = req[r].newResults[a] + Occurrences(req[r].todo, a)
      BY <2>2 DEF Mine, Work, Unread
    <3>5. Occurrences(req[r].todo, a) \in Nat
      BY <3>2, OccType
    <3> QED BY <2>1, <3>1, <3>3, <3>4, <3>5
  <2>3. CASE req[r].phase # "asking"
    <3>1. db'[t].pending = IF lock[t] = r THEN NoRow ELSE db[t].pending
      BY <1>0, <1>2, <2>3, CommitDoes DEF CommitsTo
    <3> QED BY <2>1, <3>1
  <2> QED BY <2>2, <2>3
<1> QED BY <1>0, <1>1, <1>2, RowChanges DEF CommitsTo

LEMMA FinalTotals ==
  ASSUME Inv, [Next]_vars, NEW t \in Submits, NEW a \in Agents,
         db'[t].turn = "final"
  PROVE  /\ \/ /\ db'[t] = db[t] /\ db[t].turn = "final"
            \/ \E r \in Questions :
                 /\ CommitsTo(r, t) /\ Routed(r)
                 /\ db'[t].results[a] = db[t].results[a] + Mine(r, a)
            \/ \E r \in Questions :
                 /\ CommitsTo(r, t) /\ Open(r) /\ db[t].turn = "final"
                 /\ db'[t].results[a] >= db[t].results[a]
         /\ matched'[t] = matched[t]
<1>0. TypeOK /\ \A w \in Requests : Good(w)
  BY DEF Inv, Good
<1>1. CASE db'[t] = db[t]
  BY <1>1, RoutedOnce DEF NoTurn
<1>2. ASSUME NEW r \in Questions, CommitsTo(r, t)
      PROVE  /\ \/ /\ Routed(r)
                   /\ db'[t].results[a] = db[t].results[a] + Mine(r, a)
                \/ /\ Open(r) /\ db[t].turn = "final"
                   /\ db'[t].results[a] >= db[t].results[a]
             /\ matched'[t] = matched[t]
  <2>1. /\ db'[t].results[a] = db[t].results[a] + req[r].newResults[a]
        /\ db[t].results[a] \in Nat /\ req[r].newResults[a] \in Nat
        /\ Routed(r) /\ matched' = matched
    BY <1>2, CommitAdds
  <2>2. CASE req[r].phase = "replying"
    <3>1. req[r].todo = <<>>
      BY <2>2 DEF Inv, SessionOK, Questions, Requests
    <3>2. Mine(r, a) = req[r].newResults[a] + 0
      BY <2>2, <3>1, OccEmpty DEF Mine, Work, Unread
    <3> QED BY <2>1, <3>2
  <2>3. CASE req[r].phase # "replying"
    <3>1. db'[t].turn = IF db[t].turn = "absent" THEN "open" ELSE db[t].turn
      BY <1>0, <1>2, <2>3, CommitDoes DEF CommitsTo
    <3>2. db[t].turn = "final"
      BY <3>1
    <3> QED BY <2>1, <3>2 DEF Routed
  <2> QED BY <2>2, <2>3
<1> QED BY <1>0, <1>1, <1>2, RowChanges DEF CommitsTo

LEMMA RequestTotals ==
  ASSUME Inv, [Next]_vars, NEW r \in Questions, Routed(r)', NEW a \in Agents
  PROVE  LET t == req'[r].turn IN
         \/ /\ Routed(r) /\ t = req[r].turn /\ matched'[t] = matched[t]
            /\ \/ db'[t] = db[t] /\ Mine(r, a)' = Mine(r, a)
               \/ /\ CommitsTo(r, t)
                  /\ db'[t].results[a] + Mine(r, a)' = db[t].results[a] + Mine(r, a)
               \/ /\ \E w \in Questions : w # r /\ Open(w) /\ CommitsTo(w, t)
                  /\ db'[t].results[a] >= db[t].results[a]
                  /\ Mine(r, a)' = Mine(r, a)
         \/ db'[t].results[a] + Mine(r, a)' = Occurrences(matched'[t], a)
         \/ /\ db[t].pending # NoRow /\ UNCHANGED <<db, matched>>
            /\ Mine(r, a)' = Occurrences(Owed(db[t].pending), a)
<1>0. /\ TypeOK /\ (\A w \in Requests : Good(w)) /\ req[r] \in Sessions
      /\ r \in Requests /\ SessionOK(r) /\ Keeps(r)
  BY Frame DEF Inv, TypeOK, Good, Questions, Requests
<1> DEFINE t == req'[r].turn
<1>1. ASSUME Routed(r)
      PROVE  t = req[r].turn /\ t \in Submits /\ matched'[t] = matched[t]
  <2>1. t = req[r].turn /\ t \in Submits
    BY <1>0, <1>1 DEF Keeps, Same, SessionOK, Routed, Open
  <2> QED BY <1>1, <2>1, RoutedOnce
<1>2. CASE Routed(r) /\ ~ExecutorCommit(r) /\ Mine(r, a)' = Mine(r, a)
  <2>1. ~Commits(r)
    <3>1. ASSUME Commits(r) PROVE req'[r].phase = "closed"
      <4>1. \E e \in Ends : req'[r] = Ended(r, e)
        BY <1>0, <3>1, Committed DEF Ends
      <4> QED BY <1>0, <4>1 DEF Ended, Sessions
    <3> QED BY <3>1 DEF Routed, Open
  <2>2. ASSUME NEW w \in Questions, CommitsTo(w, t)
        PROVE  /\ w # r /\ Open(w)
               /\ db'[t].results[a] >= db[t].results[a]
    <3>1. w # r
      BY <1>2, <2>1, <2>2 DEF CommitsTo
    <3>2. /\ db'[t].results[a] = db[t].results[a] + req[w].newResults[a]
          /\ db[t].results[a] \in Nat /\ req[w].newResults[a] \in Nat
          /\ Routed(w)
      BY <1>1, <1>2, <2>2, CommitAdds
    <3> QED BY <3>1, <3>2 DEF Routed
  <2> QED BY <1>0, <1>1, <1>2, <2>2, RowChanges DEF CommitsTo
<1>3. CASE /\ Routed(r) /\ ExecutorCommit(r)
           /\ req[r].newResults[a] + Mine(r, a)' = Mine(r, a)
  <2>1. CommitsTo(r, t)
    BY <1>1, <1>3 DEF CommitsTo
  <2>2. /\ db'[t].results[a] = db[t].results[a] + req[r].newResults[a]
        /\ db[t].results[a] \in Nat /\ req[r].newResults[a] \in Nat
    BY <1>1, <1>3, <2>1, CommitAdds
  <2>3. Mine(r, a)' \in Nat
    <3>1. /\ req'[r] = [req[r] EXCEPT !.newResults = NoRows]
          /\ req[r].phase = "fanout"
      BY <1>0, <1>3, Committing DEF ExecutorCommit
    <3>2. /\ req'[r].phase = "fanout" /\ req'[r].todo = req[r].todo
          /\ req'[r].newResults = NoRows
      BY <1>0, <3>1 DEF Sessions
    <3>3. Occurrences(req[r].todo, a) \in Nat
      BY <1>0, OccType DEF Sessions
    <3> QED BY <3>2, <3>3 DEF Mine, Work, Unread, NoRows
  <2>4. db'[t].results[a] + Mine(r, a)' = db[t].results[a] + Mine(r, a)
    BY <1>3, <2>2, <2>3
  <2> QED BY <1>1, <1>3, <2>1, <2>4
<1>4. CASE /\ req'[r].turn = r /\ db'[r].results[a] = 0 /\ r \in Submits
           /\ Mine(r, a)' = Occurrences(matched'[r], a)
  <2>1. matched' \in [Submits -> Seq(Agents)]
    BY <1>0, TypeStep DEF Good, TypeOK
  <2>2. Occurrences(matched'[r], a) \in Nat
    BY <1>4, <2>1, OccType
  <2> QED BY <1>4, <2>2
<1> QED BY <1>2, <1>3, <1>4, MineStep

-----------------------------------------------------------------------------
(* No matched sub-agent is left out.                                       *)

\* The counts that the totals add up are natural numbers.
LEMMA CountTypes ==
  ASSUME Inv, NEW a \in Agents
  PROVE  /\ \A t \in Submits : /\ db[t].results[a] \in Nat
                               /\ Occurrences(matched[t], a) \in Nat
         /\ \A t \in Submits : db[t].pending # NoRow =>
              Occurrences(Owed(db[t].pending), a) \in Nat
         /\ \A r \in Questions : Routed(r) =>
              Mine(r, a) \in Nat /\ req[r].turn \in Submits
<1>1. ASSUME NEW t \in Submits
      PROVE  db[t].results[a] \in Nat /\ Occurrences(matched[t], a) \in Nat
  <2>1. db[t] \in TurnRows /\ matched[t] \in Seq(Agents)
    BY DEF Inv, TypeOK
  <2>2. db[t].results[a] \in Nat
    BY <2>1 DEF TurnRows, Counts
  <2> QED BY <2>1, <2>2, OccType
<1>2. ASSUME NEW t \in Submits, db[t].pending # NoRow
      PROVE  Occurrences(Owed(db[t].pending), a) \in Nat
  BY <1>2, OwedType DEF Inv, TypeOK, TurnRows
<1>3. ASSUME NEW r \in Questions, Routed(r)
      PROVE  Mine(r, a) \in Nat /\ req[r].turn \in Submits
  BY <1>3, MineType DEF Inv, SessionOK, Routed, Open, Questions, Requests
<1> QED BY <1>1, <1>2, <1>3

LEMMA KeptStep ==
  ASSUME Inv, Inv', Kept, [Next]_vars
  PROVE  Kept'
<1> SUFFICES ASSUME NEW a \in Agents
             PROVE  /\ \A t \in Submits : db'[t].pending # NoRow =>
                         db'[t].results[a] + Occurrences(Owed(db'[t].pending), a)
                           >= Occurrences(matched'[t], a)
                    /\ \A r \in Questions : Routed(r)' =>
                         db'[req'[r].turn].results[a] + Mine(r, a)'
                           >= Occurrences(matched'[req'[r].turn], a)
                    /\ \A t \in Submits : db'[t].turn = "final" =>
                         db'[t].results[a] >= Occurrences(matched'[t], a)
  BY DEF Kept
<1>0. /\ \A t \in Submits : db'[t].results[a] \in Nat
      /\ \A r \in Questions : Routed(r)' => Mine(r, a)' \in Nat /\ req'[r].turn \in Submits
  <2>1. ASSUME NEW t \in Submits PROVE db'[t].results[a] \in Nat
    BY DEF Inv, TypeOK, TurnRows, Counts
  <2>2. ASSUME NEW r \in Questions, Routed(r)'
        PROVE  Mine(r, a)' \in Nat /\ req'[r].turn \in Submits
    <3>1. r \in Requests /\ req'[r] \in Sessions
      BY DEF Inv, TypeOK, Questions, Requests
    <3>2. req'[r].newResults[a] \in Nat
      BY <3>1 DEF Sessions, Counts
    <3>3. Work(r)' \in Seq(Agents)
      <4>1. req'[r].phase \in Unread => req'[r].read \in Rows
        BY <2>2, <3>1 DEF Inv, EndpointOK, Questions, Sessions, Routed
      <4> QED BY <3>1, <4>1, OwedType DEF Work, Sessions
    <3>4. Occurrences(Work(r)', a) \in Nat
      BY <3>3, OccType
    <3>5. req'[r].turn \in Submits
      BY <2>2, <3>1 DEF Inv, SessionOK, Routed, Open
    <3> QED BY <3>2, <3>4, <3>5 DEF Mine
  <2> QED BY <2>1, <2>2
<1>1. ASSUME NEW t \in Submits, db'[t].pending # NoRow
      PROVE  db'[t].results[a] + Occurrences(Owed(db'[t].pending), a)
               >= Occurrences(matched'[t], a)
  <2>1. CASE db'[t] = db[t] /\ db[t].pending # NoRow
    BY <1>1, <2>1, RowTotals DEF Kept
  <2>2. ASSUME NEW r \in Questions, CommitsTo(r, t), Routed(r),
               db'[t].results[a] + Occurrences(Owed(db'[t].pending), a)
                 = db[t].results[a] + Mine(r, a)
        PROVE  db'[t].results[a] + Occurrences(Owed(db'[t].pending), a)
                 >= Occurrences(matched'[t], a)
    BY <1>1, <2>2, RowTotals DEF Kept, CommitsTo
  <2>3. ASSUME db[t].pending # NoRow, db'[t].pending = db[t].pending,
               db'[t].results[a] >= db[t].results[a]
        PROVE  db'[t].results[a] + Occurrences(Owed(db'[t].pending), a)
                 >= Occurrences(matched'[t], a)
    <3>1. db[t].results[a] + Occurrences(Owed(db[t].pending), a)
            >= Occurrences(matched[t], a)
      BY <2>3 DEF Kept
    <3>2. matched'[t] = matched[t]
      BY <1>1, RowTotals
    <3> QED BY <1>0, <2>3, <3>1, <3>2, CountTypes
  <2> QED BY <1>1, <2>1, <2>2, <2>3, RowTotals
<1>2. ASSUME NEW r \in Questions, Routed(r)'
      PROVE  db'[req'[r].turn].results[a] + Mine(r, a)'
               >= Occurrences(matched'[req'[r].turn], a)
  <2> DEFINE t == req'[r].turn
  <2>0. t \in Submits /\ Mine(r, a)' \in Nat /\ db'[t].results[a] \in Nat
    BY <1>0, <1>2
  <2>1. CASE /\ Routed(r) /\ t = req[r].turn /\ matched'[t] = matched[t]
             /\ \/ db'[t] = db[t] /\ Mine(r, a)' = Mine(r, a)
                \/ db'[t].results[a] + Mine(r, a)' = db[t].results[a] + Mine(r, a)
                \/ db'[t].results[a] >= db[t].results[a] /\ Mine(r, a)' = Mine(r, a)
    <3>1. db[t].results[a] + Mine(r, a) >= Occurrences(matched[t], a)
      BY <2>1 DEF Kept
    <3>2. /\ Mine(r, a) \in Nat /\ db[t].results[a] \in Nat
          /\ Occurrences(matched[t], a) \in Nat
      BY <2>0, <2>1, CountTypes
    <3> QED BY <2>0, <2>1, <3>1, <3>2
  <2>2. CASE db'[t].results[a] + Mine(r, a)' = Occurrences(matched'[t], a)
    BY <2>0, <2>2
  <2>3. CASE /\ db[t].pending # NoRow /\ UNCHANGED <<db, matched>>
             /\ Mine(r, a)' = Occurrences(Owed(db[t].pending), a)
    BY <2>0, <2>3 DEF Kept
  <2> QED BY <1>2, <2>1, <2>2, <2>3, RequestTotals
<1>3. ASSUME NEW t \in Submits, db'[t].turn = "final"
      PROVE  db'[t].results[a] >= Occurrences(matched'[t], a)
  <2>1. CASE db'[t] = db[t] /\ db[t].turn = "final"
    BY <1>3, <2>1, FinalTotals DEF Kept
  <2>2. ASSUME NEW r \in Questions, CommitsTo(r, t), Routed(r),
               db'[t].results[a] = db[t].results[a] + Mine(r, a)
        PROVE  db'[t].results[a] >= Occurrences(matched'[t], a)
    BY <1>3, <2>2, FinalTotals DEF Kept, CommitsTo
  <2>3. ASSUME db[t].turn = "final", db'[t].results[a] >= db[t].results[a]
        PROVE  db'[t].results[a] >= Occurrences(matched'[t], a)
    <3>1. db[t].results[a] >= Occurrences(matched[t], a)
      BY <2>3 DEF Kept
    <3>2. matched'[t] = matched[t]
      BY <1>3, FinalTotals
    <3> QED BY <1>0, <2>3, <3>1, <3>2, CountTypes
  <2> QED BY <1>3, <2>1, <2>2, <2>3, FinalTotals
<1> QED BY <1>1, <1>2, <1>3

LEMMA NothingYet ==
  ASSUME Init
  PROVE  /\ \A t \in Submits : db[t].pending = NoRow /\ db[t].turn = "absent"
         /\ \A r \in Requests : ~Open(r) /\ req[r].phase = "idle" /\ req[r].end = "none"
BY DEF Init, NoTurn, Idle, Open

\* Through any pauses, failures and concurrent approvals, a final turn has a
\* result row for every sub-agent it was routed to.
THEOREM MatchesAreKept == Spec => []NoMatchLost
<1>1. Init => Kept
  BY NothingYet DEF Kept, Routed, Questions, Requests
<1>2. Inv /\ Inv' /\ Kept /\ [Next]_vars => Kept'
  BY KeptStep
<1>3. Kept => NoMatchLost
  BY DEF Kept, NoMatchLost
<1> QED BY <1>1, <1>2, <1>3, Consistency, PTL DEF Spec

-----------------------------------------------------------------------------
(* No turn is left open with nothing to resume.                            *)

LEMMA AskedStep ==
  ASSUME Inv, Asked, ~ExecutorCommits, [Next]_vars
  PROVE  Asked'
<1>0. TypeOK /\ \A r \in Requests : Good(r)
  BY DEF Inv, Good
<1> SUFFICES ASSUME NEW t \in Submits, db'[t].turn = "open"
             PROVE  db'[t].pending # NoRow
  BY DEF Asked
<1>1. CASE db'[t] = db[t]
  BY <1>1 DEF Asked
<1>2. ASSUME NEW r \in Questions, Commits(r) \/ ExecutorCommit(r),
             req[r].turn = t
      PROVE  db'[t].pending # NoRow
  <2>1. ~ExecutorCommit(r)
    BY DEF ExecutorCommit
  <2>2. db'[t].pending = Question(r)
    BY <1>0, <1>2, <2>1, CommitDoes
  <2> QED BY <2>2, TurnsAssumption DEF Question, NoRow, Questions
<1> QED BY <1>0, <1>1, <1>2, RowChanges

\* Where no tool commits the turn's session (every executor but bootstrap's),
\* a committed turn without an answer can still be resumed, whatever fails.
THEOREM TurnsAreNotStranded ==
  ASSUME ~ExecutorCommits
  PROVE  Spec => []NeverStranded
<1>1. Init => Asked
  BY NothingYet DEF Asked
<1>2. Inv /\ Asked /\ [Next]_vars => Asked'
  BY AskedStep
<1>3. Asked => NeverStranded
  BY DEF Asked, NeverStranded, Resolvable
<1> QED BY <1>1, <1>2, <1>3, Consistency, PTL DEF Spec

-----------------------------------------------------------------------------
(* With one approval at a time, a turn has one request at work on it.      *)

\* A request that is open now was open before, at the same turn, or arrives.
LEMMA Opens ==
  ASSUME Inv, [Next]_vars, NEW r \in Requests, Open(r)'
  PROVE  \/ Open(r) /\ req'[r].turn = req[r].turn /\ req[r].turn \in Submits
         \/ Arrives(r) /\ req[r].phase = "idle"
<1>0. TypeOK /\ (\A w \in Requests : Good(w)) /\ Keeps(r) /\ SessionOK(r)
  BY Frame DEF Inv, Good
<1>1. CASE Open(r)
  BY <1>0, <1>1 DEF Keeps, Same, SessionOK, Open
<1>2. CASE req[r].phase = "closed"
  BY <1>0, <1>2 DEF Keeps, Open
<1>3. CASE req[r].phase = "idle"
  <2>1. req'[r] # req[r] /\ ~Crash
    BY <1>0, <1>3, Crashing DEF Open
  <2>2. Acts(r)
    BY <1>0, <1>3, <2>1, Changes DEF Woken
  <2> QED BY <1>0, <1>3, <2>2, Acting
<1> QED BY <1>1, <1>2, <1>3 DEF Open

\* A question's request that arrives opens a new turn, or an asked one.
LEMMA ArrivesTo ==
  ASSUME Inv, NEW r \in Questions, Arrives(r), req'[r].phase # "closed"
  PROVE  \/ /\ r \in Submits /\ req'[r].turn = r /\ req'[r].phase = "opened"
            /\ db[r] = NoTurn /\ \A s \in Approvals : req[s].turn = r => ~Open(s)
         \/ /\ r \in Approvals /\ req'[r].phase = "reading"
            /\ req'[r].turn \in Submits
            /\ req'[r].read = db[req'[r].turn].pending /\ req'[r].read # NoRow
            /\ Serial => \A s \in Approvals :
                           ~(Open(s) /\ req[s].turn = req'[r].turn)
<1>0. /\ TypeOK /\ r \in Requests /\ req[r] \in Sessions /\ req[r].phase = "idle"
      /\ r \in Submits \/ r \in Approvals
  BY Arriving DEF Inv, TypeOK, Questions, Requests
<1>1. CASE r \in Submits
  <2>1. Submit(r) \/ SubmitWithoutModel(r)
    BY <1>0, <1>1, TurnsAssumption DEF Arrives
  <2>2. CASE Submit(r)
    <3>1. req'[r] = [req[r] EXCEPT !.phase = "opened", !.turn = r]
      BY <1>0, <1>1, <2>2, Submitting, Moving
    <3>2. req'[r].phase = "opened" /\ req'[r].turn = r
      BY <1>0, <3>1 DEF Sessions
    <3> QED BY <1>0, <1>1, <3>2 DEF Inv, FreshOK
  <2>3. CASE SubmitWithoutModel(r)
    <3>1. req'[r] = [req[r] EXCEPT !.phase = "closed", !.turn = r, !.end = "error"]
      BY <1>0, <1>1, <2>3, Submitting, Moving
    <3> QED BY <1>0, <3>1 DEF Sessions
  <2> QED BY <2>1, <2>2, <2>3
<1>2. CASE r \in Approvals
  <2>1. PICK t \in Submits, yes \in BOOLEAN : Respond(r, t, yes)
    BY <1>0, <1>2, TurnsAssumption DEF Arrives
  <2>2. req'[r] = Responded(r, t, yes)
    BY <1>0, <1>2, <2>1, Responding, Moving
  <2>3. /\ req'[r].turn = t /\ req'[r].read = db[t].pending
        /\ req'[r].phase = IF db[t].pending = NoRow THEN "closed" ELSE "reading"
    BY <1>0, <2>2 DEF Responded, Sessions
  <2>4. Serial => \A s \in Approvals : ~(Open(s) /\ req[s].turn = t)
    BY <2>1 DEF Respond, TurnOf
  <2> QED BY <1>2, <2>3, <2>4
<1> QED BY <1>0, <1>1, <1>2

LEMMA OneAtATimeStep ==
  ASSUME Inv, SerialInv, Serial, [Next]_vars
  PROVE  OneAtATime'
<1>0. TypeOK /\ (\A w \in Requests : Good(w)) /\ Questions \subseteq Requests
  BY DEF Inv, Good, Questions, Requests
<1>1. ASSUME NEW r \in Questions, NEW s \in Questions, r # s,
             Arrives(r), req'[r].phase # "closed", Open(s)',
             req'[r].turn = req'[s].turn
      PROVE  FALSE
  <2>1. Others(r)
    BY <1>0, <1>1, Arriving
  <2>2. Open(s)
    BY <1>0, <1>1, <2>1 DEF Others, Woken, Open
  <2>3. req'[s].turn = req[s].turn /\ req[s].turn \in Submits
    BY <1>0, <1>1, <2>2, Opens DEF Open
  <2>4. CASE s \in Approvals
    BY <1>1, <2>2, <2>3, <2>4, ArrivesTo
  <2>5. CASE s \in Submits
    <3>1. req[s].turn = s
      BY <1>0, <2>2, <2>5 DEF Inv, EndpointOK, Open
    <3>2. r \in Approvals /\ db[s].pending # NoRow
      BY <1>1, <2>3, <3>1, ArrivesTo
    <3>3. db[s].pending = NoRow \/ lock[s] = s
      <4>1. req[s].phase \notin Unread
        BY <1>0, <2>5 DEF Inv, EndpointOK
      <4>2. HeldOK(s)
        BY DEF SerialInv
      <4> QED BY <2>2, <3>1, <4>1, <4>2 DEF HeldOK, Unread
    <3>4. lock[s] # s
      BY <1>0, <2>5, TurnsAssumption DEF TypeOK, Nobody
    <3> QED BY <3>2, <3>3, <3>4
  <2> QED BY <2>4, <2>5 DEF Questions
<1> SUFFICES ASSUME NEW r \in Questions, NEW s \in Questions,
                    Open(r)', Open(s)', req'[r].turn = req'[s].turn
             PROVE  r = s
  BY DEF OneAtATime
<1>2. CASE Open(r) /\ Open(s)
  BY <1>0, <1>2, Opens DEF SerialInv, OneAtATime, Open
<1>3. CASE Arrives(r)
  BY <1>1, <1>3 DEF Open
<1>4. CASE Arrives(s)
  BY <1>1, <1>4 DEF Open
<1> QED BY <1>0, <1>2, <1>3, <1>4, Opens

\* Only its own commit changes the rows of a turn that has an open request.
LEMMA OwnCommit ==
  ASSUME Inv, OneAtATime, [Next]_vars, NEW r \in Questions, Open(r), Open(r)'
  PROVE  LET t == req[r].turn IN
         \/ db'[t] = db[t] /\ ~ExecutorCommit(r)
         \/ ExecutorCommit(r)
<1>0. TypeOK /\ (\A w \in Requests : Good(w)) /\ r \in Requests
      /\ req[r] \in Sessions /\ req[r].turn \in Submits
  BY DEF Inv, Good, Questions, Requests, TypeOK, SessionOK, Open
<1>1. ~Commits(r)
  <2>1. ASSUME Commits(r) PROVE req'[r].phase = "closed"
    <3>1. \E e \in Ends : req'[r] = Ended(r, e)
      BY <1>0, <2>1, Committed DEF Ends
    <3> QED BY <1>0, <3>1 DEF Ended, Sessions
  <2> QED BY <2>1 DEF Open
<1>2. ASSUME NEW s \in Questions, Commits(s) \/ ExecutorCommit(s),
             req[s].turn = req[r].turn
      PROVE  s = r
  <2>1. Open(s)
    BY <1>0, <1>2, CommitDoes
  <2> QED BY <1>2, <2>1 DEF OneAtATime
<1> QED BY <1>0, <1>1, <1>2, RowChanges

\* A row lock stays with an open request until its own commit.
LEMMA LockStays ==
  ASSUME Inv, [Next]_vars, NEW r \in Requests, Open(r)', ~ExecutorCommit(r),
         NEW t \in Submits, lock[t] = r
  PROVE  lock'[t] = r
<1>0. TypeOK /\ (\A w \in Requests : Good(w)) /\ req[r] \in Sessions
      /\ r # Nobody
  BY TurnsAssumption DEF Inv, Good, TypeOK, Requests, Nobody
<1>1. CASE UNCHANGED vars
  BY <1>1 DEF vars
<1>2. ~Crash
  <2>1. ASSUME Crash PROVE (req'[r] = req[r] /\ ~Open(r)) \/ req'[r] = Ended(r, "gone")
    BY <1>0, <2>1, Crashing
  <2>2. Ended(r, "gone").phase = "closed"
    BY <1>0 DEF Ended, Sessions
  <2> QED BY <2>1, <2>2 DEF Open
<1>3. ASSUME NEW s \in Requests, Commits(s) \/ ExecutorCommit(s) \/ RollsBack(s)
      PROVE  lock'[t] = r
  <2>1. Unlock(s)
    BY <1>0, <1>3, Committed, RollingBack DEF ExecutorCommit
  <2>2. s # r
    <3>1. ASSUME s = r PROVE \E e \in Ends : req'[r] = Ended(r, e)
      BY <1>0, <1>3, <3>1, Committed, RollingBack DEF Ends
    <3> QED BY <1>0, <3>1 DEF Ended, Sessions, Open
  <2> QED BY <1>0, <2>1, <2>2 DEF Unlock, TypeOK
<1>4. ASSUME NEW s \in Requests, DeletePending(s)
      PROVE  lock'[t] = r
  BY <1>0, <1>4 DEF DeletePending, TypeOK, Nobody
<1>5. ASSUME NEW s \in Requests, Acts(s),
             ~(Commits(s) \/ ExecutorCommit(s) \/ RollsBack(s) \/ DeletePending(s))
      PROVE  lock' = lock
  BY <1>0, <1>5, Arriving, Routing, Worked, Stepping DEF Acts
<1> QED BY <1>1, <1>2, <1>3, <1>4, <1>5, Kinds DEF Acts

LEMMA HeldStep ==
  ASSUME Inv, Inv', SerialInv, Serial, [Next]_vars, NEW r \in Questions, Open(r)'
  PROVE  HeldOK(r)'
<1>0. /\ TypeOK /\ (\A w \in Requests : Good(w)) /\ r \in Requests
      /\ req[r] \in Sessions /\ Keeps(r) /\ OneAtATime /\ HeldOK(r)
  BY Frame DEF Inv, Good, Questions, Requests, TypeOK, SerialInv
<1>1. CASE Arrives(r) /\ req[r].phase = "idle"
  <2>0. db' = db /\ req'[r].phase # "closed"
    BY <1>0, <1>1, Arriving DEF Open
  <2>1. CASE r \in Submits /\ req'[r].turn = r /\ req'[r].phase = "opened" /\ db[r] = NoTurn
    BY <2>0, <2>1 DEF HeldOK, Unread, NoTurn
  <2>2. CASE /\ req'[r].phase = "reading" /\ req'[r].turn \in Submits
             /\ req'[r].read = db[req'[r].turn].pending /\ req'[r].read # NoRow
    BY <2>0, <2>2 DEF HeldOK, SerialInv, Unread
  <2> QED BY <1>1, <2>0, <2>1, <2>2, ArrivesTo
<1>2. CASE Open(r) /\ req'[r].turn = req[r].turn /\ req[r].turn \in Submits
  <2> DEFINE t == req[r].turn
  <2>0. /\ db[t].turn # "final"
        /\ req[r].phase \in Unread => db[t].pending = req[r].read
        /\ req[r].phase \notin {"reading", "blocked"} =>
             db[t].pending = NoRow \/ lock[t] = r
    BY <1>0, <1>2 DEF HeldOK
  <2>1. CASE ExecutorCommit(r)
    <3>1. /\ req'[r] = [req[r] EXCEPT !.newResults = NoRows]
          /\ req[r].phase = "fanout"
          /\ db'[t].pending = IF lock[t] = r THEN NoRow ELSE db[t].pending
          /\ db'[t].turn = IF db[t].turn = "absent" THEN "open" ELSE db[t].turn
      BY <1>0, <2>1, CommitDoes DEF ExecutorCommit
    <3>2. req'[r].phase = "fanout"
      BY <1>0, <3>1 DEF Sessions
    <3> QED BY <1>2, <2>0, <3>1, <3>2 DEF HeldOK, Unread
  <2>2. CASE db'[t] = db[t] /\ ~ExecutorCommit(r)
    <3>1. ASSUME req'[r].phase \in Unread
          PROVE  db'[t].pending = req'[r].read
      <4>1. req[r].phase \in Unread
        BY <1>0, <1>2, <3>1, PastReading DEF Open
      <4>2. req'[r].read = req[r].read
        BY <1>0, <1>2 DEF Keeps, Same, Open
      <4> QED BY <2>0, <2>2, <4>1, <4>2
    <3>2. ASSUME req'[r].phase \notin {"reading", "blocked"}
          PROVE  db'[t].pending = NoRow \/ lock'[t] = r
      <4>1. CASE req[r].phase \notin {"reading", "blocked"}
        BY <1>0, <1>2, <2>0, <2>2, <4>1, LockStays
      <4>2. CASE req[r].phase \in {"reading", "blocked"}
        <5>1. ASSUME NEW s \in Requests, Woken(s, r) PROVE FALSE
          <6>1. lock[t] = s /\ lock[t] # Nobody
            BY <5>1, TurnsAssumption DEF Woken, Nobody, Requests
          <6>2. req[s].turn = t /\ Open(s) /\ req[s].phase # "blocked"
            BY <1>2, <6>1 DEF Inv, LockOK, Open, Working
          <6>3. s \in Questions
            BY <1>0, <1>2, <6>1 DEF TypeOK, Questions
          <6> QED BY <1>0, <1>2, <5>1, <6>2, <6>3 DEF OneAtATime, Woken
        <5>2. ~Crash
          BY <1>0, Crashing DEF Open, Ended, Sessions
        <5>3. Acts(r)
          BY <1>0, <3>2, <4>2, <5>1, <5>2, Changes
        <5>4. DeletePending(r)
          <6>1. ~Arrives(r) /\ ~Works(r) /\ ~Commits(r) /\ ~ExecutorCommit(r)
            BY <1>0, <4>2, Arriving, Worked, Committed DEF ExecutorCommit
          <6>2. ~RollsBack(r)
            <7>1. RollsBack(r) => \E e \in Ends : req'[r] = Ended(r, e)
              BY <1>0, RollingBack DEF Ends
            <7> QED BY <1>0, <7>1 DEF Ended, Sessions, Open
          <6>3. ~WaitForRow(r) /\ ~CommitVerification(r)
            <7>1. WaitForRow(r) => req'[r].phase = "blocked"
              <8>1. WaitForRow(r) => req'[r] = [req[r] EXCEPT !.phase = "blocked"]
                BY <1>0, Stepping
              <8> QED BY <1>0, <8>1 DEF Sessions
            <7> QED BY <3>2, <4>2, <7>1 DEF CommitVerification
          <6>4. ~(\E named \in Classifications : Classify(r, named))
            BY <4>2 DEF Classify
          <6> QED BY <5>3, <6>1, <6>2, <6>3, <6>4 DEF Acts
        <5> QED BY <1>0, <1>2, <2>2, <5>4 DEF DeletePending, TurnOf, TypeOK
      <4> QED BY <4>1, <4>2
    <3> QED BY <1>2, <2>0, <2>2, <3>1, <3>2 DEF HeldOK
  <2> QED BY <1>0, <1>2, <2>1, <2>2, OwnCommit
<1> QED BY <1>0, <1>1, <1>2, Opens

\* A turn that is answered under this commit has no row left.
LEMMA SerialCommit ==
  ASSUME Inv, SerialInv, NEW r \in Questions, NEW t \in Submits, CommitsTo(r, t)
  PROVE  /\ Open(r) /\ db[t].turn # "final"
         /\ db[t].pending = NoRow \/ lock[t] = r
         /\ db'[t].turn = "final" => db'[t].pending = NoRow
<1>0. TypeOK /\ (\A w \in Requests : Good(w)) /\ HeldOK(r)
  BY DEF Inv, Good, SerialInv
<1>1. Open(r) /\ req[r].phase \in Working /\ req[r].turn = t
  BY <1>0, CommitDoes DEF CommitsTo
<1>2. db[t].turn # "final" /\ (db[t].pending = NoRow \/ lock[t] = r)
  BY <1>0, <1>1 DEF HeldOK, Working
<1>3. \/ db'[t].turn = IF db[t].turn = "absent" THEN "open" ELSE db[t].turn
      \/ db'[t].pending = IF lock[t] = r THEN NoRow ELSE db[t].pending
  <2>1. Commits(r) \/ ExecutorCommit(r)
    BY DEF CommitsTo
  <2>2. LET u == req[r].turn IN
        \/ db'[u].turn = IF db[u].turn = "absent" THEN "open" ELSE db[u].turn
        \/ db'[u].pending = IF lock[u] = r THEN NoRow ELSE db[u].pending
    BY <1>0, <2>1, CommitDoes
  <2> QED BY <1>1, <2>2
<1> QED BY <1>1, <1>2, <1>3

LEMMA SerialStep ==
  ASSUME Inv, Inv', SerialInv, Serial, [Next]_vars
  PROVE  SerialInv'
<1>0. TypeOK /\ \A w \in Requests : Good(w)
  BY DEF Inv, Good
<1>1. OneAtATime'
  BY OneAtATimeStep
<1>2. \A r \in Questions : HeldOK(r)'
  BY HeldStep DEF HeldOK
<1>3. ASSUME NEW t \in Submits, db'[t].turn = "final"
      PROVE  db'[t].pending = NoRow
  BY <1>0, <1>3, RowChanges, SerialCommit DEF CommitsTo, SerialInv
<1> QED BY <1>1, <1>2, <1>3 DEF SerialInv

LEMMA SerialAlways ==
  ASSUME Serial
  PROVE  Spec => []SerialInv
<1>1. Init => SerialInv
  BY NothingYet DEF SerialInv, OneAtATime, HeldOK, Questions, Requests
<1>2. Inv /\ Inv' /\ SerialInv /\ [Next]_vars => SerialInv'
  BY SerialStep
<1> QED BY <1>1, <1>2, Consistency, PTL DEF Spec

-----------------------------------------------------------------------------
(* Then every matched sub-agent counts exactly once.                       *)

LEMMA ExactlyStep ==
  ASSUME Inv, SerialInv, Exactly, [Next]_vars
  PROVE  Exactly'
<1> SUFFICES ASSUME NEW a \in Agents
             PROVE  /\ \A t \in Submits : db'[t].pending # NoRow =>
                         db'[t].results[a] + Occurrences(Owed(db'[t].pending), a)
                           = Occurrences(matched'[t], a)
                    /\ \A r \in Questions : Routed(r)' =>
                         db'[req'[r].turn].results[a] + Mine(r, a)'
                           = Occurrences(matched'[req'[r].turn], a)
                    /\ \A t \in Submits : db'[t].turn = "final" =>
                         db'[t].results[a] = Occurrences(matched'[t], a)
  BY DEF Exactly
<1>1. ASSUME NEW t \in Submits, db'[t].pending # NoRow
      PROVE  db'[t].results[a] + Occurrences(Owed(db'[t].pending), a)
               = Occurrences(matched'[t], a)
  <2>1. CASE db'[t] = db[t] /\ db[t].pending # NoRow
    BY <1>1, <2>1, RowTotals DEF Exactly
  <2>2. ASSUME NEW r \in Questions, CommitsTo(r, t), Routed(r),
               db'[t].results[a] + Occurrences(Owed(db'[t].pending), a)
                 = db[t].results[a] + Mine(r, a)
        PROVE  db'[t].results[a] + Occurrences(Owed(db'[t].pending), a)
                 = Occurrences(matched'[t], a)
    BY <1>1, <2>2, RowTotals DEF Exactly, CommitsTo
  <2>3. ASSUME NEW r \in Questions, CommitsTo(r, t), lock[t] # r,
               db[t].pending # NoRow
        PROVE  FALSE
    BY <2>3, SerialCommit
  <2> QED BY <1>1, <2>1, <2>2, <2>3, RowTotals
<1>2. ASSUME NEW r \in Questions, Routed(r)'
      PROVE  db'[req'[r].turn].results[a] + Mine(r, a)'
               = Occurrences(matched'[req'[r].turn], a)
  <2> DEFINE t == req'[r].turn
  <2>1. CASE /\ Routed(r) /\ t = req[r].turn /\ matched'[t] = matched[t]
             /\ \/ db'[t] = db[t] /\ Mine(r, a)' = Mine(r, a)
                \/ db'[t].results[a] + Mine(r, a)' = db[t].results[a] + Mine(r, a)
    BY <2>1 DEF Exactly
  <2>2. CASE /\ Routed(r) /\ t = req[r].turn
             /\ \E w \in Questions : w # r /\ Open(w) /\ CommitsTo(w, t)
    BY <2>2 DEF SerialInv, OneAtATime, Routed, CommitsTo
  <2>3. CASE db'[t].results[a] + Mine(r, a)' = Occurrences(matched'[t], a)
    BY <2>3
  <2>4. CASE /\ db[t].pending # NoRow /\ UNCHANGED <<db, matched>>
             /\ Mine(r, a)' = Occurrences(Owed(db[t].pending), a)
    <3>1. t \in Submits
      <4>1. Arrives(r) \/ Open(r)
        BY <1>2, Opens DEF Routed, Open, Questions, Requests
      <4> QED BY <1>2, InvStep DEF Inv, SessionOK, Routed, Open, Questions, Requests
    <3> QED BY <2>4, <3>1 DEF Exactly
  <2> QED BY <1>2, <2>1, <2>2, <2>3, <2>4, RequestTotals
<1>3. ASSUME NEW t \in Submits, db'[t].turn = "final"
      PROVE  db'[t].results[a] = Occurrences(matched'[t], a)
  <2>1. CASE db'[t] = db[t] /\ db[t].turn = "final"
    BY <1>3, <2>1, FinalTotals DEF Exactly
  <2>2. ASSUME NEW r \in Questions, CommitsTo(r, t), Routed(r),
               db'[t].results[a] = db[t].results[a] + Mine(r, a)
        PROVE  db'[t].results[a] = Occurrences(matched'[t], a)
    BY <1>3, <2>2, FinalTotals DEF Exactly, CommitsTo
  <2>3. ASSUME NEW r \in Questions, CommitsTo(r, t), db[t].turn = "final"
        PROVE  FALSE
    BY <2>3, SerialCommit
  <2> QED BY <1>3, <2>1, <2>2, <2>3, FinalTotals
<1> QED BY <1>1, <1>2, <1>3

\* With one approval at a time, a final turn has one result row for each
\* sub-agent it was routed to: none lost, none twice, executor commits included.
THEOREM MatchesCountOnce ==
  ASSUME Serial
  PROVE  Spec => []OneResultPerMatch
<1>1. Init => Exactly
  BY NothingYet DEF Exactly, Routed, Questions, Requests
<1>2. Inv /\ SerialInv /\ Exactly /\ [Next]_vars => Exactly'
  BY ExactlyStep
<1>3. Exactly => OneResultPerMatch
  BY DEF Exactly, OneResultPerMatch
<1> QED BY <1>1, <1>2, <1>3, Consistency, SerialAlways, PTL DEF Spec

-----------------------------------------------------------------------------
(* What is final stays, so a verification judges the answer the turn has.  *)

LEMMA FinalStays ==
  ASSUME Inv, SerialInv, [Next]_vars, NEW t \in Submits, db[t].turn = "final"
  PROVE  db'[t] = db[t]
<1>0. TypeOK /\ \A w \in Requests : Good(w)
  BY DEF Inv, Good
<1> QED BY <1>0, RowChanges, SerialCommit DEF CommitsTo

LEMMA JudgedStep ==
  ASSUME Inv, SerialInv, Judged, [Next]_vars
  PROVE  Judged'
<1> SUFFICES ASSUME NEW v \in Verifies,
                    req'[v].phase = "verifying" \/ req'[v].end = "done"
             PROVE  /\ db'[req'[v].turn].turn = "final"
                    /\ req'[v].judged = db'[req'[v].turn].answer
  BY DEF Judged
<1>0. /\ TypeOK /\ (\A w \in Requests : Good(w)) /\ v \in Requests
      /\ Keeps(v) /\ SessionOK(v) /\ EndpointOK(v) /\ req[v] \in Sessions
  BY Frame DEF Inv, Good, TypeOK, Requests
<1>1. CASE req[v].phase = "idle"
  <2>1. req[v].end = "none"
    BY <1>0, <1>1, IdleIs
  <2>2. req'[v] # req[v] /\ ~Crash
    BY <1>0, <1>1, <2>1, Crashing DEF Open
  <2>3. Arrives(v)
    BY <1>0, <1>1, <2>2, Changes, Acting DEF Woken
  <2>4. PICK t \in Submits : Verify(v, t)
    BY <1>0, <2>3, TurnsAssumption DEF Arrives
  <2>5. req'[v] = Opened(v, t) /\ db' = db
    BY <1>0, <2>4, Verifying, Moving
  <2>6. /\ req'[v].turn = t /\ req'[v].judged = db[t].answer
        /\ db[t].turn = "final"
    BY <1>0, <2>1, <2>5 DEF Opened, Sessions
  <2> QED BY <2>5, <2>6
<1>2. CASE req[v].phase = "verifying"
  <2>1. /\ req'[v].turn = req[v].turn /\ req'[v].judged = req[v].judged
        /\ req[v].turn \in Submits
    BY <1>0, <1>2 DEF Keeps, Same, SessionOK
  <2> QED BY <1>2, <2>1, FinalStays DEF Judged
<1>3. CASE req[v].phase = "closed"
  <2>1. req'[v] = req[v] /\ req[v].turn \in Submits /\ req[v].end = "done"
    BY <1>0, <1>3 DEF Keeps, SessionOK
  <2> QED BY <2>1, FinalStays DEF Judged
<1> QED BY <1>0, <1>1, <1>2, <1>3 DEF EndpointOK

\* With one approval at a time, a stored verification is of the answer the
\* turn has: no commit overwrites a final response.
THEOREM VerificationsAreOfTheAnswer ==
  ASSUME Serial
  PROVE  Spec => []VerificationsStand
<1>1. Init => Judged
  BY NothingYet DEF Judged, Requests
<1>2. Inv /\ SerialInv /\ Judged /\ [Next]_vars => Judged'
  BY JudgedStep
<1>3. Judged => VerificationsStand
  BY DEF Judged, VerificationsStand, TurnOf
<1> QED BY <1>1, <1>2, <1>3, Consistency, SerialAlways, PTL DEF Spec

-----------------------------------------------------------------------------
(* What has been declined does not run.                                    *)

LEMMA RefusedChanges ==
  ASSUME TypeOK, \A r \in Requests : Good(r), [Next]_vars
  PROVE  \/ db' = db /\ refused' = refused
         \/ \E r \in Questions : Commits(r) \/ ExecutorCommit(r)
<1>1. CASE UNCHANGED vars
  BY <1>1 DEF vars
<1>2. ASSUME NEW r \in Requests, Commits(r) \/ ExecutorCommit(r)
      PROVE  r \in Questions
  <2>1. req[r].phase \in {"fanout", "asking", "replying"} /\ EndpointOK(r)
    BY <1>2, Committed DEF ExecutorCommit, Good
  <2> QED BY <2>1 DEF EndpointOK, Questions, Requests
<1>3. ASSUME NEW r \in Requests, ~(Commits(r) \/ ExecutorCommit(r)), Acts(r)
      PROVE  db' = db /\ refused' = refused
  BY <1>3, Arriving, Routing, Worked, Stepping, RollingBack DEF Acts, history
<1>4. CASE Crash
  BY <1>4 DEF Crash, history
<1> QED BY <1>1, <1>2, <1>3, <1>4, Kinds DEF Acts

\* A commit settles only the question its request read, at its own turn.
LEMMA DeclinedIs ==
  ASSUME Inv, NEW r \in Questions, Open(r), NEW q \in Declined(r)
  PROVE  /\ q \in Questions /\ req[q].phase = "closed"
         /\ req[q].turn = req[r].turn
<1>1. r \in Approvals /\ q = req[r].read.by /\ req[r].read # NoRow
  BY DEF Declined, Inv, EndpointOK, Requests
<1>2. req[r].read \in Rows
  BY <1>1 DEF Inv, TypeOK, Sessions, Requests
<1> QED BY <1>1, <1>2 DEF Rows, Inv, RowsOK, AskedBy

LEMMA NotRefusedStep ==
  ASSUME Inv, SerialInv, NotRefused, [Next]_vars
  PROVE  NotRefused'
<1>0. /\ TypeOK /\ (\A w \in Requests : Good(w) /\ Keeps(w))
      /\ Questions \subseteq Requests /\ refused \subseteq Questions
  BY Frame DEF Inv, Good, TypeOK, Questions, Requests
<1>1. CASE db' = db /\ refused' = refused
  BY <1>0, <1>1 DEF NotRefused, Keeps
<1>2. ASSUME NEW r \in Questions, Commits(r) \/ ExecutorCommit(r)
      PROVE  NotRefused'
  <2> DEFINE u == req[r].turn
  <2>1. /\ u \in Submits /\ Open(r) /\ refused' = refused \cup Declined(r)
        /\ db' = [db EXCEPT ![u] = db'[u]] /\ CommitsTo(r, u)
        /\ \/ db'[u].pending = Question(r)
           \/ db'[u].pending = IF lock[u] = r THEN NoRow ELSE db[u].pending
    BY <1>0, <1>2, CommitDoes DEF CommitsTo
  <2>2. ASSUME NEW q \in refused' PROVE req'[q].phase = "closed"
    <3>1. q \in Requests /\ req[q].phase = "closed"
      BY <1>0, <2>1, DeclinedIs DEF NotRefused
    <3> QED BY <1>0, <3>1 DEF Keeps
  <2>3. refused' \subseteq Questions
    BY <1>0, <2>1, DeclinedIs
  <2>4. ASSUME NEW t \in Submits PROVE db'[t].pending.by \notin refused'
    <3>1. CASE t = u
      <4>1. CASE db'[t].pending = Question(r)
        <5>1. db'[t].pending.by = r
          BY <4>1 DEF Question
        <5>2. req[r].phase # "closed"
          BY <2>1 DEF Open
        <5> QED BY <2>1, <5>1, <5>2, DeclinedIs DEF NotRefused
      <4>2. CASE db'[t].pending = NoRow
        BY <2>3, <4>2, TurnsAssumption DEF NoRow, Questions
      <4>3. db[u].pending = NoRow \/ lock[u] = r
        BY <2>1, SerialCommit
      <4> QED BY <2>1, <3>1, <4>1, <4>2, <4>3
    <3>2. CASE t # u
      <4>1. db'[t] = db[t]
        BY <1>0, <2>1, <3>2 DEF TypeOK
      <4>2. db[t].pending.by \notin Declined(r)
        <5>1. CASE db[t].pending = NoRow
          BY <2>1, <5>1, DeclinedIs, TurnsAssumption DEF NoRow, Questions
        <5>2. CASE db[t].pending # NoRow
          <6>1. req[db[t].pending.by].turn = t
            BY <5>2 DEF Inv, RowsOK, AskedBy
          <6> QED BY <2>1, <3>2, <6>1, DeclinedIs
        <5> QED BY <5>1, <5>2
      <4> QED BY <2>1, <4>1, <4>2 DEF NotRefused
    <3> QED BY <3>1, <3>2
  <2> QED BY <2>2, <2>4 DEF NotRefused
<1> QED BY <1>0, <1>1, <1>2, RefusedChanges

LEMMA RunsAreAsked ==
  ASSUME Inv, SerialInv, NotRefused, [Next]_vars, NEW q \in Questions,
         executed'[q] # executed[q]
  PROVE  q \notin refused
<1>1. TypeOK /\ \A w \in Requests : Good(w)
  BY DEF Inv, Good
<1>2. PICK r \in Requests : Execute(r)
  BY <1>1, OnlyExecuteRuns
<1>3. q = req[r].read.by /\ req[r].phase = "resuming" /\ Open(r)
  BY <1>1, <1>2 DEF Execute, TypeOK, Open
<1>4. r \in Questions /\ req[r].turn \in Submits
  BY <1>1, <1>3 DEF Inv, EndpointOK, SessionOK, Unread, Questions, Requests
<1>5. db[req[r].turn].pending = req[r].read
  BY <1>3, <1>4 DEF SerialInv, HeldOK, Unread
<1> QED BY <1>3, <1>4, <1>5 DEF NotRefused

\* With one approval at a time, a gated tool never runs for a question whose
\* decline is committed, even where an executor commits half-way.
THEOREM DeclinesStand ==
  ASSUME Serial
  PROVE  Spec => NoRunAfterDecline
<1>1. Init => NotRefused
  BY TurnsAssumption DEF Init, NotRefused
<1>2. Inv /\ SerialInv /\ NotRefused /\ [Next]_vars => NotRefused'
  BY NotRefusedStep
<1>3. Inv /\ SerialInv /\ NotRefused /\ [Next]_vars =>
        [\A q \in Questions : executed'[q] # executed[q] => q \notin refused]_vars
  BY RunsAreAsked
<1> QED BY <1>1, <1>2, <1>3, Consistency, SerialAlways, PTL
        DEF Spec, NoRunAfterDecline

-----------------------------------------------------------------------------
(* The turns implement the turn lifecycle.                                 *)

\* A request's end is written once, by what closes it.
EndOK(r) == Open(r) => req[r].end = "none"

\* Under one approval at a time and an executor that commits nothing, the turn
\* of an open approval still waits with the very row that approval read.
AnswersOK(r) ==
  Open(r) => /\ db[req[r].turn].turn = "open"
             /\ db[req[r].turn].pending = req[r].read
AbsentOK(t) == db[t].turn = "absent" => db[t].pending = NoRow

LifeInv ==
  /\ Asked
  /\ \A r \in Approvals : EndOK(r) /\ AnswersOK(r)
  /\ \A t \in Submits : AbsentOK(t)

Settles == {"done", "paused"}

\* How an approval's end comes about.
LEMMA EndStep ==
  ASSUME Inv, [Next]_vars, NEW r \in Approvals, Open(r), ~ExecutorCommit(r)
  PROVE  \/ req'[r].end = req[r].end
         \/ /\ Commits(r)
            /\ req'[r].end \in Settles /\ req'[r].phase = "closed"
         \/ /\ ~Commits(r)
            /\ req'[r].end \notin Settles /\ req'[r].phase = "closed"
<1>0. /\ TypeOK /\ (\A w \in Requests : Good(w)) /\ r \in Requests
      /\ req[r] \in Sessions /\ SessionOK(r) /\ EndpointOK(r)
  BY DEF Inv, Good, Requests, TypeOK
<1>1. ASSUME NEW e \in Ends, req'[r] = Ended(r, e)
      PROVE  req'[r].end = e /\ req'[r].phase = "closed"
  BY <1>0, <1>1 DEF Ended, Sessions
<1>2. CASE Crash
  <2>1. ~Commits(r)
    <3>1. Commits(r) => db' # db \/ req'[r].end \in Settles
      BY <1>0, <1>1, Committed DEF Ends, Settles
    <3>2. req'[r] = Ended(r, "gone") /\ db' = db
      BY <1>0, <1>2, Crashing
    <3> QED BY <1>1, <3>1, <3>2 DEF Ends, Settles
  <2> QED BY <1>0, <1>1, <1>2, <2>1, Crashing DEF Ends, Settles
<1>3. ASSUME NEW s \in Requests, Woken(s, r)
      PROVE  req'[r].end = req[r].end
  BY <1>0, <1>3 DEF Woken, Sessions
<1>4. CASE Acts(r)
  <2>1. CASE Commits(r)
    BY <1>0, <1>1, <2>1, Committed DEF Ends, Settles
  <2>2. CASE RollsBack(r) /\ ~Commits(r)
    <3>1. PICK e \in {"error", "gone"} : Rollback(r, e)
      BY <2>2 DEF RollsBack, PauseConflicts, Raise, Disconnect
    <3>2. req'[r] = Ended(r, e)
      BY <1>0, <3>1, Closing DEF Rollback, Close, Ends
    <3> QED BY <1>1, <2>2, <3>1, <3>2 DEF Ends, Settles
  <2>3. CASE Works(r)
    <3>1. r \in Questions /\ req[r].read # NoRow
      BY <1>0 DEF Questions, EndpointOK
    <3>2. PICK rec \in {Finish(req[r]), Resumed(req[r]), Finish(Resumed(req[r])),
                        [req[r] EXCEPT !.phase = "asking", !.newRow = Question(r)],
                        [req[r] EXCEPT !.phase = "replying"]} : Moves(r, rec)
      BY <1>0, <2>3, <3>1, FanningOut, Resuming DEF Works
    <3>3. rec.end = req[r].end
      BY <1>0, <3>2 DEF Finish, Resumed, Sessions
    <3> QED BY <1>0, <3>2, <3>3, Moving
  <2>4. CASE DeletePending(r) \/ WaitForRow(r)
    <3>1. PICK rec \in {[req[r] EXCEPT !.phase = "resuming"],
                        [req[r] EXCEPT !.phase = "blocked"]} : Moves(r, rec)
      BY <1>0, <2>4, Resuming
    <3>2. rec.end = req[r].end
      BY <1>0, <3>1 DEF Sessions
    <3> QED BY <1>0, <3>1, <3>2, Moving
  <2>5. ~CommitVerification(r) /\ ~(\E named \in Classifications : Classify(r, named))
    BY <1>0 DEF CommitVerification, Classify, EndpointOK
  <2>6. ~Arrives(r)
    BY <1>0, Arriving DEF Open
  <2> QED BY <1>4, <2>1, <2>2, <2>3, <2>4, <2>5, <2>6 DEF Acts
<1> QED BY <1>0, <1>2, <1>3, <1>4, Changes

\* An approval that arrives has the end it was created with, or a 404.
LEMMA EndArrives ==
  ASSUME Inv, NEW r \in Approvals, Arrives(r)
  PROVE  /\ req'[r].end \in {"none", "404"}
         /\ req'[r].phase # "closed" => req'[r].end = "none"
<1>0. /\ TypeOK /\ r \in Requests /\ req[r] \in Sessions /\ req[r].phase = "idle"
      /\ Good(r)
  BY Arriving DEF Inv, TypeOK, Good, Requests
<1>1. req[r].end = "none"
  BY <1>0, IdleIs
<1>2. PICK t \in Submits, yes \in BOOLEAN : Respond(r, t, yes)
  BY TurnsAssumption DEF Arrives
<1>3. req'[r] = Responded(r, t, yes)
  BY <1>0, <1>2, Responding, Moving
<1>4. /\ req'[r].end = IF db[t].pending = NoRow THEN "404" ELSE req[r].end
      /\ req'[r].phase = IF db[t].pending = NoRow THEN "closed" ELSE "reading"
  BY <1>0, <1>3 DEF Responded, Sessions
<1> QED BY <1>1, <1>4

LEMMA LifeStep ==
  ASSUME Inv, Inv', SerialInv, LifeInv, Serial, ~ExecutorCommits, [Next]_vars
  PROVE  LifeInv'
<1>0. /\ TypeOK /\ (\A w \in Requests : Good(w) /\ Keeps(w))
      /\ Approvals \subseteq Questions /\ Questions \subseteq Requests
      /\ \A r \in Requests : ~ExecutorCommit(r)
  BY Frame DEF Inv, Good, Questions, Requests, ExecutorCommit
<1>1. Asked'
  BY AskedStep DEF LifeInv
<1>2. ASSUME NEW r \in Approvals, Open(r)'
      PROVE  /\ req'[r].end = "none"
             /\ db'[req'[r].turn].turn = "open"
             /\ db'[req'[r].turn].pending = req'[r].read
  <2>1. CASE Open(r) /\ req'[r].turn = req[r].turn /\ req[r].turn \in Submits
    <3>1. req'[r].end = "none"
      BY <1>0, <1>2, <2>1, EndStep DEF LifeInv, EndOK, Open
    <3>2. db'[req[r].turn] = db[req[r].turn]
      BY <1>0, <1>2, <2>1, OwnCommit DEF SerialInv
    <3>3. req'[r].read = req[r].read
      BY <1>0, <2>1 DEF Keeps, Same, Open
    <3> QED BY <2>1, <3>1, <3>2, <3>3 DEF LifeInv, AnswersOK
  <2>2. CASE Arrives(r)
    <3>1. db' = db /\ req'[r].phase # "closed"
      BY <1>0, <1>2, <2>2, Arriving DEF Open
    <3> DEFINE t == req'[r].turn
    <3>2. t \in Submits /\ req'[r].read = db[t].pending /\ req'[r].read # NoRow
      BY <1>0, <2>2, <3>1, ArrivesTo, TurnsAssumption
    <3>3. db[t].turn \in {"absent", "open", "final"}
      BY <1>0, <3>2 DEF TypeOK, TurnRows
    <3>4. db[t].turn = "open"
      BY <3>2, <3>3 DEF LifeInv, AbsentOK, SerialInv
    <3> QED BY <2>2, <3>1, <3>2, <3>4, EndArrives
  <2> QED BY <1>0, <1>2, <2>1, <2>2, Opens
<1>3. ASSUME NEW t \in Submits PROVE AbsentOK(t)'
  <2>1. CASE db'[t] = db[t]
    BY <2>1 DEF LifeInv, AbsentOK
  <2>2. ASSUME NEW r \in Questions, Commits(r), req[r].turn = t
        PROVE  db'[t].turn # "absent"
    <3>1. LET u == req[r].turn IN
          \/ db'[u].turn = IF db[u].turn = "absent" THEN "open" ELSE db[u].turn
          \/ db'[u].turn = "final"
      BY <1>0, <2>2, CommitDoes
    <3> QED BY <2>2, <3>1
  <2> QED BY <1>0, <2>1, <2>2, RowChanges DEF AbsentOK
<1> QED BY <1>1, <1>2, <1>3 DEF LifeInv, EndOK, AnswersOK

\* What a step adds to the settled questions: the one its commit answers.
LEMMA SettledStep ==
  ASSUME Inv, LifeInv, [Next]_vars, \A r \in Requests : ~ExecutorCommit(r)
  PROVE  Settled' = Settled \cup {q \in Questions :
                      \E r \in Approvals : Commits(r) /\ req[r].read.by = q}
<1>0. /\ TypeOK /\ (\A w \in Requests : Good(w) /\ Keeps(w))
      /\ Approvals \subseteq Requests
  BY Frame DEF Inv, Good, Requests
<1>1. ASSUME NEW r \in Approvals, NEW q \in Questions,
             req[r].read.by = q, req[r].end \in Settles
      PROVE  req'[r].read.by = q /\ req'[r].end \in Settles
  <2>1. ~Open(r)
    BY <1>1 DEF LifeInv, EndOK, Settles
  <2>2. req[r].phase # "idle"
    BY <1>0, <1>1, IdleIs DEF Settles
  <2> QED BY <1>0, <1>1, <2>1, <2>2 DEF Keeps, Open
<1>2. ASSUME NEW r \in Approvals, Commits(r)
      PROVE  req'[r].read = req[r].read /\ req'[r].end \in Settles
  <2>1. \E e \in Settles : req'[r] = Ended(r, e)
    BY <1>0, <1>2, Committed DEF Settles
  <2>2. req[r] \in Sessions
    BY <1>0 DEF TypeOK
  <2> QED BY <2>1, <2>2 DEF Ended, Sessions
<1>3. ASSUME NEW r \in Approvals, NEW q \in Questions,
             req'[r].read.by = q, req'[r].end \in Settles
      PROVE  req[r].read.by = q /\ (req[r].end \in Settles \/ Commits(r))
  <2>1. CASE req[r].phase = "closed"
    BY <1>0, <1>3, <2>1 DEF Keeps
  <2>2. CASE Open(r)
    <3>1. req'[r].read = req[r].read
      BY <1>0, <2>2 DEF Keeps, Same, Open
    <3> QED BY <1>0, <1>3, <2>2, <3>1, EndStep
  <2>3. CASE req[r].phase = "idle"
    <3>1. req[r].end \notin Settles
      BY <1>0, <2>3, IdleIs DEF Settles
    <3>2. req'[r] # req[r] /\ ~Crash
      BY <1>0, <1>3, <2>3, <3>1, Crashing DEF Open
    <3>3. Arrives(r)
      BY <1>0, <2>3, <3>2, Changes, Acting DEF Woken
    <3> QED BY <1>3, <3>3, EndArrives DEF Settles
  <2> QED BY <2>1, <2>2, <2>3 DEF Open
<1>4. /\ Settled = {q \in Questions : \E r \in Approvals :
                      req[r].read.by = q /\ req[r].end \in Settles}
      /\ Settled' = {q \in Questions : \E r \in Approvals :
                       req'[r].read.by = q /\ req'[r].end \in Settles}
  BY DEF Settled, Settles
<1> QED BY <1>1, <1>2, <1>3, <1>4

\* The question an open request may ask has not been asked.
LEMMA NotAskedYet ==
  ASSUME Inv, NEW r \in Questions, Open(r)
  PROVE  Lifecycle!NeverAsked(r)
<1>1. r # "none"
  BY TurnsAssumption DEF Questions
<1>2. ASSUME NEW row, NEW t, AskedBy(row, t) PROVE row.by # r
  BY <1>1, <1>2 DEF AskedBy, NoRow, Open
<1>3. \A t \in Submits : db[t].pending.by # r
  BY <1>2 DEF Inv, RowsOK
<1>4. r \notin Settled
  BY <1>2 DEF Inv, RowsOK, Settled
<1> QED BY <1>3, <1>4 DEF Lifecycle!NeverAsked

\* A commit, in the abstract: the turn appears, or its question is settled.
LEMMA CommitIsMove ==
  ASSUME Inv, SerialInv, LifeInv, [Next]_vars, NEW r \in Questions, Commits(r),
         \A w \in Requests : ~ExecutorCommit(w)
  PROVE  Lifecycle!Next
<1>a. PICK t \in Submits : t = req[r].turn
  BY CommitDoes DEF Inv, Good
<1> DEFINE stages == [u \in Submits |-> Stage(u)]
           asked == [u \in Submits |-> db[u].pending.by]
<1>0. /\ TypeOK /\ (\A w \in Requests : Good(w))
      /\ r \in Requests /\ Questions \subseteq Requests /\ Approvals \subseteq Requests
  BY DEF Inv, Good, Questions, Requests
<1>1. /\ t \in Submits /\ Open(r) /\ db' = [db EXCEPT ![t] = db'[t]]
      /\ req[r].phase \in Working /\ db \in [Submits -> TurnRows]
      /\ \/ /\ db'[t].pending = Question(r)
            /\ db'[t].turn = IF db[t].turn = "absent" THEN "open" ELSE db[t].turn
         \/ /\ db'[t].turn = "final"
            /\ db'[t].pending = IF lock[t] = r THEN NoRow ELSE db[t].pending
  BY <1>0, <1>a, CommitDoes DEF TypeOK
<1>2. db[t].turn # "final" /\ (db[t].pending = NoRow \/ lock[t] = r)
  BY <1>a, <1>1, SerialCommit DEF CommitsTo
<1>3. /\ stages' = [stages EXCEPT ![t] = Stage(t)']
      /\ asked' = [asked EXCEPT ![t] = db'[t].pending.by]
  <2>1. \A u \in Submits : u # t => db'[u] = db[u]
    BY <1>1
  <2>2. \A u \in Submits : u # t => Stage(u)' = Stage(u)
    BY <2>1 DEF Stage
  <2> QED BY <2>1, <2>2
<1>4. \A w \in Approvals : Commits(w) => w = r
  <2>1. ASSUME NEW w \in Approvals, Commits(w), w # r PROVE FALSE
    <3>1. Others(r) /\ w \in Requests
      BY <1>0, Committed
    <3>2. /\ req[w].phase \in {"asking", "replying"}
          /\ \E e \in Ends : req'[w] = Ended(w, e)
      BY <1>0, <2>1, <3>1, Committed DEF Ends
    <3>3. req'[w].phase = "closed"
      BY <1>0, <3>1, <3>2 DEF Ended, TypeOK, Sessions
    <3> QED BY <2>1, <3>1, <3>2, <3>3 DEF Others, Woken
  <2> QED BY <2>1
<1>5. Settled' = Settled \cup {q \in Questions : r \in Approvals /\ req[r].read.by = q}
  <2>1. Settled' = Settled \cup {q \in Questions :
                     \E w \in Approvals : Commits(w) /\ req[w].read.by = q}
    BY SettledStep
  <2> QED BY <1>4, <2>1
<1>6. Lifecycle!Moves(t)
  <2>1. CASE db'[t].pending = Question(r) /\ Stage(t)' = "waiting"
    <3>1. db'[t].pending.by = r
      BY <2>1 DEF Question
    <3>2. Lifecycle!Waits(t, r)
      BY <1>1, <1>3, <2>1, <3>1, NotAskedYet DEF Lifecycle!Waits
    <3> QED BY <3>2 DEF Lifecycle!Moves
  <2>2. CASE db'[t].pending = NoRow /\ Stage(t)' = "final"
    BY <1>3, <2>2 DEF Lifecycle!Moves, Lifecycle!IsFinal, NoRow, Nobody
  <2>3. /\ db'[t].turn = "final" => Stage(t)' = "final"
        /\ db'[t].turn = "open" => Stage(t)' = "waiting"
    BY DEF Stage
  <2>4. db[t].turn \in {"absent", "open"}
    BY <1>1, <1>2 DEF TurnRows
  <2> QED BY <1>1, <1>2, <2>1, <2>2, <2>3, <2>4
<1>7. CASE r \in Submits
  <2>1. t = r /\ r \notin Approvals /\ lock[t] # r
    BY <1>0, <1>a, <1>1, <1>7, TurnsAssumption DEF Inv, EndpointOK, Open, TypeOK, Nobody
  <2>2. db[t].turn = "absent"
    BY <1>1, <1>2, <2>1 DEF LifeInv, Asked, TurnRows
  <2>3. stages[t] = "none"
    BY <1>1, <2>2 DEF Stage
  <2>4. Settled' = Settled
    BY <1>5, <2>1
  <2>5. Lifecycle!Appear(t)
    BY <1>6, <2>3, <2>4 DEF Lifecycle!Appear
  <2> QED BY <1>1, <2>5 DEF Lifecycle!Next
<1>8. CASE r \in Approvals
  <2>1. db[t].turn = "open" /\ db[t].pending = req[r].read
    BY <1>a, <1>1, <1>8 DEF LifeInv, AnswersOK
  <2>2. stages[t] = "waiting" /\ asked[t] = req[r].read.by
    BY <1>1, <2>1 DEF Stage
  <2>3. req[r].read.by \in Questions
    <3>1. req[r].read \in Rows
      BY <1>0, <1>1, <1>8 DEF Inv, EndpointOK, TypeOK, Sessions
    <3> QED BY <3>1 DEF Rows
  <2>4. Settled' = Settled \cup {asked[t]}
    BY <1>5, <1>8, <2>2, <2>3
  <2>5. Lifecycle!Settle(t)
    BY <1>6, <2>2, <2>4 DEF Lifecycle!Settle
  <2> QED BY <1>1, <2>5 DEF Lifecycle!Next
<1> QED BY <1>7, <1>8 DEF Questions

LEMMA StepIsMove ==
  ASSUME Inv, SerialInv, LifeInv, ~ExecutorCommits, [Next]_vars
  PROVE  [Lifecycle!Next]_(Lifecycle!vars)
<1>0. /\ TypeOK /\ (\A w \in Requests : Good(w))
      /\ \A w \in Requests : ~ExecutorCommit(w)
      /\ Questions \subseteq Requests /\ Approvals \subseteq Questions
  BY DEF Inv, Good, ExecutorCommit, Questions, Requests
<1>1. CASE \E r \in Questions : Commits(r)
  BY <1>0, <1>1, CommitIsMove
<1>2. CASE ~ \E r \in Questions : Commits(r)
  <2>1. db' = db
    BY <1>0, <1>2, RefusedChanges
  <2>2. Settled' = Settled
    BY <1>0, <1>2, SettledStep
  <2>3. [t \in Submits |-> Stage(t)]' = [t \in Submits |-> Stage(t)]
    BY <2>1 DEF Stage
  <2> QED BY <2>1, <2>2, <2>3 DEF Lifecycle!vars
<1> QED BY <1>1, <1>2

\* With one approval at a time and no committing executor, the turns, questions
\* and answers of every behaviour are those of the abstract lifecycle.
THEOREM TurnsImplementLifecycle ==
  ASSUME Serial, ~ExecutorCommits
  PROVE  Spec => ImplementsLifecycle
<1>1. Init => LifeInv
  BY NothingYet DEF LifeInv, Asked, EndOK, AnswersOK, AbsentOK, Requests
<1>2. Inv /\ Inv' /\ SerialInv /\ LifeInv /\ [Next]_vars => LifeInv'
  BY LifeStep
<1>3. Init => Lifecycle!Init
  <2> SUFFICES ASSUME Init PROVE Lifecycle!Init
    OBVIOUS
  <2>1. \A t \in Submits : Stage(t) = "none" /\ db[t].pending.by = Nobody
    BY NothingYet DEF Stage, NoRow, Nobody
  <2>2. Settled = {}
    BY NothingYet DEF Settled, Requests
  <2> QED BY <2>1, <2>2 DEF Lifecycle!Init
<1>4. Inv /\ SerialInv /\ LifeInv /\ [Next]_vars => [Lifecycle!Next]_(Lifecycle!vars)
  BY StepIsMove
<1> QED BY <1>1, <1>2, <1>3, <1>4, Consistency, SerialAlways, PTL
        DEF Spec, ImplementsLifecycle, Lifecycle!Spec

-----------------------------------------------------------------------------
(***************************************************************************)
(* The chat page.  An invariant in five parts: what a stream still has to  *)
(* show and how its request stands (StreamsOK); the questions of a message *)
(* form a chain, each answered by the click that made the next (ChainOK);  *)
(* the rows and locks each answer will find (AnswersInv); and which turns  *)
(* may be of one conversation (OneConversation); with the types (PageOK).  *)
(***************************************************************************)

Event == {"progress", "token", "approval_required", "done", "error"}
Streams == [state : {"idle", "open", "ended", "failed"}, sent : Seq(Event),
            at : Nat, buffer : Seq(Event), seen : Seq(Event), cuts : SUBSET Nat,
            asked : Submits \cup {Nobody}, yes : BOOLEAN,
            shown : Questions \cup {Nobody}, hasty : BOOLEAN]

PageOK ==
  /\ messages \subseteq Submits /\ conversationId \in Submits \cup {Nobody}
  /\ sending \in BOOLEAN /\ card \in [Submits -> Questions \cup {Nobody}]
  /\ responding \subseteq Submits /\ finished \subseteq Submits
  /\ early \subseteq Submits
  /\ stream \in [Requests -> Streams]

\* How far the page has taken a stream in: what the buffer holds is still to come.
TakenIn(s) == s.at - Len(s.buffer)
Wrote(s, e) == \E i \in DOMAIN s.sent : s.sent[i] = e
Coming(s, e) == \E i \in DOMAIN s.sent : i > TakenIn(s) /\ s.sent[i] = e

\* The buffer is the end of what has been read.
ReadingOK(s) ==
  /\ s.at <= Len(s.sent) /\ Len(s.buffer) <= s.at
  /\ \A i \in 1 .. Len(s.buffer) : s.buffer[i] = s.sent[TakenIn(s) + i]
  /\ s.cuts = {} => s.buffer = <<>>
  /\ s.state = "idle" => s = Unused
  /\ s.state = "ended" => s.at = Len(s.sent) /\ s.buffer = <<>>

\* What a stream holds, and how its request stands: a question's event is
\* written once, as the request asks it.
Once(s) == \A i, j \in DOMAIN s.sent :
  s.sent[i] = "approval_required" /\ s.sent[j] = "approval_required" => i = j
AsksOK(r) ==
  /\ Once(stream[r])
  /\ Wrote(stream[r], "approval_required") =>
       req[r].phase = "asking" \/ (req[r].phase = "closed" /\ req[r].end # "done")
  /\ /\ stream[r].state \in {"open", "ended"}
     /\ req[r].phase = "asking" \/ req[r].end = "paused"
     => Wrote(stream[r], "approval_required")
ServedOK(r) ==
  /\ r \in Verifies => stream[r].state = "idle"
  /\ stream[r].state = "idle" => req[r].phase = "idle"
  /\ r \in Approvals /\ req[r].phase # "idle" => req[r].turn = stream[r].asked
  /\ stream[r].state = "ended" => WellEnded(r)
  /\ EndOK(r) /\ AsksOK(r)

-----------------------------------------------------------------------------
\* The questions of a message, and who answers which.
Chain(m) == {m} \cup {r \in Approvals : stream[r].asked = m}
Answers(q) == {x \in Approvals : stream[x].shown = q}
Shown(q) == /\ Wrote(stream[q], "approval_required")
            /\ ~Coming(stream[q], "approval_required")

\* What is clicked is a question of its message that has been shown and, unless
\* the click was hasty, committed; the buttons stay disabled meanwhile.
ClickOK(x) ==
  stream[x].state # "idle" =>
    /\ stream[x].asked \in Submits /\ stream[stream[x].asked].state # "idle"
    /\ stream[x].shown \in Chain(stream[x].asked)
    /\ Shown(stream[x].shown)
    /\ ~stream[x].hasty => req[stream[x].shown].end = "paused"
    /\ stream[x].hasty /\ stream[x].shown \in Approvals =>
         stream[stream[x].shown].state = "failed"
    /\ stream[x].state = "open" => stream[x].asked \in responding

\* A question is answered at most once, and at most one of a message is not
\* answered: that is the one on the card.
ChainOK ==
  /\ \A x \in Approvals : ClickOK(x)
  /\ \A x, y \in Approvals : stream[x].state # "idle" /\ stream[x].shown = stream[y].shown => x = y
  /\ \A x, y \in Approvals : stream[x].state = "open" /\ stream[y].state = "open"
        /\ stream[x].asked = stream[y].asked => x = y
  /\ \A r \in Requests : stream[r].state = "open" => MessageOf(r) \in messages
  /\ \A m \in Submits : \A y, z \in Chain(m) : Answers(y) = {} /\ Answers(z) = {} => y = z
  /\ \A m \in Submits : card[m] # Nobody =>
        card[m] \in Chain(m) /\ Answers(card[m]) = {} /\ Shown(card[m])
  /\ \A m \in messages : \A q \in Chain(m) :
        /\ stream[q].state \in {"open", "ended"} /\ stream[q].cuts = {} /\ Shown(q)
        /\ Answers(q) = {}
        => card[m] = q
  /\ \A m \in messages : stream[m].state # "idle"

-----------------------------------------------------------------------------
\* A turn has a row only after its submission has paused.
RowOK(t) ==
  /\ lock[t] # Nobody => db[t].pending # NoRow
  /\ db[t].pending # NoRow => req[t].end = "paused"
  /\ req[t].end = "paused" => db[t].turn # "absent"

\* An answer is served after its turn has paused, waits for a lock that is held,
\* and settles only what it has read.
ApprovalOK(x) ==
  /\ Open(x) => req[req[x].turn].end = "paused"
  /\ req[x].phase = "blocked" => lock[req[x].turn] # Nobody
  /\ req[x].end \in Settles => req[x].read # NoRow

\* A committed question waits in the row until its answer takes it.
Awaited(q) ==
  req[q].end = "paused" /\ (\A x \in Answers(q) : req[x].phase \in {"idle", "reading", "blocked"})
   => db[req[q].turn].pending.by = q /\ lock[req[q].turn] = Nobody

\* An answer that read a row is on the question it was clicked for; it keeps that
\* row while it works and has replaced it when it is done.
OnIt(x) == req[x].read # NoRow /\ req[x].read.by = stream[x].shown
AnswerOK(x) ==
  /\ req[x].read # NoRow =>
       OnIt(x) \/ (stream[x].hasty /\ stream[x].shown \in Approvals)
  /\ OnIt(x) /\ req[x].phase \in Holding =>
       lock[req[x].turn] = x /\ db[req[x].turn].pending.by = stream[x].shown
  /\ OnIt(x) /\ req[x].end \in Settles => db[req[x].turn].pending.by # stream[x].shown

AnswersInv ==
  /\ \A t \in Submits : RowOK(t)
  /\ \A x \in Approvals : ApprovalOK(x) /\ AnswerOK(x)
  /\ \A q \in Questions : Awaited(q)

-----------------------------------------------------------------------------
\* What the page has seen is what it has taken in, but for what a cut joined;
\* what the buffer holds are events that a cut begins.
LostBy(s) == {j \in Nat : j \in s.cuts \/ j - 1 \in s.cuts}
Whole(lost, n) == {j \in 1 .. n : j \notin lost}
\* seen holds the first n of sent, those in `lost` left out.
SeenTo(sent, seen, lost, n) ==
  /\ Len(seen) = Cardinality(Whole(lost, n))
  /\ \A i \in 1 .. n : i \notin lost => seen[Cardinality(Whole(lost, i))] = sent[i]
SeenOK(s) ==
  /\ s.state # "ended" =>
       /\ s.cuts \subseteq 1 .. s.at /\ TakenIn(s) \notin s.cuts
       /\ TakenIn(s) + 1 .. s.at \subseteq s.cuts
       /\ SeenTo(s.sent, s.seen, LostBy(s), TakenIn(s))
  /\ s.state = "ended" =>
       /\ Len(s.seen) = Place(s, Len(s.sent))
       /\ \A i \in DOMAIN s.sent : ~Joined(s, i) => s.seen[Place(s, i)] = s.sent[i]

-----------------------------------------------------------------------------
\* An answer of m has come or may still come; such messages go together.
Alive(m) == db[m].turn # "absent" \/ req[m].phase # "closed"
OneConversation ==
  /\ \A r \in Requests : Wrote(stream[r], "done") => db[MessageOf(r)].turn # "absent"
  /\ \A m \in finished : stream[m].state # "idle"
  /\ messages \cap early = {} =>
       /\ \A m, n \in messages : Alive(m) /\ Alive(n) => ConversationOf(m) = ConversationOf(n)
       /\ \A m \in messages : Alive(m) /\ m \in finished => ConversationOf(m) = conversationId

StreamsOK == \A r \in Requests :
  ReadingOK(stream[r]) /\ SeenOK(stream[r]) /\ ServedOK(r)

ChatInv ==
  Inv /\ PageOK /\ StreamsOK /\ ChainOK /\ AnswersInv /\ OneConversation

-----------------------------------------------------------------------------
(* Reading                                                                 *)

LEMMA ParsedIs ==
  ASSUME NEW buffer \in Seq(Event), NEW es \in Seq(Event)
  PROVE  /\ es = <<>> => Parsed(buffer, es) = <<>>
         /\ es # <<>> /\ buffer = <<>> => Parsed(buffer, es) = es
         /\ es # <<>> /\ buffer # <<>> => Parsed(buffer, es) = Tail(es)
<1>1. CASE es = <<>>
  BY <1>1 DEF Parsed
<1>2. CASE es # <<>> /\ buffer = <<>>
  <2>1. Parse(buffer \o <<Head(es)>>) = <<Head(es)>>
    BY <1>2 DEF Parse
  <2>2. <<Head(es)>> \o Tail(es) = es
    BY <1>2
  <2> QED BY <1>2, <2>1, <2>2 DEF Parsed
<1>3. CASE es # <<>> /\ buffer # <<>>
  <2>1. Len(buffer \o <<Head(es)>>) # 1
    BY <1>3
  <2>2. <<>> \o Tail(es) = Tail(es)
    BY <1>3
  <2> QED BY <1>3, <2>1, <2>2 DEF Parsed, Parse
<1> QED BY <1>1, <1>2, <1>3

LEMMA SubSeqIs ==
  ASSUME NEW s \in Seq(Event), NEW a \in Nat, NEW n \in Nat, a + n <= Len(s)
  PROVE  /\ SubSeq(s, a + 1, a + n) \in Seq(Event) /\ Len(SubSeq(s, a + 1, a + n)) = n
         /\ \A k \in 1 .. n : SubSeq(s, a + 1, a + n)[k] = s[a + k]
<1>1. \A i \in a + 1 .. a + n : s[i] \in Event
  OBVIOUS
<1> QED BY <1>1, SubSeqProperties

LEMMA WholeType ==
  ASSUME NEW lost, NEW n \in Nat
  PROVE  IsFiniteSet(Whole(lost, n)) /\ Cardinality(Whole(lost, n)) \in Nat
<1>1. IsFiniteSet(1 .. n)
  BY FS_Interval
<1>2. Whole(lost, n) \subseteq 1 .. n
  BY DEF Whole
<1> QED BY <1>1, <1>2, FS_Subset, FS_CardinalityType

LEMMA WholeBefore ==
  ASSUME NEW lost, NEW n \in Nat, NEW i \in 1 .. n, i \notin lost
  PROVE  Cardinality(Whole(lost, i)) \in 1 .. Cardinality(Whole(lost, n))
<1>1. Whole(lost, i) \subseteq Whole(lost, n) /\ i \in Whole(lost, i) /\ i \in Nat
  BY DEF Whole
<1>2. Cardinality(Whole(lost, i)) <= Cardinality(Whole(lost, n))
  BY <1>1, WholeType, FS_Subset
<1>3. Cardinality(Whole(lost, i)) # 0
  BY <1>1, WholeType, FS_EmptySet
<1> QED BY <1>1, <1>2, <1>3, WholeType

\* The counting under SeenOK: es, the events `from` + 1 up to `to`, join those
\* that have been seen, and the ones passed over are lost.
LEMMA Showing ==
  ASSUME NEW sent \in Seq(Event), NEW seen \in Seq(Event), NEW es \in Seq(Event),
         NEW lost, NEW taken \in Nat, NEW from \in Nat, NEW to \in Nat,
         taken <= from, from <= to, SeenTo(sent, seen, lost, taken),
         \A i \in taken + 1 .. from : i \in lost, \A i \in from + 1 .. to : i \notin lost,
         Len(es) = to - from, \A k \in 1 .. Len(es) : es[k] = sent[from + k]
  PROVE  SeenTo(sent, seen \o es, lost, to)
<1> DEFINE joined == seen \o es
<1>1. /\ Len(joined) = Len(seen) + (to - from)
      /\ \A k \in 1 .. Len(seen) : joined[k] = seen[k]
      /\ \A k \in 1 .. to - from : joined[Len(seen) + k] = es[k]
  BY ONLY seen \in Seq(Event), es \in Seq(Event), Len(es) = to - from
<1> HIDE DEF joined
<1>2. Len(seen) = Cardinality(Whole(lost, taken)) /\ Len(seen) \in Nat
  BY DEF SeenTo
<1>0. ASSUME NEW n \in Nat, from <= n, n <= to
      PROVE  Cardinality(Whole(lost, n)) = Len(seen) + (n - from)
  <2>1. Whole(lost, n) = Whole(lost, taken) \cup (from + 1 .. n)
    BY <1>0 DEF Whole
  <2>2. Whole(lost, taken) \cap (from + 1 .. n) = {}
    BY DEF Whole
  <2>3. IsFiniteSet(from + 1 .. n) /\ Cardinality(from + 1 .. n) = n - from
    <3>1. from + 1 \in Int /\ n \in Int
      OBVIOUS
    <3>2. (IF from + 1 > n THEN 0 ELSE n - (from + 1) + 1) = n - from
      BY <1>0
    <3> QED BY <3>1, <3>2, FS_Interval
  <2>4. IsFiniteSet(Whole(lost, taken))
    BY WholeType
  <2>5. \A S, T : IsFiniteSet(S) /\ IsFiniteSet(T) =>
          Cardinality(S \cup T) = Cardinality(S) + Cardinality(T) - Cardinality(S \cap T)
    BY FS_Union
  <2>6. Cardinality(Whole(lost, n)) =
          Cardinality(Whole(lost, taken)) + Cardinality(from + 1 .. n) - Cardinality({})
    BY ONLY <2>1, <2>2, <2>3, <2>4, <2>5
  <2>7. Cardinality({}) = 0
    BY FS_EmptySet
  <2> QED BY <1>2, <2>3, <2>6, <2>7
<1>3. Len(joined) = Cardinality(Whole(lost, to))
  BY <1>0, <1>1
<1>4. ASSUME NEW i \in 1 .. to, i \notin lost
      PROVE  joined[Cardinality(Whole(lost, i))] = sent[i]
  <2>1. CASE i <= taken
    <3>1. Cardinality(Whole(lost, i)) \in 1 .. Len(seen) /\ i \in 1 .. taken
      BY <1>2, <1>4, <2>1, WholeBefore
    <3> QED BY <1>1, <1>4, <3>1 DEF SeenTo
  <2>2. CASE i > taken
    <3>1. i \in from + 1 .. to
      BY <1>4, <2>2
    <3>2. Cardinality(Whole(lost, i)) = Len(seen) + (i - from)
      BY <1>0, <3>1
    <3>3. i - from \in 1 .. to - from /\ from + (i - from) = i
      BY <3>1
    <3> QED BY <1>1, <3>2, <3>3
  <2> QED BY <2>1, <2>2
<1> QED BY <1>3, <1>4 DEF SeenTo, joined

\* r's stream is taken in up to some event; es, those after `from`, reach the page.
Takes(r, es, from) ==
  LET s == stream[r]  left == stream'[r] IN
  /\ s.state = "open" /\ left.state \in {"open", "ended"}
  /\ stream' = [stream EXCEPT ![r] = left]
  /\ left.sent = s.sent /\ left.asked = s.asked /\ left.shown = s.shown
  /\ left.hasty = s.hasty /\ s.cuts \subseteq left.cuts
  /\ TakenIn(s) <= from /\ from <= TakenIn(left) /\ TakenIn(left) <= Len(s.sent)
  /\ s.cuts = {} => from = TakenIn(s)
  /\ Len(es) = TakenIn(left) - from
  /\ \A k \in 1 .. Len(es) : es[k] = s.sent[from + k]
  /\ Apply(r, es)
  /\ UNCHANGED <<vars, messages, early>>
  /\ \/ left.state = "open" /\ UNCHANGED <<sending, responding>>
     \/ left.state = "ended" /\ WellEnded(r) /\ Release(r)

\* What a chunk leaves of a stream: its first n events go, m more are begun.
LEMMA Receiving ==
  ASSUME PageOK, NEW r \in Requests, ReadingOK(stream[r]), NEW n \in Nat,
         n <= Len(stream[r].sent) - stream[r].at, NEW cut \in BOOLEAN, Receive(r, n, cut)
  PROVE  /\ \E es \in Seq(Event), from \in Nat : Takes(r, es, from)
         /\ stream'[r] \in Streams /\ ReadingOK(stream'[r])
         /\ SeenOK(stream[r]) => SeenOK(stream'[r])
<1> DEFINE s == stream[r]
           closed == SubSeq(s.sent, s.at + 1, s.at + n)
           es == Parsed(s.buffer, closed)
<1>1. PICK m \in {0, 1} : m = IF cut THEN 1 ELSE 0
  OBVIOUS
<1>2. (cut <=> m = 1) /\ (~cut <=> m = 0)
  BY <1>1
<1> DEFINE to == s.at + n + m
           tail == SubSeq(s.sent, s.at + n + 1, to)
           old == IF n = 0 THEN s.buffer ELSE <<>>
           buf == old \o tail
           seen == s.seen \o es
           cuts == IF cut THEN s.cuts \cup {to} ELSE s.cuts
           left == [s EXCEPT !.at = to, !.buffer = buf, !.seen = seen, !.cuts = cuts]
<1>3. s \in Streams /\ stream \in [Requests -> Streams]
  BY DEF PageOK
<1>4. /\ s.sent \in Seq(Event) /\ s.at \in Nat /\ s.buffer \in Seq(Event)
      /\ s.seen \in Seq(Event) /\ s.cuts \in SUBSET Nat
      /\ Len(s.sent) \in Nat /\ Len(s.buffer) \in Nat
  BY <1>3 DEF Streams
<1>5. /\ s.state = "open" /\ s.at < to /\ to <= Len(s.sent)
      /\ stream' = [stream EXCEPT ![r] = left] /\ Apply(r, es)
      /\ UNCHANGED <<vars, messages, sending, responding, early>>
  BY <1>1 DEF Receive
<1>6. to \in Nat /\ n + m > 0 /\ s.at + n <= Len(s.sent)
  BY <1>4, <1>5
<1>7. /\ closed \in Seq(Event) /\ Len(closed) = n
      /\ \A k \in 1 .. n : closed[k] = s.sent[s.at + k]
  BY <1>4, <1>6, SubSeqIs
<1>8. /\ tail \in Seq(Event) /\ Len(tail) = m
      /\ \A k \in 1 .. m : tail[k] = s.sent[s.at + n + k]
  <2>1. s.at + n \in Nat /\ m \in Nat /\ (s.at + n) + m <= Len(s.sent)
    BY <1>4, <1>5
  <2> HIDE DEF es, closed, left
  <2> QED BY <1>4, <2>1, SubSeqIs
<1>9. /\ old \in Seq(Event) /\ (n = 0 => old = s.buffer) /\ (n # 0 => old = <<>>)
      /\ Len(old) \in Nat /\ (n = 0 => Len(old) = Len(s.buffer)) /\ (n # 0 => Len(old) = 0)
  BY <1>4
<1>10. /\ es \in Seq(Event)
       /\ n = 0 => es = <<>>
       /\ n # 0 /\ s.buffer = <<>> => es = closed
       /\ n # 0 /\ s.buffer # <<>> => es = Tail(closed)
  <2> HIDE DEF closed
  <2>1. (n = 0 <=> closed = <<>>)
    BY <1>7
  <2>2. closed # <<>> => Tail(closed) \in Seq(Event)
    BY <1>7
  <2> QED BY <1>4, <1>7, <2>1, <2>2, ParsedIs
<1> HIDE DEF to, closed, tail, old, es
<1>11. /\ buf \in Seq(Event) /\ Len(buf) = Len(old) + m
       /\ \A i \in 1 .. Len(old) : buf[i] = old[i]
       /\ \A i \in 1 .. m : buf[Len(old) + i] = tail[i]
  BY <1>8, <1>9
<1>12. seen \in Seq(Event) /\ cuts \in SUBSET Nat /\ s.cuts \subseteq cuts
       /\ (cut => to \in cuts)
  BY <1>4, <1>6, <1>10
<1> HIDE DEF buf, seen, cuts
<1>13. left \in Streams
  BY <1>3, <1>6, <1>11, <1>12 DEF Streams
<1>14. /\ stream'[r] = left
       /\ left.at = to /\ left.buffer = buf /\ left.seen = seen /\ left.cuts = cuts
       /\ left.state = "open" /\ left.sent = s.sent /\ left.asked = s.asked
       /\ left.shown = s.shown /\ left.hasty = s.hasty
  BY <1>3, <1>5 DEF Streams
<1> HIDE DEF left, s
<1>15. /\ Len(s.buffer) <= s.at /\ s.at <= Len(s.sent)
       /\ \A i \in 1 .. Len(s.buffer) : s.buffer[i] = s.sent[TakenIn(s) + i]
       /\ s.cuts = {} => s.buffer = <<>>
  BY DEF ReadingOK, s
<1>16. /\ TakenIn(s) = s.at - Len(s.buffer)
       /\ n = 0 => TakenIn(left) = TakenIn(s)
       /\ n # 0 => TakenIn(left) = s.at + n
       /\ TakenIn(left) \in Nat /\ TakenIn(s) \in Nat
  <2>1. PICK k \in Nat, o \in Nat, u \in Nat :
          /\ k = s.at /\ o = Len(old) /\ u = Len(s.buffer) /\ u <= k
          /\ (n = 0 => o = u) /\ (n # 0 => o = 0)
    BY <1>4, <1>9, <1>15
  <2>2. TakenIn(s) = k - u /\ k - u \in Nat /\ k - u = s.at - Len(s.buffer)
    BY <2>1 DEF TakenIn
  <2>3. left.at = k + n + m /\ Len(left.buffer) = o + m
    BY <1>11, <1>14, <2>1 DEF to
  <2>4. TakenIn(left) = k + n - o
    <3>1. TakenIn(left) = left.at - Len(left.buffer)
      BY DEF TakenIn
    <3>2. (k + n + m) - (o + m) = k + n - o
      BY <2>1
    <3> QED BY <2>3, <3>1, <3>2
  <2>5. CASE n = 0
    <3>1. k + n - o = k - u
      BY <2>1, <2>5
    <3> QED BY <2>2, <2>4, <2>5, <3>1
  <2>6. CASE n # 0
    <3>1. k + n - o = s.at + n /\ k + n - o \in Nat
      BY <2>1, <2>6
    <3> QED BY <2>2, <2>4, <2>6, <3>1
  <2> QED BY <2>5, <2>6
<1>17. ReadingOK(left)
  <2>1. left.at <= Len(left.sent) /\ Len(left.buffer) <= left.at
    BY <1>4, <1>5, <1>9, <1>11, <1>14, <1>15 DEF to
  <2>2. ASSUME NEW i \in 1 .. Len(buf) PROVE buf[i] = s.sent[TakenIn(left) + i]
    <3>1. PICK k \in Nat, o \in Nat, a \in Nat :
            /\ k = s.at /\ o = Len(old) /\ a = TakenIn(left) /\ a + o = k + n
            /\ n = 0 => a = TakenIn(s) /\ o = Len(s.buffer)
            /\ n # 0 => o = 0
      <4>1. PICK k \in Nat, o \in Nat, u \in Nat, a \in Nat :
              /\ k = s.at /\ o = Len(old) /\ u = Len(s.buffer) /\ a = TakenIn(left)
        BY <1>4, <1>9, <1>16
      <4>2. CASE n = 0
        BY <1>9, <1>16, <4>1, <4>2
      <4>3. CASE n # 0
        BY <1>9, <1>16, <4>1, <4>3
      <4> QED BY <4>2, <4>3
    <3>2. i \in 1 .. o + m
      BY <1>11, <3>1
    <3>3. CASE i <= o
      <4>1. i \in 1 .. o /\ n = 0
        BY <3>1, <3>2, <3>3
      <4>2. buf[i] = s.buffer[i]
        BY <1>9, <1>11, <3>1, <4>1
      <4> QED BY <1>15, <3>1, <4>1, <4>2
    <3>4. CASE i > o
      <4>1. m = 1 /\ i = o + 1
        BY <3>1, <3>2, <3>4
      <4>2. buf[i] = s.sent[k + n + 1]
        <5>1. buf[Len(old) + 1] = tail[1] /\ tail[1] = s.sent[s.at + n + 1]
          BY <1>8, <1>11, <4>1
        <5> QED BY <3>1, <4>1, <5>1
      <4>3. a + i = k + n + 1
        BY <3>1, <4>1
      <4> QED BY <3>1, <4>2, <4>3
    <3> QED BY <3>1, <3>2, <3>3, <3>4
  <2>3. left.cuts = {} => buf = <<>>
    BY <1>2, <1>9, <1>11, <1>12, <1>14, <1>15
  <2> QED BY <1>14, <2>1, <2>2, <2>3 DEF ReadingOK
<1> DEFINE from == IF n = 0 THEN TakenIn(s) ELSE IF s.buffer = <<>> THEN s.at ELSE s.at + 1
<1>17a. /\ n = 0 => from = TakenIn(s)
        /\ n # 0 /\ s.buffer = <<>> => from = s.at
        /\ n # 0 /\ s.buffer # <<>> => from = s.at + 1
  OBVIOUS
<1> HIDE DEF from
<1>18. /\ from \in Nat /\ TakenIn(s) <= from /\ from <= TakenIn(left)
       /\ TakenIn(left) <= Len(s.sent) /\ (s.cuts = {} => from = TakenIn(s))
       /\ Len(es) = TakenIn(left) - from
       /\ \A k \in 1 .. Len(es) : es[k] = s.sent[from + k]
  <2>1. CASE n = 0
    <3>1. Len(es) = 0 /\ from = TakenIn(left)
      BY <1>10, <1>16, <1>17a, <2>1
    <3> QED BY <1>4, <1>15, <1>16, <1>17a, <2>1, <3>1
  <2>2. CASE n # 0 /\ s.buffer = <<>>
    <3>1. Len(s.buffer) = 0 /\ TakenIn(s) = s.at /\ from = s.at /\ TakenIn(left) = s.at + n
      BY <1>4, <1>16, <1>17a, <2>2
    <3>2. Len(es) = n /\ \A k \in 1 .. n : es[k] = s.sent[from + k]
      BY <1>7, <1>10, <2>2, <3>1
    <3> QED BY <1>4, <1>6, <3>1, <3>2
  <2>3. CASE n # 0 /\ s.buffer # <<>>
    <3>1. closed # <<>> /\ Len(s.buffer) > 0
      BY <1>4, <1>7, <2>3
    <3>2. Len(es) = n - 1 /\ \A k \in 1 .. n - 1 : es[k] = closed[k + 1]
      BY <1>7, <1>10, <2>3, <3>1
    <3>3. \A k \in 1 .. n - 1 : es[k] = s.sent[(s.at + 1) + k]
      <4> SUFFICES ASSUME NEW k \in 1 .. n - 1 PROVE es[k] = s.sent[(s.at + 1) + k]
        OBVIOUS
      <4>1. k + 1 \in 1 .. n /\ s.at + (k + 1) = (s.at + 1) + k
        <5>1. s.at \in Nat
          BY <1>4
        <5>2. k + 1 \in 1 .. n
          OBVIOUS
        <5> QED BY <5>1, <5>2
      <4> QED BY <1>7, <3>2, <4>1
    <3>4. from = s.at + 1 /\ TakenIn(left) = s.at + n
      BY <1>16, <1>17a, <2>3
    <3>5. s.cuts # {}
      BY <1>15, <2>3
    <3>6. Len(es) = TakenIn(left) - from /\ from \in Nat /\ from <= TakenIn(left)
      BY <1>4, <3>2, <3>4, <2>3
    <3>7. TakenIn(s) <= from
      BY <1>4, <1>15, <1>16, <3>4
    <3> QED BY <1>4, <1>6, <3>2, <3>3, <3>4, <3>5, <3>6, <3>7
  <2> QED BY <2>1, <2>2, <2>3
<1>19. Takes(r, es, from)
  <2>1. stream' = [stream EXCEPT ![r] = left] /\ left = stream'[r]
    BY <1>5, <1>14
  <2> QED BY <1>5, <1>12, <1>14, <1>18, <2>1 DEF Takes, s
<1>20. ASSUME SeenOK(s) PROVE SeenOK(left)
  <2>1. /\ s.cuts \subseteq 1 .. s.at /\ TakenIn(s) \notin s.cuts
        /\ TakenIn(s) + 1 .. s.at \subseteq s.cuts
        /\ SeenTo(s.sent, s.seen, LostBy(s), TakenIn(s))
    BY <1>5, <1>20 DEF SeenOK, s
  <2>2. left.cuts = IF m = 1 THEN s.cuts \cup {s.at + n + m} ELSE s.cuts
    BY <1>2, <1>14 DEF cuts, to
  <2>3. left.cuts \subseteq 1 .. left.at /\ TakenIn(left) \notin left.cuts
    BY <1>4, <1>6, <1>14, <1>15, <1>16, <2>1, <2>2 DEF to
  <2>4. TakenIn(left) + 1 .. left.at \subseteq left.cuts
    <3>1. PICK a \in Nat, b \in Nat, k \in Nat :
            a = TakenIn(s) /\ b = TakenIn(left) /\ k = s.at
      BY <1>4, <1>16
    <3>2. /\ left.at = k + n + m /\ (n = 0 => b = a) /\ (n # 0 => b = k + n)
          /\ \A j \in a + 1 .. k : j \in s.cuts
      BY <1>14, <1>16, <2>1, <3>1 DEF to
    <3>3. s.cuts \subseteq left.cuts /\ (m = 1 => k + n + m \in left.cuts)
      BY <2>2, <3>1
    <3>4. ASSUME NEW j \in b + 1 .. k + n + m
          PROVE  j \in a + 1 .. k \/ (m = 1 /\ j = k + n + m)
      <4>1. CASE n = 0
        BY <3>2, <3>4, <4>1
      <4>2. CASE n # 0
        BY <3>2, <3>4, <4>2
      <4> QED BY <4>1, <4>2
    <3> QED BY <3>1, <3>2, <3>3, <3>4
  <2>5. \A i \in Nat : i <= TakenIn(s) => (i \in LostBy(left) <=> i \in LostBy(s))
    BY <1>4, <1>6, <1>15, <1>16, <2>2 DEF LostBy
  <2>6. \A i \in Nat : i <= TakenIn(s) => Whole(LostBy(left), i) = Whole(LostBy(s), i)
    BY <1>16, <2>5 DEF Whole
  <2>7. TakenIn(s) + 1 .. from \subseteq LostBy(left)
    <3>1. TakenIn(s) + 1 .. s.at \subseteq left.cuts
      BY <1>12, <1>14, <2>1
    <3>2. s.buffer = <<>> \/ s.at \in left.cuts
      BY <1>4, <1>15, <1>16, <3>1
    <3>3. from <= s.at + 1 /\ (from = s.at + 1 => s.buffer # <<>>)
      <4>1. n = 0 => from <= s.at
        BY <1>4, <1>16, <1>17a
      <4> QED BY <1>4, <1>17a, <1>18, <4>1
    <3>4. ASSUME NEW i \in TakenIn(s) + 1 .. from PROVE i \in LostBy(left)
      <4>1. CASE i <= s.at
        BY <1>4, <1>16, <3>1, <4>1 DEF LostBy
      <4>2. CASE i > s.at
        <5>1. i \in Nat /\ i <= from
          BY <1>16, <1>18
        <5>2. i = s.at + 1 /\ s.buffer # <<>>
          BY <1>4, <1>18, <3>3, <4>2, <5>1
        <5> QED BY <1>4, <3>2, <5>2 DEF LostBy
      <4> QED BY <1>4, <1>16, <4>1, <4>2
    <3> QED BY <3>4
  <2>8. ASSUME NEW i \in from + 1 .. TakenIn(left) PROVE i \notin LostBy(left)
    <3>1. n # 0 /\ i > s.at /\ i <= s.at + n
      BY <1>4, <1>15, <1>16, <1>17a
    <3>2. i \notin left.cuts
      BY <1>4, <2>1, <2>2, <3>1
    <3>3. i - 1 \notin left.cuts
      <4>1. s.at \notin s.cuts \/ i # s.at + 1
        <5>1. s.buffer # <<>> => i # s.at + 1
          BY <1>4, <1>17a, <3>1
        <5>2. s.buffer = <<>> => TakenIn(s) = s.at
          BY <1>4, <1>16
        <5> QED BY <2>1, <5>1, <5>2
      <4>2. i - 1 \notin s.cuts
        BY <1>4, <2>1, <3>1, <4>1
      <4>3. i - 1 # s.at + n + m
        BY <1>4, <3>1
      <4> QED BY <2>2, <4>2, <4>3
    <3> QED BY <3>2, <3>3 DEF LostBy
  <2>9. SeenTo(left.sent, left.seen, LostBy(left), TakenIn(left))
    <3>1. SeenTo(s.sent, s.seen, LostBy(left), TakenIn(s))
      BY <1>16, <2>1, <2>5, <2>6 DEF SeenTo
    <3>2. SeenTo(s.sent, seen, LostBy(left), TakenIn(left))
      BY <1>4, <1>10, <1>16, <1>18, <2>7, <2>8, <3>1, Showing DEF seen
    <3> QED BY <1>14, <3>2
  <2> QED BY <1>14, <2>3, <2>4, <2>9 DEF SeenOK
<1> QED BY <1>10, <1>13, <1>14, <1>17, <1>18, <1>19, <1>20 DEF s

\* The end of a stream takes in what the buffer still holds.
LEMMA Ending ==
  ASSUME PageOK, NEW r \in Requests, ReadingOK(stream[r]), End(r)
  PROVE  /\ \E es \in Seq(Event), from \in Nat : Takes(r, es, from)
         /\ stream'[r] \in Streams /\ ReadingOK(stream'[r])
         /\ SeenOK(stream[r]) => SeenOK(stream'[r])
<1> DEFINE s == stream[r]
           es == Parse(s.buffer)
           seen == s.seen \o es
           left == [s EXCEPT !.state = "ended", !.buffer = <<>>, !.seen = seen]
           from == IF Len(s.buffer) = 1 THEN TakenIn(s) ELSE s.at
<1>1. s \in Streams /\ stream \in [Requests -> Streams]
  BY DEF PageOK
<1>2. /\ s.sent \in Seq(Event) /\ s.at \in Nat /\ s.buffer \in Seq(Event)
      /\ s.seen \in Seq(Event) /\ s.cuts \in SUBSET Nat /\ Len(s.buffer) \in Nat
  BY <1>1 DEF Streams
<1>3. /\ s.state = "open" /\ WellEnded(r) /\ s.at = Len(s.sent)
      /\ stream' = [stream EXCEPT ![r] = left] /\ Apply(r, es) /\ Release(r)
      /\ UNCHANGED <<vars, messages, early>>
  BY DEF End
<1>4. /\ es \in Seq(Event)
      /\ Len(s.buffer) = 1 => es = s.buffer
      /\ Len(s.buffer) # 1 => es = <<>>
  BY <1>2 DEF Parse
<1> HIDE DEF es
<1>5. seen \in Seq(Event)
  BY <1>2, <1>4
<1> HIDE DEF seen
<1>6. left \in Streams
  <2>1. <<>> \in Seq(Event)
    OBVIOUS
  <2> QED BY <1>1, <1>5, <2>1 DEF Streams
<1>7. /\ stream'[r] = left
      /\ left.at = s.at /\ left.buffer = <<>> /\ left.seen = seen /\ left.cuts = s.cuts
      /\ left.state = "ended" /\ left.sent = s.sent /\ left.asked = s.asked
      /\ left.shown = s.shown /\ left.hasty = s.hasty
  BY <1>1, <1>3, <1>5 DEF Streams
<1>8. /\ Len(s.buffer) = 1 => from = TakenIn(s)
      /\ Len(s.buffer) # 1 => from = s.at
  OBVIOUS
<1> HIDE DEF left, s, from
<1>9. /\ Len(s.buffer) <= s.at
      /\ \A i \in 1 .. Len(s.buffer) : s.buffer[i] = s.sent[TakenIn(s) + i]
      /\ s.cuts = {} => s.buffer = <<>>
  BY DEF ReadingOK, s
<1>10. TakenIn(s) = s.at - Len(s.buffer) /\ TakenIn(s) \in Nat
  BY <1>2, <1>9 DEF TakenIn
<1>11. TakenIn(left) = s.at
  <2>1. TakenIn(left) = left.at - Len(left.buffer)
    BY DEF TakenIn
  <2>2. Len(left.buffer) = 0
    BY <1>7
  <2> QED BY <1>2, <1>7, <2>1, <2>2
<1>12. ReadingOK(left)
  BY <1>2, <1>3, <1>7 DEF ReadingOK
<1>13. /\ from \in Nat /\ TakenIn(s) <= from /\ from <= s.at
       /\ s.cuts = {} => from = TakenIn(s)
       /\ Len(es) = s.at - from
       /\ \A k \in 1 .. Len(es) : es[k] = s.sent[from + k]
  <2>1. CASE Len(s.buffer) = 1
    <3>1. from = TakenIn(s) /\ s.at = TakenIn(s) + 1 /\ Len(es) = 1
      BY <1>2, <1>4, <1>8, <1>10, <2>1
    <3>2. \A k \in 1 .. Len(es) : es[k] = s.sent[TakenIn(s) + k]
      BY <1>4, <1>9, <2>1
    <3> QED BY <1>10, <3>1, <3>2
  <2>2. CASE Len(s.buffer) # 1
    <3>1. Len(es) = 0 /\ from = s.at
      BY <1>4, <1>8, <2>2
    <3>2. s.cuts = {} => Len(s.buffer) = 0
      BY <1>9
    <3> QED BY <1>2, <1>9, <1>10, <3>1, <3>2
  <2> QED BY <2>1, <2>2
<1>14. Takes(r, es, from)
  <2>1. stream' = [stream EXCEPT ![r] = left] /\ left = stream'[r]
    BY <1>3, <1>7
  <2> QED BY <1>2, <1>3, <1>7, <1>11, <1>13, <2>1 DEF Takes, s
<1>15. ASSUME SeenOK(s) PROVE SeenOK(left)
  <2> DEFINE lost == {j \in Nat : Joined(s, j)}
  <2>1. /\ s.cuts \subseteq 1 .. s.at /\ TakenIn(s) \notin s.cuts
        /\ TakenIn(s) + 1 .. s.at \subseteq s.cuts
        /\ SeenTo(s.sent, s.seen, LostBy(s), TakenIn(s))
    BY <1>3, <1>15 DEF SeenOK, s
  <2>2. \A i \in Nat : i \in lost <=> (i \in s.cuts /\ i < s.at) \/ i - 1 \in s.cuts
    BY <1>3 DEF Joined, s
  <2> HIDE DEF lost
  <2>3. \A i \in Nat : i <= TakenIn(s) => (i \in lost <=> i \in LostBy(s))
    BY <1>2, <1>10, <2>1, <2>2 DEF LostBy
  <2>4. \A i \in Nat : i <= TakenIn(s) => Whole(lost, i) = Whole(LostBy(s), i)
    BY <1>10, <2>3 DEF Whole
  <2>5. SeenTo(s.sent, s.seen, lost, TakenIn(s))
    BY <1>10, <2>1, <2>3, <2>4 DEF SeenTo
  <2>6. ASSUME NEW i \in TakenIn(s) + 1 .. from PROVE i \in lost
    <3>1. Len(s.buffer) # 1 /\ i <= s.at /\ i \in Nat /\ i > TakenIn(s)
      BY <1>2, <1>8, <1>10, <1>13
    <3>2. i \in s.cuts
      BY <1>2, <1>10, <2>1, <3>1
    <3>3. CASE i < s.at
      BY <2>2, <3>1, <3>2, <3>3
    <3>4. CASE i = s.at
      <4>1. i - 1 \in TakenIn(s) + 1 .. s.at
        <5>0. PICK d \in Nat : d = Len(s.buffer)
          BY <1>2
        <5>1. d # 1 /\ s.at > s.at - d /\ TakenIn(s) = s.at - d
          BY <1>10, <3>1, <3>4, <5>0
        <5>2. s.at - 1 >= (s.at - d) + 1
          BY <1>2, <5>1
        <5> QED BY <1>2, <1>10, <3>4, <5>1, <5>2
      <4> QED BY <2>1, <2>2, <3>1, <4>1
    <3> QED BY <1>2, <3>1, <3>3, <3>4
  <2>7. ASSUME NEW i \in from + 1 .. s.at PROVE i \notin lost
    <3>1. i \in Nat /\ i = s.at /\ i - 1 = TakenIn(s)
      <4>1. Len(s.buffer) = 1
        BY <1>2, <1>8
      <4>2. from = TakenIn(s) /\ s.at = TakenIn(s) + 1
        BY <1>2, <1>8, <1>10, <4>1
      <4> QED BY <1>10, <4>2
    <3> QED BY <2>1, <2>2, <3>1
  <2>8. SeenTo(s.sent, seen, lost, s.at)
    BY <1>2, <1>4, <1>10, <1>13, <2>5, <2>6, <2>7, Showing DEF seen
  <2>9. \A i \in Nat : Place(left, i) = Cardinality(Whole(lost, i))
    <3> SUFFICES ASSUME NEW i \in Nat
                 PROVE  {j \in 1 .. i : ~Joined(left, j)} = Whole(lost, i)
      BY DEF Place
    <3>1. \A j \in Nat : Joined(left, j) <=> j \in lost
      BY <1>3, <1>7, <2>2 DEF Joined, s
    <3> QED BY <3>1 DEF Whole
  <2>10. \A i \in DOMAIN s.sent : ~Joined(left, i) => i \notin lost
    BY <1>2, <1>3, <1>7, <2>2 DEF Joined, s
  <2>11. /\ Len(left.seen) = Place(left, Len(left.sent))
         /\ \A i \in DOMAIN left.sent :
              ~Joined(left, i) => left.seen[Place(left, i)] = left.sent[i]
    BY <1>2, <1>3, <1>7, <2>8, <2>9, <2>10 DEF SeenTo, s
  <2> QED BY <1>7, <2>11 DEF SeenOK
<1> QED BY <1>4, <1>6, <1>7, <1>12, <1>13, <1>14, <1>15 DEF s
-----------------------------------------------------------------------------
(* The server's steps by what they do to a session and to its stream.      *)

Enters(r) ==
  /\ req[r].phase = "idle" /\ UNCHANGED <<db, lock>>
  /\ \/ /\ r \in Submits /\ req'[r].turn = r /\ req'[r].read = NoRow
        /\ \/ req'[r].phase = "opened" /\ req'[r].end = "none" /\ stream' = stream
           \/ req'[r].phase = "closed" /\ req'[r].end = "error" /\ Emit(r, "error")
     \/ /\ r \in Approvals /\ req'[r].turn = stream[r].asked /\ stream' = stream
        /\ req'[r].read = db[stream[r].asked].pending
        /\ \/ req'[r].read = NoRow /\ req'[r].phase = "closed" /\ req'[r].end = "404"
           \/ req'[r].read # NoRow /\ req'[r].phase = "reading" /\ req'[r].end = "none"
Proceeds(r) ==
  /\ req[r].phase \in {"opened", "fanout", "resuming"} /\ UNCHANGED <<db, lock>>
  /\ req'[r].phase \in Working /\ req'[r].end = req[r].end
  /\ \/ req'[r].phase = "asking" /\ Emit(r, "approval_required")
     \/ /\ req'[r].phase # "asking"
        /\ stream' = stream \/ Emit(r, "progress") \/ Emit(r, "token")
Claims(r) ==
  /\ req[r].phase = "reading" /\ db' = db /\ stream' = stream
  /\ \/ /\ req'[r] = [req[r] EXCEPT !.phase = "resuming"] /\ lock[req[r].turn] = Nobody
        /\ lock' = IF db[req[r].turn].pending = NoRow THEN lock
                   ELSE [lock EXCEPT ![req[r].turn] = r]
     \/ /\ req'[r] = [req[r] EXCEPT !.phase = "blocked"] /\ lock[req[r].turn] # Nobody
        /\ lock' = lock
\* Whoever waits for r's lock goes on.
Wakes(r) ==
  \A w \in Requests :
    req[w].phase = "blocked" /\ req[w].turn = req[r].turn /\ lock[req[r].turn] = r
    => req'[w].phase # "blocked"
Pauses(r) ==
  /\ req[r].phase = "asking" /\ CommitPause(r) /\ req'[r] = Ended(r, "paused")
  /\ Wakes(r) /\ stream' = stream
Completes(r) ==
  /\ req[r].phase = "replying" /\ CommitAnswer(r) /\ req'[r] = Ended(r, "done")
  /\ Wakes(r) /\ Emit(r, "done")
GivesUp(r) ==
  /\ Open(r) /\ Unlock(r) /\ db' = db /\ Wakes(r)
  /\ \E e \in {"error", "gone"} : req'[r] = Ended(r, e)
  /\ stream' = stream \/ Emit(r, "error")
Does(r) ==
  \/ Enters(r) \/ Proceeds(r) \/ Claims(r) \/ Pauses(r) \/ Completes(r) \/ GivesUp(r)

\* What the page asked for is a turn.
Bound(r) == r \in Approvals => stream[r].asked \in Submits /\ stream[r].yes \in BOOLEAN

LEMMA ServesStep ==
  ASSUME NEW r \in Questions, Bound(r), Serve(r) \/ (Raise(r) /\ EmitError(r))
  PROVE  Next
BY DEF Serve, Bound, Next, Arrive, Progress, Questions, Requests

LEMMA Waking ==
  ASSUME TypeOK, NEW r \in Requests, NEW p \in {"reading", "resuming"}, NEW e \in Ends,
         req' = [WakeAs(r, p) EXCEPT ![r].phase = "closed", ![r].end = e]
  PROVE  Wakes(r)
<1> DEFINE W == WakeAs(r, p)
<1>1. /\ W \in [Requests -> Sessions] /\ req'[r] = Ended(r, e)
      /\ req[r] \in Sessions /\ \A w \in Requests : req[w] \in Sessions
  BY WakeType, Closing DEF Phases, TypeOK
<1>2. \A w \in Requests : W[w] =
        IF req[w].phase = "blocked" /\ req[w].turn = req[r].turn /\ lock[req[r].turn] = r
        THEN [req[w] EXCEPT !.phase = p] ELSE req[w]
  BY DEF WakeAs, TurnOf
<1> HIDE DEF W
<1>3. req' = [W EXCEPT ![r] = [W[r] EXCEPT !.phase = "closed", !.end = e]]
  BY <1>1 DEF W
<1>4. \A w \in Requests : w # r => req'[w] = W[w]
  BY <1>1, <1>3
<1>5. Ended(r, e).phase = "closed"
  BY <1>1 DEF Ended, Sessions
<1>6. \A w \in Requests : [req[w] EXCEPT !.phase = p].phase = p
  BY <1>1 DEF Sessions
<1>7. ASSUME NEW w \in Requests, req[w].phase = "blocked", req[w].turn = req[r].turn,
             lock[req[r].turn] = r
      PROVE  req'[w].phase # "blocked"
  <2>1. CASE w = r
    BY <1>1, <1>5, <2>1
  <2>2. CASE w # r
    <3>1. req'[w] = [req[w] EXCEPT !.phase = p]
      BY <1>2, <1>4, <1>7, <2>2
    <3> QED BY <1>6, <3>1
  <2> QED BY <2>1, <2>2
<1> QED BY <1>7 DEF Wakes

LEMMA Serving ==
  ASSUME Inv, NEW r \in Questions, Bound(r), Serve(r) \/ (Raise(r) /\ EmitError(r))
  PROVE  Next /\ Others(r) /\ Does(r)
<1>0. /\ TypeOK /\ (\A w \in Requests : Good(w)) /\ r \in Requests /\ req[r] \in Sessions
      /\ Next
  BY ServesStep DEF Inv, Good, TypeOK, Questions, Requests
<1>1. CASE r \in Submits /\ Submit(r) /\ UNCHANGED stream
  <2>1. Moves(r, [req[r] EXCEPT !.phase = "opened", !.turn = r]) /\ req[r] = Idle
    BY <1>0, <1>1, Submitting DEF Submit, Good, SessionOK
  <2>2. /\ req'[r].phase = "opened" /\ req'[r].turn = r /\ req'[r].end = "none"
        /\ req'[r].read = NoRow
    <3>1. req'[r] = [Idle EXCEPT !.phase = "opened", !.turn = r]
      BY <1>0, <2>1, Moving
    <3> QED BY <3>1 DEF Idle
  <2> QED BY <1>0, <1>1, <2>1, <2>2, MovesOthers DEF Submit, Does, Enters
<1>2. CASE r \in Submits /\ SubmitWithoutModel(r) /\ Emit(r, "error")
  <2>1. /\ Moves(r, [req[r] EXCEPT !.phase = "closed", !.turn = r, !.end = "error"])
        /\ req[r] = Idle
    BY <1>0, <1>2, Submitting DEF SubmitWithoutModel, Good, SessionOK
  <2>2. /\ req'[r].phase = "closed" /\ req'[r].turn = r /\ req'[r].end = "error"
        /\ req'[r].read = NoRow
    <3>1. req'[r] = [Idle EXCEPT !.phase = "closed", !.turn = r, !.end = "error"]
      BY <1>0, <2>1, Moving
    <3> QED BY <3>1 DEF Idle
  <2> QED BY <1>0, <1>2, <2>1, <2>2, MovesOthers DEF SubmitWithoutModel, Does, Enters
<1>3. CASE r \in Approvals /\ Respond(r, stream[r].asked, stream[r].yes) /\ UNCHANGED stream
  <2> DEFINE t == stream[r].asked
  <2>1. Moves(r, Responded(r, t, stream[r].yes)) /\ req[r] = Idle
    BY <1>0, <1>3, Responding DEF Respond, Good, SessionOK, Bound
  <2>2. req'[r] = Responded(r, t, stream[r].yes)
    BY <1>0, <2>1, Moving
  <2>3. /\ req'[r].turn = t /\ req'[r].read = db[t].pending
        /\ req'[r].phase = IF db[t].pending = NoRow THEN "closed" ELSE "reading"
        /\ req'[r].end = IF db[t].pending = NoRow THEN "404" ELSE "none"
    BY <2>1, <2>2 DEF Responded, Idle
  <2> QED BY <1>0, <1>3, <2>1, <2>3, MovesOthers DEF Respond, Does, Enters
<1>4. ASSUME NEW named \in Classifications, Classify(r, named), Emit(r, "progress")
      PROVE  Others(r) /\ Does(r)
  <2>1. Moves(r, [req[r] EXCEPT !.phase = "fanout", !.todo = Resolve(named)])
    BY <1>0, <1>4, FanningOut
  <2>2. req'[r].phase = "fanout" /\ req'[r].end = req[r].end
    <3>1. req'[r] = [req[r] EXCEPT !.phase = "fanout", !.todo = Resolve(named)]
      BY <1>0, <2>1, Moving
    <3> QED BY <1>0, <3>1 DEF Sessions
  <2> QED BY <1>0, <1>4, <2>1, <2>2, MovesOthers
          DEF Classify, Does, Proceeds, Working
<1>5. CASE AgentEnds(r) /\ Emit(r, "progress")
  <2>1. Moves(r, Finish(req[r]))
    BY <1>0, <1>5, FanningOut
  <2>2. req'[r].phase = "fanout" /\ req'[r].end = req[r].end
    <3>1. req'[r] = Finish(req[r])
      BY <1>0, <2>1, Moving
    <3> QED BY <1>0, <3>1 DEF Sessions, Finish
  <2> QED BY <1>0, <1>5, <2>1, <2>2, MovesOthers DEF AgentEnds, Does, Proceeds, Working
<1>6. CASE AgentPauses(r) /\ Emit(r, "approval_required")
  <2>1. Moves(r, [req[r] EXCEPT !.phase = "asking", !.newRow = Question(r)])
    BY <1>0, <1>6, FanningOut
  <2>2. req'[r].phase = "asking" /\ req'[r].end = req[r].end
    <3>1. req'[r] = [req[r] EXCEPT !.phase = "asking", !.newRow = Question(r)]
      BY <1>0, <2>1, Moving
    <3> QED BY <1>0, <3>1 DEF Sessions
  <2> QED BY <1>0, <1>6, <2>1, <2>2, MovesOthers DEF AgentPauses, Does, Proceeds, Working
<1>7. CASE Reply(r) /\ Emit(r, "token")
  <2>1. Moves(r, [req[r] EXCEPT !.phase = "replying"])
    BY <1>0, <1>7, FanningOut
  <2>2. req'[r].phase = "replying" /\ req'[r].end = req[r].end
    <3>1. req'[r] = [req[r] EXCEPT !.phase = "replying"]
      BY <1>0, <2>1, Moving
    <3> QED BY <1>0, <3>1 DEF Sessions
  <2> QED BY <1>0, <1>7, <2>1, <2>2, MovesOthers DEF Reply, Does, Proceeds, Working
<1>8. CASE Execute(r) /\ UNCHANGED stream
  <2>1. req[r].read # NoRow
    BY <1>0, <1>8 DEF Execute, Good, EndpointOK, Open, Questions, Unread
  <2>2. Moves(r, Resumed(req[r]))
    BY <1>0, <1>8, <2>1, Resuming
  <2>3. req'[r].phase = "fanout" /\ req'[r].end = req[r].end
    <3>1. req'[r] = Resumed(req[r])
      BY <1>0, <2>2, Moving
    <3> QED BY <1>0, <3>1 DEF Sessions, Resumed
  <2> QED BY <1>0, <1>8, <2>2, <2>3, MovesOthers DEF Execute, Does, Proceeds, Working
<1>9. CASE ApplyDecline(r) /\ Emit(r, "progress")
  <2>1. req[r].read # NoRow
    BY <1>0, <1>9 DEF ApplyDecline, Good, EndpointOK, Open, Questions, Unread
  <2>2. Moves(r, Finish(Resumed(req[r])))
    BY <1>0, <1>9, <2>1, Resuming
  <2>3. req'[r].phase = "fanout" /\ req'[r].end = req[r].end
    <3>1. req'[r] = Finish(Resumed(req[r]))
      BY <1>0, <2>2, Moving
    <3> QED BY <1>0, <3>1 DEF Sessions, Resumed, Finish
  <2> QED BY <1>0, <1>9, <2>2, <2>3, MovesOthers DEF ApplyDecline, Does, Proceeds, Working
<1>10. CASE (DeletePending(r) \/ WaitForRow(r)) /\ UNCHANGED stream
  <2>1. CASE DeletePending(r)
    BY <1>0, <1>10, <2>1, Stepping DEF DeletePending, Does, Claims, TurnOf
  <2>2. CASE WaitForRow(r)
    BY <1>0, <1>10, <2>2, Stepping DEF WaitForRow, Does, Claims, TurnOf
  <2> QED BY <1>10, <2>1, <2>2
<1>11. CASE CommitPause(r) /\ UNCHANGED stream
  <2>1. Others(r) /\ req'[r] = Ended(r, "paused")
    <3>1. Commits(r) /\ req[r].phase = "asking"
      BY <1>11 DEF Commits, CommitPause
    <3> QED BY <1>0, <3>1, Committed
  <2>2. Wakes(r)
    BY <1>0, <1>11, Waking DEF CommitPause, CommitAndClose, Ends
  <2> QED BY <1>0, <1>11, <2>1, <2>2 DEF CommitPause, Does, Pauses
<1>12. CASE CommitAnswer(r) /\ Emit(r, "done")
  <2>1. Others(r) /\ req'[r] = Ended(r, "done")
    <3>1. Commits(r) /\ req[r].phase = "replying"
      BY <1>12 DEF Commits, CommitAnswer
    <3> QED BY <1>0, <3>1, Committed
  <2>2. Wakes(r)
    BY <1>0, <1>12, Waking DEF CommitAnswer, CommitAndClose, Ends
  <2> QED BY <1>0, <1>12, <2>1, <2>2 DEF CommitAnswer, Does, Completes
<1>13. ASSUME NEW e \in {"error", "gone"}, Rollback(r, e), Open(r),
              stream' = stream \/ Emit(r, "error")
       PROVE  Others(r) /\ Does(r)
  <2>1. Others(r) /\ req'[r] = Ended(r, e)
    BY <1>0, <1>13, Closing DEF Rollback, Close, Ends
  <2>2. Wakes(r)
    BY <1>0, <1>13, Waking DEF Rollback, Close, Ends
  <2> QED BY <1>13, <2>1, <2>2 DEF Rollback, Does, GivesUp
<1>14. CASE PauseConflicts(r) /\ EmitError(r)
  <2>1. Rollback(r, "error") /\ Open(r) /\ (stream' = stream \/ Emit(r, "error"))
    BY <1>14 DEF PauseConflicts, Open, EmitError
  <2> QED BY <1>0, <1>13, <2>1
<1>15. CASE Raise(r) /\ EmitError(r)
  <2>1. Rollback(r, "error") /\ Open(r) /\ (stream' = stream \/ Emit(r, "error"))
    BY <1>15 DEF Raise, EmitError
  <2> QED BY <1>0, <1>13, <2>1
<1>16. CASE Disconnect(r) /\ UNCHANGED stream
  <2>1. Rollback(r, "gone") /\ Open(r) /\ stream' = stream
    BY <1>16 DEF Disconnect
  <2> QED BY <1>0, <1>13, <2>1
<1> QED BY <1>0, <1>1, <1>2, <1>3, <1>4, <1>5, <1>6, <1>7, <1>8, <1>9, <1>10, <1>11,
           <1>12, <1>14, <1>15, <1>16 DEF Serve

-----------------------------------------------------------------------------
(* What the server writes leaves the page's reading as it was.             *)

With(s, e) == [s EXCEPT !.sent = Append(s.sent, e)]

LEMMA AppendsIs ==
  ASSUME NEW s \in Streams, NEW e \in Event
  PROVE  /\ With(s, e) \in Streams /\ DOMAIN s.sent = 1 .. Len(s.sent) /\ Len(s.sent) \in Nat
         /\ DOMAIN With(s, e).sent = 1 .. Len(s.sent) + 1
         /\ Len(With(s, e).sent) = Len(s.sent) + 1
         /\ \A i \in 1 .. Len(s.sent) : With(s, e).sent[i] = s.sent[i]
         /\ With(s, e).sent[Len(s.sent) + 1] = e
         /\ With(s, e).at = s.at /\ With(s, e).buffer = s.buffer
         /\ With(s, e).seen = s.seen /\ TakenIn(With(s, e)) = TakenIn(s)
         /\ With(s, e).state = s.state /\ With(s, e).cuts = s.cuts
         /\ With(s, e).asked = s.asked /\ With(s, e).yes = s.yes
         /\ With(s, e).shown = s.shown /\ With(s, e).hasty = s.hasty
<1>1. s.sent \in Seq(Event)
  BY DEF Streams
<1>2. /\ Append(s.sent, e) \in Seq(Event) /\ Len(Append(s.sent, e)) = Len(s.sent) + 1
      /\ \A i \in 1 .. Len(s.sent) : Append(s.sent, e)[i] = s.sent[i]
      /\ Append(s.sent, e)[Len(s.sent) + 1] = e
      /\ DOMAIN s.sent = 1 .. Len(s.sent) /\ DOMAIN Append(s.sent, e) = 1 .. Len(s.sent) + 1
      /\ Len(s.sent) \in Nat
  BY <1>1
<1>3. With(s, e).sent = Append(s.sent, e) /\ With(s, e) \in Streams
  BY <1>2 DEF With, Streams
<1>4. /\ With(s, e).at = s.at /\ With(s, e).buffer = s.buffer
      /\ With(s, e).seen = s.seen
      /\ With(s, e).state = s.state /\ With(s, e).cuts = s.cuts
      /\ With(s, e).asked = s.asked /\ With(s, e).yes = s.yes
      /\ With(s, e).shown = s.shown /\ With(s, e).hasty = s.hasty
  BY DEF With, Streams
<1>5. TakenIn(With(s, e)) = TakenIn(s)
  BY <1>4 DEF TakenIn
<1> QED BY <1>2, <1>3, <1>4, <1>5

LEMMA Appending ==
  ASSUME NEW s \in Streams, NEW e \in Event, s.state = "open", ReadingOK(s)
  PROVE  ReadingOK(With(s, e)) /\ (SeenOK(s) => SeenOK(With(s, e)))
<1> DEFINE longer == With(s, e)
<1>1. /\ s.sent \in Seq(Event) /\ s.at \in Nat /\ s.buffer \in Seq(Event)
      /\ s.seen \in Seq(Event) /\ s.cuts \in SUBSET Nat
  BY DEF Streams
<1>2. PICK n \in Nat : n = Len(s.sent)
  BY <1>1
<1>3. PICK b \in Nat : b = Len(s.buffer)
  BY <1>1
<1>5. /\ longer.at = s.at /\ longer.buffer = s.buffer /\ longer.state = "open"
      /\ longer.seen = s.seen /\ longer.cuts = s.cuts /\ Len(longer.sent) = n + 1
      /\ \A i \in 1 .. n : longer.sent[i] = s.sent[i]
      /\ TakenIn(longer) = TakenIn(s)
  BY <1>2, AppendsIs
<1> HIDE DEF longer
<1>6. /\ s.at <= n /\ b <= s.at
      /\ \A i \in 1 .. b : s.buffer[i] = s.sent[TakenIn(s) + i]
      /\ s.cuts = {} => s.buffer = <<>>
  BY <1>2, <1>3 DEF ReadingOK
<1>7. TakenIn(s) = s.at - b /\ TakenIn(s) \in Nat
  BY <1>1, <1>3, <1>6 DEF TakenIn
<1>8. ReadingOK(longer)
  <2>1. longer.at <= Len(longer.sent) /\ Len(longer.buffer) <= longer.at
    BY <1>1, <1>3, <1>5, <1>6
  <2>2. ASSUME NEW i \in 1 .. Len(longer.buffer)
        PROVE  longer.buffer[i] = longer.sent[TakenIn(longer) + i]
    <3>1. i \in 1 .. b /\ TakenIn(s) + i \in 1 .. n
      <4>1. i \in 1 .. b
        BY <1>3, <1>5
      <4>2. PICK a \in Nat, k \in Nat : a = TakenIn(s) /\ k = s.at /\ a = k - b
        BY <1>1, <1>7
      <4>3. k <= n /\ b <= k
        BY <1>6, <4>2
      <4>4. a + i \in 1 .. n
        BY <4>1, <4>2, <4>3
      <4> QED BY <4>1, <4>2, <4>4
    <3> QED BY <1>3, <1>5, <1>6, <1>7, <3>1
  <2> QED BY <1>5, <1>6, <2>1, <2>2 DEF ReadingOK
<1>9. ASSUME SeenOK(s) PROVE SeenOK(longer)
  <2>1. /\ s.cuts \subseteq 1 .. s.at /\ TakenIn(s) \notin s.cuts
        /\ TakenIn(s) + 1 .. s.at \subseteq s.cuts
        /\ SeenTo(s.sent, s.seen, LostBy(s), TakenIn(s))
    BY <1>9 DEF SeenOK
  <2>2. LostBy(longer) = LostBy(s)
    BY <1>5 DEF LostBy
  <2>3. \A i \in 1 .. TakenIn(s) : longer.sent[i] = s.sent[i]
    BY <1>1, <1>5, <1>6, <1>7
  <2>4. SeenTo(longer.sent, longer.seen, LostBy(longer), TakenIn(longer))
    <3>1. SeenTo(longer.sent, s.seen, LostBy(s), TakenIn(s))
      BY <2>1, <2>3 DEF SeenTo
    <3> QED BY <1>5, <1>7, <2>2, <3>1
  <2> QED BY <1>5, <1>7, <2>1, <2>4 DEF SeenOK
<1> QED BY <1>8, <1>9 DEF longer

LEMMA AppendWrites ==
  ASSUME NEW s \in Streams, NEW e \in Event, ReadingOK(s), NEW x \in Event
  PROVE  /\ Wrote(With(s, e), x) <=> (Wrote(s, x) \/ x = e)
         /\ Coming(With(s, e), x) <=> (Coming(s, x) \/ x = e)
<1> DEFINE longer == With(s, e)
<1>1. PICK n \in Nat : n = Len(s.sent)
  BY AppendsIs
<1>2. /\ DOMAIN s.sent = 1 .. n /\ DOMAIN longer.sent = 1 .. n + 1
      /\ \A i \in 1 .. n : longer.sent[i] = s.sent[i]
      /\ longer.sent[n + 1] = e /\ TakenIn(longer) = TakenIn(s)
  BY <1>1, AppendsIs
<1> HIDE DEF longer
<1>3. n + 1 > TakenIn(s)
  BY <1>1 DEF Streams, ReadingOK, TakenIn
<1>4. \A i \in 1 .. n + 1 : i \in 1 .. n \/ i = n + 1
  OBVIOUS
<1>5. Wrote(longer, x) <=> (Wrote(s, x) \/ x = e)
  BY <1>2, <1>4 DEF Wrote
<1>6. Coming(longer, x) <=> (Coming(s, x) \/ x = e)
  BY <1>2, <1>3, <1>4 DEF Coming
<1> QED BY <1>5, <1>6 DEF longer

Alike(w) ==
  \/ stream'[w] = stream[w]
  \/ /\ stream[w].state = "open"
     /\ \E e \in Event : stream'[w] = With(stream[w], e)

LEMMA Emitting ==
  ASSUME PageOK, NEW r \in Requests, NEW e \in Event, Emit(r, e)
  PROVE  /\ \A w \in Requests : w # r => stream'[w] = stream[w]
         /\ DOMAIN stream' = Requests
         /\ \/ stream[r].state # "open" /\ stream' = stream
            \/ /\ stream[r].state = "open"
               /\ stream'[r] = With(stream[r], e)
BY DEF Emit, PageOK, With

LEMMA Writing ==
  ASSUME PageOK, NEW r \in Requests, Does(r)
  PROVE  /\ DOMAIN stream' = Requests
         /\ \A w \in Requests : Alike(w) /\ (w # r => stream'[w] = stream[w])
<1>1. CASE stream' = stream
  BY <1>1 DEF Alike, PageOK
<1>2. ASSUME NEW e \in Event, Emit(r, e)
      PROVE  /\ DOMAIN stream' = Requests
             /\ \A w \in Requests : Alike(w) /\ (w # r => stream'[w] = stream[w])
  BY <1>2, Emitting DEF Alike
<1>3. stream' = stream \/ \E e \in Event : Emit(r, e)
  BY DEF Does, Enters, Proceeds, Claims, Pauses, Completes, GivesUp, Event
<1> QED BY <1>1, <1>2, <1>3

\* A step that only writes keeps what the page has of each stream.
LEMMA AlikeKeeps ==
  ASSUME NEW w \in Requests, stream[w] \in Streams, ReadingOK(stream[w]), Alike(w)
  PROVE  /\ stream'[w] \in Streams /\ ReadingOK(stream'[w])
         /\ SeenOK(stream[w]) => SeenOK(stream'[w])
         /\ stream'[w].state = stream[w].state /\ stream'[w].cuts = stream[w].cuts
         /\ stream'[w].asked = stream[w].asked /\ stream'[w].shown = stream[w].shown
         /\ stream'[w].hasty = stream[w].hasty /\ stream'[w].yes = stream[w].yes
         /\ \A x \in Event : Wrote(stream[w], x) => Wrote(stream'[w], x)
<1>1. CASE stream'[w] = stream[w]
  BY <1>1
<1>2. ASSUME NEW e \in Event, stream[w].state = "open",
             stream'[w] = With(stream[w], e)
      PROVE  /\ stream'[w] \in Streams /\ ReadingOK(stream'[w])
             /\ SeenOK(stream[w]) => SeenOK(stream'[w])
             /\ stream'[w].state = stream[w].state /\ stream'[w].cuts = stream[w].cuts
             /\ stream'[w].asked = stream[w].asked /\ stream'[w].shown = stream[w].shown
             /\ stream'[w].hasty = stream[w].hasty /\ stream'[w].yes = stream[w].yes
             /\ \A x \in Event : Wrote(stream[w], x) => Wrote(stream'[w], x)
  <2> DEFINE s == stream[w]  longer == With(s, e)
  <2>1. s \in Streams /\ s.state = "open" /\ ReadingOK(s) /\ stream'[w] = longer
    BY <1>2
  <2> HIDE DEF s
  <2>2. /\ longer \in Streams /\ ReadingOK(longer) /\ (SeenOK(s) => SeenOK(longer))
        /\ \A x \in Event : Wrote(s, x) => Wrote(longer, x)
        /\ longer.state = s.state /\ longer.cuts = s.cuts /\ longer.asked = s.asked
        /\ longer.yes = s.yes /\ longer.shown = s.shown /\ longer.hasty = s.hasty
    BY <2>1, Appending, AppendsIs, AppendWrites
  <2> HIDE DEF longer
  <2> QED BY <2>1, <2>2 DEF s
<1> QED BY <1>1, <1>2 DEF Alike

LEMMA AppendOnce ==
  ASSUME NEW s \in Streams, NEW e \in Event, Once(s),
         e # "approval_required" \/ ~Wrote(s, "approval_required")
  PROVE  Once(With(s, e))
<1> DEFINE longer == With(s, e)
<1>1. PICK n \in Nat : n = Len(s.sent)
  BY AppendsIs
<1>2. /\ DOMAIN s.sent = 1 .. n /\ DOMAIN longer.sent = 1 .. n + 1
      /\ \A i \in 1 .. n : longer.sent[i] = s.sent[i]
      /\ longer.sent[n + 1] = e
  BY <1>1, AppendsIs
<1> HIDE DEF longer
<1>3. \A i \in 1 .. n + 1 : i \in 1 .. n \/ i = n + 1
  OBVIOUS
<1>4. Once(longer)
  BY <1>2, <1>3 DEF Once, Wrote
<1> QED BY <1>4 DEF longer

LEMMA EmitOn ==
  ASSUME PageOK, NEW r \in Requests, ReadingOK(stream[r]), Once(stream[r]),
         NEW e \in Event, Emit(r, e)
  PROVE  /\ stream'[r].state = stream[r].state /\ stream'[r].asked = stream[r].asked
         /\ Wrote(stream'[r], "approval_required") =>
              Wrote(stream[r], "approval_required") \/ e = "approval_required"
         /\ Wrote(stream[r], "approval_required") =>
              Wrote(stream'[r], "approval_required")
         /\ e = "approval_required" /\ stream[r].state = "open" =>
              Wrote(stream'[r], "approval_required")
         /\ e # "approval_required" \/ ~Wrote(stream[r], "approval_required") =>
              Once(stream'[r])
<1>1. CASE stream[r].state # "open"
  BY <1>1 DEF Emit
<1>2. CASE stream[r].state = "open"
  <2> DEFINE s == stream[r]  a == "approval_required"
  <2>1. s \in Streams /\ stream'[r] = With(s, e) /\ a \in Event
    BY <1>2, Emitting DEF PageOK, Event
  <2>2. /\ With(s, e).state = s.state /\ With(s, e).asked = s.asked
    BY <2>1, AppendsIs
  <2>3. Wrote(With(s, e), a) <=> (Wrote(s, a) \/ a = e)
    BY <2>1, AppendWrites
  <2>4. e # a \/ ~Wrote(s, a) => Once(With(s, e))
    BY <2>1, AppendOnce
  <2> QED BY <2>1, <2>2, <2>3, <2>4
<1> QED BY <1>1, <1>2

\* The request that acts.
LEMMA ServedSelf ==
  ASSUME Inv, PageOK, NEW r \in Questions, ReadingOK(stream[r]), ServedOK(r),
         stream[r].state # "idle", Next, Does(r)
  PROVE  ServedOK(r)'
<1>0. /\ r \in Requests /\ r \notin Verifies /\ req[r] \in Sessions /\ Keeps(r) /\ Once(stream[r])
      /\ "error" \in Event /\ "progress" \in Event /\ "token" \in Event
      /\ "approval_required" \in Event /\ "done" \in Event
  BY Frame, TurnsAssumption DEF Inv, TypeOK, Questions, Requests, ServedOK, AsksOK, Event
<1>1. CASE Enters(r)
  <2>1. /\ ~Wrote(stream[r], "approval_required") /\ stream[r].state # "ended"
        /\ req'[r].phase \in {"opened", "closed", "reading"} /\ req'[r].end # "paused"
        /\ req'[r].phase # "closed" => req'[r].end = "none"
        /\ r \in Approvals => req'[r].turn = stream[r].asked
    BY <1>1, TurnsAssumption DEF Enters, ServedOK, AsksOK, WellEnded
  <2>2. /\ stream'[r].state = stream[r].state /\ stream'[r].asked = stream[r].asked
        /\ ~Wrote(stream'[r], "approval_required") /\ Once(stream'[r])
    BY <1>0, <1>1, <2>1, EmitOn DEF Enters
  <2> QED BY <1>0, <2>1, <2>2 DEF ServedOK, AsksOK, EndOK, Open
<1>2. CASE Proceeds(r)
  <2>1. /\ ~Wrote(stream[r], "approval_required") /\ stream[r].state # "ended"
        /\ req'[r].phase \in Working /\ req'[r].end = "none"
        /\ r \in Approvals => req'[r].turn = stream[r].asked
    BY <1>0, <1>2 DEF Proceeds, ServedOK, AsksOK, WellEnded, EndOK, Open, Keeps, Same
  <2>2. /\ stream'[r].state = stream[r].state /\ stream'[r].asked = stream[r].asked
        /\ Once(stream'[r])
        /\ Wrote(stream'[r], "approval_required") => req'[r].phase = "asking"
        /\ stream[r].state = "open" /\ req'[r].phase = "asking" =>
             Wrote(stream'[r], "approval_required")
    BY <1>0, <1>2, <2>1, EmitOn DEF Proceeds
  <2> QED BY <1>0, <2>1, <2>2 DEF ServedOK, AsksOK, EndOK, Open, Working
<1>3. CASE Claims(r)
  <2>1. /\ req'[r].phase \in {"resuming", "blocked"} /\ req'[r].end = req[r].end
        /\ req'[r].turn = req[r].turn /\ stream' = stream
    BY <1>0, <1>3 DEF Claims, Sessions
  <2> QED BY <1>0, <1>3, <2>1 DEF ServedOK, AsksOK, EndOK, Open, Claims, WellEnded
<1>4. CASE Pauses(r)
  <2>1. /\ req'[r].phase = "closed" /\ req'[r].end = "paused"
        /\ req'[r].turn = req[r].turn /\ stream' = stream
    BY <1>0, <1>4 DEF Pauses, Sessions, Ended
  <2> QED BY <1>0, <1>4, <2>1 DEF ServedOK, AsksOK, EndOK, Open, Pauses, WellEnded
<1>5. CASE Completes(r)
  <2>1. /\ req'[r].phase = "closed" /\ req'[r].end = "done"
        /\ req'[r].turn = req[r].turn
    BY <1>0, <1>5 DEF Completes, Sessions, Ended
  <2>2. /\ ~Wrote(stream[r], "approval_required") /\ stream[r].state # "ended"
    BY <1>5 DEF Completes, ServedOK, AsksOK, WellEnded
  <2>3. /\ stream'[r].state = stream[r].state /\ stream'[r].asked = stream[r].asked
        /\ ~Wrote(stream'[r], "approval_required") /\ Once(stream'[r])
    BY <1>0, <1>5, <2>2, EmitOn DEF Completes
  <2> QED BY <1>0, <1>5, <2>1, <2>2, <2>3 DEF ServedOK, AsksOK, EndOK, Open, Completes
<1>6. CASE GivesUp(r)
  <2>1. /\ req'[r].phase = "closed" /\ req'[r].end \in {"error", "gone"}
        /\ req'[r].turn = req[r].turn
    BY <1>0, <1>6 DEF GivesUp, Sessions, Ended
  <2>2. stream[r].state # "ended"
    BY <1>6 DEF GivesUp, ServedOK, WellEnded, Open
  <2>3. /\ stream'[r].state = stream[r].state /\ stream'[r].asked = stream[r].asked
        /\ Once(stream'[r])
    BY <1>0, <1>6, EmitOn DEF GivesUp
  <2> QED BY <1>0, <1>6, <2>1, <2>2, <2>3 DEF ServedOK, AsksOK, EndOK, Open, GivesUp
<1> QED BY <1>1, <1>2, <1>3, <1>4, <1>5, <1>6 DEF Does

\* The others, which it may wake.
LEMMA ServedOthers ==
  ASSUME Inv, NEW r \in Requests, NEW w \in Requests, Others(r), w # r,
         stream'[w] = stream[w], ServedOK(w)
  PROVE  ServedOK(w)'
<1>1. CASE req'[w] = req[w]
  BY <1>1 DEF ServedOK, AsksOK, EndOK, Open, WellEnded
<1>2. CASE Woken(r, w)
  <2>1. /\ req[w].phase = "blocked" /\ req'[w].phase \in {"reading", "resuming"}
        /\ req'[w].end = req[w].end /\ req'[w].turn = req[w].turn
    <3>1. req[w] \in Sessions
      BY DEF Inv, TypeOK
    <3> QED BY <1>2, <3>1 DEF Woken, Sessions
  <2> QED BY <2>1 DEF ServedOK, AsksOK, EndOK, Open, WellEnded
<1> QED BY <1>1, <1>2 DEF Others

-----------------------------------------------------------------------------
(* The server's steps by what they do to a turn's rows.                    *)

Releases(r, t) == lock'[t] = IF lock[t] = r THEN Nobody ELSE lock[t]

Effects(r, t) ==
  \/ db'[t] = db[t] /\ lock'[t] = lock[t] /\ (Pauses(r) \/ Completes(r) => req[r].turn # t)
  \/ /\ Claims(r) /\ req[r].turn = t /\ req'[r].phase = "resuming" /\ lock[t] = Nobody
     /\ db'[t] = db[t] /\ db[t].pending # NoRow /\ lock'[t] = r
  \/ /\ Pauses(r) /\ req[r].turn = t /\ Releases(r, t)
     /\ db[t].pending = NoRow \/ lock[t] = r
     /\ db'[t].pending # NoRow /\ db'[t].pending.by = r /\ db'[t].turn # "absent"
  \/ /\ Completes(r) /\ req[r].turn = t /\ Releases(r, t)
     /\ lock[t] = r => db'[t].pending = NoRow
     /\ lock[t] # r => db'[t].pending = db[t].pending
     /\ db'[t].turn # "absent"
  \/ /\ GivesUp(r) /\ req[r].turn = t /\ db'[t] = db[t] /\ Releases(r, t)

LEMMA Effect ==
  ASSUME Inv, NEW r \in Questions, Does(r), NEW t \in Submits
  PROVE  Effects(r, t)
<1>0. /\ TypeOK /\ (\A w \in Requests : Good(w)) /\ r \in Requests /\ req[r] \in Sessions
      /\ lock \in [Submits -> Approvals \cup {Nobody}] /\ db \in [Submits -> TurnRows]
      /\ SessionOK(r)
  BY DEF Inv, Good, TypeOK, Questions, Requests
<1>1. CASE Enters(r) \/ Proceeds(r)
  BY <1>1 DEF Enters, Proceeds, Pauses, Completes, Effects
<1>2. CASE Claims(r)
  <2>1. [req[r] EXCEPT !.phase = "resuming"].phase = "resuming"
    BY <1>0 DEF Sessions
  <2>2. ~Pauses(r) /\ ~Completes(r)
    BY <1>2 DEF Claims, Pauses, Completes
  <2> QED BY <1>0, <1>2, <2>1, <2>2 DEF Claims, Effects
<1>3. ASSUME Unlock(r)
      PROVE req[r].turn # t => lock'[t] = lock[t]
  BY <1>0, <1>3 DEF Unlock, TurnOf
<1>4. ASSUME Unlock(r) PROVE req[r].turn = t => Releases(r, t)
  BY <1>0, <1>4 DEF Unlock, TurnOf, Releases
<1>5. CASE Commits(r) /\ (Pauses(r) \/ Completes(r))
  <2> DEFINE u == req[r].turn
  <2>1. /\ u \in Submits /\ Unlock(r) /\ db' = [db EXCEPT ![u] = db'[u]]
        /\ \/ /\ req[r].phase = "asking" /\ db'[u].pending = Question(r) /\ ~RowInTheWay(r)
              /\ db'[u].turn = IF db[u].turn = "absent" THEN "open" ELSE db[u].turn
           \/ /\ req[r].phase = "replying" /\ db'[u].turn = "final"
              /\ db'[u].pending = IF lock[u] = r THEN NoRow ELSE db[u].pending
    BY <1>0, <1>5, CommitDoes DEF Pauses, Completes
  <2>2. CASE u # t
    BY <1>0, <1>3, <2>1, <2>2 DEF Effects
  <2>3. CASE u = t
    <3>1. Releases(r, t)
      BY <1>4, <2>1, <2>3
    <3>2. Question(r).by = r /\ r # "none" /\ NoRow.by = "none"
      BY TurnsAssumption DEF Question, NoRow, Questions
    <3>3. CASE Pauses(r)
      <4>1. db'[t].pending = Question(r) /\ db'[t].turn # "absent" /\ ~RowInTheWay(r)
        BY <2>1, <2>3, <3>3 DEF Pauses
      <4> QED BY <2>3, <3>1, <3>2, <3>3, <4>1 DEF Effects, RowInTheWay, TurnOf
    <3>4. CASE Completes(r)
      <4>1. /\ db'[t].pending = IF lock[t] = r THEN NoRow ELSE db[t].pending
            /\ db'[t].turn # "absent"
        BY <2>1, <2>3, <3>4 DEF Completes
      <4> QED BY <2>3, <3>1, <3>4, <4>1 DEF Effects
    <3> QED BY <1>5, <3>3, <3>4
  <2> QED BY <2>2, <2>3
<1>6. CASE GivesUp(r)
  BY <1>0, <1>3, <1>4, <1>6 DEF GivesUp, Effects
<1> QED BY <1>1, <1>2, <1>5, <1>6 DEF Does, Pauses, Completes, Commits

\* What the acting request goes on to.
LEMMA SelfMoves ==
  ASSUME Inv, NEW r \in Questions, Does(r)
  PROVE  /\ Enters(r) => req[r].phase = "idle" /\ req'[r].phase \in {"opened", "closed", "reading"}
         /\ Proceeds(r) => req[r].phase \in {"opened", "fanout", "resuming"} /\ req'[r].phase \in Working
         /\ Claims(r) => req[r].phase = "reading" /\ req'[r].phase \in {"resuming", "blocked"}
         /\ Pauses(r) => /\ req[r].phase = "asking" /\ req'[r].phase = "closed"
                         /\ req'[r].end = "paused"
         /\ Completes(r) => /\ req[r].phase = "replying" /\ req'[r].phase = "closed"
                            /\ req'[r].end = "done"
         /\ GivesUp(r) => /\ Open(r) /\ req'[r].phase = "closed"
                          /\ req'[r].end \in {"error", "gone"}
<1>0. req[r] \in Sessions
  BY DEF Inv, TypeOK, Questions, Requests
<1>1. \A e : Ended(r, e).phase = "closed" /\ Ended(r, e).end = e
  BY <1>0 DEF Ended, Sessions
<1>2. /\ [req[r] EXCEPT !.phase = "resuming"].phase = "resuming"
      /\ [req[r] EXCEPT !.phase = "blocked"].phase = "blocked"
  BY <1>0 DEF Sessions
<1>4. /\ Claims(r) => req[r].phase = "reading" /\ req'[r].phase \in {"resuming", "blocked"}
      /\ Proceeds(r) => req[r].phase \in {"opened", "fanout", "resuming"} /\ req'[r].phase \in Working
      /\ Enters(r) => req[r].phase = "idle" /\ req'[r].phase \in {"opened", "closed", "reading"}
  BY <1>2 DEF Enters, Proceeds, Claims
<1>5. /\ Pauses(r) => /\ req[r].phase = "asking" /\ req'[r].phase = "closed"
                       /\ req'[r].end = "paused"
      /\ Completes(r) => /\ req[r].phase = "replying" /\ req'[r].phase = "closed"
                          /\ req'[r].end = "done"
      /\ GivesUp(r) => /\ Open(r) /\ req'[r].phase = "closed"
                        /\ req'[r].end \in {"error", "gone"}
  BY <1>1 DEF Pauses, Completes, GivesUp
<1> QED BY <1>4, <1>5

LEMMA OtherMoves ==
  ASSUME Inv, NEW r \in Requests, NEW w \in Requests, Others(r), w # r
  PROVE  \/ req'[w] = req[w]
         \/ /\ req[w].phase = "blocked" /\ req'[w].phase \in {"reading", "resuming"}
            /\ req[w].turn = req[r].turn /\ lock[req[r].turn] = r
            /\ req'[w].turn = req[w].turn /\ req'[w].end = req[w].end
            /\ req'[w].read = req[w].read
<1>1. req[w] \in Sessions
  BY DEF Inv, TypeOK
<1> QED BY <1>1 DEF Others, Woken, Sessions

-----------------------------------------------------------------------------
(* The questions of a message.                                             *)

LEMMA ChainsApart ==
  ASSUME NEW m \in Submits, NEW n \in Submits, NEW q \in Chain(m), q \in Chain(n)
  PROVE  m = n
BY TurnsAssumption DEF Chain

LEMMA ChainType ==
  ASSUME NEW m \in Submits, NEW q \in Chain(m)
  PROVE  /\ q \in Questions /\ q \in Requests /\ q # Nobody
         /\ q \in Submits => q = m
         /\ q \in Approvals => stream[q].asked = m
         /\ MessageOf(q) = m
BY TurnsAssumption DEF Chain, Questions, Requests, MessageOf, Nobody

LEMMA UnusedIs ==
  /\ Unused.state = "idle" /\ Unused.asked = Nobody /\ Unused.shown = Nobody
  /\ Unused.sent = <<>> /\ Unused.cuts = {} /\ Unused.at = 0 /\ Unused.buffer = <<>>
  /\ ~Wrote(Unused, "approval_required") /\ ~Wrote(Unused, "done")
BY DEF Unused, Wrote

\* What has been shown is asked, or will never be.
LEMMA ShownIs ==
  ASSUME StreamsOK, NEW q \in Requests, Shown(q)
  PROVE  /\ stream[q].state # "idle"
         /\ req[q].phase = "asking" \/ (req[q].phase = "closed" /\ req[q].end # "done")
<1>1. ReadingOK(stream[q]) /\ ServedOK(q)
  BY DEF StreamsOK
<1>2. stream[q].state # "idle"
  BY <1>1, UnusedIs DEF ReadingOK, Shown
<1> QED BY <1>1, <1>2 DEF ServedOK, AsksOK, Shown

\* A click shows which question of which message it answers.
LEMMA Clicked ==
  ASSUME PageOK, StreamsOK, ChainOK, NEW q \in Questions, NEW x \in Answers(q)
  PROVE  /\ x \in Approvals /\ stream[x].state # "idle" /\ ClickOK(x) /\ Shown(q)
         /\ stream[x].asked \in Submits /\ q \in Chain(stream[x].asked)
         /\ \A m \in Submits : q \in Chain(m) => stream[x].asked = m /\ x \in Chain(m)
<1>1. x \in Approvals /\ stream[x].shown = q /\ x \in Requests /\ q # Nobody
  BY TurnsAssumption DEF Answers, Requests, Questions, Nobody
<1>2. stream[x].state # "idle"
  BY <1>1, UnusedIs DEF StreamsOK, ReadingOK
<1>3. ClickOK(x)
  BY <1>1 DEF ChainOK
<1>4. stream[x].asked \in Submits /\ q \in Chain(stream[x].asked) /\ Shown(q)
  BY <1>1, <1>2, <1>3 DEF ClickOK
<1> QED BY <1>1, <1>2, <1>3, <1>4, ChainsApart DEF Chain

LEMMA AnswersUnique ==
  ASSUME PageOK, StreamsOK, ChainOK, NEW q \in Questions, NEW x \in Answers(q)
  PROVE  Answers(q) = {x}
<1>1. \A y \in Answers(q) : y \in Approvals /\ stream[y].state # "idle" /\ stream[y].shown = q
  BY Clicked DEF Answers
<1> QED BY <1>1 DEF ChainOK

\* A question whose answer has done nothing yet is the last but one, so that a
\* request that still works is that answer, or the question itself.
LEMMA LastButOne ==
  ASSUME PageOK, StreamsOK, ChainOK, NEW m \in Submits, NEW q \in Chain(m),
         \A y \in Answers(q) : req[y].phase \in {"idle", "reading", "blocked"},
         NEW x \in Chain(m), req[x].phase \notin {"asking", "closed"}, x # q
  PROVE  x \in Answers(q)
<1>1. q \in Questions /\ x \in Questions /\ q \in Requests /\ x \in Requests
  BY ChainType
<1>2. Answers(x) = {}
  BY <1>1, Clicked, ShownIs
<1>3. Answers(q) # {}
  BY <1>2 DEF ChainOK
<1>4. PICK y \in Answers(q) : TRUE
  BY <1>3
<1>5. y \in Chain(m) /\ y \in Questions /\ y \in Requests
  BY <1>1, <1>4, Clicked DEF Questions, Requests
<1>6. Answers(y) = {}
  BY <1>4, <1>5, Clicked, ShownIs
<1> QED BY <1>2, <1>4, <1>5, <1>6 DEF ChainOK

-----------------------------------------------------------------------------
(* The server's steps and the page.                                        *)

\* What a stream is to the page, but for the events on their way.
AsBefore(w) ==
  /\ stream'[w].state = stream[w].state /\ stream'[w].cuts = stream[w].cuts
  /\ stream'[w].asked = stream[w].asked /\ stream'[w].shown = stream[w].shown
  /\ stream'[w].hasty = stream[w].hasty

LEMMA ShownKept ==
  ASSUME Inv, PageOK, StreamsOK, NEW r \in Questions, Does(r), NEW w \in Requests
  PROVE  Shown(w)' <=> Shown(w)
<1>0. /\ r \in Requests /\ stream[w] \in Streams /\ ReadingOK(stream[w]) /\ AsksOK(r)
      /\ \A e \in {"progress", "token", "error", "done", "approval_required"} : e \in Event
  BY DEF StreamsOK, ServedOK, PageOK, Questions, Requests, Event
<1>1. CASE stream'[w] = stream[w]
  BY <1>1 DEF Shown
<1>2. ASSUME NEW e \in Event, Emit(r, e), stream'[w] # stream[w]
      PROVE  w = r /\ stream'[w] = With(stream[w], e)
  BY <1>0, <1>2, Emitting
<1>3. ASSUME NEW e \in Event, e # "approval_required", Emit(r, e), stream'[w] # stream[w]
      PROVE  Shown(w)' <=> Shown(w)
  <2>1. stream'[w] = With(stream[w], e)
    BY <1>2, <1>3
  <2>2. /\ Wrote(stream'[w], "approval_required") <=> Wrote(stream[w], "approval_required")
        /\ Coming(stream'[w], "approval_required") <=> Coming(stream[w], "approval_required")
    BY <1>0, <1>3, <2>1, AppendWrites
  <2> QED BY <2>2 DEF Shown
<1>4. CASE Emit(r, "approval_required") /\ req[r].phase \in {"opened", "fanout", "resuming"}
           /\ stream'[w] # stream[w]
  <2>1. w = r /\ stream'[w] = With(stream[w], "approval_required")
    BY <1>0, <1>2, <1>4
  <2>2. Coming(stream'[w], "approval_required")
    BY <1>0, <2>1, AppendWrites
  <2>3. ~Wrote(stream[w], "approval_required")
    BY <1>0, <1>4, <2>1 DEF AsksOK
  <2> QED BY <2>2, <2>3 DEF Shown
<1> QED BY <1>0, <1>1, <1>3, <1>4
        DEF Does, Enters, Proceeds, Claims, Pauses, Completes, GivesUp

LEMMA ChainFrame ==
  ASSUME PageOK, ChainOK, UNCHANGED pageVars, \A w \in Requests : AsBefore(w),
         \A w \in Requests : Shown(w)' <=> Shown(w),
         \A w \in Requests : req[w].end = "paused" => req'[w].end = "paused"
  PROVE  /\ ChainOK'
         /\ \A m \in Submits : Chain(m)' = Chain(m)
         /\ \A q \in Questions : Answers(q)' = Answers(q)
<1>0. \A x \in Approvals : x \in Requests
  BY DEF Requests
<1>1. \A m \in Submits : Chain(m)' = Chain(m)
  BY <1>0 DEF Chain, AsBefore
<1>2. \A q : Answers(q)' = Answers(q)
  BY <1>0 DEF Answers, AsBefore
<1>3. \A m \in Submits : m \in Requests /\ Chain(m) \subseteq Requests
  BY DEF Chain, Requests
<1>4. ASSUME NEW x \in Approvals PROVE ClickOK(x)'
  <2>1. ClickOK(x) /\ AsBefore(x)
    BY <1>0 DEF ChainOK
  <2> SUFFICES ASSUME stream[x].state # "idle"
               PROVE  ClickOK(x)'
    BY <2>1 DEF ClickOK, AsBefore
  <2>2. PICK m, q :
          /\ m = stream[x].asked /\ q = stream[x].shown
          /\ m \in Submits /\ stream[m].state # "idle" /\ q \in Chain(m) /\ Shown(q)
          /\ ~stream[x].hasty => req[q].end = "paused"
          /\ stream[x].hasty /\ q \in Approvals => stream[q].state = "failed"
          /\ stream[x].state = "open" => m \in responding
    BY <2>1 DEF ClickOK
  <2>3. m \in Requests /\ q \in Requests /\ Chain(m)' = Chain(m)
    BY <1>1, <1>3, <2>2
  <2>4. AsBefore(m) /\ AsBefore(q) /\ Shown(q)'
    BY <2>2, <2>3
  <2>5. stream'[x].asked = m /\ stream'[x].shown = q
    BY <2>1, <2>2 DEF AsBefore
  <2> QED BY <2>1, <2>2, <2>3, <2>4, <2>5 DEF ClickOK, AsBefore, pageVars
<1>5. ChainOK'
  <2>1. \A x \in Approvals : AsBefore(x)
    BY <1>0
  <2>2. /\ \A x, y \in Approvals :
             stream'[x].state # "idle" /\ stream'[x].shown = stream'[y].shown => x = y
        /\ \A x, y \in Approvals : stream'[x].state = "open" /\ stream'[y].state = "open"
             /\ stream'[x].asked = stream'[y].asked => x = y
    BY <2>1 DEF ChainOK, AsBefore
  <2>3. \A r \in Requests : stream'[r].state = "open" => MessageOf(r)' \in messages'
    BY DEF ChainOK, AsBefore, MessageOf, pageVars
  <2>4. \A m \in Submits : \A y, z \in Chain(m)' :
          Answers(y)' = {} /\ Answers(z)' = {} => y = z
    BY <1>1, <1>2 DEF ChainOK
  <2>5. \A m \in Submits : card'[m] # Nobody =>
          (card[m] \in Chain(m) /\ Answers(card[m]) = {} /\ Shown(card[m]))'
    <3> SUFFICES ASSUME NEW m \in Submits, card'[m] # Nobody
                 PROVE  (card[m] \in Chain(m) /\ Answers(card[m]) = {} /\ Shown(card[m]))'
      OBVIOUS
    <3>1. PICK q : q = card[m] /\ q = card'[m]
      BY DEF pageVars
    <3>2. q \in Chain(m) /\ Answers(q) = {} /\ Shown(q) /\ q \in Requests
      BY <1>3, <3>1 DEF ChainOK
    <3>3. q \in Chain(m)' /\ Answers(q)' = {} /\ Shown(q)'
      BY <1>1, <1>2, <3>2
    <3> QED BY <3>1, <3>3 DEF Answers, Shown
  <2>6. \A m \in messages' : \A q \in Chain(m)' :
          /\ stream'[q].state \in {"open", "ended"} /\ stream'[q].cuts = {} /\ Shown(q)'
          /\ Answers(q)' = {}
          => card'[m] = q
    BY <1>1, <1>2, <1>3 DEF ChainOK, PageOK, AsBefore, pageVars
  <2>7. \A m \in messages' : stream'[m].state # "idle"
    BY <1>3 DEF ChainOK, PageOK, AsBefore, pageVars
  <2>8. \A m \in Submits : card'[m] = card[m]
    BY DEF pageVars
  <2> QED BY <1>4, <2>2, <2>3, <2>4, <2>5, <2>6, <2>7, <2>8 DEF ChainOK
<1> QED BY <1>1, <1>2, <1>5

-----------------------------------------------------------------------------
(* Rows, locks and answers under the server's steps.                       *)

LEMMA PausedStays ==
  ASSUME Inv, StreamsOK, NEW w \in Requests, req[w].end = "paused"
  PROVE  req[w].phase = "closed" /\ (Next => req'[w] = req[w])
<1>1. Good(w) /\ EndOK(w) /\ TypeOK /\ \A r \in Requests : EndpointOK(r)
  BY DEF Inv, StreamsOK, ServedOK, Good
<1>2. req[w].phase # "idle"
  BY <1>1, IdleIs
<1>3. req[w].phase = "closed"
  BY <1>1, <1>2 DEF EndOK, Open
<1>4. Next => Keeps(w)
  BY <1>1, Frame
<1> QED BY <1>3, <1>4 DEF Keeps

\* A turn of a request that works is asked for, or its own.
LEMMA TurnIs ==
  ASSUME Inv, StreamsOK, NEW r \in Questions, req[r].phase # "idle"
  PROVE  /\ req[r].turn \in Submits /\ req[r].turn = MessageOf(r)
         /\ r \in Submits => req[r].turn = r
         /\ r \in Chain(req[r].turn)
         /\ \A m \in Submits : r \in Chain(m) => req[r].turn = m
<1>1. r \in Requests /\ SessionOK(r) /\ EndpointOK(r) /\ ServedOK(r)
  BY DEF Inv, StreamsOK, Questions, Requests
<1>2. req[r].turn \in Submits /\ (r \in Submits => req[r].turn = r)
  BY <1>1 DEF SessionOK, EndpointOK
<1>3. r \in Approvals => r \notin Submits /\ req[r].turn = stream[r].asked
  BY <1>1, TurnsAssumption DEF ServedOK
<1>4. r \in Submits \/ r \in Approvals
  BY DEF Questions
<1>5. req[r].turn = MessageOf(r) /\ r \in Chain(req[r].turn)
  BY <1>2, <1>3, <1>4 DEF MessageOf, Chain
<1>6. \A m \in Submits : r \in Chain(m) => req[r].turn = m
  BY <1>2, <1>5, ChainsApart
<1> QED BY <1>2, <1>5, <1>6

LEMMA RowStep ==
  ASSUME Inv, StreamsOK, AnswersInv, NEW r \in Questions, Next, Others(r), Does(r),
         NEW t \in Submits
  PROVE  RowOK(t)'
<1>0. /\ RowOK(t) /\ t \in Requests /\ r \in Requests /\ t \in Questions
      /\ req[t].end = "paused" => req'[t].end = "paused"
  BY PausedStays DEF AnswersInv, Requests, Questions
<1>1. req'[t].end = "paused" => req[t].end = "paused" \/ (r = t /\ Pauses(r) /\ req[r].turn = t)
  <2>1. CASE r # t
    BY <1>0, <2>1, OtherMoves
  <2>2. CASE r = t
    <3>1. Pauses(r) => req[r].turn = t
      BY <1>0, <2>2, TurnIs DEF Pauses
    <3>2. Enters(r) => req'[r].end \in {"none", "error", "404"}
      BY DEF Enters
    <3>3. Claims(r) => req'[r].end = req[r].end
      <4>1. req[r] \in Sessions
        BY <1>0 DEF Inv, TypeOK
      <4> QED BY <4>1 DEF Claims, Sessions
    <3> QED BY <2>2, <3>1, <3>2, <3>3, SelfMoves DEF Does, Proceeds
  <2> QED BY <2>1, <2>2
<1>2. Pauses(r) /\ req[r].turn = t => req'[t].end = "paused"
  <2>1. CASE r \in Approvals
    BY <1>0, <2>1 DEF AnswersInv, ApprovalOK, Pauses, Open
  <2>2. CASE r \in Submits
    <3>1. Pauses(r) => req[r].turn = r
      BY <2>2, TurnIs DEF Pauses
    <3> QED BY <3>1, SelfMoves
  <2> QED BY <2>1, <2>2 DEF Questions
<1>3. r # Nobody /\ (lock[t] = r => lock[t] # Nobody)
  BY TurnsAssumption DEF Questions, Nobody
<1>4. Effects(r, t)
  BY Effect
<1>5. CASE db'[t] = db[t] /\ lock'[t] = lock[t] /\ (Pauses(r) \/ Completes(r) => req[r].turn # t)
  BY <1>0, <1>1, <1>5 DEF RowOK
<1>6. CASE Claims(r) /\ db'[t] = db[t] /\ db[t].pending # NoRow
  <2>1. ~Pauses(r)
    BY <1>6 DEF Claims, Pauses
  <2> QED BY <1>0, <1>1, <1>6, <2>1 DEF RowOK
<1>7. CASE /\ Pauses(r) /\ req[r].turn = t /\ Releases(r, t)
           /\ db[t].pending = NoRow \/ lock[t] = r
           /\ db'[t].pending # NoRow /\ db'[t].turn # "absent"
  BY <1>0, <1>2, <1>3, <1>7 DEF RowOK, Releases
<1>8. CASE /\ Completes(r) /\ Releases(r, t)
           /\ lock[t] = r => db'[t].pending = NoRow
           /\ lock[t] # r => db'[t].pending = db[t].pending
           /\ db'[t].turn # "absent"
  <2>1. db'[t].pending = NoRow \/ db'[t].pending = db[t].pending
    BY <1>8
  <2> QED BY <1>0, <1>3, <1>8, <2>1 DEF RowOK, Releases
<1>9. CASE GivesUp(r) /\ db'[t] = db[t] /\ Releases(r, t)
  <2>1. ~Pauses(r)
    BY <1>9, SelfMoves
  <2> QED BY <1>0, <1>1, <1>9, <2>1 DEF RowOK, Releases
<1> QED BY <1>4, <1>5, <1>6, <1>7, <1>8, <1>9 DEF Effects

LEMMA ApprovalStep ==
  ASSUME Inv, StreamsOK, AnswersInv, NEW r \in Questions, Bound(r), Next, Others(r), Does(r),
         NEW x \in Approvals
  PROVE  ApprovalOK(x)'
<1>0. /\ ApprovalOK(x) /\ x \in Requests /\ r \in Requests /\ x \in Questions
      /\ Good(x) /\ Keeps(x) /\ req[x] \in Sessions /\ x \notin Submits
      /\ lock \in [Submits -> Approvals \cup {Nobody}]
  BY Frame, TurnsAssumption DEF AnswersInv, Requests, Questions, Inv, Good, TypeOK
<1>1. \A t \in Submits : req[t].end = "paused" => req'[t].end = "paused"
  BY PausedStays DEF Requests
<1>2. req[x].phase # "idle" =>
        /\ req'[x].turn = req[x].turn /\ req'[x].read = req[x].read
        /\ req[x].turn \in Submits
  BY <1>0, TurnIs DEF Keeps, Same
<1>3. Open(x)' => req'[req'[x].turn].end = "paused"
  <2>1. CASE Open(x)
    BY <1>0, <1>1, <1>2, <2>1 DEF Open, ApprovalOK
  <2>2. CASE ~Open(x) /\ Open(x)'
    <3>1. x = r
      <4>1. x # r => req'[x] = req[x] \/ req[x].phase = "blocked"
        BY <1>0, OtherMoves
      <4> QED BY <2>2, <4>1 DEF Open
    <3>2. Enters(r)
      BY <2>2, <3>1, SelfMoves DEF Does, Open, Proceeds, Claims, Pauses, Completes, GivesUp
    <3>3. req'[x].turn = stream[x].asked /\ db[stream[x].asked].pending # NoRow
      BY <1>0, <2>2, <3>1, <3>2 DEF Enters, Open
    <3>4. stream[x].asked \in Submits /\ RowOK(stream[x].asked)
      BY <3>1 DEF Bound, AnswersInv
    <3> QED BY <1>1, <3>3, <3>4 DEF RowOK
  <2> QED BY <2>1, <2>2
<1>4. req'[x].phase = "blocked" => lock'[req'[x].turn] # Nobody
  <2> SUFFICES ASSUME req'[x].phase = "blocked" PROVE lock'[req'[x].turn] # Nobody
    OBVIOUS
  <2>1. CASE x = r
    <3>1. Claims(r)
      BY <2>1, SelfMoves DEF Does, Working
    <3>2. req[x].phase # "idle"
      BY <2>1, <3>1 DEF Claims
    <3>3. [req[r] EXCEPT !.phase = "resuming"].phase = "resuming"
      BY <1>0, <2>1 DEF Sessions
    <3> QED BY <1>2, <2>1, <3>1, <3>2, <3>3 DEF Claims
  <2>2. CASE x # r
    <3>1. req'[x] = req[x] /\ req[x].phase = "blocked"
      BY <1>0, <2>2, OtherMoves
    <3> DEFINE t == req[x].turn
    <3>2. t \in Submits /\ lock[t] # Nobody /\ req'[x].turn = t
      BY <1>0, <1>2, <3>1 DEF ApprovalOK
    <3>3. Effects(r, t) /\ r # Nobody
      BY <3>2, Effect, TurnsAssumption DEF Questions, Nobody
    <3>4. Wakes(r) /\ req[r].turn = t => lock[t] # r
      BY <1>0, <3>1 DEF Wakes
    <3>5. Pauses(r) \/ Completes(r) \/ GivesUp(r) => Wakes(r)
      BY DEF Pauses, Completes, GivesUp
    <3> HIDE DEF t
    <3> QED BY <3>2, <3>3, <3>4, <3>5 DEF Effects, Releases
  <2> QED BY <2>1, <2>2
<1>5. req'[x].end \in Settles => req'[x].read # NoRow
  <2>1. CASE req[x].end \in Settles
    <3>1. req[x].phase # "idle"
      BY <1>0, <2>1, IdleIs DEF Settles
    <3> QED BY <1>0, <1>2, <2>1, <3>1 DEF ApprovalOK
  <2>2. CASE req[x].end \notin Settles /\ req'[x].end \in Settles
    <3>1. x = r
      <4>1. x # r => req'[x].end = req[x].end
        BY <1>0, OtherMoves
      <4> QED BY <2>2, <4>1
    <3>2. Pauses(r) \/ Completes(r)
      <4>1. Claims(r) => req'[r].end = req[r].end
        BY <1>0, <3>1 DEF Claims, Sessions
      <4> QED BY <2>2, <3>1, <4>1, SelfMoves DEF Does, Enters, Proceeds, Settles
    <3>3. Open(x) /\ req[x].phase # "idle"
      BY <3>1, <3>2 DEF Pauses, Completes, Open
    <3> QED BY <1>0, <1>2, <3>3 DEF Good, EndpointOK
  <2> QED BY <2>1, <2>2
<1> QED BY <1>3, <1>4, <1>5 DEF ApprovalOK

LEMMA NewPause ==
  ASSUME Inv, NEW r \in Questions, Others(r), Does(r), NEW w \in Requests,
         req'[w].end = "paused", req[w].end # "paused"
  PROVE  w = r /\ Pauses(r)
<1>1. r \in Requests
  BY DEF Questions, Requests
<1>2. w = r
  BY <1>1, OtherMoves
<1>3. Claims(r) => req'[r].end = req[r].end
  <2>1. req[r] \in Sessions
    BY <1>1 DEF Inv, TypeOK
  <2> QED BY <2>1 DEF Claims, Sessions
<1> QED BY <1>2, <1>3, SelfMoves DEF Does, Enters, Proceeds

LEMMA AwaitedStep ==
  ASSUME Inv, PageOK, StreamsOK, ChainOK, AnswersInv, NEW r \in Questions, Next,
         Others(r), Does(r), NEW q \in Questions, Answers(q)' = Answers(q)
  PROVE  Awaited(q)'
<1> DEFINE Waiting == {"idle", "reading", "blocked"}
<1> SUFFICES ASSUME req'[q].end = "paused", \A x \in Answers(q) : req'[x].phase \in Waiting
             PROVE  db'[req'[q].turn].pending.by = q /\ lock'[req'[q].turn] = Nobody
  BY DEF Awaited
<1>0. /\ q \in Requests /\ r \in Requests /\ r # Nobody /\ q # Nobody /\ NoRow.by = Nobody
      /\ \A x \in Answers(q) : x \in Requests
  BY TurnsAssumption DEF Questions, Requests, Nobody, Answers, NoRow
<1>1. \A x \in Answers(q) : req[x].phase \in Waiting
  <2> SUFFICES ASSUME NEW x \in Answers(q) PROVE req[x].phase \in Waiting
    OBVIOUS
  <2>1. CASE x = r
    <3>1. req'[r].phase \in Waiting
      BY <2>1
    <3> QED BY <2>1, <3>1, SelfMoves DEF Does, Working
  <2>2. CASE x # r
    BY <1>0, <2>2, OtherMoves
  <2> QED BY <2>1, <2>2
<1>2. CASE req[q].end = "paused"
  <2>1. req'[q] = req[q] /\ req[q].phase = "closed"
    BY <1>0, <1>2, PausedStays
  <2>2. PICK t \in Submits : t = req[q].turn /\ q \in Chain(t)
    BY <2>1, TurnIs
  <2>3. db[t].pending.by = q /\ lock[t] = Nobody
    BY <1>1, <1>2, <2>2 DEF AnswersInv, Awaited
  <2>4. ~(Claims(r) /\ req[r].turn = t /\ req'[r].phase = "resuming")
    <3> SUFFICES ASSUME Claims(r), req[r].turn = t, req'[r].phase = "resuming" PROVE FALSE
      OBVIOUS
    <3>1. req[r].phase = "reading" /\ r # q
      BY <2>1 DEF Claims
    <3>2. r \in Chain(t)
      BY <3>1, TurnIs
    <3>3. r \in Answers(q)
      BY <1>1, <2>2, <3>1, <3>2, LastButOne
    <3> QED BY <3>3
  <2>5. Effects(r, t)
    BY Effect
  <2>6. db'[t].pending.by = q /\ lock'[t] = Nobody
    BY <1>0, <2>3, <2>4, <2>5 DEF Effects, Releases
  <2> QED BY <2>1, <2>2, <2>6
<1>3. CASE req[q].end # "paused"
  <2>1. q = r /\ Pauses(r)
    BY <1>0, <1>3, NewPause
  <2>2. Keeps(r) /\ req[r].phase # "idle"
    BY <1>0, <2>1, Frame DEF Inv, Pauses
  <2>3. PICK t \in Submits : t = req[r].turn /\ t = req'[r].turn
    BY <2>2, TurnIs DEF Keeps, Same
  <2>4. Effects(r, t) /\ RowOK(t)
    BY Effect DEF AnswersInv
  <2>5. ~Claims(r) /\ ~Completes(r) /\ ~GivesUp(r)
    BY <2>1, SelfMoves DEF Pauses, Claims, Completes, GivesUp
  <2>6. /\ Releases(r, t) /\ db'[t].pending.by = r
        /\ db[t].pending = NoRow \/ lock[t] = r
    BY <2>1, <2>3, <2>4, <2>5 DEF Effects
  <2> QED BY <2>1, <2>3, <2>4, <2>6 DEF RowOK, Releases
<1> QED BY <1>2, <1>3

LEMMA NewEnd ==
  ASSUME Inv, NEW r \in Questions, Others(r), Does(r), NEW w \in Requests,
         req'[w].end \in Settles, req[w].end \notin Settles
  PROVE  w = r /\ (Pauses(r) \/ Completes(r))
<1>1. r \in Requests
  BY DEF Questions, Requests
<1>2. w = r
  BY <1>1, OtherMoves
<1>3. Claims(r) => req'[r].end = req[r].end
  <2>1. req[r] \in Sessions
    BY <1>1 DEF Inv, TypeOK
  <2> QED BY <2>1 DEF Claims, Sessions
<1> QED BY <1>2, <1>3, SelfMoves DEF Does, Enters, Proceeds, Settles

LEMMA AnswerStep ==
  ASSUME Inv, PageOK, StreamsOK, ChainOK, AnswersInv, NEW r \in Questions, Bound(r),
         stream[r].state # "idle", Next, Others(r), Does(r), NEW x \in Approvals, AsBefore(x)
  PROVE  AnswerOK(x)'
<1> DEFINE q == stream[x].shown
<1>0. /\ AnswerOK(x) /\ ApprovalOK(x) /\ x \in Requests /\ x \in Questions /\ r \in Requests
      /\ Good(x) /\ Keeps(x) /\ req[x] \in Sessions /\ x # Nobody /\ r # Nobody
      /\ NoRow.by = Nobody /\ NoRow.by = "none" /\ AskedBy(req[x].read, req[x].turn)
      /\ stream'[x].shown = q /\ stream'[x].hasty = stream[x].hasty
      /\ q \in Questions \cup {Nobody}
  <2>1. /\ AnswerOK(x) /\ ApprovalOK(x)
        /\ stream'[x].shown = q /\ stream'[x].hasty = stream[x].hasty
    BY DEF AnswersInv, AsBefore
  <2>2. x \in Requests /\ x \in Questions /\ r \in Requests /\ x # Nobody /\ r # Nobody
    BY TurnsAssumption DEF Requests, Questions, Nobody
  <2>3. Good(x) /\ req[x] \in Sessions /\ AskedBy(req[x].read, req[x].turn)
    BY <2>2 DEF Inv, Good, TypeOK, RowsOK
  <2>4. Keeps(x)
    BY <2>2, Frame DEF Inv
  <2>5. stream[x] \in Streams
    BY <2>2 DEF PageOK
  <2> QED BY <2>1, <2>2, <2>3, <2>4, <2>5 DEF NoRow, Nobody, Streams
<1>1. req[x].phase # "idle" =>
        /\ req'[x].turn = req[x].turn /\ req'[x].read = req[x].read
        /\ req[x].turn \in Submits
  BY <1>0, TurnIs DEF Keeps, Same
<1>2. req[x].phase = "idle" =>
        /\ req[x].read = NoRow /\ req[x].end = "none"
        /\ req'[x] = req[x] \/ (x = r /\ Enters(r))
  <2>1. CASE x = r
    BY <1>0, <2>1, IdleIs DEF Does, Enters, Proceeds, Claims, Pauses, Completes, GivesUp, Open
  <2>2. CASE x # r
    BY <1>0, <2>2, IdleIs, OtherMoves
  <2> QED BY <2>1, <2>2
<1> HIDE DEF q
\* What it is on is committed, and nobody else answers it.
<1>3. ASSUME OnIt(x), req[x].phase # "idle"
      PROVE  /\ q \in Questions /\ req[q].end = "paused" /\ req[q].phase = "closed"
             /\ req[q].turn = req[x].turn /\ Answers(q) = {x}
             /\ q # Nobody /\ q # r
  <2>1. req[x].read # NoRow /\ req[x].read.by = q
    BY <1>3 DEF OnIt, q
  <2>2. q \in Questions
    BY <1>0, <2>1 DEF Sessions, Rows
  <2>3. req[q].end = "paused" /\ req[q].phase = "closed" /\ req[q].turn = req[x].turn
    BY <1>0, <2>1 DEF AskedBy
  <2>4. x \in Answers(q)
    BY DEF Answers, q
  <2>5. Answers(q) = {x}
    BY <2>2, <2>4, AnswersUnique
  <2>6. q # r
    BY <2>3 DEF Does, Enters, Proceeds, Claims, Pauses, Completes, GivesUp, Open
  <2>7. q # Nobody
    BY <2>2, TurnsAssumption DEF Questions, Nobody
  <2> QED BY <2>2, <2>3, <2>5, <2>6, <2>7
<1>4. ASSUME OnIt(x), req[x].phase \in {"reading", "blocked"}
      PROVE  db[req[x].turn].pending.by = q /\ lock[req[x].turn] = Nobody
  <2>1. /\ q \in Questions /\ req[q].end = "paused" /\ req[q].turn = req[x].turn
        /\ Answers(q) = {x}
    BY <1>3, <1>4
  <2>2. Awaited(q)
    BY <2>1 DEF AnswersInv
  <2> QED BY <1>4, <2>1, <2>2 DEF Awaited
<1>5. req'[x].read # NoRow => OnIt(x)' \/ (stream'[x].hasty /\ stream'[x].shown \in Approvals)
  <2>1. CASE req[x].phase # "idle" \/ req'[x] = req[x]
    BY <1>0, <1>1, <2>1 DEF AnswerOK, OnIt, q
  <2>2. CASE req[x].phase = "idle" /\ x = r /\ Enters(r) /\ req'[x].read # NoRow
    <3>1. ClickOK(x) /\ stream[x].state # "idle"
      BY <2>2 DEF ChainOK
    <3>2. PICK t \in Submits :
            /\ t = stream[x].asked /\ q \in Chain(t)
            /\ ~stream[x].hasty => req[q].end = "paused"
      BY <3>1 DEF ClickOK, q
    <3>3. q \in Questions /\ (q \in Submits => q = t) /\ (q \in Submits \/ q \in Approvals)
      BY <3>2, ChainType DEF Questions
    <3>4. req'[x].read = db[t].pending /\ db[t].pending # NoRow
      BY <2>2, <3>2, TurnsAssumption DEF Enters
    <3>5. CASE req[q].end = "paused"
      <4>1. x \in Answers(q)
        BY DEF Answers, q
      <4>2. Answers(q) = {x} /\ Awaited(q)
        BY <3>3, <4>1, AnswersUnique DEF AnswersInv
      <4>3. db[req[q].turn].pending.by = q
        BY <2>2, <3>5, <4>2 DEF Awaited
      <4>4. req[q].phase = "closed"
        BY <3>3, <3>5, PausedStays DEF Questions, Requests
      <4>5. req[q].turn = t
        BY <3>2, <3>3, <4>4, TurnIs
      <4> QED BY <1>0, <3>4, <4>3, <4>5 DEF OnIt
    <3>6. CASE req[q].end # "paused"
      <4>1. q \notin Submits
        BY <3>3, <3>4, <3>6 DEF AnswersInv, RowOK
      <4> QED BY <1>0, <3>2, <3>3, <3>6, <4>1
    <3> QED BY <3>5, <3>6
  <2> QED BY <1>2, <2>1, <2>2
<1>6. OnIt(x)' /\ req'[x].phase \in Holding =>
        lock'[req'[x].turn] = x /\ db'[req'[x].turn].pending.by = q
  <2> SUFFICES ASSUME OnIt(x)', req'[x].phase \in Holding
               PROVE  lock'[req'[x].turn] = x /\ db'[req'[x].turn].pending.by = q
    OBVIOUS
  <2>1. req[x].phase # "idle"
    BY <1>2, SelfMoves DEF Holding, Working
  <2>2. OnIt(x)
    BY <1>0, <1>1, <2>1 DEF OnIt, q
  <2>3. PICK t \in Submits : t = req[x].turn /\ req'[x].turn = t
    BY <1>1, <2>1
  <2>4. Effects(r, t)
    BY Effect
  <2>5. CASE req[x].phase \in Holding
    <3>1. lock[t] = x /\ db[t].pending.by = q /\ db[t].pending # NoRow
      BY <1>0, <1>3, <2>1, <2>2, <2>3, <2>5 DEF AnswerOK, q
    <3>2. x = r => ~Pauses(r) /\ ~Completes(r) /\ ~GivesUp(r)
      BY SelfMoves DEF Holding, Working
    <3> QED BY <1>0, <2>3, <2>4, <3>1, <3>2 DEF Effects, Releases
  <2>6. CASE req[x].phase \notin Holding
    <3>1. x = r
      <4>1. x # r => req[x].phase = "blocked"
        BY <1>0, <2>6, OtherMoves
      <4>2. x # r => lock[t] = Nobody /\ lock[t] # Nobody
        BY <1>0, <1>4, <2>2, <2>3, <4>1 DEF ApprovalOK
      <4> QED BY <4>2
    <3>2. Claims(r) /\ req'[r].phase = "resuming"
      <4>1. req[r].phase # "opened"
        BY <1>0, <3>1 DEF Good, EndpointOK
      <4> QED BY <2>6, <3>1, <4>1, SelfMoves
              DEF Does, Holding, Working, Enters, Proceeds, Claims, Pauses, Completes, GivesUp
    <3>3. db[t].pending.by = q /\ db[t].pending # NoRow
      <4>1. req[x].phase = "reading"
        BY <3>1, <3>2 DEF Claims
      <4> QED BY <1>0, <1>3, <1>4, <2>1, <2>2, <2>3, <4>1
    <3>4. [req[r] EXCEPT !.phase = "blocked"].phase = "blocked"
      BY <1>0, <3>1 DEF Sessions
    <3>5. lock' = [lock EXCEPT ![t] = r] /\ db' = db
      BY <2>3, <3>1, <3>2, <3>3, <3>4 DEF Claims
    <3> QED BY <2>3, <3>1, <3>3, <3>5 DEF Inv, TypeOK
  <2> QED BY <2>5, <2>6
<1>7. OnIt(x)' /\ req'[x].end \in Settles => db'[req'[x].turn].pending.by # q
  <2> SUFFICES ASSUME OnIt(x)', req'[x].end \in Settles
               PROVE  db'[req'[x].turn].pending.by # q
    OBVIOUS
  <2>1. req[x].phase # "idle"
    BY <1>2 DEF Enters, Settles
  <2>2. OnIt(x)
    BY <1>0, <1>1, <2>1 DEF OnIt, q
  <2>3. PICK t \in Submits : t = req[x].turn /\ req'[x].turn = t
    BY <1>1, <2>1
  <2>4. Effects(r, t) /\ q # r /\ q # Nobody
    BY <1>3, <2>1, <2>2, Effect
  <2>5. CASE req[x].end \in Settles
    <3>1. db[t].pending.by # q
      BY <1>0, <2>2, <2>3, <2>5 DEF AnswerOK, q
    <3> QED BY <1>0, <2>3, <2>4, <3>1 DEF Effects
  <2>6. CASE req[x].end \notin Settles
    <3>1. x = r /\ (Pauses(r) \/ Completes(r))
      BY <1>0, <2>6, NewEnd
    <3>2. req[x].phase \in Holding
      BY <3>1 DEF Pauses, Completes, Holding, Working
    <3>3. lock[t] = r
      BY <1>0, <2>2, <2>3, <3>1, <3>2 DEF AnswerOK
    <3>4. ~Claims(r) /\ ~GivesUp(r)
      BY <3>1, SelfMoves DEF Claims, Settles
    <3> QED BY <1>0, <2>3, <2>4, <3>1, <3>3, <3>4 DEF Effects
  <2> QED BY <2>5, <2>6
<1> QED BY <1>0, <1>5, <1>6, <1>7 DEF AnswerOK

LEMMA ConversationStep ==
  ASSUME Inv, PageOK, StreamsOK, ChainOK, AnswersInv, OneConversation, NEW r \in Questions,
         Next, Does(r), UNCHANGED pageVars, \A w \in Requests : AsBefore(w)
  PROVE  OneConversation'
<1>0. \A m \in Submits : m \in Requests
  BY DEF Requests
<1>1. \A t \in Submits : db[t].turn # "absent" => db'[t].turn # "absent"
  BY Effect DEF Effects
<1>2. ASSUME NEW w \in Requests, Wrote(stream'[w], "done")
      PROVE  db'[MessageOf(w)'].turn # "absent"
  <2>1. MessageOf(w)' = MessageOf(w)
    BY <1>2 DEF MessageOf, AsBefore
  <2>2. CASE Wrote(stream[w], "done")
    <3>1. stream[w].state # "idle" /\ w \notin Verifies
      BY <2>2, UnusedIs DEF StreamsOK, ReadingOK, ServedOK
    <3>2. MessageOf(w) \in Submits
      BY <3>1 DEF ChainOK, ClickOK, MessageOf, Requests
    <3> QED BY <1>1, <2>1, <2>2, <3>2 DEF OneConversation
  <2>3. CASE ~Wrote(stream[w], "done")
    <3>1. stream[w] \in Streams /\ ReadingOK(stream[w]) /\ "done" \in Event /\ r \in Requests
      BY DEF PageOK, StreamsOK, Event, Questions, Requests
    <3>2. ASSUME NEW e \in Event, Emit(r, e) PROVE w = r /\ e = "done"
      <4>1. w = r /\ stream'[w] = With(stream[w], e)
        BY <1>2, <2>3, <3>1, <3>2, Emitting
      <4> QED BY <1>2, <2>3, <3>1, <4>1, AppendWrites
    <3>3. stream' # stream
      BY <1>2, <2>3
    <3>4. w = r /\ Completes(r)
      BY <3>2, <3>3 DEF Does, Enters, Proceeds, Claims, Pauses, Completes, GivesUp, Event
    <3>5. req[r].turn \in Submits /\ req[r].turn = MessageOf(r)
      BY <3>4, TurnIs DEF Completes
    <3>6. Effects(r, req[r].turn)
      BY <3>5, Effect
    <3>7. ~Claims(r) /\ ~GivesUp(r)
      BY <3>4, SelfMoves DEF Claims, Completes
    <3> QED BY <2>1, <3>4, <3>5, <3>6, <3>7 DEF Effects
  <2> QED BY <2>2, <2>3
<1>3. ASSUME NEW m \in Submits, Alive(m)' PROVE Alive(m)
  <2> SUFFICES ASSUME db[m].turn = "absent", req[m].phase = "closed" PROVE FALSE
    BY DEF Alive
  <2>1. req'[m] = req[m]
    <3>1. Keeps(m)
      BY <1>0, Frame DEF Inv
    <3> QED BY <3>1 DEF Keeps
  <2>2. Effects(r, m)
    BY Effect
  <2>3. ASSUME Pauses(r) \/ Completes(r), req[r].turn = m PROVE FALSE
    <3>1. Open(r) /\ req[r].phase # "idle" /\ req[r].phase # "closed"
      BY <2>3 DEF Pauses, Completes, Open
    <3>2. r \in Approvals
      <4>1. r \in Submits => r = m
        BY <2>3, <3>1, TurnIs
      <4> QED BY <3>1, <4>1 DEF Questions
    <3>3. req[m].end = "paused"
      BY <2>3, <3>1, <3>2 DEF AnswersInv, ApprovalOK
    <3> QED BY <3>3 DEF AnswersInv, RowOK
  <2>4. db'[m].turn = "absent"
    BY <2>2, <2>3 DEF Effects
  <2> QED BY <1>3, <2>1, <2>4 DEF Alive
<1>4. \A m \in Submits : ConversationOf(m)' = ConversationOf(m)
  BY <1>0 DEF ConversationOf, AsBefore
<1>5. /\ messages' = messages /\ early' = early /\ finished' = finished
      /\ conversationId' = conversationId /\ messages \subseteq Submits /\ finished \subseteq Submits
  BY DEF pageVars, PageOK
<1>6. \A m \in finished' : stream'[m].state # "idle"
  BY <1>0, <1>5 DEF OneConversation, AsBefore
<1>7. messages' \cap early' = {} =>
        /\ \A m, n \in messages' : Alive(m)' /\ Alive(n)' => ConversationOf(m)' = ConversationOf(n)'
        /\ \A m \in messages' : Alive(m)' /\ m \in finished' => ConversationOf(m)' = conversationId'
  BY <1>3, <1>4, <1>5 DEF OneConversation
<1> QED BY <1>2, <1>6, <1>7 DEF OneConversation

-----------------------------------------------------------------------------
(* A step of the server, and its death, keep the invariant.                *)

LEMMA StreamsType ==
  ASSUME PageOK, NEW r \in Requests, Does(r)
  PROVE  stream' \in [Requests -> Streams]
<1>1. stream \in [Requests -> Streams]
  BY DEF PageOK
<1>2. ASSUME NEW e \in Event, Emit(r, e) PROVE stream' \in [Requests -> Streams]
  <2>1. With(stream[r], e) \in Streams
    BY <1>1, AppendsIs
  <2>2. stream' = stream \/ stream' = [stream EXCEPT ![r] = With(stream[r], e)]
    BY <1>1, <1>2 DEF Emit, With
  <2> QED BY <1>1, <2>1, <2>2
<1>3. stream' = stream \/ \E e \in Event : Emit(r, e)
  BY DEF Does, Enters, Proceeds, Claims, Pauses, Completes, GivesUp, Event
<1> QED BY <1>1, <1>2, <1>3

LEMMA AsksFor ==
  ASSUME PageOK, StreamsOK, ChainOK, NEW r \in Requests, stream[r].state # "idle"
  PROVE  /\ r \in Questions /\ Bound(r) /\ MessageOf(r) \in Submits
         /\ stream[r].state = "open" => MessageOf(r) \in messages
         /\ r \in Chain(MessageOf(r))
<1>1. r \in Questions
  BY DEF StreamsOK, ServedOK, Questions, Requests
<1>2. r \in Approvals => stream[r].asked \in Submits /\ stream[r].yes \in BOOLEAN
  BY DEF ChainOK, ClickOK, PageOK, Streams
<1>3. r \in Approvals => r \notin Submits
  BY TurnsAssumption
<1> QED BY <1>1, <1>2, <1>3 DEF Bound, MessageOf, Chain, ChainOK, Questions

LEMMA ServerStep ==
  ASSUME ChatInv, NEW r \in Requests, stream[r].state # "idle",
         Serve(r) \/ (Raise(r) /\ EmitError(r)), UNCHANGED pageVars
  PROVE  ChatInv'
<1>0. Inv /\ PageOK /\ StreamsOK /\ ChainOK /\ AnswersInv /\ OneConversation
  BY DEF ChatInv
<1>1. r \in Questions /\ Bound(r)
  BY <1>0, AsksFor
<1>2. Next /\ Others(r) /\ Does(r)
  BY <1>0, <1>1, Serving
<1>3. Inv'
  BY <1>0, <1>2, InvStep
<1>4. ASSUME NEW w \in Requests
      PROVE  /\ AsBefore(w) /\ ReadingOK(stream'[w]) /\ SeenOK(stream'[w])
             /\ w # r => stream'[w] = stream[w]
  <2>1. Alike(w) /\ (w # r => stream'[w] = stream[w])
    BY <1>0, <1>2, Writing
  <2>2. stream[w] \in Streams /\ ReadingOK(stream[w]) /\ SeenOK(stream[w])
    BY <1>0 DEF PageOK, StreamsOK
  <2> QED BY <2>1, <2>2, AlikeKeeps DEF AsBefore
<1>5. PageOK'
  BY <1>0, <1>2, StreamsType DEF PageOK, pageVars
<1>6. \A w \in Requests : ServedOK(w)'
  BY <1>0, <1>1, <1>2, <1>4, ServedSelf, ServedOthers DEF StreamsOK
<1>7. StreamsOK'
  BY <1>4, <1>6 DEF StreamsOK
<1>8. ChainOK' /\ \A q \in Questions : Answers(q)' = Answers(q)
  <2>1. \A w \in Requests : Shown(w)' <=> Shown(w)
    BY <1>0, <1>1, <1>2, ShownKept
  <2>2. \A w \in Requests : req[w].end = "paused" => req'[w].end = "paused"
    BY <1>0, <1>2, PausedStays
  <2> QED BY <1>0, <1>4, <2>1, <2>2, ChainFrame
<1>9. AnswersInv'
  <2>1. \A t \in Submits : RowOK(t)'
    BY <1>0, <1>1, <1>2, RowStep
  <2>2. ASSUME NEW x \in Approvals PROVE ApprovalOK(x)' /\ AnswerOK(x)'
    <3>1. AsBefore(x)
      BY <1>4 DEF Requests
    <3> QED BY <1>0, <1>1, <1>2, <3>1, ApprovalStep, AnswerStep
  <2>3. \A q \in Questions : Awaited(q)'
    BY <1>0, <1>1, <1>2, <1>8, AwaitedStep
  <2> QED BY <2>1, <2>2, <2>3 DEF AnswersInv
<1>10. OneConversation'
  BY <1>0, <1>1, <1>2, <1>4, ConversationStep
<1> QED BY <1>3, <1>5, <1>7, <1>8, <1>9, <1>10 DEF ChatInv

LEMMA CrashStep ==
  ASSUME ChatInv, Crash, UNCHANGED <<pageVars, stream>>
  PROVE  ChatInv'
<1>0. Inv /\ PageOK /\ StreamsOK /\ ChainOK /\ AnswersInv /\ OneConversation
  BY DEF ChatInv
<1>1. Inv'
  BY <1>0, InvStep DEF Next
<1>2. ASSUME NEW w \in Requests
      PROVE  /\ req'[w].turn = req[w].turn /\ req'[w].read = req[w].read
             /\ Open(w) => req'[w].phase = "closed" /\ req'[w].end = "gone"
             /\ ~Open(w) => req'[w] = req[w]
             /\ ~Open(w)' /\ (Open(w)' <=> req'[w].phase \notin {"idle", "closed"})
             /\ req[w].phase \in {"idle", "closed"} <=> ~Open(w)
             /\ req[w].end = "paused" => req'[w].end = "paused"
  <2>1. req[w] \in Sessions /\ req'[w] = IF Open(w) THEN Ended(w, "gone") ELSE req[w]
    BY <1>0, Crashing DEF Inv, TypeOK
  <2>2. /\ Ended(w, "gone").phase = "closed" /\ Ended(w, "gone").end = "gone"
        /\ Ended(w, "gone").turn = req[w].turn /\ Ended(w, "gone").read = req[w].read
    BY <2>1 DEF Ended, Sessions
  <2>3. req[w].end = "paused" => ~Open(w)
    BY <1>0, PausedStays DEF Open
  <2> QED BY <2>1, <2>2, <2>3 DEF Open
<1>3. db' = db /\ \A t \in Submits : lock'[t] = Nobody
  BY DEF Crash
<1>4. PageOK'
  BY <1>0 DEF PageOK, pageVars
<1>5. StreamsOK'
  <2> SUFFICES ASSUME NEW w \in Requests PROVE ServedOK(w)'
    BY <1>0 DEF StreamsOK
  <2>1. ServedOK(w) /\ stream'[w] = stream[w]
    BY <1>0 DEF StreamsOK
  <2>2. CASE Open(w)
    BY <1>2, <2>1, <2>2 DEF ServedOK, AsksOK, EndOK, WellEnded, Open
  <2>3. CASE ~Open(w)
    BY <1>2, <2>1, <2>3 DEF ServedOK, AsksOK, EndOK, WellEnded, Open
  <2> QED BY <2>2, <2>3
<1>6. ChainOK' /\ \A q \in Questions : Answers(q)' = Answers(q)
  <2>1. \A w \in Requests : AsBefore(w) /\ (Shown(w)' <=> Shown(w))
    BY DEF AsBefore, Shown
  <2> QED BY <1>0, <1>2, <2>1, ChainFrame
<1>7. AnswersInv'
  <2>0. \A x : x \in Submits \/ x \in Approvals \/ x \in Questions => x \in Requests
    BY DEF Questions, Requests
  <2>1. ASSUME NEW t \in Submits PROVE RowOK(t)'
    <3>1. RowOK(t) /\ (req'[t].end = "paused" => req[t].end = "paused")
      BY <1>0, <1>2, <2>0 DEF AnswersInv
    <3> QED BY <1>2, <1>3, <2>0, <3>1 DEF RowOK
  <2>2. ASSUME NEW x \in Approvals PROVE ApprovalOK(x)' /\ AnswerOK(x)'
    <3>1. ApprovalOK(x) /\ AnswerOK(x) /\ x \in Requests
      BY <1>0, <2>0 DEF AnswersInv
    <3>2. req'[x].end \in Settles => req[x].end \in Settles
      BY <1>2, <3>1 DEF Settles
    <3>3. OnIt(x)' <=> OnIt(x)
      BY <1>2, <3>1 DEF OnIt
    <3>4. req'[x].phase \in {"idle", "closed"}
      BY <1>2, <3>1
    <3> QED BY <1>2, <1>3, <3>1, <3>2, <3>3, <3>4 DEF ApprovalOK, AnswerOK, Holding, Working
  <2>3. ASSUME NEW q \in Questions PROVE Awaited(q)'
    <3>1. Awaited(q) /\ q \in Requests /\ Answers(q)' = Answers(q)
      BY <1>0, <1>6, <2>0 DEF AnswersInv
    <3>2. \A x \in Answers(q) : req'[x].phase \in {"idle", "reading", "blocked"} =>
            req[x].phase \in {"idle", "reading", "blocked"}
      BY <1>2, <2>0 DEF Answers
    <3>3. req'[q].end = "paused" => req[q].end = "paused" /\ req[q].turn \in Submits
      <4>1. req'[q].end = "paused" => req[q].end = "paused"
        BY <1>2, <3>1
      <4>2. req[q].end = "paused" => req[q].turn \in Submits
        BY <1>0, <3>1, PausedStays, TurnIs
      <4> QED BY <4>1, <4>2
    <3> QED BY <1>2, <1>3, <3>1, <3>2, <3>3 DEF Awaited
  <2> QED BY <2>1, <2>2, <2>3 DEF AnswersInv
<1>8. OneConversation'
  <2>1. \A m \in Submits : (Alive(m)' => Alive(m)) /\ ConversationOf(m)' = ConversationOf(m)
    BY <1>2, <1>3 DEF Alive, ConversationOf, Requests
  <2>2. \A w \in Requests : MessageOf(w)' = MessageOf(w) /\ stream'[w] = stream[w]
    BY DEF MessageOf
  <2>3. messages \subseteq Submits
    BY <1>0 DEF PageOK
  <2> QED BY <1>0, <1>3, <2>1, <2>2, <2>3 DEF OneConversation, pageVars
<1> QED BY <1>1, <1>4, <1>5, <1>6, <1>7, <1>8 DEF ChatInv

-----------------------------------------------------------------------------
(* The page's steps, which leave the server alone.                         *)

\* Handlers set up a stream that has not been used: a message or an answer.
LEMMA AnswersFrame ==
  ASSUME Inv, AnswersInv, UNCHANGED vars,
         \A x \in Approvals :
           \/ stream'[x].shown = stream[x].shown /\ stream'[x].hasty = stream[x].hasty
           \/ req[x].phase = "idle" /\ stream[x].shown = Nobody
  PROVE  AnswersInv'
<1>0. req' = req /\ db' = db /\ lock' = lock
  BY DEF vars
<1>1. \A t \in Submits : RowOK(t)'
  BY <1>0 DEF AnswersInv, RowOK
<1>2. ASSUME NEW x \in Approvals PROVE ApprovalOK(x)' /\ AnswerOK(x)'
  <2>1. ApprovalOK(x) /\ AnswerOK(x) /\ Good(x)
    BY DEF AnswersInv, Inv, Good, Requests
  <2>2. ApprovalOK(x)'
    BY <1>0, <2>1 DEF ApprovalOK, Open
  <2>3. req[x].phase = "idle" => req[x].read = NoRow
    BY <2>1, IdleIs DEF Requests
  <2>4. AnswerOK(x)'
    BY <1>0, <2>1, <2>3 DEF AnswerOK, OnIt
  <2> QED BY <2>2, <2>4
<1>3. ASSUME NEW q \in Questions PROVE Awaited(q)'
  <2>1. Awaited(q) /\ q # Nobody
    BY TurnsAssumption DEF AnswersInv, Questions, Nobody
  <2>2. Answers(q) \subseteq Answers(q)'
    BY <2>1 DEF Answers
  <2> QED BY <1>0, <2>1, <2>2 DEF Awaited
<1> QED BY <1>1, <1>2, <1>3 DEF AnswersInv

\* A stream that is opened, and one that fails.
Opening(w) ==
  /\ stream[w].state = "idle" /\ stream'[w] \in Streams /\ stream'[w].state = "open"
  /\ stream'[w].sent = <<>> /\ stream'[w].at = 0 /\ stream'[w].buffer = <<>>
  /\ stream'[w].seen = <<>> /\ stream'[w].cuts = {}
Failing(w) ==
  stream[w].state = "open" /\ stream'[w] = [stream[w] EXCEPT !.state = "failed"]

LEMMA OpeningKeeps ==
  ASSUME Inv, PageOK, StreamsOK, UNCHANGED vars, NEW w \in Questions, Opening(w)
  PROVE  /\ ReadingOK(stream'[w]) /\ SeenOK(stream'[w]) /\ ServedOK(w)'
         /\ ~Wrote(stream'[w], "done") /\ ~Shown(w)' /\ stream[w] = Unused
<1> DEFINE s == stream'[w]
<1>0. /\ w \in Requests /\ req' = req /\ s.sent = <<>> /\ s.at = 0 /\ s.buffer = <<>>
      /\ s.seen = <<>> /\ s.cuts = {} /\ s.state = "open" /\ stream[w] = Unused
  BY DEF vars, Opening, Questions, Requests, StreamsOK, ReadingOK
<1>1. req[w].phase = "idle" /\ req[w].end = "none" /\ w \notin Verifies
  <2>1. Good(w) /\ ServedOK(w)
    BY <1>0 DEF Inv, StreamsOK, Good
  <2> QED BY <1>0, <2>1, IdleIs, TurnsAssumption DEF ServedOK, Opening, Questions
<1> HIDE DEF s
<1>2. TakenIn(s) = 0 /\ \A e : ~Wrote(s, e)
  <2>1. Len(<<>>) = 0 /\ DOMAIN <<>> = {}
    OBVIOUS
  <2>2. TakenIn(s) = 0
    <3>1. TakenIn(s) = s.at - Len(s.buffer)
      BY DEF TakenIn
    <3>2. s.at = 0 /\ Len(s.buffer) = 0
      BY <1>0, <2>1
    <3>3. \A a, b : a = 0 /\ b = 0 => a - b = 0
      OBVIOUS
    <3> QED BY <3>1, <3>2, <3>3
  <2>3. \A e : ~Wrote(s, e)
    BY <1>0, <2>1 DEF Wrote
  <2> QED BY <2>2, <2>3
<1>3. ReadingOK(s)
  BY <1>0 DEF ReadingOK
<1>4. SeenOK(s)
  <2>1. LostBy(s) = {}
    BY <1>0 DEF LostBy
  <2>2. Cardinality(Whole({}, 0)) = 0
    <3>1. Whole({}, 0) = {}
      BY DEF Whole
    <3> QED BY <3>1, FS_EmptySet
  <2>3. SeenTo(s.sent, s.seen, LostBy(s), TakenIn(s))
    BY <1>0, <1>2, <2>1, <2>2 DEF SeenTo
  <2> QED BY <1>0, <1>2, <2>3 DEF SeenOK
<1>5. ServedOK(w)'
  <2>1. Once(s)
    BY <1>0 DEF Once
  <2> QED BY <1>0, <1>1, <1>2, <2>1 DEF ServedOK, AsksOK, EndOK, WellEnded, Open, s
<1> QED BY <1>0, <1>2, <1>3, <1>4, <1>5 DEF s, Shown

LEMMA FailingKeeps ==
  ASSUME PageOK, StreamsOK, UNCHANGED vars, NEW w \in Requests, Failing(w)
  PROVE  /\ stream'[w] \in Streams /\ ReadingOK(stream'[w]) /\ SeenOK(stream'[w])
         /\ ServedOK(w)' /\ stream'[w].state = "failed" /\ stream'[w].sent = stream[w].sent
         /\ stream'[w].asked = stream[w].asked /\ stream'[w].shown = stream[w].shown
         /\ stream'[w].hasty = stream[w].hasty
         /\ Shown(w)' <=> Shown(w)
<1> DEFINE s == stream[w]  left == stream'[w]
<1>1. /\ s \in Streams /\ ReadingOK(s) /\ SeenOK(s) /\ ServedOK(w) /\ s.state = "open"
      /\ req' = req
  BY DEF PageOK, StreamsOK, Failing, vars
<1>2. /\ left \in Streams /\ left.state = "failed" /\ left.sent = s.sent /\ left.at = s.at
      /\ left.buffer = s.buffer /\ left.seen = s.seen /\ left.cuts = s.cuts
      /\ left.asked = s.asked /\ left.shown = s.shown /\ left.hasty = s.hasty
  BY <1>1 DEF Failing, Streams
<1> HIDE DEF s, left
<1>3. TakenIn(left) = TakenIn(s) /\ LostBy(left) = LostBy(s)
  BY <1>2 DEF TakenIn, LostBy
<1>4. ReadingOK(left) /\ SeenOK(left)
  BY <1>1, <1>2, <1>3 DEF ReadingOK, SeenOK
<1>5. /\ \A e : Wrote(left, e) <=> Wrote(s, e)
      /\ \A e : Coming(left, e) <=> Coming(s, e)
      /\ Once(s) => Once(left)
  BY <1>2, <1>3 DEF Wrote, Coming, Once
<1>6. ServedOK(w)'
  BY <1>1, <1>2, <1>5 DEF ServedOK, AsksOK, EndOK, WellEnded, Open, s, left
<1> QED BY <1>2, <1>4, <1>5, <1>6 DEF s, left, Shown

LEMMA SendStep ==
  ASSUME ChatInv, NEW r \in Submits, Send(r)
  PROVE  ChatInv'
<1>0. /\ Inv /\ PageOK /\ StreamsOK /\ ChainOK /\ AnswersInv /\ OneConversation
      /\ r \in Requests /\ r \in Questions /\ r \notin Approvals /\ UNCHANGED vars
  BY TurnsAssumption DEF ChatInv, Requests, Questions, Send
<1>1. stream[r] = Unused /\ stream \in [Requests -> Streams]
  BY <1>0 DEF Send, StreamsOK, ReadingOK, PageOK
<1>2. /\ stream'[r] = [Unused EXCEPT !.state = "open", !.asked = conversationId]
      /\ \A w \in Requests : w # r => stream'[w] = stream[w]
      /\ stream' = [w \in Requests |-> stream'[w]]
  BY <1>0, <1>1 DEF Send
<1>3. /\ stream'[r].state = "open" /\ stream'[r].asked = conversationId
      /\ stream'[r].sent = <<>> /\ stream'[r].at = 0 /\ stream'[r].buffer = <<>>
      /\ stream'[r].seen = <<>> /\ stream'[r].cuts = {}
      /\ stream'[r].yes = FALSE /\ stream'[r].shown = Nobody /\ stream'[r].hasty = FALSE
      /\ stream'[r] = [state |-> "open", sent |-> <<>>, at |-> 0, buffer |-> <<>>,
           seen |-> <<>>, cuts |-> {}, asked |-> conversationId, yes |-> FALSE,
           shown |-> Nobody, hasty |-> FALSE]
  BY <1>2 DEF Unused
<1>4. stream'[r] \in Streams
  BY <1>0, <1>3 DEF Streams, PageOK
<1>5. /\ Opening(r) /\ r \notin messages /\ r \notin finished
      /\ messages' = messages \cup {r} /\ UNCHANGED <<card, responding, conversationId, finished>>
      /\ \A m \in messages : m # r /\ m \in Requests /\ m \in Submits
  BY <1>0, <1>1, <1>3, <1>4 DEF Opening, Send, ChainOK, OneConversation, PageOK, Requests
<1>6. /\ ReadingOK(stream'[r]) /\ SeenOK(stream'[r]) /\ ServedOK(r)'
      /\ ~Wrote(stream'[r], "done") /\ ~Shown(r)'
  BY <1>0, <1>5, OpeningKeeps
<1>7. PageOK'
  <2>1. stream' \in [Requests -> Streams]
    <3>1. \A w \in Requests : stream'[w] \in Streams
      BY <1>1, <1>2, <1>4
    <3> QED BY <1>2, <3>1
  <2> QED BY <1>0, <2>1 DEF PageOK, Send
<1>8. StreamsOK'
  <2>1. ASSUME NEW w \in Requests, w # r
        PROVE  ReadingOK(stream'[w]) /\ SeenOK(stream'[w]) /\ ServedOK(w)'
    <3>1. stream'[w] = stream[w] /\ req' = req
      BY <1>0, <1>2, <2>1 DEF vars
    <3> QED BY <1>0, <3>1 DEF StreamsOK, ServedOK, AsksOK, EndOK, WellEnded, Open
  <2> QED BY <1>6, <2>1 DEF StreamsOK
<1>9. /\ \A m \in Submits : Chain(m)' = Chain(m)
      /\ \A q \in Questions : Answers(q)' = Answers(q)
      /\ \A w \in Requests : Shown(w)' <=> Shown(w)
      /\ \A x \in Approvals : x # r /\ x \in Requests /\ stream'[x] = stream[x]
  <2>1. \A x \in Approvals : x # r /\ x \in Requests /\ stream'[x] = stream[x]
    BY <1>0, <1>2 DEF Requests
  <2>2. ~Shown(r)
    BY <1>1, UnusedIs DEF Shown
  <2>3. \A w \in Requests : w # r => (Shown(w)' <=> Shown(w))
    BY <1>2 DEF Shown
  <2> QED BY <1>6, <2>1, <2>2, <2>3 DEF Chain, Answers
<1>10. ChainOK'
  <2>1. ASSUME NEW x \in Approvals PROVE ClickOK(x)'
    <3>1. ClickOK(x) /\ stream'[x] = stream[x] /\ req' = req /\ responding' = responding
      BY <1>0, <1>5, <1>9 DEF ChainOK, vars
    <3> SUFFICES ASSUME stream[x].state # "idle" PROVE ClickOK(x)'
      BY <3>1 DEF ClickOK
    <3>2. PICK m, q :
            /\ m = stream[x].asked /\ q = stream[x].shown
            /\ m \in Submits /\ stream[m].state # "idle" /\ q \in Chain(m) /\ Shown(q)
            /\ ~stream[x].hasty => req[q].end = "paused"
            /\ stream[x].hasty /\ q \in Approvals => stream[q].state = "failed"
            /\ stream[x].state = "open" => m \in responding
      BY <3>1 DEF ClickOK
    <3>3. m \in Requests /\ q \in Requests /\ Chain(m)' = Chain(m) /\ Shown(q)'
      BY <1>9, <3>2, ChainType DEF Requests
    <3>4. stream'[m].state # "idle" /\ (q \in Approvals => stream'[q] = stream[q])
      BY <1>2, <1>3, <1>9, <3>2, <3>3
    <3> QED BY <3>1, <3>2, <3>3, <3>4 DEF ClickOK
  <2>2. \A w \in Requests : stream'[w].state = "open" => MessageOf(w)' \in messages'
    <3> SUFFICES ASSUME NEW w \in Requests, stream'[w].state = "open"
                 PROVE  MessageOf(w)' \in messages'
      OBVIOUS
    <3>1. CASE w = r
      BY <1>5, <3>1 DEF MessageOf
    <3>2. CASE w # r
      BY <1>0, <1>2, <1>5, <3>2 DEF MessageOf, ChainOK
    <3> QED BY <3>1, <3>2
  <2>3. ASSUME NEW m \in messages', NEW q \in Chain(m)', Shown(q)', Answers(q)' = {},
               stream'[q].state \in {"open", "ended"}, stream'[q].cuts = {}
        PROVE  card'[m] = q
    <3>1. m \in Submits /\ q \in Chain(m) /\ q \in Questions /\ q \in Requests /\ Shown(q)
          /\ Answers(q) = {} /\ q # r
      <4>1. m \in Submits
        BY <1>5, <2>3
      <4>2. q \in Chain(m)
        BY <1>9, <2>3, <4>1
      <4> QED BY <1>6, <1>9, <2>3, <4>1, <4>2, ChainType
    <3>2. CASE m = r
      <4>1. q \in Approvals /\ stream[q].asked = r
        BY <3>1, <3>2 DEF Chain
      <4>2. stream[q].state # "idle"
        BY <1>0, <3>1, ShownIs
      <4>3. stream[r].state # "idle"
        BY <1>0, <4>1, <4>2 DEF ChainOK, ClickOK
      <4> QED BY <1>1, <4>3, UnusedIs
    <3>3. CASE m # r
      <4>1. m \in messages /\ stream'[q] = stream[q]
        BY <1>2, <1>5, <3>1, <3>3
      <4> QED BY <1>0, <1>5, <2>3, <3>1, <4>1 DEF ChainOK
    <3> QED BY <3>2, <3>3
  <2>4. ASSUME NEW m \in Submits, card'[m] # Nobody
        PROVE  (card[m] \in Chain(m) /\ Answers(card[m]) = {} /\ Shown(card[m]))'
    <3>1. PICK q : q = card[m] /\ q = card'[m]
      BY <1>5
    <3>2. q \in Chain(m) /\ Answers(q) = {} /\ Shown(q)
      BY <1>0, <2>4, <3>1 DEF ChainOK
    <3>2a. q \in Requests /\ q \in Questions
      BY <3>2, ChainType
    <3>3. q \in Chain(m)' /\ Answers(q)' = {} /\ Shown(q)'
      BY <1>9, <3>2, <3>2a
    <3> QED BY <3>1, <3>3 DEF Answers, Shown
  <2>5. \A m \in Submits : \A y, z \in Chain(m)' :
          Answers(y)' = {} /\ Answers(z)' = {} => y = z
    BY <1>0, <1>9, ChainType DEF ChainOK
  <2>6. \A m \in messages' : stream'[m].state # "idle"
    BY <1>0, <1>2, <1>3, <1>5 DEF ChainOK
  <2>7. /\ \A x, y \in Approvals :
             stream'[x].state # "idle" /\ stream'[x].shown = stream'[y].shown => x = y
        /\ \A x, y \in Approvals : stream'[x].state = "open" /\ stream'[y].state = "open"
             /\ stream'[x].asked = stream'[y].asked => x = y
    BY <1>0, <1>9 DEF ChainOK
  <2> QED BY <2>1, <2>2, <2>3, <2>4, <2>5, <2>6, <2>7 DEF ChainOK
<1>11. AnswersInv'
  BY <1>0, <1>9, AnswersFrame
<1>12. OneConversation'
  <2>1. \A w \in Requests : Wrote(stream'[w], "done") => db'[MessageOf(w)'].turn # "absent"
    BY <1>0, <1>2, <1>6 DEF OneConversation, MessageOf, vars
  <2>2. \A m \in finished' : stream'[m].state # "idle"
    BY <1>0, <1>2, <1>5 DEF OneConversation, PageOK, Requests
  <2>3. \A m \in Submits : (Alive(m)' <=> Alive(m)) /\
          (m # r => ConversationOf(m)' = ConversationOf(m)) /\ ConversationOf(m) # Nobody
    BY <1>0, <1>2, TurnsAssumption DEF Alive, ConversationOf, vars, Requests, Nobody
  <2>4. ConversationOf(r)' = IF conversationId = Nobody THEN r ELSE conversationId
    BY <1>3 DEF ConversationOf
  <2>5. ASSUME messages' \cap early' = {}
        PROVE  /\ messages \cap early = {}
               /\ \A m \in messages : Alive(m) => ConversationOf(m) = conversationId
    <3>1. r \notin early'
      BY <1>5, <2>5
    <3>2. ~(\E m \in messages : Unfinished(m)) /\ early' = early
      BY <3>1 DEF Send
    <3>3. messages \cap early = {}
      BY <1>5, <2>5, <3>2
    <3> QED BY <1>0, <3>2, <3>3 DEF OneConversation, Alive, Unfinished
  <2>6. ASSUME messages' \cap early' = {}, NEW m \in messages', NEW n \in messages',
               Alive(m)', Alive(n)'
        PROVE  ConversationOf(m)' = ConversationOf(n)'
    <3>1. \A k \in messages : Alive(k)' =>
            ConversationOf(k)' = conversationId /\ conversationId # Nobody
      BY <1>5, <2>3, <2>5, <2>6
    <3> QED BY <1>5, <2>4, <2>6, <3>1
  <2>7. ASSUME messages' \cap early' = {}, NEW m \in messages', Alive(m)', m \in finished'
        PROVE  ConversationOf(m)' = conversationId'
    BY <1>5, <2>3, <2>5, <2>7
  <2> QED BY <2>1, <2>2, <2>6, <2>7 DEF OneConversation
<1>13. Inv'
  BY <1>0, InvStep
<1> QED BY <1>7, <1>8, <1>10, <1>11, <1>12, <1>13 DEF ChatInv

LEMMA ClickStep ==
  ASSUME ChatInv, NEW r \in Approvals, NEW m \in Submits, NEW yes \in BOOLEAN, Answer(r, m, yes)
  PROVE  ChatInv'
<1>0. /\ Inv /\ PageOK /\ StreamsOK /\ ChainOK /\ AnswersInv /\ OneConversation
      /\ r \in Requests /\ r \in Questions /\ r \notin Submits /\ UNCHANGED vars
      /\ Click(r, m, yes)
  BY TurnsAssumption DEF ChatInv, Requests, Questions, Answer
<1>1. stream[r] = Unused /\ stream \in [Requests -> Streams] /\ req[r].phase = "idle"
  BY <1>0 DEF Click, StreamsOK, ReadingOK, ServedOK, PageOK
<1>2. PICK q \in Questions, hasty \in BOOLEAN :
        q = card[m] /\ (hasty <=> req[card[m]].end # "paused")
        /\ hasty = (req[card[m]].end # "paused")
  BY <1>0 DEF PageOK, Click
<1>3. /\ stream'[r] = [Unused EXCEPT !.state = "open", !.asked = m, !.yes = yes,
                         !.shown = q, !.hasty = hasty]
      /\ \A w \in Requests : w # r => stream'[w] = stream[w]
      /\ stream' = [w \in Requests |-> stream'[w]]
  BY <1>0, <1>1, <1>2 DEF Click
<1>4. /\ stream'[r].state = "open" /\ stream'[r].asked = m
      /\ stream'[r].sent = <<>> /\ stream'[r].at = 0 /\ stream'[r].buffer = <<>>
      /\ stream'[r].seen = <<>> /\ stream'[r].cuts = {}
      /\ stream'[r].shown = q /\ stream'[r].hasty = hasty
      /\ stream'[r] = [state |-> "open", sent |-> <<>>, at |-> 0, buffer |-> <<>>,
           seen |-> <<>>, cuts |-> {}, asked |-> m, yes |-> yes,
           shown |-> q, hasty |-> hasty]
  BY <1>3 DEF Unused
<1>5. stream'[r] \in Streams
  BY <1>0, <1>4 DEF Streams
<1>6. /\ Opening(r) /\ m \in messages /\ m \notin responding /\ messages' = messages
      /\ responding' = responding \cup {m} /\ UNCHANGED <<conversationId, finished, early>>
      /\ card' = [card EXCEPT ![m] = Nobody] /\ card \in [Submits -> Questions \cup {Nobody}]
  BY <1>0, <1>1, <1>4, <1>5 DEF Opening, Answer, Click, PageOK
<1>7. /\ ReadingOK(stream'[r]) /\ SeenOK(stream'[r]) /\ ServedOK(r)'
      /\ ~Wrote(stream'[r], "done") /\ ~Shown(r)'
  BY <1>0, <1>6, OpeningKeeps
<1>8. PageOK'
  <2>1. stream' \in [Requests -> Streams]
    <3>1. \A w \in Requests : stream'[w] \in Streams
      BY <1>1, <1>3, <1>5
    <3> QED BY <1>3, <3>1
  <2>2. card' \in [Submits -> Questions \cup {Nobody}] /\ responding' \subseteq Submits
    BY <1>0, <1>6 DEF PageOK
  <2> QED BY <1>0, <1>6, <2>1, <2>2 DEF PageOK, Click
<1>9. StreamsOK'
  <2>1. ASSUME NEW w \in Requests, w # r
        PROVE  ReadingOK(stream'[w]) /\ SeenOK(stream'[w]) /\ ServedOK(w)'
    <3>1. stream'[w] = stream[w] /\ req' = req
      BY <1>0, <1>3, <2>1 DEF vars
    <3> QED BY <1>0, <3>1 DEF StreamsOK, ServedOK, AsksOK, EndOK, WellEnded, Open
  <2> QED BY <1>7, <2>1 DEF StreamsOK
\* The question on the card was the last of its message, and r is now.
<1>10. /\ q \in Chain(m) /\ Answers(q) = {} /\ Shown(q) /\ q # Nobody /\ q # r
       /\ ~Shown(r) /\ Answers(r) = {}
  <2>1. q # Nobody
    BY TurnsAssumption DEF Questions, Nobody
  <2>2. q \in Chain(m) /\ Answers(q) = {} /\ Shown(q)
    BY <1>0, <1>2, <2>1 DEF ChainOK
  <2>3. ~Shown(r)
    BY <1>1, UnusedIs DEF Shown
  <2>4. Answers(r) = {}
    BY <1>0, <2>3, Clicked
  <2> QED BY <2>1, <2>2, <2>3, <2>4
<1>11. /\ Chain(m)' = Chain(m) \cup {r}
       /\ \A n \in Submits : n # m => Chain(n)' = Chain(n) /\ r \notin Chain(n)
       /\ Answers(q)' = {r}
       /\ \A p \in Questions : p # q => Answers(p)' = Answers(p)
       /\ \A w \in Requests : Shown(w)' <=> Shown(w)
       /\ \A x \in Approvals : x \in Requests /\ (x # r => stream'[x] = stream[x])
  <2>1. \A x \in Approvals : x \in Requests /\ (x # r => stream'[x] = stream[x])
    BY <1>3 DEF Requests
  <2>2. Chain(m)' = Chain(m) \cup {r}
    BY <1>4, <2>1 DEF Chain
  <2>3. ASSUME NEW n \in Submits, n # m PROVE Chain(n)' = Chain(n) /\ r \notin Chain(n)
    <3>1. stream[r].asked # n /\ stream'[r].asked # n /\ r # n
      BY <1>0, <1>1, <1>4, <2>3, UnusedIs, TurnsAssumption DEF Nobody
    <3> QED BY <2>1, <3>1 DEF Chain
  <2>4. Answers(q)' = {r}
    BY <1>4, <1>10, <2>1 DEF Answers
  <2>5. ASSUME NEW p \in Questions, p # q PROVE Answers(p)' = Answers(p)
    <3>1. stream[r].shown # p /\ stream'[r].shown # p
      BY <1>1, <1>4, <2>5, UnusedIs, TurnsAssumption DEF Nobody, Questions
    <3> QED BY <2>1, <3>1 DEF Answers
  <2>6. \A w \in Requests : Shown(w)' <=> Shown(w)
    BY <1>3, <1>7, <1>10 DEF Shown
  <2> QED BY <2>1, <2>2, <2>3, <2>4, <2>5, <2>6
<1>12. ASSUME NEW n \in Submits, NEW p \in Chain(n)', p # r
       PROVE  /\ p \in Chain(n) /\ p \in Questions /\ p \in Requests
              /\ stream'[p] = stream[p] /\ (Answers(p)' = {} => Answers(p) = {} /\ p # q)
  <2>1. p \in Chain(n)
    BY <1>11, <1>12
  <2>2. p \in Questions /\ p \in Requests
    BY <2>1, ChainType
  <2> QED BY <1>3, <1>11, <1>12, <2>1, <2>2
<1>13. ChainOK'
  <2>1. ASSUME NEW x \in Approvals PROVE ClickOK(x)'
    <3>1. CASE x = r
      <4>1. stream'[m].state # "idle" /\ Shown(q)'
        <5>1. m \in Requests /\ m # r /\ q \in Requests
          BY <1>0, <1>10, ChainType DEF Requests
        <5> QED BY <1>0, <1>3, <1>6, <1>10, <1>11, <5>1 DEF ChainOK
      <4>2. ~hasty => req'[q].end = "paused"
        BY <1>0, <1>2 DEF vars
      <4>3. hasty /\ q \in Approvals => stream'[q].state = "failed"
        <5> SUFFICES ASSUME hasty, q \in Approvals PROVE stream[q].state = "failed"
          BY <1>10, <1>11
        <5>1. req[q].end # "paused"
          BY <1>2
        <5>2. q \in Requests /\ stream[q].asked = m /\ q \notin Submits
          BY <1>10, ChainType, TurnsAssumption
        <5>3. /\ stream[q].state # "idle"
              /\ req[q].phase = "asking" \/ (req[q].phase = "closed" /\ req[q].end # "done")
          BY <1>0, <1>10, <5>2, ShownIs
        <5>4. stream[q].state # "ended"
          BY <1>0, <5>1, <5>2, <5>3 DEF StreamsOK, ServedOK, WellEnded
        <5>5. stream[q].state # "open"
          BY <1>0, <1>6, <5>2, <5>3 DEF ChainOK, ClickOK
        <5>6. stream[q].state \in {"idle", "open", "ended", "failed"}
          BY <1>1, <5>2 DEF Streams
        <5> QED BY <5>3, <5>4, <5>5, <5>6
      <4> QED BY <1>4, <1>6, <1>10, <1>11, <3>1, <4>1, <4>2, <4>3 DEF ClickOK
    <3>2. CASE x # r
      <4>1. ClickOK(x) /\ stream'[x] = stream[x] /\ req' = req /\ responding \subseteq responding'
        BY <1>0, <1>6, <1>11, <3>2 DEF ChainOK, vars
      <4> SUFFICES ASSUME stream[x].state # "idle" PROVE ClickOK(x)'
        BY <4>1 DEF ClickOK
      <4>2. PICK n, p :
              /\ n = stream[x].asked /\ p = stream[x].shown
              /\ n \in Submits /\ stream[n].state # "idle" /\ p \in Chain(n) /\ Shown(p)
              /\ ~stream[x].hasty => req[p].end = "paused"
              /\ stream[x].hasty /\ p \in Approvals => stream[p].state = "failed"
              /\ stream[x].state = "open" => n \in responding
        BY <4>1 DEF ClickOK
      <4>3. n \in Requests /\ p \in Requests /\ p \in Chain(n)' /\ Shown(p)' /\ p # r /\ n # r
        BY <1>0, <1>10, <1>11, <4>2, ChainType DEF Requests
      <4>4. stream'[n] = stream[n] /\ stream'[p] = stream[p]
        BY <1>3, <4>3
      <4> QED BY <4>1, <4>2, <4>3, <4>4 DEF ClickOK
    <3> QED BY <3>1, <3>2
  <2>2. ASSUME NEW x \in Approvals, NEW y \in Approvals,
               stream'[x].state # "idle", stream'[x].shown = stream'[y].shown
        PROVE  x = y
    <3>1. \A z \in Approvals : z # r => stream'[z] = stream[z] /\ stream[z].shown # q
      BY <1>10, <1>11 DEF Answers
    <3> QED BY <1>0, <1>4, <2>2, <3>1 DEF ChainOK
  <2>3. ASSUME NEW x \in Approvals, NEW y \in Approvals, stream'[x].state = "open",
               stream'[y].state = "open", stream'[x].asked = stream'[y].asked
        PROVE  x = y
    <3>1. \A z \in Approvals : z # r /\ stream'[z].state = "open" =>
            stream'[z] = stream[z] /\ stream[z].asked # m
      BY <1>0, <1>6, <1>11 DEF ChainOK, ClickOK
    <3> QED BY <1>0, <1>4, <2>3, <3>1 DEF ChainOK
  <2>4. \A w \in Requests : stream'[w].state = "open" => MessageOf(w)' \in messages'
    <3> SUFFICES ASSUME NEW w \in Requests, stream'[w].state = "open"
                 PROVE  MessageOf(w)' \in messages'
      OBVIOUS
    <3>1. CASE w = r
      BY <1>0, <1>4, <1>6, <3>1 DEF MessageOf
    <3>2. CASE w # r
      BY <1>0, <1>3, <1>6, <3>2 DEF MessageOf, ChainOK
    <3> QED BY <3>1, <3>2
  <2>5. ASSUME NEW n \in Submits, NEW y \in Chain(n)', NEW z \in Chain(n)',
               Answers(y)' = {}, Answers(z)' = {}
        PROVE  y = z
    <3>1. CASE n = m
      <4>1. \A p \in Chain(n)' : Answers(p)' = {} => p = r
        <5> SUFFICES ASSUME NEW p \in Chain(n)', Answers(p)' = {}, p # r PROVE FALSE
          OBVIOUS
        <5>1. p \in Chain(m) /\ Answers(p) = {} /\ p # q
          BY <1>12, <3>1
        <5> QED BY <1>0, <1>10, <5>1 DEF ChainOK
      <4> QED BY <2>5, <4>1
    <3>2. CASE n # m
      <4>1. y # r /\ z # r
        BY <1>11, <3>2
      <4>2. y \in Chain(n) /\ Answers(y) = {} /\ z \in Chain(n) /\ Answers(z) = {}
        BY <1>12, <2>5, <4>1
      <4> QED BY <1>0, <4>2 DEF ChainOK
    <3> QED BY <3>1, <3>2
  <2>6. ASSUME NEW n \in Submits, card'[n] # Nobody
        PROVE  (card[n] \in Chain(n) /\ Answers(card[n]) = {} /\ Shown(card[n]))'
    <3>1. n # m
      BY <1>6, <2>6
    <3>2. PICK p : p = card[n] /\ p = card'[n]
      BY <1>6, <3>1
    <3>3. p \in Chain(n) /\ Answers(p) = {} /\ Shown(p)
      BY <1>0, <2>6, <3>2 DEF ChainOK
    <3>4. p \in Questions /\ p \in Requests /\ p # q
      BY <1>10, <3>1, <3>3, ChainType, ChainsApart
    <3>5. p \in Chain(n)' /\ Answers(p)' = {} /\ Shown(p)'
      BY <1>11, <3>1, <3>3, <3>4
    <3> QED BY <3>2, <3>5 DEF Answers, Shown
  <2>7. ASSUME NEW n \in messages', NEW p \in Chain(n)', Shown(p)', Answers(p)' = {},
               stream'[p].state \in {"open", "ended"}, stream'[p].cuts = {}
        PROVE  card'[n] = p
    <3>1. p # r /\ n \in messages /\ n \in Submits
      BY <1>0, <1>6, <1>7, <2>7 DEF PageOK
    <3>2. /\ p \in Chain(n) /\ p \in Requests /\ stream'[p] = stream[p] /\ Answers(p) = {}
          /\ p # q
      BY <1>12, <2>7, <3>1
    <3>3. Shown(p)
      BY <1>11, <2>7, <3>2
    <3>4. card[n] = p
      BY <1>0, <2>7, <3>1, <3>2, <3>3 DEF ChainOK
    <3>5. n # m
      BY <1>2, <3>2, <3>4
    <3> QED BY <1>6, <3>1, <3>4, <3>5
  <2>8. \A n \in messages' : stream'[n].state # "idle"
    BY <1>0, <1>3, <1>6 DEF ChainOK, PageOK, Requests
  <2> QED BY <2>1, <2>2, <2>3, <2>4, <2>5, <2>6, <2>7, <2>8 DEF ChainOK
<1>14. AnswersInv'
  BY <1>0, <1>1, <1>11, UnusedIs, AnswersFrame
<1>15. OneConversation'
  <2>1. \A w \in Requests : Wrote(stream'[w], "done") => db'[MessageOf(w)'].turn # "absent"
    BY <1>0, <1>3, <1>7 DEF OneConversation, MessageOf, vars
  <2>2. \A n \in Submits : n # r /\ stream'[n] = stream[n]
    BY <1>0, <1>3 DEF Requests
  <2>3. \A n \in Submits : (Alive(n)' <=> Alive(n)) /\ ConversationOf(n)' = ConversationOf(n)
    BY <1>0, <2>2 DEF Alive, ConversationOf, vars
  <2>4. messages \subseteq Submits /\ finished \subseteq Submits
    BY <1>0 DEF PageOK
  <2> QED BY <1>0, <1>6, <2>1, <2>2, <2>3, <2>4 DEF OneConversation
<1>16. Inv'
  BY <1>0, InvStep
<1> QED BY <1>8, <1>9, <1>13, <1>14, <1>15, <1>16 DEF ChatInv

\* ChainOK without the cards.
ClicksOK ==
  /\ \A x \in Approvals : ClickOK(x)
  /\ \A x, y \in Approvals : stream[x].state # "idle" /\ stream[x].shown = stream[y].shown => x = y
  /\ \A x, y \in Approvals : stream[x].state = "open" /\ stream[y].state = "open"
        /\ stream[x].asked = stream[y].asked => x = y
  /\ \A r \in Requests : stream[r].state = "open" => MessageOf(r) \in messages
  /\ \A m \in Submits : \A y, z \in Chain(m) : Answers(y) = {} /\ Answers(z) = {} => y = z
  /\ \A m \in messages : stream[m].state # "idle"

\* What becomes of a stream while nobody clicks: it is read, ends or fails.
GoesOn(w) ==
  /\ stream'[w].asked = stream[w].asked /\ stream'[w].shown = stream[w].shown
  /\ stream'[w].hasty = stream[w].hasty
  /\ stream'[w].state = "idle" <=> stream[w].state = "idle"
  /\ stream[w].state = "failed" => stream'[w].state = "failed"
  /\ stream'[w].state = "open" => stream[w].state = "open"
  /\ Shown(w) => Shown(w)'
  /\ \A e \in Event : Wrote(stream'[w], e) => Wrote(stream[w], e)

LEMMA ClicksFrame ==
  ASSUME PageOK, ChainOK, UNCHANGED vars, \A w \in Requests : GoesOn(w),
         messages' \subseteq messages,
         \A w \in Requests : stream'[w].state = "open" => MessageOf(w) \in messages',
         \A x \in Approvals : stream'[x].state = "open" => stream[x].asked \in responding'
  PROVE  /\ ClicksOK'
         /\ \A m \in Submits : Chain(m)' = Chain(m) /\ ConversationOf(m)' = ConversationOf(m)
         /\ \A q : Answers(q)' = Answers(q)
         /\ \A w \in Requests : MessageOf(w)' = MessageOf(w)
<1>0. \A x \in Approvals : x \in Requests /\ GoesOn(x)
  BY DEF Requests
<1>1. \A m \in Submits : m \in Requests /\ Chain(m) \subseteq Requests /\ GoesOn(m)
  BY DEF Chain, Requests
<1>2. \A m \in Submits : Chain(m)' = Chain(m) /\ ConversationOf(m)' = ConversationOf(m)
  BY <1>0, <1>1 DEF Chain, GoesOn, ConversationOf
<1>3. \A q : Answers(q)' = Answers(q)
  BY <1>0 DEF Answers, GoesOn
<1>4. \A w \in Requests : MessageOf(w)' = MessageOf(w)
  BY DEF MessageOf, GoesOn
<1>5. ASSUME NEW x \in Approvals PROVE ClickOK(x)'
  <2>1. ClickOK(x) /\ GoesOn(x) /\ req' = req
    BY <1>0 DEF ChainOK, vars
  <2> SUFFICES ASSUME stream[x].state # "idle" PROVE ClickOK(x)'
    BY <2>1 DEF ClickOK, GoesOn
  <2>2. PICK m, q :
          /\ m = stream[x].asked /\ q = stream[x].shown
          /\ m \in Submits /\ stream[m].state # "idle" /\ q \in Chain(m) /\ Shown(q)
          /\ ~stream[x].hasty => req[q].end = "paused"
          /\ stream[x].hasty /\ q \in Approvals => stream[q].state = "failed"
    BY <2>1 DEF ClickOK
  <2>3. q \in Requests /\ Chain(m)' = Chain(m) /\ GoesOn(m) /\ GoesOn(q)
    BY <1>1, <1>2, <2>2
  <2>4. /\ stream'[x].asked = m /\ stream'[x].shown = q /\ Shown(q)'
        /\ stream'[m].state # "idle" /\ stream'[x].hasty = stream[x].hasty
        /\ stream[q].state = "failed" => stream'[q].state = "failed"
    BY <2>1, <2>2, <2>3 DEF GoesOn
  <2> QED BY <2>1, <2>2, <2>3, <2>4 DEF ClickOK
<1>6. /\ \A x, y \in Approvals :
           stream'[x].state # "idle" /\ stream'[x].shown = stream'[y].shown => x = y
      /\ \A x, y \in Approvals : stream'[x].state = "open" /\ stream'[y].state = "open"
           /\ stream'[x].asked = stream'[y].asked => x = y
  BY <1>0 DEF ChainOK, GoesOn
<1>7. \A r \in Requests : stream'[r].state = "open" => MessageOf(r)' \in messages'
  BY <1>4
<1>8. \A m \in Submits : \A y, z \in Chain(m)' :
        Answers(y)' = {} /\ Answers(z)' = {} => y = z
  BY <1>2, <1>3 DEF ChainOK
<1>9. \A m \in messages' : stream'[m].state # "idle"
  BY <1>1 DEF ChainOK, PageOK, GoesOn
<1>10. ClicksOK'
  BY <1>5, <1>6, <1>7, <1>8, <1>9 DEF ClicksOK
<1> QED BY <1>2, <1>3, <1>4, <1>10

LEMMA FailingGoesOn ==
  ASSUME PageOK, StreamsOK, UNCHANGED vars, NEW w \in Requests,
         Failing(w) \/ stream'[w] = stream[w]
  PROVE  /\ GoesOn(w) /\ (Shown(w)' => Shown(w))
         /\ stream'[w] \in Streams /\ ReadingOK(stream'[w]) /\ SeenOK(stream'[w]) /\ ServedOK(w)'
<1>1. CASE Failing(w)
  BY <1>1, FailingKeeps DEF GoesOn, Failing, Wrote
<1>2. CASE stream'[w] = stream[w]
  <2>1. req' = req
    BY DEF vars
  <2>2. ServedOK(w)'
    BY <1>2, <2>1 DEF StreamsOK, ServedOK, AsksOK, EndOK, WellEnded, Open
  <2> QED BY <1>2, <2>2 DEF StreamsOK, PageOK, GoesOn, Shown
<1> QED BY <1>1, <1>2

LEMMA WrittenFrame ==
  ASSUME PageOK, OneConversation, UNCHANGED <<vars, finished>>, \A w \in Requests : GoesOn(w),
         \A w \in Requests : MessageOf(w)' = MessageOf(w)
  PROVE  /\ \A w \in Requests : Wrote(stream'[w], "done") => db'[MessageOf(w)'].turn # "absent"
         /\ \A m \in finished' : stream'[m].state # "idle"
<1>1. "done" \in Event /\ finished' = finished /\ finished \subseteq Requests /\ db' = db
  BY DEF Event, vars, PageOK, Requests
<1> QED BY <1>1 DEF OneConversation, GoesOn

LEMMA LeaveStep ==
  ASSUME ChatInv, Leave
  PROVE  ChatInv'
<1>0. /\ Inv /\ PageOK /\ StreamsOK /\ ChainOK /\ AnswersInv /\ OneConversation
      /\ UNCHANGED <<vars, finished>> /\ messages' = {} /\ \A m \in Submits : card'[m] = Nobody
  BY DEF ChatInv, Leave
<1>1. ASSUME NEW w \in Requests
      PROVE  /\ GoesOn(w) /\ stream'[w].state # "open"
             /\ stream'[w] \in Streams /\ ReadingOK(stream'[w]) /\ SeenOK(stream'[w]) /\ ServedOK(w)'
  <2>1. Failing(w) \/ (stream'[w] = stream[w] /\ stream[w].state # "open")
    BY DEF Leave, Failing
  <2>2. stream'[w].state # "open"
    BY <1>0, <2>1, FailingKeeps
  <2> QED BY <1>0, <2>1, <2>2, FailingGoesOn
<1>2. /\ ClicksOK' /\ \A w \in Requests : MessageOf(w)' = MessageOf(w)
  BY <1>0, <1>1, ClicksFrame DEF Requests
<1>3. ChainOK'
  BY <1>0, <1>2 DEF ChainOK, ClicksOK
<1>4. PageOK'
  <2>1. stream' \in [Requests -> Streams]
    <3>1. stream' = [w \in Requests |-> stream'[w]]
      BY DEF Leave
    <3> QED BY <1>1, <3>1
  <2> QED BY <1>0, <2>1 DEF PageOK, Leave
<1>5. StreamsOK'
  BY <1>1 DEF StreamsOK
<1>6. AnswersInv'
  BY <1>0, <1>1, AnswersFrame DEF GoesOn, Requests
<1>7. OneConversation'
  BY <1>0, <1>1, <1>2, WrittenFrame DEF OneConversation
<1>8. Inv'
  BY <1>0, InvStep
<1> QED BY <1>3, <1>4, <1>5, <1>6, <1>7, <1>8 DEF ChatInv

\* Release of one stream leaves the others' messages disabled.
LEMMA ReleaseKeeps ==
  ASSUME PageOK, StreamsOK, ChainOK, NEW r \in Requests, stream[r].state = "open",
         Release(r), NEW x \in Approvals, x # r, stream[x].state = "open"
  PROVE  stream[x].asked \in responding'
<1>1. stream[x].asked \in responding
  BY DEF ChainOK, ClickOK
<1>2. r \in Approvals => stream[x].asked # stream[r].asked
  BY DEF ChainOK
<1>3. r \in Approvals => MessageOf(r) = stream[r].asked
  BY TurnsAssumption DEF MessageOf
<1> QED BY <1>1, <1>2, <1>3 DEF Release

LEMMA FailStep ==
  ASSUME ChatInv, NEW r \in Requests, Fail(r)
  PROVE  ChatInv'
<1>0. /\ Inv /\ PageOK /\ StreamsOK /\ ChainOK /\ AnswersInv /\ OneConversation
      /\ UNCHANGED <<vars, finished, messages, early, card, conversationId>>
      /\ stream[r].state = "open" /\ Release(r)
  BY DEF ChatInv, Fail
<1>1. /\ Failing(r) /\ stream' = [w \in Requests |-> stream'[w]]
      /\ \A w \in Requests : w # r => stream'[w] = stream[w]
  BY <1>0 DEF Fail, Failing, PageOK
<1>2. ASSUME NEW w \in Requests
      PROVE  /\ GoesOn(w) /\ (Shown(w)' => Shown(w))
             /\ stream'[w] \in Streams /\ ReadingOK(stream'[w]) /\ SeenOK(stream'[w]) /\ ServedOK(w)'
  BY <1>0, <1>1, FailingGoesOn
<1>3. stream'[r].state = "failed"
  BY <1>0, <1>1, FailingKeeps
<1>4. /\ ClicksOK'
      /\ \A m \in Submits : Chain(m)' = Chain(m) /\ ConversationOf(m)' = ConversationOf(m)
      /\ \A q : Answers(q)' = Answers(q)
      /\ \A w \in Requests : MessageOf(w)' = MessageOf(w)
  <2>1. \A w \in Requests : stream'[w].state = "open" => MessageOf(w) \in messages'
    BY <1>0, <1>2 DEF ChainOK, GoesOn
  <2>2. ASSUME NEW x \in Approvals, stream'[x].state = "open"
        PROVE  stream[x].asked \in responding'
    <3>1. x \in Requests /\ x # r /\ stream[x].state = "open"
      BY <1>1, <1>3, <2>2 DEF Requests
    <3> QED BY <1>0, <3>1, ReleaseKeeps
  <2>3. messages' \subseteq messages
    BY <1>0
  <2> QED BY <1>0, <1>2, <2>1, <2>2, <2>3, ClicksFrame
<1>5. \A m \in Submits : Chain(m) \subseteq Requests
  BY DEF Chain, Requests
<1>6. \A m \in Submits : card'[m] # Nobody =>
        (card[m] \in Chain(m) /\ Answers(card[m]) = {} /\ Shown(card[m]))'
  <2> SUFFICES ASSUME NEW m \in Submits, card'[m] # Nobody
               PROVE  (card[m] \in Chain(m) /\ Answers(card[m]) = {} /\ Shown(card[m]))'
    OBVIOUS
  <2>1. PICK p : p = card[m] /\ p = card'[m]
    BY <1>0
  <2>2. p \in Chain(m) /\ Answers(p) = {} /\ Shown(p) /\ p \in Requests
    BY <1>0, <1>5, <2>1 DEF ChainOK
  <2>3. p \in Chain(m)' /\ Answers(p)' = {} /\ Shown(p)'
    BY <1>2, <1>4, <2>2 DEF GoesOn
  <2> QED BY <2>1, <2>3 DEF Answers, Shown
<1>7. ASSUME NEW m \in messages', NEW p \in Chain(m)', Shown(p)', Answers(p)' = {},
             stream'[p].state \in {"open", "ended"}, stream'[p].cuts = {}
      PROVE  card'[m] = p
  <2>1. m \in messages /\ m \in Submits
    BY <1>0 DEF PageOK
  <2>2. p \in Chain(m) /\ p \in Requests
    BY <1>4, <1>5, <2>1
  <2>3. p # r
    BY <1>3, <1>7
  <2> QED BY <1>0, <1>1, <1>2, <1>4, <1>7, <2>1, <2>2, <2>3 DEF ChainOK
<1>8. ChainOK'
  BY <1>4, <1>6, <1>7 DEF ChainOK, ClicksOK
<1>9. PageOK'
  <2>1. stream' \in [Requests -> Streams]
    BY <1>1, <1>2
  <2>2. sending' \in BOOLEAN /\ responding' \subseteq Submits
    BY <1>0 DEF Release, PageOK
  <2> QED BY <1>0, <2>1, <2>2 DEF PageOK
<1>10. StreamsOK'
  BY <1>2 DEF StreamsOK
<1>11. AnswersInv'
  BY <1>0, <1>2, AnswersFrame DEF GoesOn, Requests
<1>12. OneConversation'
  <2>1. \A m \in Submits : (Alive(m)' <=> Alive(m)) /\ ConversationOf(m)' = ConversationOf(m)
    BY <1>0, <1>4 DEF Alive, vars
  <2>2. messages \subseteq Submits
    BY <1>0 DEF PageOK
  <2> QED BY <1>0, <1>2, <1>4, <2>1, <2>2, WrittenFrame DEF OneConversation
<1>13. Inv'
  BY <1>0, InvStep
<1> QED BY <1>8, <1>9, <1>10, <1>11, <1>12, <1>13 DEF ChatInv

\* What a stream that is taken in further shows of its question, and of its end.
LEMMA Taking ==
  ASSUME PageOK, NEW r \in Requests, NEW es \in Seq(Event), NEW from \in Nat, Takes(r, es, from),
         stream'[r] \in Streams, Once(stream[r])
  PROVE  /\ Contains(es, "approval_required") => Shown(r)' /\ ~Shown(r)
         /\ ~Contains(es, "approval_required") /\ Shown(r)' /\ stream'[r].cuts = {} => Shown(r)
         /\ Shown(r) => Shown(r)'
         /\ Contains(es, "done") => Wrote(stream[r], "done")
         /\ \A e : Wrote(stream'[r], e) <=> Wrote(stream[r], e)
<1>1. /\ stream[r] \in Streams /\ stream'[r].sent = stream[r].sent
      /\ stream[r].cuts \subseteq stream'[r].cuts
  BY DEF PageOK, Takes
<1>0. /\ stream[r].sent \in Seq(Event) /\ stream[r].at \in Nat /\ stream[r].buffer \in Seq(Event)
      /\ stream'[r].at \in Nat /\ stream'[r].buffer \in Seq(Event)
  BY <1>1 DEF Streams
<1>a. PICK n \in Nat, d \in Nat : n = Len(stream[r].sent) /\ d = Len(es)
  BY <1>0
<1>b. PICK a \in Int, b \in Int : a = TakenIn(stream[r]) /\ b = TakenIn(stream'[r])
  <2>1. PICK u \in Nat, v \in Nat : u = Len(stream[r].buffer) /\ v = Len(stream'[r].buffer)
    BY <1>0
  <2>2. TakenIn(stream[r]) = stream[r].at - u /\ TakenIn(stream'[r]) = stream'[r].at - v
    BY <2>1 DEF TakenIn
  <2>3. \A x, y \in Nat : x - y \in Int
    OBVIOUS
  <2> QED BY <1>0, <2>1, <2>2, <2>3
<1>c. PICK sent : sent = stream[r].sent /\ sent = stream'[r].sent
  BY <1>1
<1>2. /\ sent = stream[r].sent /\ sent = stream'[r].sent /\ n = Len(sent) /\ DOMAIN sent = 1 .. n
      /\ a = TakenIn(stream[r]) /\ b = TakenIn(stream'[r]) /\ d = Len(es)
  BY <1>0, <1>a, <1>b, <1>c
<1>3. /\ a <= from /\ from <= b /\ b <= n /\ d = b - from
      /\ \A k \in 1 .. d : es[k] = sent[from + k]
      /\ stream[r].cuts = {} => from = a
  BY <1>2 DEF Takes
<1>4. \A e : /\ Wrote(stream[r], e) <=> \E i \in 1 .. n : sent[i] = e
             /\ Wrote(stream'[r], e) <=> \E i \in 1 .. n : sent[i] = e
             /\ Coming(stream[r], e) <=> \E i \in 1 .. n : i > a /\ sent[i] = e
             /\ Coming(stream'[r], e) <=> \E i \in 1 .. n : i > b /\ sent[i] = e
             /\ Contains(es, e) <=> \E k \in 1 .. d : es[k] = e
  BY <1>2 DEF Wrote, Coming, Contains
<1>5. ASSUME NEW e
      PROVE  /\ Contains(es, e) => \E i \in 1 .. n : a < i /\ i <= b /\ sent[i] = e
             /\ stream[r].cuts = {} /\ (\E i \in 1 .. n : a < i /\ i <= b /\ sent[i] = e)
                => Contains(es, e)
  <2>1. ASSUME Contains(es, e) PROVE \E i \in 1 .. n : a < i /\ i <= b /\ sent[i] = e
    <3>1. PICK k \in 1 .. d : es[k] = e
      BY <1>4, <2>1
    <3>2. from + k \in 1 .. n /\ a < from + k /\ from + k <= b /\ sent[from + k] = e
      BY <1>3, <3>1
    <3> QED BY <3>2
  <2>2. ASSUME NEW i \in 1 .. n, a < i, i <= b, sent[i] = e, stream[r].cuts = {}
        PROVE  Contains(es, e)
    <3>1. i - from \in 1 .. d /\ from + (i - from) = i
      BY <1>3, <2>2
    <3>2. es[i - from] = sent[i]
      BY <1>3, <3>1
    <3> QED BY <1>4, <2>2, <3>1, <3>2
  <2> QED BY <2>1, <2>2
<1>6. \A i, j \in 1 .. n :
        sent[i] = "approval_required" /\ sent[j] = "approval_required" => i = j
  BY <1>2 DEF Once
<1>7. Contains(es, "approval_required") => Shown(r)' /\ ~Shown(r)
  <2> SUFFICES ASSUME Contains(es, "approval_required") PROVE Shown(r)' /\ ~Shown(r)
    OBVIOUS
  <2>1. PICK i \in 1 .. n : a < i /\ i <= b /\ sent[i] = "approval_required"
    BY <1>5
  <2>2. Coming(stream[r], "approval_required") /\ Wrote(stream'[r], "approval_required")
    BY <1>4, <2>1
  <2>3. ~Coming(stream'[r], "approval_required")
    BY <1>4, <1>6, <2>1
  <2> QED BY <2>2, <2>3 DEF Shown
<1>8. ASSUME ~Contains(es, "approval_required"), Shown(r)', stream'[r].cuts = {}
      PROVE  Shown(r)
  <2>1. stream[r].cuts = {}
    BY <1>1, <1>8
  <2>2. Wrote(stream[r], "approval_required") /\ ~Coming(stream'[r], "approval_required")
    BY <1>4, <1>8 DEF Shown
  <2>3. ~Coming(stream[r], "approval_required")
    BY <1>4, <1>5, <1>8, <2>1, <2>2
  <2> QED BY <2>2, <2>3 DEF Shown
<1>9. Shown(r) => Shown(r)'
  <2>1. a <= b
    BY <1>3
  <2> QED BY <1>4, <2>1 DEF Shown
<1>10. Contains(es, "done") => Wrote(stream[r], "done")
  BY <1>4, <1>5
<1> QED BY <1>4, <1>7, <1>8, <1>9, <1>10

\* The page takes in what a chunk, or the end of a stream, gives rise to.
LEMMA TakeStep ==
  ASSUME ChatInv, NEW r \in Requests, NEW es \in Seq(Event), NEW from \in Nat, Takes(r, es, from),
         stream'[r] \in Streams, ReadingOK(stream'[r]), SeenOK(stream'[r])
  PROVE  ChatInv'
<1>0. /\ Inv /\ PageOK /\ StreamsOK /\ ChainOK /\ AnswersInv /\ OneConversation
      /\ UNCHANGED <<vars, messages, early>> /\ stream[r].state = "open" /\ ServedOK(r)
  BY DEF ChatInv, Takes, StreamsOK
<1>1. /\ stream'[r].state \in {"open", "ended"}
      /\ stream'[r].sent = stream[r].sent /\ stream'[r].asked = stream[r].asked
      /\ stream'[r].shown = stream[r].shown /\ stream'[r].hasty = stream[r].hasty
      /\ stream'[r].state = "ended" => WellEnded(r) /\ Release(r)
      /\ stream'[r].state = "open" => UNCHANGED <<sending, responding>>
  BY DEF Takes
<1>2. \A w \in Requests : w # r => stream'[w] = stream[w]
  BY <1>0 DEF Takes, PageOK
<1>3. /\ Contains(es, "approval_required") => Shown(r)' /\ ~Shown(r)
      /\ ~Contains(es, "approval_required") /\ Shown(r)' /\ stream'[r].cuts = {} => Shown(r)
      /\ Shown(r) => Shown(r)'
      /\ Contains(es, "done") => Wrote(stream[r], "done")
      /\ \A e : Wrote(stream'[r], e) <=> Wrote(stream[r], e)
  BY <1>0, Taking DEF ServedOK, AsksOK
<1>4. PICK m \in Submits : m = MessageOf(r) /\ m \in messages /\ r \in Chain(m)
  BY <1>0, AsksFor
<1>5. /\ r \in Questions /\ r # Nobody /\ m # Nobody /\ m \in Requests
      /\ card \in [Submits -> Questions \cup {Nobody}] /\ messages \subseteq Submits
  BY <1>0, <1>4, TurnsAssumption, ChainType DEF PageOK, Requests, Nobody
<1>6. /\ card' = [card EXCEPT ![m] = IF Contains(es, "approval_required") THEN r ELSE @]
      /\ conversationId' = IF Contains(es, "done") THEN ConversationOf(m) ELSE conversationId
      /\ finished' = IF Contains(es, "done") THEN finished \cup {m} ELSE finished
  BY <1>4 DEF Takes, Apply
<1>7. /\ \A n \in Submits : n # m => card'[n] = card[n]
      /\ Contains(es, "approval_required") => card'[m] = r
      /\ ~Contains(es, "approval_required") => card'[m] = card[m]
  BY <1>5, <1>6
<1>8. ASSUME NEW w \in Requests PROVE GoesOn(w)
  <2>1. CASE w = r
    BY <1>0, <1>1, <1>3, <2>1 DEF GoesOn
  <2>2. CASE w # r
    BY <1>2, <2>2 DEF GoesOn, Shown
  <2> QED BY <2>1, <2>2
<1>9. /\ ClicksOK'
      /\ \A n \in Submits : Chain(n)' = Chain(n) /\ ConversationOf(n)' = ConversationOf(n)
      /\ \A q : Answers(q)' = Answers(q)
      /\ \A w \in Requests : MessageOf(w)' = MessageOf(w)
  <2>1. \A w \in Requests : stream'[w].state = "open" => MessageOf(w) \in messages'
    BY <1>0, <1>8 DEF ChainOK, GoesOn
  <2>2. ASSUME NEW x \in Approvals, stream'[x].state = "open"
        PROVE  stream[x].asked \in responding'
    <3>1. x \in Requests /\ stream[x].state = "open"
      BY <1>8, <2>2 DEF GoesOn, Requests
    <3>2. CASE stream'[r].state = "open"
      BY <1>0, <1>1, <3>1, <3>2 DEF ChainOK, ClickOK
    <3>3. CASE stream'[r].state = "ended"
      <4>1. x # r
        BY <2>2, <3>3
      <4> QED BY <1>0, <1>1, <3>1, <3>3, <4>1, ReleaseKeeps
    <3> QED BY <1>1, <3>2, <3>3
  <2>3. messages' \subseteq messages
    BY <1>0
  <2> QED BY <1>0, <1>8, <2>1, <2>2, <2>3, ClicksFrame
<1>10. \A n \in Submits : Chain(n) \subseteq Requests
  BY DEF Chain, Requests
<1>11. ASSUME Contains(es, "approval_required") PROVE Answers(r) = {}
  <2> SUFFICES ASSUME NEW x \in Answers(r) PROVE FALSE
    OBVIOUS
  <2>1. Shown(r)
    BY <1>0, <1>5, Clicked
  <2> QED BY <1>3, <1>11, <2>1
<1>12. \A n \in Submits : card'[n] # Nobody =>
        (card[n] \in Chain(n) /\ Answers(card[n]) = {} /\ Shown(card[n]))'
  <2> SUFFICES ASSUME NEW n \in Submits, card'[n] # Nobody
               PROVE  (card[n] \in Chain(n) /\ Answers(card[n]) = {} /\ Shown(card[n]))'
    OBVIOUS
  <2>1. PICK p : p = card'[n]
    OBVIOUS
  <2>2. p \in Chain(n)' /\ Answers(p)' = {} /\ Shown(p)'
    <3>1. CASE n = m /\ Contains(es, "approval_required")
      <4>1. p = r
        BY <1>7, <2>1, <3>1
      <4> QED BY <1>3, <1>4, <1>9, <1>11, <3>1, <4>1
    <3>2. CASE ~(n = m /\ Contains(es, "approval_required"))
      <4>1. p = card[n]
        BY <1>7, <2>1, <3>2
      <4>2. p \in Chain(n) /\ Answers(p) = {} /\ Shown(p) /\ p \in Requests
        BY <1>0, <1>10, <2>1, <4>1 DEF ChainOK
      <4> QED BY <1>8, <1>9, <4>2 DEF GoesOn
    <3> QED BY <3>1, <3>2
  <2> QED BY <2>1, <2>2 DEF Answers, Shown
<1>13. ASSUME NEW n \in messages', NEW p \in Chain(n)', Shown(p)', Answers(p)' = {},
              stream'[p].state \in {"open", "ended"}, stream'[p].cuts = {}
       PROVE  card'[n] = p
  <2>1. n \in messages /\ n \in Submits
    BY <1>0, <1>5
  <2>2. p \in Chain(n) /\ p \in Requests /\ Answers(p) = {}
    BY <1>9, <1>10, <1>13, <2>1
  <2>3. CASE p = r
    <3>1. n = m
      BY <1>4, <2>1, <2>2, <2>3, ChainsApart
    <3>2. CASE Contains(es, "approval_required")
      BY <1>7, <2>3, <3>1, <3>2
    <3>3. CASE ~Contains(es, "approval_required")
      <4>1. Shown(r) /\ stream[r].cuts = {}
        BY <1>3, <1>13, <2>3, <3>3 DEF Takes
      <4> QED BY <1>0, <1>7, <2>1, <2>2, <2>3, <3>1, <3>3, <4>1 DEF ChainOK
    <3> QED BY <3>2, <3>3
  <2>4. CASE p # r
    <3>1. stream'[p] = stream[p]
      BY <1>2, <2>2, <2>4
    <3>2. Shown(p)
      BY <1>13, <3>1 DEF Shown
    <3>3. card[n] = p
      BY <1>0, <1>13, <2>1, <2>2, <3>1, <3>2 DEF ChainOK
    <3>4. ~(n = m /\ Contains(es, "approval_required"))
      BY <1>0, <1>4, <1>11, <2>2, <2>4 DEF ChainOK
    <3> QED BY <1>7, <2>1, <3>3, <3>4
  <2> QED BY <2>3, <2>4
<1>14. ChainOK'
  BY <1>9, <1>12, <1>13 DEF ChainOK, ClicksOK
<1>15. PageOK'
  <2>1. stream' \in [Requests -> Streams]
    <3>1. stream' = [w \in Requests |-> stream'[w]]
      BY <1>0 DEF Takes, PageOK
    <3>2. \A w \in Requests : stream'[w] \in Streams
      BY <1>0, <1>2 DEF PageOK
    <3> QED BY <3>1, <3>2
  <2>2. sending' \in BOOLEAN /\ responding' \subseteq Submits
    BY <1>0, <1>1 DEF Release, PageOK
  <2>3. ConversationOf(m) \in Submits \cup {Nobody}
    BY <1>0, <1>5 DEF ConversationOf, PageOK, Streams
  <2>4. /\ card' \in [Submits -> Questions \cup {Nobody}]
        /\ conversationId' \in Submits \cup {Nobody} /\ finished' \subseteq Submits
    BY <1>0, <1>5, <1>6, <2>3 DEF PageOK
  <2> QED BY <1>0, <2>1, <2>2, <2>4 DEF PageOK
<1>16. StreamsOK'
  <2> SUFFICES ASSUME NEW w \in Requests
               PROVE  (ReadingOK(stream[w]) /\ SeenOK(stream[w]) /\ ServedOK(w))'
    BY DEF StreamsOK
  <2>1. CASE w = r
    <3>1. ServedOK(r)'
      BY <1>0, <1>1, <1>3 DEF ServedOK, AsksOK, EndOK, Open, Once, WellEnded, vars
    <3> QED BY <2>1, <3>1
  <2>2. CASE w # r
    BY <1>0, <1>2, <2>2, FailingGoesOn
  <2> QED BY <2>1, <2>2
<1>17. AnswersInv'
  BY <1>0, <1>8, AnswersFrame DEF GoesOn, Requests
<1>18. OneConversation'
  <2>1. /\ db' = db /\ "done" \in Event
        /\ \A n \in Submits : (Alive(n)' <=> Alive(n)) /\ ConversationOf(n)' = ConversationOf(n)
    BY <1>0, <1>9 DEF Alive, Event, vars
  <2>2. \A w \in Requests : Wrote(stream'[w], "done") => db'[MessageOf(w)'].turn # "absent"
    BY <1>0, <1>8, <1>9, <2>1 DEF GoesOn, OneConversation
  <2>3. \A n \in finished' : stream'[n].state # "idle"
    <3>1. stream[m].state # "idle"
      BY <1>0, <1>4 DEF ChainOK
    <3>2. \A n \in finished' : n \in Requests /\ stream[n].state # "idle"
      BY <1>0, <1>5, <1>6, <3>1 DEF OneConversation, PageOK, Requests
    <3> QED BY <1>8, <3>2 DEF GoesOn
  <2>4. ASSUME (messages \cap early)' = {}
        PROVE  /\ \A n, k \in messages' : Alive(n)' /\ Alive(k)' =>
                    ConversationOf(n)' = ConversationOf(k)'
               /\ \A n \in messages' : Alive(n)' /\ n \in finished' =>
                    ConversationOf(n)' = conversationId'
    <3>1. messages \cap early = {} /\ messages' = messages
      BY <1>0, <2>4
    <3>2. /\ \A n, k \in messages : Alive(n) /\ Alive(k) => ConversationOf(n) = ConversationOf(k)
          /\ \A n \in messages : Alive(n) /\ n \in finished => ConversationOf(n) = conversationId
      BY <1>0, <3>1 DEF OneConversation
    <3>3. CASE Contains(es, "done")
      <4>1. Alive(m) /\ conversationId' = ConversationOf(m)
        BY <1>0, <1>3, <1>4, <1>6, <3>3 DEF OneConversation, Alive
      <4> QED BY <1>4, <1>5, <2>1, <3>1, <3>2, <4>1
    <3>4. CASE ~Contains(es, "done")
      BY <1>5, <1>6, <2>1, <3>1, <3>2, <3>4
    <3> QED BY <3>3, <3>4
  <2> QED BY <2>2, <2>3, <2>4 DEF OneConversation
<1>19. Inv'
  BY <1>0, InvStep
<1> QED BY <1>14, <1>15, <1>16, <1>17, <1>18, <1>19 DEF ChatInv

-----------------------------------------------------------------------------
(* Every behaviour of the page and its server                              *)

LEMMA ChatInvInit == ChatInit => ChatInv
<1> SUFFICES ASSUME ChatInit PROVE ChatInv
  OBVIOUS
<1>0. /\ Init /\ messages = {} /\ conversationId = Nobody /\ sending = FALSE
      /\ \A m \in Submits : card[m] = Nobody
      /\ card \in [Submits -> {Nobody}] /\ responding = {} /\ finished = {} /\ early = {}
      /\ \A r \in Requests : stream[r] = Unused
      /\ stream = [r \in Requests |-> Unused]
  BY DEF ChatInit
<1>1. Inv
  BY <1>0, InvInit
<1>2. PageOK
  <2>1. Unused \in Streams
    BY TurnsAssumption DEF Unused, Streams
  <2> QED BY <1>0, <2>1 DEF PageOK
<1>3. /\ \A r \in Requests : req[r].phase = "idle" /\ req[r].end = "none" /\ req[r].read = NoRow
      /\ \A t \in Submits : db[t].turn = "absent" /\ db[t].pending = NoRow /\ lock[t] = Nobody
  BY <1>0 DEF Init, Idle, NoTurn
<1>4. StreamsOK
  <2> SUFFICES ASSUME NEW r \in Requests
               PROVE  ReadingOK(stream[r]) /\ SeenOK(stream[r]) /\ ServedOK(r)
    BY DEF StreamsOK
  <2>1. PICK s : s = Unused /\ s = stream[r]
    BY <1>0
  <2>2. /\ s.state = "idle" /\ s.sent = <<>> /\ s.at = 0 /\ s.buffer = <<>>
        /\ s.seen = <<>> /\ s.cuts = {}
    BY <2>1 DEF Unused
  <2>3. Len(<<>>) = 0 /\ DOMAIN <<>> = {}
    OBVIOUS
  <2>4. TakenIn(s) = 0
    <3>1. TakenIn(s) = s.at - Len(s.buffer)
      BY DEF TakenIn
    <3>2. \A a, b : a = 0 /\ b = 0 => a - b = 0
      OBVIOUS
    <3> QED BY <2>2, <2>3, <3>1, <3>2
  <2>5. ReadingOK(s)
    BY <2>1, <2>2 DEF ReadingOK
  <2>6. SeenOK(s)
    <3>1. LostBy(s) = {}
      BY <2>2 DEF LostBy
    <3>2. Cardinality(Whole({}, 0)) = 0
      <4>1. Whole({}, 0) = {}
        BY DEF Whole
      <4> QED BY <4>1, FS_EmptySet
    <3>3. SeenTo(s.sent, s.seen, LostBy(s), TakenIn(s))
      BY <2>2, <2>4, <3>1, <3>2 DEF SeenTo
    <3> QED BY <2>2, <2>4, <3>3 DEF SeenOK
  <2>7. Once(s) /\ ~Wrote(s, "approval_required")
    BY <2>2, <2>3 DEF Once, Wrote
  <2>8. ServedOK(r)
    BY <1>3, <2>1, <2>2, <2>7 DEF ServedOK, AsksOK, EndOK, Open
  <2> QED BY <2>1, <2>5, <2>6, <2>8
<1>5. \A r \in Requests : stream[r].state = "idle" /\ stream[r].shown = Nobody
                          /\ stream[r].asked = Nobody /\ ~Wrote(stream[r], "done")
  BY <1>0, UnusedIs
<1>6. \A x \in Approvals : x \in Requests
  BY DEF Requests
<1>7. ChainOK
  <2>1. \A m \in Submits : m # Nobody /\ Chain(m) = {m}
    BY <1>5, <1>6, TurnsAssumption DEF Chain, Nobody
  <2> QED BY <1>0, <1>5, <1>6, <2>1 DEF ChainOK, ClickOK
<1>8. AnswersInv
  <2>1. \A q \in Questions : Awaited(q)
    BY <1>3 DEF Awaited, Questions, Requests
  <2>2. \A t \in Submits : RowOK(t)
    BY <1>3 DEF RowOK, Requests
  <2>3. \A x \in Approvals : ApprovalOK(x) /\ AnswerOK(x)
    BY <1>3, <1>6 DEF ApprovalOK, AnswerOK, OnIt, Open, Settles
  <2> QED BY <2>1, <2>2, <2>3 DEF AnswersInv
<1>9. OneConversation
  BY <1>0, <1>5 DEF OneConversation
<1> QED BY <1>1, <1>2, <1>4, <1>7, <1>8, <1>9 DEF ChatInv

\* Nothing happens.
LEMMA ChatStutter ==
  ASSUME ChatInv, UNCHANGED chatVars
  PROVE  ChatInv'
<1>1. /\ UNCHANGED <<vars, stream, messages, conversationId, sending, card, responding>>
      /\ UNCHANGED <<finished, early>>
  BY DEF chatVars, pageVars
<1>2. Inv'
  BY <1>1, InvStep DEF ChatInv
<1>3. PageOK'
  BY <1>1 DEF ChatInv, PageOK
<1>4. StreamsOK'
  BY <1>1, FailingGoesOn DEF ChatInv, StreamsOK
<1>5. ChainOK'
  BY <1>1 DEF ChatInv, ChainOK, ClickOK, Chain, Answers, Shown, MessageOf, vars
<1>6. AnswersInv'
  BY <1>1, AnswersFrame DEF ChatInv
<1>7. OneConversation'
  BY <1>1 DEF ChatInv, OneConversation, Alive, ConversationOf, MessageOf, vars
<1> QED BY <1>2, <1>3, <1>4, <1>5, <1>6, <1>7 DEF ChatInv

LEMMA ChatInvStep == ChatInv /\ [ChatNext]_chatVars => ChatInv'
<1> SUFFICES ASSUME ChatInv, [ChatNext]_chatVars PROVE ChatInv'
  OBVIOUS
<1>0. PageOK /\ StreamsOK
  BY DEF ChatInv
<1>1. ASSUME NEW r \in Requests, NEW cut \in BOOLEAN,
             NEW n \in 0 .. Len(stream[r].sent) - stream[r].at, Receive(r, n, cut)
      PROVE  ChatInv'
  <2>1. ReadingOK(stream[r]) /\ SeenOK(stream[r]) /\ n \in Nat
        /\ n <= Len(stream[r].sent) - stream[r].at
    BY <1>0, <1>1 DEF StreamsOK
  <2>2. /\ \E es \in Seq(Event), from \in Nat : Takes(r, es, from)
        /\ stream'[r] \in Streams /\ ReadingOK(stream'[r]) /\ SeenOK(stream'[r])
    BY <1>0, <1>1, <2>1, Receiving
  <2> QED BY <2>2, TakeStep
<1>2. ASSUME NEW r \in Requests, End(r) PROVE ChatInv'
  <2>1. ReadingOK(stream[r]) /\ SeenOK(stream[r])
    BY <1>0 DEF StreamsOK
  <2>2. /\ \E es \in Seq(Event), from \in Nat : Takes(r, es, from)
        /\ stream'[r] \in Streams /\ ReadingOK(stream'[r]) /\ SeenOK(stream'[r])
    BY <1>0, <1>2, <2>1, Ending
  <2> QED BY <2>2, TakeStep
<1>3. CASE \E r \in Submits : Send(r)
  BY <1>3, SendStep
<1>4. CASE \E r \in Approvals, m \in Submits, yes \in BOOLEAN : Answer(r, m, yes)
  BY <1>4, ClickStep
<1>5. CASE \E r \in Requests : Fail(r)
  BY <1>5, FailStep
<1>6. CASE \E r \in Requests :
        /\ stream[r].state # "idle" /\ UNCHANGED pageVars
        /\ Serve(r) \/ (Raise(r) /\ EmitError(r))
  BY <1>6, ServerStep
<1>7. CASE Crash /\ UNCHANGED <<pageVars, stream>>
  BY <1>7, CrashStep
<1>8. CASE Leave
  BY <1>8, LeaveStep
<1>9. CASE UNCHANGED chatVars
  BY <1>9, ChatStutter
<1>10. CASE ChatNext
  <2>1. CASE Fault
    BY <1>1, <1>5, <1>6, <1>7, <1>8, <2>1 DEF Fault
  <2>2. CASE ~Fault
    BY <1>1, <1>2, <1>3, <1>4, <1>5, <1>6, <1>10, <2>2 DEF ChatNext
  <2> QED BY <2>1, <2>2
<1> QED BY <1>9, <1>10

\* How the page, its streams and the server's rows relate, whatever is clicked,
\* cut, broken or left, and however the requests interleave.
THEOREM ChatConsistency == ChatSpec => []ChatInv
BY ChatInvInit, ChatInvStep, PTL DEF ChatSpec

\* A response the page sends resumes the question whose card was clicked, or one
\* clicked before its question was committed, however late or often it is sent.
THEOREM ResponsesAnswerWhatWasShown == ChatSpec => []AnswersWhatWasShown
<1>1. ChatInv => AnswersWhatWasShown
  BY DEF ChatInv, AnswersInv, AnswerOK, OnIt, AnswersWhatWasShown
<1> QED BY <1>1, ChatConsistency, PTL

\* While no stream of a message has failed or had an event cut, the question its
\* turn waits on has its card on the page.
THEOREM WaitingQuestionsHaveCards == ChatSpec => []QuestionsStayAnswerable
<1>1. ChatInv => QuestionsStayAnswerable
  <2> SUFFICES ASSUME ChatInv, NEW m \in messages, db[m].pending # NoRow,
                      \A r \in Requests : MessageOf(r) = m =>
                        stream[r].state \notin {"open", "failed"} /\ stream[r].cuts = {}
               PROVE  card[m] = db[m].pending.by
    BY DEF QuestionsStayAnswerable
  <2>0. /\ Inv /\ PageOK /\ StreamsOK /\ ChainOK /\ AnswersInv
        /\ m \in Submits
    BY DEF ChatInv, PageOK
  <2>1. PICK q \in Questions :
          /\ q = db[m].pending.by
          /\ req[q].phase = "closed" /\ req[q].end = "paused" /\ req[q].turn = m
    BY <2>0 DEF Inv, TypeOK, TurnRows, Rows, RowsOK, AskedBy
  <2>2. q \in Chain(m) /\ q \in Requests /\ MessageOf(q) = m
    BY <2>0, <2>1, TurnIs DEF Questions, Requests
  <2>3. ASSUME NEW r \in Requests, MessageOf(r) = m, stream[r].state # "idle"
        PROVE  stream[r].state = "ended"
    BY <2>0, <2>3 DEF PageOK, Streams
  <2>4. stream[q].state = "ended" /\ stream[q].cuts = {}
    BY <2>0, <2>1, <2>2, <2>3 DEF StreamsOK, ServedOK
  <2>5. Shown(q)
    <3>1. /\ Wrote(stream[q], "approval_required") /\ stream[q].at = Len(stream[q].sent)
          /\ stream[q].buffer = <<>> /\ stream[q].sent \in Seq(Event)
      BY <2>0, <2>1, <2>2, <2>4 DEF StreamsOK, ReadingOK, ServedOK, AsksOK, PageOK, Streams
    <3>2. PICK n \in Nat : n = Len(stream[q].sent) /\ DOMAIN stream[q].sent = 1 .. n
      BY <3>1
    <3>3. TakenIn(stream[q]) = n
      BY <3>1, <3>2 DEF TakenIn
    <3> QED BY <3>1, <3>2, <3>3 DEF Shown, Coming
  <2>6. Answers(q) = {}
    <3> SUFFICES ASSUME NEW x \in Answers(q) PROVE FALSE
      OBVIOUS
    <3>1. /\ x \in Approvals /\ x \in Requests /\ x \notin Submits /\ stream[x].state # "idle"
          /\ ClickOK(x) /\ stream[x].shown = q /\ stream[x].asked = m
      BY <2>0, <2>2, Clicked, TurnsAssumption DEF Requests, Answers
    <3>2. stream[x].state = "ended"
      BY <2>3, <3>1 DEF MessageOf
    <3>3. req[x].phase = "closed" /\ req[x].end \in Settles /\ req[x].turn = m
      BY <2>0, <3>1, <3>2 DEF StreamsOK, ServedOK, WellEnded, Settles
    <3>4. ~(stream[x].hasty /\ q \in Approvals)
      BY <2>4, <3>1 DEF ClickOK
    <3>5. OnIt(x)
      BY <2>0, <3>1, <3>3, <3>4 DEF AnswersInv, ApprovalOK, AnswerOK
    <3> QED BY <2>0, <2>1, <3>1, <3>3, <3>5 DEF AnswersInv, AnswerOK
  <2> QED BY <2>0, <2>1, <2>2, <2>4, <2>5, <2>6 DEF ChainOK
<1> QED BY <1>1, ChatConsistency, PTL

\* The reader of api.ts loses no event but those whose blank line a chunk
\* boundary cut, in whatever chunks a stream comes.
THEOREM OnlyCutsLoseEvents == ChatSpec => []OnlyCutEventsAreLost
<1>1. ChatInv => OnlyCutEventsAreLost
  BY DEF ChatInv, StreamsOK, SeenOK, OnlyCutEventsAreLost
<1> QED BY <1>1, ChatConsistency, PTL

\* The page's turns are one conversation unless a message was sent while an
\* earlier one was unfinished.
THEOREM PagesKeepOneConversation == ChatSpec => []ForksOnlyWhenUnfinished
<1>1. ChatInv => ForksOnlyWhenUnfinished
  BY DEF ChatInv, OneConversation, Alive, ForksOnlyWhenUnfinished
<1> QED BY <1>1, ChatConsistency, PTL

\* Whatever the page does, the server behaves as Turns says: each handler of the
\* page leaves the server alone, and what it asks of it is a request of Turns.
THEOREM PageDrivesTurns == ChatSpec => Spec
<1>1. ChatInit => Init
  BY DEF ChatInit
<1>2. ChatInv /\ [ChatNext]_chatVars => [Next]_vars
  <2> SUFFICES ASSUME ChatInv, [ChatNext]_chatVars PROVE [Next]_vars
    OBVIOUS
  <2>1. CASE \E r \in Requests : stream[r].state # "idle" /\ (Serve(r) \/ (Raise(r) /\ EmitError(r)))
    BY <2>1, AsksFor, ServesStep DEF ChatInv
  <2>2. CASE Crash
    BY <2>2 DEF Next
  <2>3. CASE UNCHANGED vars
    BY <2>3
  <2>4. CASE ChatNext
    BY <2>1, <2>2, <2>3, <2>4
       DEF ChatNext, Fault, Send, Answer, Receive, End, Fail, Leave
  <2> QED BY <2>3, <2>4 DEF chatVars
<1> QED BY <1>1, <1>2, ChatConsistency, PTL DEF ChatSpec, Spec
=============================================================================
