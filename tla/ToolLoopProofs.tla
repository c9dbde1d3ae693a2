--------------------------- MODULE ToolLoopProofs ---------------------------
(***************************************************************************)
(* The safety of one sub-agent's loop, for any calls, results, round cap,  *)
(* window and batch size, and any commits and roll-backs of its requests.  *)
(***************************************************************************)
EXTENDS ToolLoop, FiniteSetTheorems, TLAPS

\* The loop is at work in a request that has not reached its outcome.
Live == pc \in {"model", "calls", "executing", "resuming"}

RanIn(l) == {c \in Calls : l.runs[c] > 0}

\* A guard that may go on has room left, one round for each call it saw, and
\* saw every call the line has run.
Sound(g, l) ==
  /\ g.round <= MaxRounds
  /\ IsFiniteSet(g.seen)
  /\ Cardinality(g.seen) <= g.round
  /\ RanIn(l) \subseteq g.seen
  /\ \A c \in Calls : l.runs[c] <= 1

\* The committed row asks for a side effect that its guard admitted, that the
\* row's line has not run, and to which the line of the request only adds.
RowInv ==
  saved # NoPending =>
    /\ saved.call \in SideEffects
    /\ saved.call \in saved.snapshot.seen
    /\ Sound(saved.snapshot, base)
    /\ base.runs[saved.call] = 0
    /\ \A c \in Calls : base.runs[c] > 0 => line.runs[c] > 0

LoopInv ==
  /\ TypeOK
  /\ NoUnapprovedEffect
  /\ EachCallRunsOnce
  /\ RunsWithinRounds
  /\ Live => Sound(guard, line)
  /\ pc = "paused" => saved # NoPending /\ line = base
  /\ RowInv

-----------------------------------------------------------------------------

\* A call the guard admits keeps the guard sound, and was not seen before.
LEMMA AdmittedSound ==
  ASSUME NEW g \in Guards, NEW l, NEW c \in Calls,
         Sound(g, l), ~Exceeds(g), ~Repeats(g, c)
  PROVE  /\ Admitted(g, c) \in Guards
         /\ Sound(Admitted(g, c), l)
         /\ Admitted(g, c).seen = g.seen \cup {c}
<1>1. Admitted(g, c) \in Guards /\ Admitted(g, c).seen = g.seen \cup {c}
      /\ Admitted(g, c).round = g.round + 1
  <2>1. g.round + 1 \in 0 .. MaxRounds + 1
    BY LoopAssumption DEF Exceeds, Guards
  <2> QED
    BY <2>1 DEF Admitted, Guards
<1>2. IsFiniteSet(g.seen \cup {c})
      /\ Cardinality(g.seen \cup {c}) = Cardinality(g.seen) + 1
  BY FS_AddElement DEF Sound, Repeats
<1>3. Cardinality(g.seen) \in Nat
  BY FS_CardinalityType DEF Sound
<1>4. g.round + 1 <= MaxRounds
  BY LoopAssumption DEF Exceeds, Guards
<1> QED
  BY <1>1, <1>2, <1>3, <1>4 DEF Sound, Guards

\* What ran is bounded by the rounds of a sound guard that saw it all.
LEMMA RanWithinRounds ==
  ASSUME NEW g \in Guards, NEW l, Sound(g, l)
  PROVE  Cardinality(RanIn(l)) <= MaxRounds
<1>1. IsFiniteSet(RanIn(l)) /\ Cardinality(RanIn(l)) <= Cardinality(g.seen)
  BY FS_Subset DEF Sound
<1>2. Cardinality(RanIn(l)) \in Nat /\ Cardinality(g.seen) \in Nat
  BY <1>1, FS_CardinalityType DEF Sound
<1> QED
  BY <1>1, <1>2, LoopAssumption DEF Sound, Guards

\* The values that stand for nothing have their types.
LEMMA Defaults ==
  /\ FreshGuard \in Guards
  /\ NoLine \in Lines
  /\ NoPending \in [call : Calls \cup {"none"}, snapshot : Guards,
                    orphans : SUBSET Calls]
<1>1. FreshGuard \in Guards
  BY LoopAssumption DEF FreshGuard, Guards
<1>2. NoLine \in Lines
  BY LoopAssumption DEF NoLine, Lines
<1> QED
  BY <1>1, <1>2 DEF NoPending

\* The loop starts in its invariant: nothing asked, nothing run.
LEMMA InitInv == Init => LoopInv
<1> SUFFICES ASSUME Init PROVE LoopInv
  OBVIOUS
<1> USE LoopAssumption DEF Init
<1>1. TypeOK
  BY Defaults DEF TypeOK, Outcomes
<1>2. \A c \in Calls : line.runs[c] = 0
  BY DEF NoLine
<1>3. RanIn(line) = {}
  BY <1>2 DEF RanIn
<1>4. Sound(guard, line)
  BY <1>2, <1>3, FS_EmptySet DEF Sound, FreshGuard
<1>5. RunsWithinRounds
  <2>1. {c \in Calls : line.runs[c] > 0} = {}
    BY <1>2
  <2>2. Cardinality({c \in Calls : line.runs[c] > 0}) = 0
    BY <2>1, FS_EmptySet, Zenon
  <2> QED
    BY <2>2 DEF RunsWithinRounds
<1>6. Happened = {}
  BY <1>2 DEF Happened
<1> QED
  BY <1>1, <1>2, <1>4, <1>5, <1>6
     DEF LoopInv, NoUnapprovedEffect, EachCallRunsOnce, RowInv

-----------------------------------------------------------------------------
(* Steps that leave the row and the history alone.                         *)

\* What the invariant needs of a step that changes neither row nor history.
LEMMA KeepsInv ==
  ASSUME LoopInv, TypeOK', UNCHANGED <<saved, historyVars>>,
         Live' => Sound(guard', line), pc' = "paused" => pc = "paused"
  PROVE  LoopInv'
BY DEF LoopInv, historyVars, NoUnapprovedEffect, Happened, EachCallRunsOnce,
       RunsWithinRounds, Live, Sound, RanIn, RowInv

\* Model answers, requests and deliveries keep the invariant.
LEMMA QuietInv ==
  ASSUME LoopInv, [ModelAnswers \/ DeliverResults
                   \/ \E r \in Responses : ModelRequests(r)]_vars
  PROVE  LoopInv'
<1>1. UNCHANGED <<guard, saved, orphans, historyVars>>
  BY DEF vars, historyVars, ModelAnswers, DeliverResults, ModelRequests
<1>2. TypeOK'
  <2>1. CASE ModelAnswers \/ UNCHANGED vars
    BY <2>1, <1>1 DEF LoopInv, TypeOK, ModelAnswers, End, Outcomes, vars,
                      historyVars
  <2>2. CASE DeliverResults
    BY <2>2, <1>1 DEF LoopInv, TypeOK, DeliverResults, historyVars
  <2>3. ASSUME NEW r \in Responses, ModelRequests(r) PROVE TypeOK'
    <3>1. r \in Seq(Calls)
      BY LoopAssumption DEF Responses
    <3> QED
      BY <2>3, <3>1, <1>1 DEF LoopInv, TypeOK, ModelRequests, historyVars
  <2> QED
    BY <2>1, <2>2, <2>3
<1>3. Live' => Live
  BY DEF vars, Live, ModelAnswers, DeliverResults, ModelRequests, End
<1>4. pc' = "paused" => pc = "paused"
  BY DEF vars, ModelAnswers, DeliverResults, ModelRequests, End
<1>5. Live' => Sound(guard', line)
  BY <1>1, <1>3 DEF LoopInv
<1> QED
  BY <1>1, <1>2, <1>4, <1>5, KeepsInv

\* A call the guard refuses (a repeat, or one too many) keeps the invariant.
LEMMA RefusedInv ==
  ASSUME LoopInv, NEW c \in Calls, StopAtMaxRounds(c) \/ StopAtRepeat(c)
  PROVE  LoopInv'
<1> USE LoopAssumption DEF LoopInv
<1>1. pc = "calls" /\ pc' = "done" /\ outcome' \in Outcomes
      /\ guard' = Counted(guard)
      /\ UNCHANGED <<saved, response, next, orphans, historyVars>>
  BY DEF StopAtMaxRounds, StopAtRepeat, Considering, End, Outcomes
<1>2. guard' \in Guards
  <2>1. guard.round <= MaxRounds
    BY <1>1 DEF Sound, Live
  <2>2. guard \in Guards /\ guard.round + 1 \in 0 .. MaxRounds + 1
    BY <2>1 DEF Guards, TypeOK
  <2>3. [guard EXCEPT !.round = guard.round + 1] \in Guards
    BY <2>2 DEF Guards
  <2> QED
    BY <1>1, <2>3 DEF Counted
<1>3. TypeOK'
  BY <1>1, <1>2 DEF TypeOK, historyVars
<1> QED
  BY <1>1, <1>3, KeepsInv DEF Live

-----------------------------------------------------------------------------
(* The gate.                                                               *)

\* Committing the question about an admitted side effect keeps the invariant.
LEMMA PauseInv ==
  ASSUME LoopInv, NEW c \in Calls, Pause(c)
  PROVE  LoopInv'
<1> USE LoopAssumption DEF LoopInv
<1> DEFINE g == Admitted(guard, c)
<1>1. Sound(guard, line) /\ guard \in Guards
  BY DEF Pause, Considering, Live, TypeOK
<1>2. g \in Guards /\ Sound(g, line) /\ g.seen = guard.seen \cup {c}
  BY <1>1, AdmittedSound DEF Pause
<1>3. Snapshot(g) = g
  BY DEF Snapshot, Admitted
<1>4. PICK o \in SUBSET Calls :
        saved' = [call |-> c, snapshot |-> Snapshot(g), orphans |-> o]
  <2>1. orphans \cup {response[i] : i \in DOMAIN response \ {next}}
          \in SUBSET Calls
    BY DEF TypeOK
  <2> QED
    BY <2>1 DEF Pause
<1>5. saved'.call = c /\ saved'.snapshot = g /\ pc' = "paused" /\ base' = line
      /\ UNCHANGED <<line, undone, answers, outcome>>
      /\ guard' = FreshGuard /\ response' = <<>> /\ next' = 1 /\ orphans' = {}
  BY <1>3, <1>4 DEF Pause, ForgetMemory
<1>6. TypeOK'
  <2>1. saved' \in [call : Calls \cup {"none"}, snapshot : Guards,
                    orphans : SUBSET Calls]
    BY <1>2, <1>3, <1>4
  <2> HIDE DEF g
  <2> QED
    BY <1>5, <2>1, Defaults DEF TypeOK
<1>7. NoUnapprovedEffect' /\ EachCallRunsOnce' /\ RunsWithinRounds'
  BY <1>5 DEF NoUnapprovedEffect, Happened, EachCallRunsOnce, RunsWithinRounds
<1>8. saved' # NoPending
  BY <1>5 DEF NoPending
<1>9. c \notin RanIn(line) /\ c \in SideEffects
  BY <1>1 DEF Pause, Repeats, Sound, NeedsApproval
<1>10. line.runs[c] = 0
  BY <1>9 DEF RanIn, TypeOK, Lines
<1>11. Sound(saved'.snapshot, base')
  BY <1>2, <1>5
<1>12. RowInv'
  BY <1>2, <1>5, <1>9, <1>10, <1>11 DEF RowInv, Sound, RanIn
<1>13. ~Live'
  BY <1>5 DEF Live
<1> QED
  BY <1>5, <1>6, <1>7, <1>8, <1>12, <1>13

\* Running an admitted call for the first time, its approval given if due.
LEMMA RunOnceInv ==
  ASSUME LoopInv, NEW c \in Calls, NEW g \in Guards, Sound(g, line),
         c \in g.seen, line.runs[c] = 0, MarkRun(c),
         answers' \in [Calls -> SUBSET {"approved", "declined"}],
         c \in SideEffects => "approved" \in answers'[c],
         \A d \in Calls : answers[d] \subseteq answers'[d],
         UNCHANGED <<saved, base, undone>>
  PROVE  /\ line' \in Lines
         /\ Sound(g, line')
         /\ NoUnapprovedEffect' /\ EachCallRunsOnce' /\ RunsWithinRounds'
         /\ RowInv'
<1> USE LoopAssumption DEF LoopInv
<1>1. line \in Lines /\ line.runs \in [Calls -> 0 .. 2]
  BY DEF TypeOK, Lines
<1>2. line' = [line EXCEPT !.runs[c] = 1]
  BY <1>1 DEF MarkRun, Lines
<1>3. line' \in Lines /\ line'.runs = [line.runs EXCEPT ![c] = 1]
  BY <1>1, <1>2 DEF Lines
<1>4. RanIn(line') = RanIn(line) \cup {c}
  BY <1>1, <1>3 DEF RanIn
<1>5. Sound(g, line')
  BY <1>1, <1>3, <1>4 DEF Sound
<1>6. RunsWithinRounds'
  BY <1>5, RanWithinRounds DEF RunsWithinRounds, RanIn
<1>7. EachCallRunsOnce'
  BY <1>5 DEF EachCallRunsOnce, Sound
<1>8. NoUnapprovedEffect'
  <2>1. Happened' \subseteq Happened \cup ({c} \cap SideEffects)
    BY <1>1, <1>3 DEF Happened
  <2>2. Happened \subseteq Calls
    BY DEF Happened, TypeOK
  <2> QED
    BY <2>1, <2>2 DEF NoUnapprovedEffect
<1>9. RowInv'
  BY <1>1, <1>3 DEF RowInv, TypeOK, Lines
<1> QED
  BY <1>3, <1>5, <1>6, <1>7, <1>8, <1>9

\* Handing an admitted call to the executor keeps the invariant.
LEMMA HandOverInv ==
  ASSUME LoopInv, NEW c \in Calls, HandOver(c)
  PROVE  LoopInv'
<1> USE LoopAssumption DEF LoopInv
<1>1. Sound(guard, line) /\ guard \in Guards
  BY DEF HandOver, Considering, Live, TypeOK
<1>2. guard' \in Guards /\ Sound(guard', line)
      /\ guard'.seen = guard.seen \cup {c}
  BY <1>1, AdmittedSound DEF HandOver
<1>3. c \notin SideEffects /\ line.runs[c] = 0
  BY <1>1 DEF HandOver, Repeats, NeedsApproval, Sound, RanIn, TypeOK, Lines
<1>4. MarkRun(c) /\ UNCHANGED <<saved, base, undone, answers>>
  BY DEF HandOver
<1>5. /\ line' \in Lines /\ Sound(guard', line')
      /\ NoUnapprovedEffect' /\ EachCallRunsOnce' /\ RunsWithinRounds'
      /\ RowInv'
  BY <1>2, <1>3, <1>4, RunOnceInv DEF TypeOK
<1>6. TypeOK'
  BY <1>2, <1>5 DEF TypeOK, HandOver
<1> QED
  BY <1>5, <1>6 DEF HandOver

\* The operator's approval, which runs the paused call, keeps the invariant.
LEMMA ApproveInv ==
  ASSUME LoopInv, Approve
  PROVE  LoopInv'
<1> USE LoopAssumption DEF LoopInv
<1> DEFINE c == saved.call
<1>1. pc = "paused" /\ pc' = "resuming" /\ saved # NoPending /\ line = base
  BY DEF Approve
<1>2. c \in Calls /\ c \in saved.snapshot.seen /\ line.runs[c] = 0
      /\ Sound(saved.snapshot, line)
  BY <1>1 DEF RowInv
<1>3. guard' = saved.snapshot /\ guard' \in Guards /\ orphans' \in SUBSET Calls
  BY DEF Approve, Restore, TypeOK, Guards
<1>4. answers' \in [Calls -> SUBSET {"approved", "declined"}]
      /\ "approved" \in answers'[c]
      /\ \A d \in Calls : answers[d] \subseteq answers'[d]
  BY <1>2 DEF Approve, TypeOK
<1>5. MarkRun(c) /\ UNCHANGED <<saved, base, undone>>
  BY DEF Approve
<1>6. /\ line' \in Lines /\ Sound(guard', line')
      /\ NoUnapprovedEffect' /\ EachCallRunsOnce' /\ RunsWithinRounds'
      /\ RowInv'
  BY <1>2, <1>3, <1>4, <1>5, RunOnceInv
<1>7. TypeOK'
  BY <1>1, <1>3, <1>4, <1>6 DEF TypeOK, Approve
<1> QED
  BY <1>1, <1>6, <1>7

\* The operator's refusal, which runs nothing, keeps the invariant.
LEMMA DeclineInv ==
  ASSUME LoopInv, Decline
  PROVE  LoopInv'
<1> USE LoopAssumption DEF LoopInv
<1>1. pc = "paused" /\ pc' = "done" /\ outcome' \in Outcomes
      /\ UNCHANGED <<memory, saved, line, base, undone>>
  BY DEF Decline, End, Outcomes
<1>2. saved.call \in Calls
  BY <1>1 DEF RowInv
<1>3. answers' \in [Calls -> SUBSET {"approved", "declined"}]
      /\ \A d \in Calls : answers[d] \subseteq answers'[d]
  BY <1>2 DEF Decline, TypeOK
<1>4. TypeOK'
  BY <1>1, <1>3 DEF TypeOK, memory
<1>5. NoUnapprovedEffect'
  <2>1. Happened' = Happened /\ Happened \subseteq Calls
    BY <1>1 DEF Happened, TypeOK
  <2> QED
    BY <2>1, <1>3 DEF NoUnapprovedEffect
<1> QED
  BY <1>1, <1>4, <1>5 DEF EachCallRunsOnce, RunsWithinRounds, Live, RowInv

-----------------------------------------------------------------------------
(* Results.                                                                *)

\* The result of an executed call keeps the invariant.
LEMMA ResultInv ==
  ASSUME LoopInv, NEW res \in Results, ToolReturns(res) \/ ResumedReturns(res)
  PROVE  LoopInv'
<1> USE LoopAssumption DEF LoopInv
<1>1. pc \in {"executing", "resuming"} /\ pc' \in {"calls", "model", "done"}
      /\ outcome' \in Outcomes \cup {"none"} /\ next' \in Nat \ {0}
      /\ UNCHANGED <<saved, response, orphans, base, undone, answers>>
      /\ guard' = AfterResult(guard, res) /\ NoteResult(res)
  BY DEF ToolReturns, ResumedReturns, End, Outcomes, TypeOK
<1>2. guard' \in Guards /\ guard'.seen = guard.seen /\ guard'.round = guard.round
  <2>1. guard \in Guards /\ Append(guard.recent, res) \in Seq(Results)
    BY DEF Guards, TypeOK
  <2>2. [guard EXCEPT !.recent = Append(guard.recent, res)] \in Guards
    BY <2>1 DEF Guards
  <2> QED
    BY <1>1, <2>1, <2>2 DEF AfterResult, Guards
<1>3. line' \in Lines /\ line'.runs = line.runs
  <2>1. line \in Lines /\ line.streak \in 0 .. Window
    BY DEF TypeOK, Lines
  <2>2. PICK n \in 0 .. Window :
          line' = [runs |-> line.runs, last |-> res, streak |-> n]
    <3>1. CASE res # line.last
      BY <1>1, <2>1, <3>1 DEF NoteResult
    <3>2. CASE res = line.last /\ line.streak < Window
      BY <1>1, <2>1, <3>2 DEF NoteResult
    <3>3. CASE res = line.last /\ ~(line.streak < Window)
      BY <1>1, <2>1, <3>3 DEF NoteResult
    <3> QED
      BY <3>1, <3>2, <3>3
  <2> QED
    BY <2>1, <2>2 DEF Lines
<1>4. TypeOK'
  BY <1>1, <1>2, <1>3 DEF TypeOK
<1>5. Sound(guard', line')
  BY <1>1, <1>2, <1>3 DEF Sound, Live, RanIn
<1>6. NoUnapprovedEffect' /\ EachCallRunsOnce' /\ RunsWithinRounds' /\ RowInv'
  BY <1>1, <1>3 DEF NoUnapprovedEffect, Happened, EachCallRunsOnce,
                    RunsWithinRounds, RowInv
<1> QED
  BY <1>1, <1>4, <1>5, <1>6

-----------------------------------------------------------------------------
(* The transaction.                                                        *)

\* Commits and failures without a row behind them keep the invariant.
LEMMA CommitInv ==
  ASSUME LoopInv, Settle \/ ToolCommits \/ Fail
  PROVE  LoopInv'
<1> USE LoopAssumption DEF LoopInv
<1>1. /\ UNCHANGED <<line, undone, answers>>
      /\ saved' = NoPending /\ (base' = NoLine \/ base' = base)
      /\ pc' # "paused" /\ outcome' \in Outcomes \cup {"none"}
      /\ \/ pc' = "ended" /\ ForgetMemory
         \/ pc' = pc /\ UNCHANGED memory
  BY DEF Settle, ToolCommits, Fail, historyVars, Outcomes, TypeOK
<1>2. TypeOK'
  <2>1. saved' \in [call : Calls \cup {"none"}, snapshot : Guards,
                    orphans : SUBSET Calls]
        /\ base' \in Lines
    BY <1>1, Defaults DEF TypeOK
  <2>2. CASE pc' = "ended" /\ ForgetMemory
    BY <1>1, <2>1, <2>2, Defaults DEF TypeOK, ForgetMemory
  <2>3. CASE pc' = pc /\ UNCHANGED memory
    BY <1>1, <2>1, <2>3 DEF TypeOK, memory
  <2> QED
    BY <1>1, <2>2, <2>3
<1>3. NoUnapprovedEffect' /\ EachCallRunsOnce' /\ RunsWithinRounds' /\ RowInv'
  BY <1>1 DEF NoUnapprovedEffect, Happened, EachCallRunsOnce,
              RunsWithinRounds, RowInv
<1>4. Live' => Sound(guard', line')
  BY <1>1 DEF Live, memory, Sound, RanIn
<1> QED
  BY <1>1, <1>2, <1>3, <1>4

\* A roll-back, which brings the row's line back, keeps the invariant.
LEMMA RollBackInv ==
  ASSUME LoopInv, RollBack
  PROVE  LoopInv'
<1> USE LoopAssumption DEF LoopInv
<1>1. saved # NoPending /\ pc' = "paused" /\ line' = base
      /\ UNCHANGED <<saved, base, answers>>
  BY DEF RollBack
<1>2. TypeOK'
  BY <1>1, Defaults DEF RollBack, TypeOK, ForgetMemory
<1>3. NoUnapprovedEffect'
  <2>1. Happened' \subseteq Happened
    BY <1>1 DEF Happened, RollBack, RowInv, TypeOK, Lines
  <2> QED
    BY <2>1, <1>1 DEF NoUnapprovedEffect
<1>4. Sound(saved.snapshot, base)
  BY <1>1 DEF RowInv
<1>5. EachCallRunsOnce'
  BY <1>1, <1>4 DEF EachCallRunsOnce, Sound
<1>6. RunsWithinRounds'
  BY <1>1, <1>4, RanWithinRounds DEF RunsWithinRounds, RanIn, TypeOK
<1>7. RowInv'
  BY <1>1 DEF RowInv
<1> QED
  BY <1>1, <1>2, <1>3, <1>5, <1>6, <1>7 DEF Live

-----------------------------------------------------------------------------

\* Every step of the loop, and every stutter, keeps the invariant.
LEMMA NextInv == LoopInv /\ [Next]_vars => LoopInv'
<1> SUFFICES ASSUME LoopInv, [Next]_vars PROVE LoopInv'
  OBVIOUS
<1>1. CASE \/ ModelAnswers \/ DeliverResults \/ UNCHANGED vars
           \/ \E r \in Responses : ModelRequests(r)
  BY <1>1, QuietInv
<1>2. CASE \E c \in Calls : StopAtMaxRounds(c) \/ StopAtRepeat(c)
  BY <1>2, RefusedInv
<1>3. CASE \E c \in Calls : Pause(c)
  BY <1>3, PauseInv
<1>4. CASE \E c \in Calls : HandOver(c)
  BY <1>4, HandOverInv
<1>5. CASE \E res \in Results : ToolReturns(res) \/ ResumedReturns(res)
  BY <1>5, ResultInv
<1>6. CASE Approve
  BY <1>6, ApproveInv
<1>7. CASE Decline
  BY <1>7, DeclineInv
<1>8. CASE Settle \/ ToolCommits \/ Fail
  BY <1>8, CommitInv
<1>9. CASE RollBack
  BY <1>9, RollBackInv
<1> QED
  BY <1>1, <1>2, <1>3, <1>4, <1>5, <1>6, <1>7, <1>8, <1>9 DEF Next, LoopStep

\* The loop keeps its inductive invariant.
THEOREM LoopInvariant == Spec => []LoopInv
<1>1. Init => LoopInv
  BY InitInv
<1>2. LoopInv /\ [Next]_vars => LoopInv'
  BY NextInv
<1> QED
  BY <1>1, <1>2, PTL DEF Spec

\* The loop's variables keep their types (the round counter its bound).
THEOREM LoopTypes == Spec => []TypeOK
<1>1. LoopInv => TypeOK
  BY DEF LoopInv
<1> QED
  BY <1>1, LoopInvariant, PTL

\* No side effect reaches the executor before the operator approved that call,
\* in the requests that are rolled back no more than in the others.
THEOREM LoopNeedsApproval == Spec => []NoUnapprovedEffect
<1>1. LoopInv => NoUnapprovedEffect
  BY DEF LoopInv
<1> QED
  BY <1>1, LoopInvariant, PTL

\* No call reaches the executor twice, across any number of pauses, unless the
\* request it ran in was rolled back.
THEOREM LoopRunsOnce == Spec => []EachCallRunsOnce
<1>1. LoopInv => EachCallRunsOnce
  BY DEF LoopInv
<1> QED
  BY <1>1, LoopInvariant, PTL

\* At most MaxRounds calls reach the executor in the requests that count,
\* however they are batched.
THEOREM LoopWithinRounds == Spec => []RunsWithinRounds
<1>1. LoopInv => RunsWithinRounds
  BY DEF LoopInv
<1> QED
  BY <1>1, LoopInvariant, PTL

-----------------------------------------------------------------------------
(* The unproductive-result net.                                            *)

\* The streak is what the guard can see: the last `streak' results it keeps
\* are the latest one.
SeesStreak(g, l) ==
  LET r == g.recent IN
  /\ l.streak < Window
  /\ l.streak <= Len(r)
  /\ \A i \in (Len(r) - l.streak + 1) .. Len(r) : r[i] = l.last

\* So it is in memory while the loop is at work, and in the row it may be
\* resumed from.
SpinInv ==
  /\ Live => SeesStreak(guard, line)
  /\ saved # NoPending => SeesStreak(saved.snapshot, base)

\* One more result: either the net trips, or the streak is still short.
LEMMA SpinResult ==
  ASSUME NEW g \in Guards, NEW res \in Results, line \in Lines,
         SeesStreak(g, line), NoteResult(res),
         ~Unproductive(AfterResult(g, res))
  PROVE  SeesStreak(AfterResult(g, res), line')
<1> USE LoopAssumption DEF SeesStreak
<1> DEFINE s == g.recent
           r == Append(s, res)
<1>0. PICK k \in Nat : k = line.streak
  BY DEF Lines
<1>1. s \in Seq(Results) /\ AfterResult(g, res).recent = r
  BY DEF AfterResult, Guards
<1>2. r \in Seq(Results) /\ Len(r) = Len(s) + 1 /\ r[Len(r)] = res
      /\ \A i \in 1 .. Len(s) : r[i] = s[i]
  BY <1>1
<1>3. line'.last = res
  BY DEF NoteResult
<1>4. PICK n \in Nat : /\ line'.streak = n
                       /\ n = 1 \/ (n = k + 1 /\ res = line.last)
  <2>1. line'.streak = IF res # line.last THEN 1
                       ELSE IF line.streak < Window THEN line.streak + 1
                       ELSE line.streak
    BY DEF NoteResult
  <2> QED
    BY <1>0, <2>1
<1>5. n <= Len(r)
  BY <1>0, <1>1, <1>2, <1>4
<1>6. \A i \in (Len(r) - n + 1) .. Len(r) : r[i] = res
  <2> SUFFICES ASSUME NEW i \in (Len(r) - n + 1) .. Len(r)
               PROVE r[i] = res
    OBVIOUS
  <2>1. CASE i = Len(r)
    BY <1>2, <2>1
  <2>2. CASE i # Len(r)
    <3>1. n = k + 1 /\ res = line.last
      BY <1>2, <1>4, <2>2
    <3>2. PICK d \in Nat : d = Len(s)
      BY <1>1
    <3>3. Len(r) = d + 1 /\ k <= d /\ i \in (d + 2 - n) .. (d + 1) /\ i # d + 1
      BY <1>0, <1>2, <2>2, <3>2
    <3>4. i \in (d - k + 1) .. d /\ i \in 1 .. d
      BY <3>1, <3>3
    <3>5. i \in (Len(s) - k + 1) .. Len(s) /\ i \in 1 .. Len(s)
      BY <3>2, <3>4
    <3> QED
      BY <1>0, <1>2, <3>1, <3>5
  <2> QED
    BY <2>1, <2>2
<1>7. n < Window
  <2>1. ASSUME n = Window PROVE FALSE
    <3>1. Len(r) >= Window
      BY <1>5, <2>1
    <3>2. \A i \in (Len(r) - Window + 1) .. Len(r) : r[i] = r[Len(r)]
      BY <1>2, <1>6, <2>1
    <3> QED
      BY <1>1, <3>1, <3>2 DEF Unproductive
  <2> QED
    BY <1>0, <1>4, <2>1
<1> HIDE DEF r
<1> QED
  BY <1>1, <1>3, <1>4, <1>5, <1>6, <1>7

\* Every step keeps: a streak of equal results ends the loop.
LEMMA SpinNext == LoopInv /\ SpinInv /\ [Next]_vars => SpinInv'
<1> SUFFICES ASSUME LoopInv, SpinInv, [Next]_vars PROVE SpinInv'
  OBVIOUS
<1> USE LoopAssumption
<1>1. ASSUME UNCHANGED <<saved, base>>, Live' => SeesStreak(guard', line')
      PROVE  SpinInv'
  BY <1>1 DEF SpinInv, SeesStreak
<1>2. ASSUME NEW res \in Results, ToolReturns(res) \/ ResumedReturns(res)
      PROVE  SpinInv'
  <2>1. Live /\ guard' = AfterResult(guard, res) /\ NoteResult(res)
        /\ UNCHANGED <<saved, base>>
        /\ (Live' => ~Unproductive(AfterResult(guard, res)))
    BY <1>2 DEF ToolReturns, ResumedReturns, End, Live
  <2>2. guard \in Guards /\ line \in Lines
    BY DEF LoopInv, TypeOK
  <2> QED
    BY <1>1, <2>1, <2>2, SpinResult DEF SpinInv
<1>3. ASSUME NEW c \in Calls, Pause(c) PROVE SpinInv'
  <2>1. Live /\ pc' = "paused" /\ base' = line
        /\ saved'.snapshot.recent = guard.recent
    BY <1>3 DEF Pause, Considering, Live, Snapshot, Admitted
  <2> QED
    BY <2>1 DEF SpinInv, SeesStreak, Live
<1>4. ASSUME NEW c \in Calls, HandOver(c) PROVE SpinInv'
  <2>1. Live /\ UNCHANGED <<saved, base>> /\ guard'.recent = guard.recent
        /\ line'.last = line.last /\ line'.streak = line.streak
    BY <1>4 DEF HandOver, Considering, Live, Admitted, MarkRun, LoopInv,
                TypeOK, Lines
  <2> QED
    BY <1>1, <2>1 DEF SpinInv, SeesStreak
<1>5. CASE Approve
  <2>1. saved # NoPending /\ UNCHANGED <<saved, base>>
        /\ guard'.recent = saved.snapshot.recent /\ line = base
        /\ line'.last = line.last /\ line'.streak = line.streak
    BY <1>5 DEF Approve, Restore, MarkRun, LoopInv, TypeOK, Lines
  <2> QED
    BY <1>1, <2>1 DEF SpinInv, SeesStreak
<1>6. CASE \/ DeliverResults \/ UNCHANGED vars
           \/ \E r \in Responses : ModelRequests(r)
  <2>1. (Live' => Live) /\ UNCHANGED <<guard, line, saved, base>>
    BY <1>6 DEF DeliverResults, vars, ModelRequests, historyVars, Live
  <2> QED
    BY <1>1, <2>1 DEF SpinInv, SeesStreak
<1>7. CASE \/ ModelAnswers \/ Decline \/ RollBack
           \/ \E c \in Calls : StopAtMaxRounds(c) \/ StopAtRepeat(c)
  <2>1. ~Live' /\ UNCHANGED <<saved, base>>
    BY <1>7 DEF ModelAnswers, Decline, RollBack, StopAtMaxRounds, StopAtRepeat,
                End, historyVars, Live
  <2> QED
    BY <1>1, <2>1
<1>8. CASE Settle \/ ToolCommits \/ Fail
  <2>1. saved' = NoPending /\ UNCHANGED line
        /\ (Live' => Live /\ UNCHANGED guard)
    BY <1>8 DEF Settle, ToolCommits, Fail, historyVars, memory, Live
  <2> QED
    BY <2>1 DEF SpinInv, SeesStreak
<1> QED
  BY <1>2, <1>3, <1>4, <1>5, <1>6, <1>7, <1>8 DEF Next, LoopStep

\* Once the last Window results are equal the loop is over, whatever pauses
\* and roll-backs came between.
THEOREM LoopStopsSpinning == Spec => []SpinningStops
<1>1. Init => SpinInv
  BY LoopAssumption DEF Init, SpinInv, SeesStreak, FreshGuard, NoLine
<1>2. LoopInv /\ SpinInv /\ [Next]_vars => SpinInv'
  BY SpinNext
<1>3. LoopInv /\ SpinInv => SpinningStops
  BY LoopAssumption
     DEF SpinInv, SeesStreak, SpinningStops, LoopInv, TypeOK, Lines, Live
<1> QED
  BY <1>1, <1>2, <1>3, LoopInvariant, PTL DEF Spec

-----------------------------------------------------------------------------
(* The loop implements EffectGate.                                         *)

\* How the loop's phase, its outcome and the operator's answers fit together.
GateInv ==
  /\ Live \/ pc = "paused" => outcome = "none"
  /\ pc = "ended" => saved = NoPending
  /\ saved # NoPending =>
       /\ \A e \in SideEffects \ {saved.call} : line.runs[e] = base.runs[e]
       /\ pc # "paused" /\ outcome # "declined" => line.runs[saved.call] > 0
       /\ outcome = "declined" =>
            line.runs[saved.call] = 0 /\ "declined" \in answers[saved.call]
  /\ pc # "ended" =>
       \A e \in SideEffects : "declined" \in answers[e] =>
         e = saved.call \/ line.runs[e] > 0

\* Every step keeps the link between the loop's state and the gate's.
LEMMA GateInvNext == LoopInv /\ GateInv /\ [Next]_vars => GateInv'
<1> SUFFICES ASSUME LoopInv, GateInv, [Next]_vars PROVE GateInv'
  OBVIOUS
<1> USE LoopAssumption
<1>1. CASE Approve
  <2> DEFINE c == saved.call
  <2>1. pc = "paused" /\ pc' = "resuming" /\ saved # NoPending /\ line = base
        /\ UNCHANGED <<saved, base, outcome>> /\ outcome = "none"
    BY <1>1 DEF Approve, LoopInv, GateInv
  <2>2. c \in SideEffects /\ c \in Calls /\ line.runs[c] = 0
    BY <2>1 DEF LoopInv, RowInv
  <2>3. line'.runs = [line.runs EXCEPT ![c] = 1]
        /\ line.runs \in [Calls -> 0 .. 2]
    BY <1>1, <2>2 DEF Approve, MarkRun, LoopInv, TypeOK, Lines
  <2>4. answers' = [answers EXCEPT ![c] = @ \cup {"approved"}]
        /\ answers \in [Calls -> SUBSET {"approved", "declined"}]
    BY <1>1 DEF Approve, LoopInv, TypeOK
  <2> HIDE DEF c
  <2>5. \A e \in SideEffects \ {c} : line'.runs[e] = base.runs[e]
    BY <2>1, <2>2, <2>3
  <2>6. line'.runs[c] > 0
    BY <2>2, <2>3
  <2>7. ASSUME NEW e \in SideEffects, "declined" \in answers'[e], e # c
        PROVE  line'.runs[e] > 0
    <3>1. "declined" \in answers[e] /\ line'.runs[e] = line.runs[e]
      BY <2>2, <2>3, <2>4, <2>7
    <3> QED
      BY <2>1, <2>7, <3>1 DEF GateInv, c
  <2> QED
    BY <2>1, <2>5, <2>6, <2>7 DEF GateInv, c
<1>2. CASE Decline
  <2> DEFINE c == saved.call
  <2>1. pc = "paused" /\ pc' = "done" /\ saved # NoPending /\ line = base
        /\ UNCHANGED <<saved, base, line>> /\ outcome' = "declined"
    BY <1>2 DEF Decline, End, LoopInv
  <2>2. c \in SideEffects /\ c \in Calls /\ line.runs[c] = 0
    BY <2>1 DEF LoopInv, RowInv
  <2>3. answers' = [answers EXCEPT ![c] = @ \cup {"declined"}]
        /\ answers \in [Calls -> SUBSET {"approved", "declined"}]
    BY <1>2 DEF Decline, LoopInv, TypeOK
  <2> HIDE DEF c
  <2>4. "declined" \in answers'[c]
        /\ \A e \in SideEffects \ {c} : answers'[e] = answers[e]
    BY <2>2, <2>3
  <2> QED
    BY <2>1, <2>2, <2>4 DEF GateInv, Live, c
<1>3. ASSUME NEW c \in Calls, Pause(c) PROVE GateInv'
  <2>1. pc = "calls" /\ pc' = "paused" /\ saved'.call = c /\ base' = line
        /\ UNCHANGED <<line, answers, outcome>> /\ outcome = "none"
    BY <1>3 DEF Pause, Considering, GateInv, Live
  <2>2. ASSUME NEW e \in SideEffects, "declined" \in answers[e]
        PROVE  line.runs[e] > 0
    <3>1. CASE e = saved.call
      <4>1. saved # NoPending
        BY <3>1 DEF NoPending
      <4> QED
        BY <2>1, <3>1, <4>1 DEF GateInv
    <3>2. CASE e # saved.call
      BY <2>1, <2>2, <3>2 DEF GateInv
    <3> QED
      BY <3>1, <3>2
  <2> QED
    BY <2>1, <2>2 DEF GateInv, Live
<1>4. ASSUME NEW c \in Calls, HandOver(c) PROVE GateInv'
  <2>1. pc = "calls" /\ pc' = "executing" /\ c \notin SideEffects
        /\ UNCHANGED <<saved, base, outcome, answers>>
        /\ \A e \in SideEffects : line'.runs[e] = line.runs[e]
    BY <1>4 DEF HandOver, Considering, NeedsApproval, MarkRun, LoopInv,
                TypeOK, Lines
  <2>2. saved # NoPending => saved.call \in SideEffects
    BY DEF LoopInv, RowInv
  <2> QED
    BY <2>1, <2>2 DEF GateInv, Live
<1>5. ASSUME NEW res \in Results, ToolReturns(res) \/ ResumedReturns(res)
      PROVE  GateInv'
  <2>1. /\ pc \in {"executing", "resuming"}
        /\ pc' \in {"calls", "model", "done"}
        /\ \/ pc' = "done" /\ outcome' = "unproductive"
           \/ pc' # "done" /\ outcome' = outcome
        /\ UNCHANGED <<saved, base, answers>> /\ line'.runs = line.runs
    BY <1>5 DEF ToolReturns, ResumedReturns, End, NoteResult
  <2> QED
    BY <2>1 DEF GateInv, Live
<1>6. ASSUME NEW c \in Calls, StopAtMaxRounds(c) \/ StopAtRepeat(c)
      PROVE  GateInv'
  BY <1>6 DEF StopAtMaxRounds, StopAtRepeat, Considering, End, GateInv, Live,
              historyVars
<1>7. CASE \/ ModelAnswers \/ DeliverResults \/ UNCHANGED vars
           \/ \E r \in Responses : ModelRequests(r)
  BY <1>7 DEF ModelAnswers, DeliverResults, ModelRequests, End, GateInv, Live,
              historyVars, vars
<1>8. CASE Settle \/ Fail
  BY <1>8 DEF Settle, Fail, GateInv, Live, historyVars
<1>9. CASE ToolCommits
  <2>1. Live /\ saved # NoPending /\ saved' = NoPending
        /\ UNCHANGED <<pc, line, answers, outcome>>
    BY <1>9 DEF ToolCommits, Live
  <2>2. line.runs[saved.call] > 0
    BY <2>1 DEF GateInv, Live
  <2> QED
    BY <2>1, <2>2 DEF GateInv, Live
<1>10. CASE RollBack
  <2>1. pc # "ended" /\ pc' = "paused" /\ outcome' = "none"
        /\ saved # NoPending
        /\ line' = base /\ UNCHANGED <<saved, base, answers>>
    BY <1>10 DEF RollBack
  <2> QED
    BY <2>1 DEF GateInv
<1> QED
  BY <1>1, <1>2, <1>3, <1>4, <1>5, <1>6, <1>7, <1>8, <1>9, <1>10
     DEF Next, LoopStep

Question == [e \in SideEffects |-> QuestionOf(e)]

\* A committed answer stands; the row behind an open request is answered.
LEMMA AnsweredRow ==
  ASSUME LoopInv, GateInv, pc # "paused", NEW e \in SideEffects
  PROVE  /\ QuestionOf(e) # "asked"
         /\ saved.call = e /\ outcome # "declined" => line.runs[e] > 0
         /\ saved.call = e /\ outcome = "declined" =>
              line.runs[e] = 0 /\ "declined" \in answers[e]
         /\ saved.call # e => QuestionOf(e) \in {"kept", "dropped", "unasked"}
<1>1. e \in Calls /\ NoPending.call \notin Calls
  BY LoopAssumption DEF NoPending
<1>2. saved.call = e => saved # NoPending
  BY <1>1
<1> QED
  BY <1>2 DEF QuestionOf, GateInv

\* A step that leaves row, line and answers alone leaves the gate alone.
LEMMA GateUntouched ==
  ASSUME UNCHANGED <<saved, answers>>, pc # "paused", pc' # "paused",
         pc # "ended", pc' # "ended",
         \A e \in SideEffects : line'.runs[e] = line.runs[e],
         UNCHANGED undone, (outcome = "declined") = (outcome' = "declined")
  PROVE  UNCHANGED Gate!vars
<1>1. Question' = Question
  <2>1. \A e \in SideEffects : QuestionOf(e)' = QuestionOf(e)
    BY DEF QuestionOf
  <2> QED
    BY <2>1 DEF Question
<1>2. Happened' = Happened
  BY DEF Happened
<1> QED
  BY <1>1, <1>2 DEF Gate!vars, Question

\* The commit at the end of a request, and a failure of a request with nothing
\* to bring back, close the gate.
LEMMA GateCloses ==
  ASSUME LoopInv, GateInv, Settle \/ Fail
  PROVE  Gate!Close
<1> USE LoopAssumption
<1>1. pc \notin {"paused", "ended"} /\ pc' = "ended" /\ saved' = NoPending
      /\ UNCHANGED <<line, undone, answers>>
  BY DEF Settle, Fail, historyVars
<1>2. ASSUME NEW e \in SideEffects
      PROVE  QuestionOf(e)' = Gate!Standing(QuestionOf(e))
  <2>1. e \in Calls /\ saved'.call # e /\ line.runs[e] \in 0 .. 2
    BY <1>1 DEF NoPending, LoopInv, TypeOK, Lines
  <2>2. CASE saved.call = e
    BY <1>1, <2>1, <2>2, AnsweredRow DEF QuestionOf, Gate!Standing
  <2>3. CASE saved.call # e
    BY <1>1, <2>1, <2>3, AnsweredRow DEF QuestionOf, Gate!Standing
  <2> QED
    BY <2>2, <2>3
<1>3. Happened' = Happened
  BY <1>1 DEF Happened
<1>4. \A e \in SideEffects : QuestionOf(e) # "asked"
  BY <1>1, AnsweredRow
<1>5. Question' = [e \in SideEffects |-> Gate!Standing(QuestionOf(e))]
  BY <1>2 DEF Question
<1> QED
  BY <1>1, <1>3, <1>4, <1>5 DEF Gate!Close, Question

\* A step that changes the question about e alone.
LEMMA OneQuestion ==
  ASSUME NEW e \in SideEffects, NEW q,
         \A f \in SideEffects :
           Question'[f] = IF f = e THEN q ELSE Question[f]
  PROVE  Question' = [Question EXCEPT ![e] = q]
BY DEF Question

\* The operator's approval is the gate's Grant.
LEMMA GateGrants ==
  ASSUME LoopInv, GateInv, Approve
  PROVE  Gate!Grant(saved.call)
<1>0. PICK e : e = saved.call
  OBVIOUS
<1>1. pc = "paused" /\ pc' = "resuming" /\ saved # NoPending
      /\ UNCHANGED <<saved, outcome, undone>> /\ outcome = "none"
  BY <1>0 DEF Approve, LoopInv, GateInv
<1>2. e \in SideEffects /\ e \in Calls /\ line.runs[e] = 0
  BY <1>0, <1>1, LoopAssumption DEF LoopInv, RowInv
<1>3. line'.runs = [line.runs EXCEPT ![e] = 1]
      /\ line.runs \in [Calls -> 0 .. 2]
  BY <1>0, <1>2 DEF Approve, MarkRun, LoopInv, TypeOK, Lines
<1>4. answers' = [answers EXCEPT ![e] = @ \cup {"approved"}]
      /\ answers \in [Calls -> SUBSET {"approved", "declined"}]
  BY <1>0 DEF Approve, LoopInv, TypeOK
<1>5. QuestionOf(e) = "asked" /\ QuestionOf(e)' = "granted"
  BY <1>0, <1>1 DEF QuestionOf
<1>6. ASSUME NEW f \in SideEffects \ {e}
      PROVE  QuestionOf(f)' = QuestionOf(f)
  <2>1. f \in Calls /\ f # saved.call /\ saved'.call = saved.call
    BY <1>0, <1>1, LoopAssumption
  <2>2. line'.runs[f] = line.runs[f] /\ answers'[f] = answers[f]
    BY <1>0, <1>2, <1>3, <1>4, <2>1
  <2> QED
    BY <1>0, <2>1, <2>2 DEF QuestionOf
<1>7. Happened' = Happened \cup {e}
  BY <1>0, <1>1, <1>2, <1>3, LoopAssumption DEF Happened
<1>8. Question' = [Question EXCEPT ![e] = "granted"] /\ Question[e] = "asked"
  <2>1. \A f \in SideEffects :
          Question'[f] = IF f = e THEN "granted" ELSE Question[f]
    BY <1>0, <1>5, <1>6 DEF Question
  <2> QED
    BY <1>0, <1>2, <1>5, <2>1, OneQuestion DEF Question
<1>9. (pc # "ended") = (pc' # "ended")
  BY <1>0, <1>1
<1> QED
  BY <1>0, <1>7, <1>8, <1>9 DEF Gate!Grant, Question

\* The operator's refusal is the gate's Refuse.
LEMMA GateRefuses ==
  ASSUME LoopInv, GateInv, Decline
  PROVE  Gate!Refuse(saved.call)
<1>0. PICK e : e = saved.call
  OBVIOUS
<1>1. pc = "paused" /\ pc' = "done" /\ saved # NoPending
      /\ UNCHANGED <<saved, line, undone>> /\ outcome' = "declined"
  BY <1>0 DEF Decline, End, LoopInv
<1>2. e \in SideEffects /\ e \in Calls
  BY <1>0, <1>1, LoopAssumption DEF LoopInv, RowInv
<1>3. answers' = [answers EXCEPT ![e] = @ \cup {"declined"}]
      /\ answers \in [Calls -> SUBSET {"approved", "declined"}]
  BY <1>0 DEF Decline, LoopInv, TypeOK
<1>4. QuestionOf(e) = "asked" /\ QuestionOf(e)' = "refused"
  BY <1>0, <1>1 DEF QuestionOf
<1>5. ASSUME NEW f \in SideEffects \ {e}
      PROVE  QuestionOf(f)' = QuestionOf(f)
  <2>1. f \in Calls /\ f # saved.call /\ saved'.call = saved.call
    BY <1>0, <1>1, LoopAssumption
  <2>2. answers'[f] = answers[f]
    BY <1>0, <1>2, <1>3, <2>1
  <2> QED
    BY <1>0, <1>1, <2>1, <2>2 DEF QuestionOf
<1>6. Happened' = Happened
  BY <1>0, <1>1 DEF Happened
<1>7. Question' = [Question EXCEPT ![e] = "refused"] /\ Question[e] = "asked"
  <2>1. \A f \in SideEffects :
          Question'[f] = IF f = e THEN "refused" ELSE Question[f]
    BY <1>0, <1>4, <1>5 DEF Question
  <2> QED
    BY <1>0, <1>2, <1>4, <2>1, OneQuestion DEF Question
<1>8. (pc # "ended") = (pc' # "ended")
  BY <1>0, <1>1
<1> QED
  BY <1>0, <1>6, <1>7, <1>8 DEF Gate!Refuse, Question

\* A committed pause is the gate's Ask; the answer before it now stands.
LEMMA GateAsks ==
  ASSUME LoopInv, GateInv, NEW c \in Calls, Pause(c)
  PROVE  c \in SideEffects /\ Gate!Ask(c)
<1>1. pc = "calls" /\ pc' = "paused" /\ c \in SideEffects
      /\ saved'.call = c /\ UNCHANGED <<line, undone, answers>>
      /\ outcome = "none"
  BY DEF Pause, Considering, NeedsApproval, GateInv, Live
<1>2. line.runs[c] = 0
  BY <1>1 DEF Pause, Repeats, LoopInv, Live, Sound, RanIn, TypeOK, Lines
<1>3. ASSUME NEW e \in SideEffects
      PROVE  QuestionOf(e) \notin {"asked", "refused"}
  <2>1. CASE saved.call = e
    BY <1>1, <2>1 DEF QuestionOf
  <2>2. CASE saved.call # e
    BY <1>1, <2>2, AnsweredRow
  <2> QED
    BY <2>1, <2>2
<1>4. saved.call # c
  BY <1>1, <1>2, AnsweredRow
<1>5. QuestionOf(c) = "unasked"
  BY <1>1, <1>2, <1>4 DEF QuestionOf, GateInv
<1>6. ASSUME NEW e \in SideEffects
      PROVE  QuestionOf(e)' = IF e = c THEN "asked"
                              ELSE Gate!Standing(QuestionOf(e))
  <2>1. CASE e = c
    BY <1>1, <2>1 DEF QuestionOf
  <2>2. CASE e # c /\ saved.call = e
    BY <1>1, <2>2, AnsweredRow DEF QuestionOf, Gate!Standing
  <2>3. CASE e # c /\ saved.call # e
    BY <1>1, <2>3, AnsweredRow DEF QuestionOf, Gate!Standing
  <2> QED
    BY <2>1, <2>2, <2>3
<1>7. Question' = [e \in SideEffects |-> IF e = c THEN "asked"
                                         ELSE Gate!Standing(QuestionOf(e))]
  BY <1>6 DEF Question
<1>8. Happened' = Happened
  BY <1>1 DEF Happened
<1>9. ~Gate!Waiting
  BY <1>3 DEF Gate!Waiting
<1> QED
  BY <1>1, <1>5, <1>7, <1>8, <1>9 DEF Gate!Ask, Question

\* A roll-back of an answered request is the gate's Undo.
LEMMA GateUndoes ==
  ASSUME LoopInv, GateInv, RollBack
  PROVE  saved.call \in SideEffects /\ Gate!Undo(saved.call)
<1>0. PICK e : e = saved.call
  OBVIOUS
<1>1. pc \notin {"paused", "ended"} /\ pc' = "paused" /\ saved # NoPending
      /\ UNCHANGED <<saved, base, answers>> /\ line' = base
      /\ undone' = undone \cup {c \in SideEffects : line.runs[c] > base.runs[c]}
  BY <1>0 DEF RollBack
<1>2. e \in SideEffects /\ e \in Calls /\ base.runs[e] = 0
      /\ \A f \in SideEffects \ {e} : line.runs[f] = base.runs[f]
  BY <1>0, <1>1, LoopAssumption DEF LoopInv, RowInv, GateInv
<1>3. line.runs \in [Calls -> 0 .. 2] /\ base.runs \in [Calls -> 0 .. 2]
  BY <1>0 DEF LoopInv, TypeOK, Lines
<1>4. QuestionOf(e)' = "asked" /\ QuestionOf(e) \in {"granted", "refused"}
  BY <1>0, <1>1 DEF QuestionOf
<1>5. ASSUME NEW f \in SideEffects \ {e}
      PROVE  QuestionOf(f)' = QuestionOf(f)
  <2>1. f # saved.call /\ saved'.call = saved.call
        /\ line'.runs[f] = line.runs[f]
    BY <1>0, <1>1, <1>2
  <2> QED
    BY <1>0, <1>1, <2>1 DEF QuestionOf
<1>6. Happened' = Happened
  <2>1. ASSUME NEW f \in SideEffects
        PROVE  f \in Happened' <=> f \in Happened
    <3>1. f \in Calls
      BY LoopAssumption
    <3>2. CASE f = e
      BY <1>0, <1>1, <1>2, <1>3, <3>1, <3>2 DEF Happened
    <3>3. CASE f # e
      BY <1>0, <1>1, <1>2, <1>3, <3>1, <3>3 DEF Happened
    <3> QED
      BY <1>0, <3>2, <3>3
  <2>2. Happened \subseteq SideEffects /\ Happened' \subseteq SideEffects
    BY <1>0, <1>1 DEF Happened, LoopInv, TypeOK
  <2> QED
    BY <1>0, <2>1, <2>2
<1>7. Question' = [Question EXCEPT ![e] = "asked"]
      /\ Question[e] \in {"granted", "refused"}
  <2>1. \A f \in SideEffects :
          Question'[f] = IF f = e THEN "asked" ELSE Question[f]
    BY <1>0, <1>4, <1>5 DEF Question
  <2> QED
    BY <1>0, <1>2, <1>4, <2>1, OneQuestion DEF Question
<1>8. (pc # "ended") = (pc' # "ended")
  BY <1>0, <1>1
<1> QED
  BY <1>0, <1>2, <1>6, <1>7, <1>8 DEF Gate!Undo, Question

\* A tool's own commit is the gate's Keep.
LEMMA GateKeeps ==
  ASSUME LoopInv, GateInv, ToolCommits
  PROVE  saved.call \in SideEffects /\ Gate!Keep(saved.call)
<1>0. PICK e : e = saved.call
  OBVIOUS
<1>1. Live /\ pc' = pc /\ saved # NoPending /\ saved' = NoPending
      /\ UNCHANGED <<line, undone, answers, outcome>>
  BY <1>0 DEF ToolCommits, Live
<1>2. e \in SideEffects /\ line.runs[e] > 0 /\ outcome = "none"
  BY <1>0, <1>1 DEF LoopInv, RowInv, GateInv, Live
<1>3. ASSUME NEW f \in SideEffects
      PROVE  f # saved'.call
  BY <1>0, <1>1, LoopAssumption DEF NoPending
<1>4. QuestionOf(e) = "granted" /\ QuestionOf(e)' = "kept"
  BY <1>0, <1>1, <1>2, <1>3 DEF QuestionOf, Live
<1>5. ASSUME NEW f \in SideEffects \ {e}
      PROVE  QuestionOf(f)' = QuestionOf(f)
  BY <1>0, <1>1, <1>3 DEF QuestionOf
<1>6. Happened' = Happened
  BY <1>0, <1>1 DEF Happened
<1>7. Question' = [Question EXCEPT ![e] = "kept"] /\ Question[e] = "granted"
  <2>1. \A f \in SideEffects :
          Question'[f] = IF f = e THEN "kept" ELSE Question[f]
    BY <1>0, <1>4, <1>5 DEF Question
  <2> QED
    BY <1>0, <1>2, <1>4, <2>1, OneQuestion DEF Question
<1> QED
  BY <1>0, <1>1, <1>2, <1>6, <1>7 DEF Gate!Keep, Question

\* Every step of the loop is a step of the approval gate, or a stutter of it.
LEMMA GateStep ==
  LoopInv /\ GateInv /\ [Next]_vars => [Gate!Next]_(Gate!vars)
<1> SUFFICES ASSUME LoopInv, GateInv, [Next]_vars
             PROVE  Gate!Next \/ UNCHANGED Gate!vars
  OBVIOUS
<1>1. CASE Approve
  <2>1. saved.call \in SideEffects
    BY <1>1 DEF Approve, LoopInv, RowInv
  <2> QED
    BY <1>1, <2>1, GateGrants DEF Gate!Next
<1>2. CASE Decline
  <2>1. saved.call \in SideEffects
    BY <1>2 DEF Decline, LoopInv, RowInv
  <2> QED
    BY <1>2, <2>1, GateRefuses DEF Gate!Next
<1>3. ASSUME NEW c \in Calls, Pause(c) PROVE Gate!Next
  BY <1>3, GateAsks DEF Gate!Next
<1>4. CASE RollBack
  BY <1>4, GateUndoes DEF Gate!Next
<1>5. CASE ToolCommits
  BY <1>5, GateKeeps DEF Gate!Next
<1>6. CASE Settle \/ Fail
  BY <1>6, GateCloses DEF Gate!Next
<1>7. ASSUME NEW c \in Calls, HandOver(c) PROVE UNCHANGED Gate!vars
  <2>1. /\ pc = "calls" /\ pc' = "executing"
        /\ UNCHANGED <<saved, answers, undone, outcome>>
        /\ \A e \in SideEffects : line'.runs[e] = line.runs[e]
    BY <1>7, LoopAssumption DEF HandOver, Considering, NeedsApproval, MarkRun,
       LoopInv, TypeOK, Lines
  <2> QED
    BY <2>1, GateUntouched
<1>8. ASSUME NEW res \in Results, ToolReturns(res) \/ ResumedReturns(res)
      PROVE  UNCHANGED Gate!vars
  <2>1. /\ pc \in {"executing", "resuming"}
        /\ pc' \in {"calls", "model", "done"}
        /\ UNCHANGED <<saved, answers, undone>> /\ line'.runs = line.runs
        /\ outcome' \in {outcome, "unproductive"}
    BY <1>8 DEF ToolReturns, ResumedReturns, End, NoteResult
  <2>2. outcome = "none"
    BY <2>1 DEF GateInv, Live
  <2> QED
    BY <2>1, <2>2, GateUntouched
<1>9. ASSUME NEW c \in Calls, StopAtMaxRounds(c) \/ StopAtRepeat(c)
      PROVE  UNCHANGED Gate!vars
  <2>1. /\ pc = "calls" /\ pc' = "done"
        /\ UNCHANGED <<saved, answers, undone, line>>
        /\ outcome' \in {"max_rounds", "repeated"}
    BY <1>9 DEF StopAtMaxRounds, StopAtRepeat, Considering, End, historyVars
  <2>2. outcome = "none"
    BY <2>1 DEF GateInv, Live
  <2> QED
    BY <2>1, <2>2, GateUntouched
<1>10. CASE \/ ModelAnswers \/ DeliverResults
            \/ \E r \in Responses : ModelRequests(r)
  <2>1. /\ pc \in {"model", "calls"} /\ pc' \in {"model", "calls", "done"}
        /\ UNCHANGED <<saved, answers, undone, line>>
        /\ outcome' \in {outcome, "answered"}
    BY <1>10 DEF ModelAnswers, DeliverResults, ModelRequests, End, historyVars
  <2>2. outcome = "none"
    BY <2>1 DEF GateInv, Live
  <2> QED
    BY <2>1, <2>2, GateUntouched
<1>11. CASE UNCHANGED vars
  <2>1. Question' = Question /\ Happened' = Happened /\ pc' = pc
    BY <1>11 DEF Question, QuestionOf, Happened, vars
  <2> QED
    BY <2>1 DEF Gate!vars, Question
<1> QED
  BY <1>1, <1>2, <1>3, <1>4, <1>5, <1>6, <1>7, <1>8, <1>9, <1>10, <1>11
     DEF Next, LoopStep

\* Every behaviour of the loop is a behaviour of the approval gate: an effect
\* happens only as an answer to its open question, an answer stands once it is
\* committed, and until then a roll-back brings the same question back.
THEOREM LoopImplementsGate == Spec => ImplementsGate
<1>1. Init => GateInv
  BY LoopAssumption DEF Init, GateInv, Live
<1>2. LoopInv /\ GateInv /\ [Next]_vars => GateInv'
  BY GateInvNext
<1>3. Init => Gate!Init
  <2> SUFFICES ASSUME Init PROVE Gate!Init
    OBVIOUS
  <2>1. Happened = {}
    BY LoopAssumption DEF Init, NoLine, Happened
  <2>2. \A e \in SideEffects : QuestionOf(e) = "unasked"
    BY LoopAssumption DEF Init, NoLine, NoPending, QuestionOf
  <2> QED
    BY <2>1, <2>2 DEF Gate!Init, Init
<1>4. LoopInv /\ GateInv /\ [Next]_vars => [Gate!Next]_(Gate!vars)
  BY GateStep
<1> QED
  BY <1>1, <1>2, <1>3, <1>4, LoopInvariant, PTL
     DEF Spec, ImplementsGate, Gate!Spec
=============================================================================
