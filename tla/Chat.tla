-------------------------------- MODULE Chat --------------------------------
(***************************************************************************)
(* The chat page (pages/Chat.tsx) and the reader of its event streams      *)
(* (lib/api.ts), on top of the turn lifecycle of module Turns.             *)
(*                                                                         *)
(* An assistant message is named by the request that submitted its turn.   *)
(* A handler of the page runs without interruption, and so does all that   *)
(* one chunk of a stream gives rise to; clicks, chunks and the requests'   *)
(* steps on the server come in any order.  A connection may fail at any    *)
(* moment, which either side notices by itself.                            *)
(***************************************************************************)
EXTENDS Turns, SequencesExt

CONSTANT MaxFaults    \* bound: how often something goes wrong by itself

ASSUME ChatAssumption == MaxFaults \in Nat

VARIABLES
  messages,        \* the assistant messages on the page
  conversationId,  \* the conversation the next message is sent to
  sending,         \* disables the composer
  card,            \* message -> the question its approval card shows
  responding,      \* messages whose Approve and Decline are disabled
  stream,          \* request -> its event stream as the browser has it
  finished,        \* history: messages whose "done" has reached the page
  early,           \* history: messages sent while an earlier one was unfinished
  faults           \* what has gone wrong so far

pageVars == <<messages, conversationId, sending, card, responding, finished, early>>
chatVars == <<vars, pageVars, stream, faults>>

\* sent: the events the server wrote; at: how many of them have been read;
\* buffer: those read that no blank line has closed yet; seen, cuts: history,
\* the events handed to the page and those whose blank line a chunk boundary cut.
\* asked: what the request carries: a turn and an answer, or a conversation;
\* shown: the question of the clicked card; hasty: that question was not, or never, committed.
Unused == [state |-> "idle", sent |-> <<>>, at |-> 0, buffer |-> <<>>,
           seen |-> <<>>, cuts |-> {}, asked |-> Nobody, yes |-> FALSE,
           shown |-> Nobody, hasty |-> FALSE]

ChatInit ==
  /\ Init
  /\ messages = {} /\ conversationId = Nobody /\ sending = FALSE
  /\ card = [m \in Submits |-> Nobody] /\ responding = {}
  /\ stream = [r \in Requests |-> Unused]
  /\ finished = {} /\ early = {} /\ faults = 0

\* The message a stream writes to.
MessageOf(r) == IF r \in Submits THEN r ELSE stream[r].asked

\* The conversation of a turn: the one asked for, or one of its own.
ConversationOf(m) == IF stream[m].asked = Nobody THEN m ELSE stream[m].asked

-----------------------------------------------------------------------------
(* The page's handlers                                                     *)

\* Its answer may still come, or has come and not been shown.
Unfinished(m) == m \notin finished /\ (db[m].turn # "absent" \/ req[m].phase # "closed")

\* handleSubmit
Send(r) ==
  /\ r \in Submits /\ stream[r].state = "idle" /\ ~sending
  /\ messages' = messages \cup {r}
  /\ sending' = TRUE
  /\ stream' = [stream EXCEPT ![r].state = "open", ![r].asked = conversationId]
  /\ early' = IF \E m \in messages : Unfinished(m) THEN early \cup {r} ELSE early
  /\ UNCHANGED <<vars, conversationId, card, responding, finished>>

Click(r, m, yes) ==
  /\ r \in Approvals /\ stream[r].state = "idle"
  /\ m \in messages \ responding /\ card[m] # Nobody
  /\ sending' = TRUE
  /\ responding' = responding \cup {m}
  /\ stream' = [stream EXCEPT ![r].state = "open", ![r].asked = m, ![r].yes = yes,
                  ![r].shown = card[m], ![r].hasty = req[card[m]].end # "paused"]

\* Mistake: the card stays until the next question replaces it.
RespondKeepsCard(r, m, yes) ==
  /\ Click(r, m, yes)
  /\ UNCHANGED <<vars, card, messages, conversationId, finished, early>>

\* handleApprove: the card goes before the answer is sent; its buttons are not
\* disabled while another message is being sent.
Answer(r, m, yes) ==
  /\ Click(r, m, yes)
  /\ card' = [card EXCEPT ![m] = Nobody]
  /\ UNCHANGED <<vars, messages, conversationId, finished, early>>

\* Another view takes the page's place, or it is loaded anew: what it held is
\* gone, and the streams that were open no longer reach it.
Leave ==
  /\ messages # {}
  /\ messages' = {} /\ conversationId' = Nobody /\ sending' = FALSE
  /\ card' = [m \in Submits |-> Nobody] /\ responding' = {}
  /\ stream' = [r \in Requests |->
       IF stream[r].state = "open" THEN [stream[r] EXCEPT !.state = "failed"]
       ELSE stream[r]]
  /\ UNCHANGED <<vars, finished, early>>

-----------------------------------------------------------------------------
(* Reading a stream                                                        *)

\* parseSseEvent: the data of two events in one is no JSON, and both are dropped.
Parse(raw) == IF Len(raw) = 1 THEN raw ELSE <<>>

\* The events of a chunk that closes the events `es`, the first of them on top
\* of what the buffer holds.
Parsed(buffer, es) == IF es = <<>> THEN <<>> ELSE Parse(buffer \o <<Head(es)>>) \o Tail(es)

\* Mistake: the conversation is kept from a submission's stream only.
ApplyKeepsFirst(r, es) ==
  LET m == MessageOf(r) IN
  /\ card' = [card EXCEPT ![m] = IF Contains(es, "approval_required") THEN r ELSE @]
  /\ conversationId' = IF Contains(es, "done") /\ r \in Submits
                       THEN ConversationOf(m) ELSE conversationId
  /\ finished' = IF Contains(es, "done") THEN finished \cup {m} ELSE finished

\* consumeEvents: what the events do to the page.
Apply(r, es) ==
  LET m == MessageOf(r) IN
  /\ card' = [card EXCEPT ![m] = IF Contains(es, "approval_required") THEN r ELSE @]
  /\ conversationId' = IF Contains(es, "done") THEN ConversationOf(m) ELSE conversationId
  /\ finished' = IF Contains(es, "done") THEN finished \cup {m} ELSE finished

\* consumeSseStream: a chunk holds n events and, if it cuts one, the next up to
\* the middle of its blank line "\r\n".  Line endings are normalised chunk by
\* chunk, so that blank line never separates anything.
Receive(r, n, cut) ==
  LET s == stream[r]
      to == s.at + n + (IF cut THEN 1 ELSE 0)
      closed == SubSeq(s.sent, s.at + 1, s.at + n)
      tail == SubSeq(s.sent, s.at + n + 1, to)
      new == Parsed(s.buffer, closed)
  IN
  /\ s.state = "open" /\ s.at < to /\ to <= Len(s.sent)
  /\ stream' = [stream EXCEPT ![r] =
       [s EXCEPT !.at = to,
                 !.buffer = (IF n = 0 THEN @ ELSE <<>>) \o tail,
                 !.seen = @ \o new,
                 !.cuts = IF cut THEN @ \cup {to} ELSE @]]
  /\ Apply(r, new)
  /\ UNCHANGED <<vars, messages, sending, responding, early>>

\* The `finally` of both handlers, whichever stream `sending` was set for.
Release(r) ==
  /\ sending' = FALSE
  /\ responding' = IF r \in Approvals THEN responding \ {MessageOf(r)} ELSE responding

WellEnded(r) ==
  /\ req[r].phase = "closed"
  /\ req[r].end \in {"done", "paused"} \/ (r \in Submits /\ req[r].end = "error")

\* A 404, an exception of resume_turn, a server that died.
Broken(r) == req[r].phase = "closed" /\ ~WellEnded(r)

\* Mistakes: what is left in the buffer is dropped; the card goes at the end.
EndDropsRest(r) ==
  LET s == stream[r] IN
  /\ s.state = "open" /\ WellEnded(r) /\ s.at = Len(s.sent)
  /\ stream' = [stream EXCEPT ![r] = [s EXCEPT !.state = "ended", !.buffer = <<>>]]
  /\ Apply(r, <<>>) /\ Release(r)
  /\ UNCHANGED <<vars, messages, early>>
EndDropsCard(r) ==
  LET s == stream[r] IN
  /\ s.state = "open" /\ WellEnded(r) /\ s.at = Len(s.sent)
  /\ stream' = [stream EXCEPT ![r] =
       [s EXCEPT !.state = "ended", !.buffer = <<>>, !.seen = @ \o Parse(s.buffer)]]
  /\ card' = [card EXCEPT ![MessageOf(r)] = Nobody]
  /\ Release(r)
  /\ UNCHANGED <<vars, messages, early, conversationId, finished>>

\* The stream ends: the buffer's rest is an event too.
End(r) ==
  LET s == stream[r] IN
  /\ s.state = "open" /\ WellEnded(r) /\ s.at = Len(s.sent)
  /\ stream' = [stream EXCEPT ![r] =
       [s EXCEPT !.state = "ended", !.buffer = <<>>, !.seen = @ \o Parse(s.buffer)]]
  /\ Apply(r, Parse(s.buffer)) /\ Release(r)
  /\ UNCHANGED <<vars, messages, early>>

\* The response is a 404, or a read is rejected: the handlers' `catch`.
Fail(r) ==
  /\ stream[r].state = "open"
  /\ stream' = [stream EXCEPT ![r].state = "failed"]
  /\ Release(r)
  /\ UNCHANGED <<vars, messages, early, card, conversationId, finished>>

-----------------------------------------------------------------------------
(* The server, and the events its steps put on the stream                  *)

Emit(r, e) ==
  stream' = IF stream[r].state = "open"
            THEN [stream EXCEPT ![r].sent = Append(@, e)] ELSE stream

\* stream_turn reports an exception, resume_turn lets the connection break.
EmitError(r) == IF r \in Submits THEN Emit(r, "error") ELSE UNCHANGED stream

Serve(r) ==
  \/ r \in Submits /\ Submit(r) /\ UNCHANGED stream
  \/ r \in Submits /\ SubmitWithoutModel(r) /\ Emit(r, "error")
  \/ r \in Approvals /\ Respond(r, stream[r].asked, stream[r].yes) /\ UNCHANGED stream
  \/ (\E named \in Classifications : Classify(r, named)) /\ Emit(r, "progress")
  \/ AgentEnds(r) /\ Emit(r, "progress")
  \/ AgentPauses(r) /\ Emit(r, "approval_required")
  \/ (CommitPause(r) \/ DeletePending(r) \/ WaitForRow(r) \/ Execute(r)) /\ UNCHANGED stream
  \/ PauseConflicts(r) /\ EmitError(r)
  \/ ApplyDecline(r) /\ Emit(r, "progress")
  \/ Reply(r) /\ Emit(r, "token")
  \/ CommitAnswer(r) /\ Emit(r, "done")
  \/ stream[r].state = "failed" /\ Disconnect(r) /\ UNCHANGED stream

Fault ==
  \/ \E r \in Requests :
       \/ \E n \in 0 .. Len(stream[r].sent) - stream[r].at : Receive(r, n, TRUE)
       \/ ~Broken(r) /\ Fail(r)
       \/ stream[r].state # "idle" /\ (Raise(r) /\ EmitError(r)) /\ UNCHANGED pageVars
  \/ Crash /\ UNCHANGED <<pageVars, stream>>
  \/ Leave

ChatNext ==
  \/ /\ \/ \E r \in Submits : Send(r)
        \/ \E r \in Approvals, m \in Submits, yes \in BOOLEAN : Answer(r, m, yes)
        \/ \E r \in Requests :
             \/ \E n \in 0 .. Len(stream[r].sent) - stream[r].at : Receive(r, n, FALSE)
             \/ End(r)
             \/ Broken(r) /\ Fail(r)
             \/ stream[r].state # "idle" /\ Serve(r) /\ UNCHANGED pageVars
     /\ UNCHANGED faults
  \/ Fault /\ faults < MaxFaults /\ faults' = faults + 1

ChatSpec == ChatInit /\ [][ChatNext]_chatVars

-----------------------------------------------------------------------------
(* Properties                                                              *)

\* A question the server waits on has its card on the page that asked, while
\* no stream of that message has failed (an answer sent before the question is
\* committed fails with a 404) and no event of it was cut.
QuestionsStayAnswerable ==
  \A m \in messages : db[m].pending # NoRow =>
    \/ card[m] = db[m].pending.by
    \/ \E r \in Requests : /\ MessageOf(r) = m
                           /\ stream[r].state \in {"open", "failed"} \/ stream[r].cuts # {}

\* A response, which names a turn and not a question, resumes the question its
\* card showed, unless it was clicked before that question was committed.
AnswersWhatWasShown ==
  \A r \in Approvals : req[r].read # NoRow /\ ~stream[r].hasty =>
    req[r].read.by = stream[r].shown

\* A chunk boundary joined event i to the next one, or to the one before.
Joined(s, i) == (i \in s.cuts /\ i < Len(s.sent)) \/ i - 1 \in s.cuts
Place(s, i) == Cardinality({j \in 1 .. i : ~Joined(s, j)})

\* A stream that ended has shown its events, in their order and nothing else,
\* but for those a chunk boundary joined to another.
OnlyCutEventsAreLost ==
  \A r \in Requests : stream[r].state = "ended" =>
    LET s == stream[r] IN
    /\ Len(s.seen) = Place(s, Len(s.sent))
    /\ \A i \in DOMAIN s.sent : ~Joined(s, i) => s.seen[Place(s, i)] = s.sent[i]

\* The turns of a page are one conversation, unless one of them was sent while
\* the answer to an earlier one was still to come or had not reached the page.
ForksOnlyWhenUnfinished ==
  \A m, n \in messages : db[m].turn # "absent" /\ db[n].turn # "absent" =>
    ConversationOf(m) = ConversationOf(n) \/ messages \cap early # {}
=============================================================================
