--------------------------- MODULE TicketDetailView ---------------------------
(***************************************************************************)
(* One chat as a technician sees it: the Angular component                 *)
(* pages/ticket-detailview, the event bus and SSE stream that feed it, and *)
(* the agent of that chat as far as it publishes events.  A chat that is   *)
(* opened from the list is a new view: it loads the stored messages, then  *)
(* subscribes.  Tool calls are shown as cards; a pending card has buttons. *)
(*                                                                         *)
(* The agent is the sequential reading of what ToolCalls and Orchestrator  *)
(* model in full: one loop, one tool call at a time.                       *)
(***************************************************************************)
EXTENDS Naturals, Sequences, FiniteSets

CONSTANTS
  Calls,      \* tool calls
  Views,      \* OpenChat objects, one each time the chat is opened in a tab
  Streams,    \* EventSource objects; one that was closed may stand for another
  Loads,      \* GET .../messages requests, likewise
  NoCall, NoView, NoStream,
  Budget      \* bound on what technicians do and on what the network breaks

ASSUME NoCallIsNoCall == NoCall \notin Calls
ASSUME NoViewIsNoView == NoView \notin Views
ASSUME NoStreamIsNoStream == NoStream \notin Streams
ASSUME BudgetIsNumber == Budget \in Nat
ASSUME StatusIsNoCall == "status" \notin Calls /\ "end" \notin Calls  \* see missed

VARIABLES
  \* the agent and the database
  status,    \* Chat.status
  at,        \* the await the agent is suspended in
  tool,      \* the tool call it is executing
  row,       \* ToolCall.status, "none" without a row
  auto,      \* the calls that were auto-approved
  decision,  \* what the approval gate holds for the waiting call
  saved,     \* the calls with a stored "tool" message, in that order
  inbox,     \* a message is in the agent's queue
  \* the event bus, seen from its subscribers
  es,        \* state of each EventSource
  owner,     \* the view its handlers were registered for
  events,    \* its subscriber queue and what is under way to the browser
  \* the component
  view,      \* the OpenChat objects
  open,      \* the one in openChats
  active,    \* it is activeChat: the chat is shown, not the list
  listed,    \* the chat's status in availableChats
  load, patch, post, abort,  \* the component's requests
  spent,     \* of Budget, see Spend
  missed     \* history: what a view had no chance to learn: of a call, of the status
             \* (see Publish), that the agent has ended (see Unannounced)

agentVars == <<status, at, tool, row, auto, decision, saved, inbox>>
busVars == <<es, owner, events>>
pageVars == <<open, active, listed>>
httpVars == <<load, patch, post, abort>>
vars == <<agentVars, busVars, view, pageVars, httpVars, spent, missed>>

Statuses == {"running", "waiting_on_approval", "idle", "stopped"}
CardStatuses == {"pending", "auto_approved", "approved", "rejected", "executed"}
Card == [call : Calls, status : CardStatuses]
Event ==
  [type : {"tool_call_requested"}, call : Calls, auto : BOOLEAN]
    \cup [type : {"tool_call_approved", "tool_call_rejected", "tool_result"}, call : Calls]
    \cup [type : {"status_change"}, status : Statuses]
    \cup [type : {"agent_completed", "agent_idle", "agent_stopped", "agent_failed"}]
TypeOK ==
  /\ status \in Statuses
  /\ at \in {"starting", "turn", "asking", "waiting", "executing", "declined", "idle",
             "stopping", "stopped", "failing", "failed", "over"}
  /\ tool \in Calls \cup {NoCall}
  /\ row \in [Calls -> {"none", "pending", "approved", "rejected", "executed"}]
  /\ auto \subseteq Calls
  /\ decision \in {"none", "approved", "rejected"}
  /\ saved \in Seq(Calls)
  /\ inbox \in BOOLEAN
  /\ es \in [Streams -> {"closed", "connecting", "open"}]
  /\ owner \in [Streams -> Views \cup {NoView}]
  /\ events \in [Streams -> Seq(Event)]
  /\ view \in [Views -> [at : {"new", "open", "closed"}, status : Statuses,
                         cards : Seq(Card), stream : Streams \cup {NoStream}]]
  /\ open \in Views \cup {NoView}
  /\ active \in BOOLEAN
  /\ listed \in Statuses
  /\ load \in [Loads -> [at : {"none", "sent", "read"}, view : Views \cup {NoView},
                         live : BOOLEAN, rows : Seq(Calls)]]
  /\ patch \in [Calls -> [at : {"none", "sent", "committed", "resolved", "refused"},
                          view : Views \cup {NoView}, answer : {"approved", "rejected"}]]
  /\ post \in [at : {"none", "sent"}, view : Views \cup {NoView}]
  /\ abort \in [at : {"none", "sent", "accepted", "refused"}, view : Views \cup {NoView}]
  /\ spent \in 0..Budget
  /\ missed \in [Views -> SUBSET (Calls \cup {"status", "end"})]

NoLoad == [at |-> "none", view |-> NoView, live |-> FALSE, rows |-> <<>>]
NoPatch == [at |-> "none", view |-> NoView, answer |-> "approved"]
NoRequest == [at |-> "none", view |-> NoView]

\* A new chat: POST /chats has committed the row and scheduled the agent.
Init ==
  /\ status = "running"
  /\ at = "starting"
  /\ tool = NoCall
  /\ row = [c \in Calls |-> "none"]
  /\ auto = {}
  /\ decision = "none"
  /\ saved = <<>>
  /\ inbox = FALSE
  /\ es = [e \in Streams |-> "closed"]
  /\ owner = [e \in Streams |-> NoView]
  /\ events = [e \in Streams |-> <<>>]
  /\ view = [v \in Views |->
       [at |-> "new", status |-> "running", cards |-> <<>>, stream |-> NoStream]]
  /\ open = NoView
  /\ active = FALSE
  /\ listed = "running"
  /\ load = [l \in Loads |-> NoLoad]
  /\ patch = [c \in Calls |-> NoPatch]
  /\ post = NoRequest
  /\ abort = NoRequest
  /\ spent = 0
  /\ missed = [v \in Views |-> {}]

Spend == spent < Budget /\ spent' = spent + 1

-------------------------------------------------------------------------------
(* The event bus *)

Subscribed(v) == {e \in Streams : owner[e] = v /\ es[e] = "open"}
Subject(ev) == IF "call" \in DOMAIN ev THEN ev.call ELSE "status"
Subjects(evs) == {Subject(evs[i]) : i \in DOMAIN evs}

\* publish: only those who are subscribed get the events; an open view without a
\* subscription misses what they are about.  An end nobody was told of does not
\* matter to what comes after the next event about the status.
Publish(evs) ==
  /\ events' = [e \in Streams |-> IF es[e] = "open" THEN events[e] \o evs ELSE events[e]]
  /\ missed' = [v \in Views |->
       (IF view[v].at = "open" /\ Subscribed(v) = {}
        THEN missed[v] \cup Subjects(evs) ELSE missed[v])
         \ (IF "status" \in Subjects(evs) THEN {"end"} ELSE {})]
  /\ UNCHANGED <<es, owner>>

\* The GET .../stream handler has run as far as subscribe.
Subscribe(e) ==
  /\ es[e] = "connecting"
  /\ es' = [es EXCEPT ![e] = "open"]
  /\ UNCHANGED <<agentVars, owner, events, view, pageVars, httpVars, spent, missed>>

\* The connection breaks: unsubscribe, and the browser reconnects by itself.
Disconnect(e) ==
  /\ es[e] = "open"
  /\ Spend
  /\ es' = [es EXCEPT ![e] = "connecting"]
  /\ events' = [events EXCEPT ![e] = <<>>]
  /\ missed' = [missed EXCEPT ![owner[e]] = @ \cup Subjects(events[e])]
  /\ UNCHANGED <<agentVars, owner, view, pageVars, httpVars>>

\* An error answer to a (re)connection closes the EventSource for good; its
\* error handler ignores it.
Rejected(e) ==
  /\ es[e] = "connecting"
  /\ Spend
  /\ es' = [es EXCEPT ![e] = "closed"]
  /\ owner' = [owner EXCEPT ![e] = NoView]
  /\ UNCHANGED <<agentVars, events, view, pageVars, httpVars, missed>>

-------------------------------------------------------------------------------
(* The agent *)

Quiet == UNCHANGED <<busVars, missed>>
AgentOnly == UNCHANGED <<view, pageVars, httpVars, spent>>

BeginTurn ==
  /\ at = "starting"
  /\ at' = "turn"
  /\ status' = "running"
  /\ Quiet
  /\ UNCHANGED <<tool, row, auto, decision, saved, inbox>>
  /\ AgentOnly

\* run_ssh_command stores the call and announces it.
RequestTool(c, a) ==
  /\ at = "turn"
  /\ row[c] = "none"
  /\ row' = [row EXCEPT ![c] = "pending"]
  /\ auto' = IF a THEN auto \cup {c} ELSE auto
  /\ tool' = c
  /\ at' = IF a THEN "executing" ELSE "asking"
  /\ Publish(<<[type |-> "tool_call_requested", call |-> c, auto |-> a]>>)
  /\ UNCHANGED <<status, decision, saved, inbox>>
  /\ AgentOnly

\* The chat waits; request_approval registers the call.
AskTechnician ==
  /\ at = "asking"
  /\ at' = "waiting"
  /\ status' = "waiting_on_approval"
  /\ decision' = "none"
  /\ Publish(<<[type |-> "status_change", status |-> "waiting_on_approval"]>>)
  /\ UNCHANGED <<tool, row, auto, saved, inbox>>
  /\ AgentOnly

TakeDecision ==
  /\ at = "waiting"
  /\ decision # "none"
  /\ at' = IF decision = "approved" THEN "executing" ELSE "declined"
  /\ status' = "running"
  /\ decision' = "none"
  /\ Publish(<<[type |-> "status_change", status |-> "running"]>>)
  /\ UNCHANGED <<tool, row, auto, saved, inbox>>
  /\ AgentOnly

\* Mutant: the result is announced before it is stored.
ToolDoneUnsaved ==
  /\ at \in {"executing", "declined"}
  /\ at' = "turn"
  /\ tool' = NoCall
  /\ Publish(<<[type |-> "tool_result", call |-> tool]>>)
  /\ UNCHANGED <<status, row, auto, decision, saved, inbox>>
  /\ AgentOnly

\* The command has run, or the refusal is recorded; either has a result.
ToolDone ==
  /\ at \in {"executing", "declined"}
  /\ at' = "turn"
  /\ tool' = NoCall
  /\ row' = [row EXCEPT ![tool] = IF at = "executing" THEN "executed" ELSE "rejected"]
  /\ saved' = Append(saved, tool)
  /\ Publish(<<[type |-> "tool_result", call |-> tool]>>)
  /\ UNCHANGED <<status, auto, decision, inbox>>
  /\ AgentOnly

FinishTurn ==
  /\ at = "turn"
  /\ at' = "idle"
  /\ status' = "idle"
  /\ Publish(<<[type |-> "agent_completed"], [type |-> "agent_idle"]>>)
  /\ UNCHANGED <<tool, row, auto, decision, saved, inbox>>
  /\ AgentOnly

\* The next turn; nothing is published.
TakeMessage ==
  /\ at = "idle"
  /\ inbox
  /\ inbox' = FALSE
  /\ at' = "turn"
  /\ status' = "running"
  /\ Quiet
  /\ UNCHANGED <<tool, row, auto, decision, saved>>
  /\ AgentOnly

\* The loop only has its handler, or less, to run; what it held is gone.
Ending == {"stopping", "stopped", "failing", "failed", "over"}
Dropped ==
  /\ tool' = NoCall
  /\ decision' = "none"
  /\ inbox' = FALSE

\* A call, a request or a commit of the agent fails: except Exception is entered.
Fails ==
  /\ \/ at \in {"starting", "turn", "asking", "executing", "declined"}
     \/ at = "waiting" /\ decision # "none"
     \/ at = "idle" /\ inbox
  /\ at' = "failing"
  /\ Dropped
  /\ Quiet
  /\ UNCHANGED <<status, row, auto, saved>>
  /\ AgentOnly

\* The commit of either handler is over; a failed one is rolled back.
EndIsStored ==
  /\ \/ at = "stopping" /\ at' = "stopped"
     \/ at = "failing" /\ at' = "failed"
  /\ status' \in {status, "stopped"}
  /\ Quiet
  /\ UNCHANGED <<tool, row, auto, decision, saved, inbox>>
  /\ AgentOnly

\* Mutant: the agent ends without an event.
AgentEndsSilently(from, event) ==
  /\ at = from
  /\ at' = "over"
  /\ Quiet
  /\ UNCHANGED <<status, tool, row, auto, decision, saved, inbox>>
  /\ AgentOnly

AgentEnds(from, event) ==
  /\ at = from
  /\ at' = "over"
  /\ Publish(<<[type |-> event]>>)
  /\ UNCHANGED <<status, tool, row, auto, decision, saved, inbox>>
  /\ AgentOnly

\* except asyncio.CancelledError, except Exception
Stopped == AgentEnds("stopped", "agent_stopped")
Failed == AgentEnds("failed", "agent_failed")

-------------------------------------------------------------------------------
(* Opening and closing *)

CanStop(w) == w.status \in {"running", "waiting_on_approval"}
CanSendMessage(w) == w.status \in {"idle", "stopped"}
Connected(v) == view[v].stream # NoStream /\ es[view[v].stream] # "closed"
FreeStreams == {e \in Streams : es[e] = "closed" /\ \A v \in Views :
                  view[v].at = "open" => view[v].stream # e}

\* connectStream: the status is read now, the stored messages are asked for.
ConnectStream(v, s) ==
  \E l \in Loads :
    /\ load[l].at = "none"
    /\ load' = [load EXCEPT ![l] =
         [at |-> "sent", view |-> v, live |-> s \in {"running", "waiting_on_approval"},
          rows |-> <<>>]]

\* A chat that has no view yet is opened with status s.
OpenChat(v, s) ==
  /\ open = NoView
  /\ view[v].at = "new"
  /\ view' = [view EXCEPT ![v].at = "open", ![v].status = s]
  /\ open' = v
  /\ active' = TRUE
  /\ ConnectStream(v, s)
  /\ missed' = [missed EXCEPT ![v] = {c \in Calls : row[c] # "none"} \cup
                                     (IF s = status THEN {} ELSE {"status"})]
  /\ UNCHANGED <<agentVars, busVars, listed, patch, post, abort, spent>>

\* onCreateChatClicked has its answer.
ChatCreated ==
  /\ \A v \in Views : view[v].at = "new"
  /\ \E v \in Views : OpenChat(v, "running")

\* onChatSelected: an open chat is only connected again if it has no stream.
ChatSelected ==
  /\ ~active
  /\ \/ \E v \in Views : OpenChat(v, listed)
     \/ /\ open # NoView
        /\ active' = TRUE
        /\ IF Connected(open)
           THEN UNCHANGED <<view, load>>
           ELSE /\ view' = [view EXCEPT ![open].stream = NoStream]
                /\ ConnectStream(open, view[open].status)
        /\ UNCHANGED <<agentVars, busVars, open, listed, patch, post, abort,
                       spent, missed>>

BackToList ==
  /\ active
  /\ Spend
  /\ active' = FALSE
  /\ UNCHANGED <<agentVars, busVars, view, open, listed, httpVars, missed>>

\* onChatClosed, for the only tab: the chat's EventSource is closed.
CloseTab ==
  /\ open # NoView
  /\ Spend
  /\ LET e == view[open].stream
     IN /\ es' = [s \in Streams |-> IF s = e THEN "closed" ELSE es[s]]
        /\ owner' = [s \in Streams |-> IF s = e THEN NoView ELSE owner[s]]
        /\ events' = [s \in Streams |-> IF s = e THEN <<>> ELSE events[s]]
  /\ missed' = [missed EXCEPT ![open] = {}]
  /\ view' = [view EXCEPT ![open].at = "closed"]
  /\ open' = NoView
  /\ active' = FALSE
  /\ UNCHANGED <<agentVars, listed, httpVars>>

ChatClosed == active /\ CloseTab
\* ngOnDestroy; the page is later entered again and lists the chats.
PageLeft == CloseTab

\* The list was fetched (it does not matter to a chat that is open).
ListLoaded ==
  /\ open = NoView
  /\ listed' = status
  /\ UNCHANGED <<agentVars, busVars, view, open, active, httpVars, spent, missed>>

HistoryRead(l) ==
  /\ load[l].at = "sent"
  /\ load' = [load EXCEPT ![l].at = "read", ![l].rows = saved]
  /\ UNCHANGED <<agentVars, busVars, view, pageVars, patch, post, abort, spent, missed>>

\* historyToMessages: results as executed cards; none if the chat was live, the
\* stream is expected to bring them.
HistoryToMessages(l) ==
  IF load[l].live THEN <<>>
  ELSE [i \in DOMAIN load[l].rows |-> [call |-> load[l].rows[i], status |-> "executed"]]

\* openStreamConnection
OpenStream(v, e) ==
  /\ e \in FreeStreams
  /\ es' = [es EXCEPT ![e] = "connecting"]
  /\ owner' = [owner EXCEPT ![e] = v]
  /\ events' = [events EXCEPT ![e] = <<>>]

\* The messages are there: they replace what is shown, and a stream is opened,
\* whatever happened to the chat meanwhile.
HistoryLoaded(l) ==
  LET v == load[l].view
      cards == HistoryToMessages(l)
      shown == {cards[i].call : i \in DOMAIN cards}
  IN /\ load[l].at = "read"
     /\ \E e \in Streams :
          /\ OpenStream(v, e)
          /\ view' = [view EXCEPT ![v].cards = cards, ![v].stream = e]
     /\ missed' = [missed EXCEPT ![v] =
          (@ \cup {c \in Calls : row[c] # "none"}) \ shown]
     /\ load' = [load EXCEPT ![l] = NoLoad]
     /\ UNCHANGED <<agentVars, pageVars, patch, post, abort, spent>>

HistoryFailed(l) ==
  LET v == load[l].view
  IN /\ load[l].at # "none"
     /\ Spend
     /\ \E e \in Streams :
          /\ OpenStream(v, e)
          /\ view' = [view EXCEPT ![v].stream = e]
     /\ load' = [load EXCEPT ![l] = NoLoad]
     /\ UNCHANGED <<agentVars, pageVars, patch, post, abort, missed>>

-------------------------------------------------------------------------------
(* Live events *)

Has(cards, c) == \E i \in DOMAIN cards : cards[i].call = c

\* updateToolCall
Updated(cards, c, s) ==
  [i \in DOMAIN cards |-> IF cards[i].call = c THEN [call |-> c, status |-> s] ELSE cards[i]]

\* Mutant: cards are not looked for before one is added.
CardsAfterUnchecked(cards, ev) ==
  CASE ev.type = "tool_call_requested" ->
         Append(cards, [call |-> ev.call,
                        status |-> IF ev.auto THEN "auto_approved" ELSE "pending"])
    [] ev.type = "tool_call_approved" -> Updated(cards, ev.call, "approved")
    [] ev.type = "tool_call_rejected" -> Updated(cards, ev.call, "rejected")
    [] ev.type = "tool_result" -> Updated(cards, ev.call, "executed")
    [] OTHER -> cards

\* The listeners' effect on the cards: a request adds one, unless it is there.
CardsAfter(cards, ev) ==
  CASE ev.type = "tool_call_requested" ->
         IF Has(cards, ev.call) THEN cards
         ELSE Append(cards, [call |-> ev.call,
                             status |-> IF ev.auto THEN "auto_approved" ELSE "pending"])
    [] ev.type = "tool_call_approved" -> Updated(cards, ev.call, "approved")
    [] ev.type = "tool_call_rejected" -> Updated(cards, ev.call, "rejected")
    [] ev.type = "tool_result" -> Updated(cards, ev.call, "executed")
    [] OTHER -> cards

\* Mutant: a failed agent's chat is shown as failed.
StatusAfterFailed(s, ev) ==
  CASE ev.type = "status_change" -> ev.status
    [] ev.type \in {"agent_completed", "agent_idle"} -> "idle"
    [] ev.type = "agent_stopped" -> "stopped"
    [] ev.type = "agent_failed" -> "failed"
    [] OTHER -> s

\* ... and on the status.
StatusAfter(s, ev) ==
  CASE ev.type = "status_change" -> ev.status
    [] ev.type \in {"agent_completed", "agent_idle"} -> "idle"
    [] ev.type \in {"agent_stopped", "agent_failed"} -> "stopped"
    [] OTHER -> s

Deliver(e) ==
  LET v == owner[e]
      ev == Head(events[e])
      cards == CardsAfter(view[v].cards, ev)
  IN /\ es[e] = "open"
     /\ events[e] # <<>>
     /\ events' = [events EXCEPT ![e] = Tail(@)]
     /\ view' = [view EXCEPT ![v].cards = cards, ![v].status = StatusAfter(@, ev)]
     /\ missed' = [missed EXCEPT ![v] =
          IF Subject(ev) = "status" \/ Has(cards, Subject(ev)) THEN @ \ {Subject(ev)} ELSE @]
     /\ UNCHANGED <<agentVars, es, owner, pageVars, httpVars, spent>>

-------------------------------------------------------------------------------
(* Answering a request *)

\* onToolCallResolved: shown at once.
CardClicked(c, answer) ==
  /\ active
  /\ patch[c].at = "none"
  /\ \E i \in DOMAIN view[open].cards : view[open].cards[i] = [call |-> c, status |-> "pending"]
  /\ view' = [view EXCEPT ![open].cards = Updated(@, c, answer)]
  /\ patch' = [patch EXCEPT ![c] = [at |-> "sent", view |-> open, answer |-> answer]]
  /\ UNCHANGED <<agentVars, busVars, pageVars, load, post, abort, spent, missed>>

\* resolve_tool_call: 409 unless the row is pending ...
PatchCommit(c) ==
  /\ patch[c].at = "sent"
  /\ IF row[c] = "pending"
     THEN /\ row' = [row EXCEPT ![c] = patch[c].answer]
          /\ patch' = [patch EXCEPT ![c].at = "committed"]
     ELSE /\ patch' = [patch EXCEPT ![c].at = "refused"]
          /\ UNCHANGED row
  /\ UNCHANGED <<status, at, tool, auto, decision, saved, inbox, busVars, view, pageVars,
                 load, post, abort, spent, missed>>

\* ... then the gate, which only knows a call that waits, and the event.
Resolve(c, answer) ==
  /\ decision' = IF at = "waiting" /\ tool = c THEN answer ELSE decision
  /\ Publish(<<[type |-> IF answer = "approved" THEN "tool_call_approved"
                         ELSE "tool_call_rejected", call |-> c]>>)

PatchResolve(c) ==
  /\ patch[c].at = "committed"
  /\ Resolve(c, patch[c].answer)
  /\ patch' = [patch EXCEPT ![c].at = "resolved"]
  /\ UNCHANGED <<status, at, tool, row, auto, saved, inbox, view, pageVars, load, post,
                 abort, spent>>

\* Another technician answers.
OtherAnswers(c, answer) ==
  /\ row[c] = "pending"
  /\ c \notin auto
  /\ Spend
  /\ row' = [row EXCEPT ![c] = answer]
  /\ Resolve(c, answer)
  /\ UNCHANGED <<status, at, tool, auto, saved, inbox, view, pageVars, httpVars>>

\* The request, or its answer, is lost.
PatchLost(c) ==
  /\ patch[c].at \in {"sent", "resolved"}
  /\ Spend
  /\ patch' = [patch EXCEPT ![c].at = "refused"]
  /\ UNCHANGED <<agentVars, busVars, view, pageVars, load, post, abort, missed>>

\* Mutant: an error leaves the card as it was clicked.
PatchAnsweredKept(c) ==
  /\ patch[c].at \in {"resolved", "refused"}
  /\ patch' = [patch EXCEPT ![c] = NoPatch]
  /\ UNCHANGED <<agentVars, busVars, view, pageVars, load, post, abort, spent, missed>>

\* An error makes the card pending again, also one that was answered otherwise.
PatchAnswered(c) ==
  LET v == patch[c].view
  IN /\ patch[c].at \in {"resolved", "refused"}
     /\ patch' = [patch EXCEPT ![c] = NoPatch]
     /\ IF patch[c].at = "refused"
        THEN /\ view' = [view EXCEPT ![v].cards = Updated(@, c, "pending")]
             /\ missed' = [missed EXCEPT ![v] = IF row[c] = "pending" THEN @ ELSE @ \cup {c}]
        ELSE UNCHANGED <<view, missed>>
     /\ UNCHANGED <<agentVars, busVars, pageVars, load, post, abort, spent>>

-------------------------------------------------------------------------------
(* Stop *)

StopClicked ==
  /\ active
  /\ Spend
  /\ CanStop(view[open])
  /\ abort.at = "none"
  /\ abort' = [at |-> "sent", view |-> open]
  /\ UNCHANGED <<agentVars, busVars, view, pageVars, load, patch, post, missed>>

\* That the agent is over is told to nobody.
Unannounced ==
  /\ missed' = [v \in Views |->
       IF view[v].at = "open" THEN missed[v] \cup {"end"} ELSE missed[v]]
  /\ UNCHANGED busVars

\* The agent is cancelled: its handler is entered at the next step.
Cancelled ==
  /\ at \notin Ending
  /\ at' = "stopping"
  /\ Dropped
  /\ Quiet
  /\ UNCHANGED status

\* ... before its try block, or once more, in the await of a handler: neither
\* handler runs to its event, and the commit may be lost.
CancelledUnheard ==
  /\ at \in {"starting", "stopping", "stopped", "failing", "failed"}
  /\ at' = "over"
  /\ Dropped
  /\ status' \in IF at \in {"stopping", "failing"} THEN {status, "stopped"} ELSE {status}
  /\ Unannounced

\* ... to no effect: there is no task (yet), or it was cancelled in this step.
NotCancelled ==
  /\ at \in {"starting", "stopping", "over"}
  /\ Quiet
  /\ UNCHANGED <<status, at, tool, decision, inbox>>

\* POST .../abort: 409 for a stopped chat.
AbortChat ==
  /\ abort.at = "sent"
  /\ IF status = "stopped"
     THEN /\ abort' = [abort EXCEPT !.at = "refused"]
          /\ Quiet
          /\ UNCHANGED <<status, at, tool, decision, inbox>>
     ELSE /\ abort' = [abort EXCEPT !.at = "accepted"]
          /\ Cancelled \/ CancelledUnheard \/ NotCancelled
  /\ UNCHANGED <<row, auto, saved, view, pageVars, load, patch, post, spent>>

\* The chat is shown as stopped, whatever has happened since.
AbortAnswered ==
  /\ abort.at \in {"accepted", "refused"}
  /\ abort' = NoRequest
  /\ view' = IF abort.at = "accepted"
             THEN [view EXCEPT ![abort.view].status = "stopped"] ELSE view
  /\ UNCHANGED <<agentVars, busVars, pageVars, load, patch, post, spent, missed>>

AbortLost ==
  /\ abort.at \in {"sent", "accepted"}
  /\ Spend
  /\ abort' = NoRequest
  /\ UNCHANGED <<agentVars, busVars, view, pageVars, load, patch, post, missed>>

-------------------------------------------------------------------------------
(* Send *)

\* onMessageSent: a stopped chat gets a new stream, and an idle one that has none.
MessageSent ==
  LET w == view[open]
      old == w.stream
  IN /\ active
     /\ CanSendMessage(w)
     /\ post.at = "none"
     /\ Spend
     /\ post' = [at |-> "sent", view |-> open]
     /\ \/ /\ w.status = "stopped"
           /\ \E e \in FreeStreams \cup ({old} \ {NoStream}) :
                /\ es' = [s \in Streams |-> IF s = e THEN "connecting"
                                            ELSE IF s = old THEN "closed" ELSE es[s]]
                /\ owner' = [s \in Streams |-> IF s = e THEN open
                                               ELSE IF s = old THEN NoView ELSE owner[s]]
                /\ events' = [s \in Streams |-> IF s \in {e, old} THEN <<>> ELSE events[s]]
                /\ view' = [view EXCEPT ![open].status = "running", ![open].stream = e]
           /\ missed' = IF old = NoStream THEN missed
                        ELSE [missed EXCEPT ![open] = @ \cup Subjects(events[old])]
        \/ /\ w.status = "idle" /\ old = NoStream
           /\ \E e \in Streams : /\ OpenStream(open, e)
                                 /\ view' = [view EXCEPT ![open].stream = e]
           /\ UNCHANGED missed
        \/ /\ w.status = "idle" /\ old # NoStream
           /\ UNCHANGED <<busVars, view, missed>>
     /\ UNCHANGED <<agentVars, pageVars, load, patch, abort>>

\* The poster learns nothing of the status.
Unanswered == missed' = [missed EXCEPT ![post.view] = @ \cup {"status"}]

\* An idle agent's queue takes the message; that of a loop that ends is lost.
Queued ==
  /\ status = "idle"
  /\ inbox' = (at \notin Ending)
  /\ IF at = "over" THEN Unanswered ELSE UNCHANGED missed
  /\ UNCHANGED <<status, at, tool, decision, busVars>>

\* start_agent, for a stopped chat or an idle one without a queue.  A loop that is
\* not over yet is cancelled first; no event comes of it before its try block, and
\* none in the await of a handler.
Restarted ==
  /\ \/ status = "stopped"
     \/ status = "idle" /\ at \in {"starting", "over"}
  /\ at' = "starting"
  /\ Dropped
  /\ UNCHANGED <<status, busVars, missed>>

\* 409.  An error is only logged.
Refused ==
  /\ status \in {"running", "waiting_on_approval"}
  /\ Unanswered
  /\ UNCHANGED <<status, at, tool, decision, inbox, busVars>>

\* POST .../messages
PostMessage ==
  /\ post.at = "sent"
  /\ post' = NoRequest
  /\ Queued \/ Restarted \/ Refused
  /\ UNCHANGED <<row, auto, saved, view, pageVars, load, patch, abort, spent>>

\* ... or start_agent cancels a loop in the try block, which says so before the
\* next one starts.
Replaced ==
  /\ post.at = "sent"
  /\ post' = NoRequest
  /\ status = "stopped"
  /\ at = "starting"
  /\ Publish(<<[type |-> "agent_stopped"]>>)
  /\ UNCHANGED <<agentVars, view, pageVars, load, patch, abort, spent>>

PostLost ==
  /\ post.at = "sent"
  /\ Spend
  /\ post' = NoRequest
  /\ Unanswered
  /\ UNCHANGED <<agentVars, busVars, view, pageVars, load, patch, abort>>

-------------------------------------------------------------------------------
Agent ==
  \/ BeginTurn \/ AskTechnician \/ TakeDecision \/ ToolDone \/ FinishTurn \/ TakeMessage
  \/ Fails \/ EndIsStored \/ Stopped \/ Failed
  \/ \E c \in Calls, a \in BOOLEAN : RequestTool(c, a)
Bus == \E e \in Streams : Subscribe(e) \/ Disconnect(e) \/ Rejected(e) \/ Deliver(e)
Page ==
  \/ ChatCreated \/ ChatSelected \/ BackToList \/ ChatClosed \/ PageLeft \/ ListLoaded
  \/ StopClicked \/ AbortChat \/ AbortAnswered \/ AbortLost
  \/ MessageSent \/ PostMessage \/ PostLost
  \/ \E l \in Loads : HistoryRead(l) \/ HistoryLoaded(l) \/ HistoryFailed(l)
Answers ==
  \E c \in Calls :
    \/ PatchCommit(c) \/ PatchResolve(c) \/ PatchAnswered(c) \/ PatchLost(c)
    \/ \E answer \in {"approved", "rejected"} : CardClicked(c, answer) \/ OtherAnswers(c, answer)

Next == Agent \/ Bus \/ Page \/ Answers \/ Replaced

Spec == Init /\ [][Next]_vars
-------------------------------------------------------------------------------
(* Properties *)

\* However many streams a view has and whatever order histories and events come
\* in, it shows a tool call once: the check of tool_call_requested and the
\* history without tool rows for live chats.
OneCardPerCall ==
  \A v \in Views : \A i, j \in DOMAIN view[v].cards :
    view[v].cards[i].call = view[v].cards[j].call => i = j

\* What a card calls executed has its result stored: results are announced only
\* after the commit, and neither a click nor an error makes a card executed.
ExecutedIsStored ==
  \A v \in Views : \A i \in DOMAIN view[v].cards :
    view[v].cards[i].status = "executed" =>
      \E k \in DOMAIN saved : saved[k] = view[v].cards[i].call

\* All that was published to the view has been handled.
CaughtUp(v) ==
  /\ Subscribed(v) # {}
  /\ \A e \in Subscribed(v) : events[e] = <<>>

Shows(v, c, s) == [call |-> c, status |-> s] \in {view[v].cards[i] : i \in DOMAIN view[v].cards}

\* A card tells the state of its call in the database, once the view has caught
\* up and no answer is under way, for every call of which it missed nothing.
\* (A refusal is shown as executed when its result comes.)
CardTellsRow ==
  \A c \in Calls :
    open # NoView /\ CaughtUp(open) /\ patch[c].at = "none" /\ c \notin missed[open]
        /\ row[c] # "none" =>
      Shows(open, c, CASE row[c] = "pending" -> IF c \in auto THEN "auto_approved" ELSE "pending"
                       [] \E k \in DOMAIN saved : saved[k] = c -> "executed"
                       [] OTHER -> row[c])

\* A chat that takes messages offers its input, in a view that has caught up and
\* missed nothing about the status: turns, stops, failures and restarts in any
\* order end in an event that enables it, unless a second stop hits the handler of
\* the first, or of a failure, in its await (Unannounced) or the message itself was
\* refused or lost (Unanswered).
AcceptingIsOffered ==
  open # NoView /\ CaughtUp(open) /\ missed[open] \cap {"status", "end"} = {}
      /\ at \in {"idle", "over"} /\ status \in {"idle", "stopped"}
      /\ ~inbox /\ post.at = "none" =>
    CanSendMessage(view[open])

-------------------------------------------------------------------------------
(* What the repository says and the code does not do *)

\* ticket-detailview.component.ts:375 and :428: tool calls are left out of a live
\* chat's history because the stream brings them, also the one that waits.
WaitingIsShown ==
  open # NoView /\ CaughtUp(open) /\ at = "waiting" /\ row[tool] = "pending" =>
    \E i \in DOMAIN view[open].cards : view[open].cards[i].call = tool
===============================================================================
