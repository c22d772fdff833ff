----------------------------- MODULE ChatTranscript -----------------------------
(***************************************************************************)
(* What a technician reads in an open chat: chat.messages, written by the  *)
(* listeners that openStreamConnection in pages/ticket-detailview makes    *)
(* for every EventSource.  Text appears word by word, on a timer that all  *)
(* streams of the chat share.  TicketDetailView has the states of cards,   *)
(* buttons and closed tabs; this module has the text.                      *)
(*                                                                         *)
(* The agent is read sequentially, as far as it publishes and stores what  *)
(* the chat shows: numbered pieces of text and tool calls, in turns.       *)
(***************************************************************************)
EXTENDS Naturals, Sequences, FiniteSets, SequencesExt, ArrayFilter

CONSTANTS
  Streams,   \* EventSource objects with the variables of their listeners; one
             \* that is closed and quiet may stand for another
  NoStream,
  MaxText,   \* bound on the pieces of text the agent says
  MaxCalls,  \* bound on its tool calls
  MaxSends,  \* bound on the messages the technician sends
  MaxLag,    \* bound on the events under way to a listener
  Budget     \* bound on what else they do and what fails, see Spend

ASSUME NoStreamIsNoStream == NoStream \notin Streams
ASSUME BoundsAreNumbers == {MaxText, MaxCalls, MaxSends, MaxLag, Budget} \subseteq Nat

VARIABLES
  \* the agent and the database
  at,        \* where the agent is in its turn
  said,      \* the last piece of text it published
  begun,     \* the last one before its turn
  called,    \* its last tool call
  rows,      \* the stored messages
  inbox,     \* messages it has been given and has not taken
  \* streams and requests
  es,        \* state of each EventSource
  events,    \* what is under way to it
  loads,     \* GET .../messages requests
  posts,     \* POST .../messages requests
  aborting,  \* a POST .../abort is not answered yet
  \* the chat
  status,    \* chat.status: may it be stopped ("busy") or written to
  stream,    \* chat.eventSource
  messages,  \* chat.messages
  bubble,    \* each stream's currentMessageId, targetText and revealedText
  timer,     \* chat.revealTimer: the stream whose revealStep it runs
  sent,      \* the last message the technician sent
  spent,     \* of Budget
  \* history
  got,       \* text handed over to a listener
  cut,       \* ... that was given up before it appeared, or replaced
  wiped,     \* messages sent that a loaded history did not have
  overlap    \* a stream was opened beside another one or its running timer

agentVars == <<at, said, begun, called, rows, inbox>>
busVars == <<es, events>>
httpVars == <<loads, posts, aborting>>
textVars == <<messages, bubble, timer, got, cut, wiped>>
chatVars == <<status, stream, sent, overlap>>
vars == <<agentVars, busVars, httpVars, textVars, chatVars, spent>>

Text == 1..MaxText
Sends == 1..MaxSends

\* A message: a bubble of text (a stream's, or stored), what the technician sent
\* (0 is the ticket's prompt), a notice, or a card, which may have absorbed one.
Message == [kind : {"text", "user", "notice", "card"}, by : Streams \cup {NoStream},
            id : Nat, text : Seq(Text), user : SUBSET (Sends \cup {0})]
TextMessage(s, n, text) ==
  [kind |-> "text", by |-> s, id |-> n, text |-> text, user |-> {}]
UserMessage(n) == [kind |-> "user", by |-> NoStream, id |-> 0, text |-> <<>>, user |-> {n}]
Notice == [kind |-> "notice", by |-> NoStream, id |-> 0, text |-> <<>>, user |-> {}]
CardMessage(c, text, user) ==
  [kind |-> "card", by |-> NoStream, id |-> c, text |-> text, user |-> user]

Event == [type : {"text_delta", "tool_call_requested", "tool_result"}, n : Nat]
           \cup [type : {"status_change", "agent_completed", "agent_idle", "agent_stopped",
                         "agent_failed"}]
Bubble == [id : Text \cup {0}, target : Seq(Text), revealed : 0..MaxText]
NoBubble == [id |-> 0, target |-> <<>>, revealed |-> 0]

TypeOK ==
  /\ at \in {"starting", "turn", "asking", "waiting", "calling", "reporting", "idle",
            "stopping", "over"}
  /\ said \in 0..MaxText /\ begun \in 0..said
  /\ called \in 0..MaxCalls
  /\ rows \in Seq(Message)
  /\ inbox \in Seq(Sends \cup {0})
  /\ es \in [Streams -> {"closed", "connecting", "open"}]
  /\ events \in [Streams -> Seq(Event)]
  /\ loads \in Seq([read : BOOLEAN, live : BOOLEAN, rows : Seq(Message)])
  /\ posts \subseteq Sends
  /\ aborting \in BOOLEAN
  /\ status \in {"unopened", "busy", "idle", "stopped"}
  /\ stream \in Streams \cup {NoStream}
  /\ messages \in Seq(Message)
  /\ bubble \in [Streams -> Bubble]
  /\ \A s \in Streams : bubble[s].revealed <= Len(bubble[s].target)
  /\ timer \in Streams \cup {NoStream}
  /\ sent \in 0..MaxSends
  /\ spent \in 0..Budget
  /\ got \subseteq Text /\ cut \subseteq Text
  /\ wiped \subseteq Sends
  /\ overlap \in BOOLEAN

\* POST /chats has scheduled the agent with the ticket's prompt; nobody looks yet.
Init ==
  /\ at = "starting"
  /\ said = 0 /\ begun = 0
  /\ called = 0
  /\ rows = <<>>
  /\ inbox = <<0>>
  /\ es = [s \in Streams |-> "closed"]
  /\ events = [s \in Streams |-> <<>>]
  /\ loads = <<>>
  /\ posts = {}
  /\ aborting = FALSE
  /\ status = "unopened"
  /\ stream = NoStream
  /\ messages = <<>>
  /\ bubble = [s \in Streams |-> NoBubble]
  /\ timer = NoStream
  /\ sent = 0
  /\ spent = 0
  /\ got = {} /\ cut = {}
  /\ wiped = {}
  /\ overlap = FALSE

Spend == spent < Budget /\ spent' = spent + 1

-------------------------------------------------------------------------------
(* The agent *)

AgentOnly == UNCHANGED <<httpVars, textVars, chatVars>>
Publish(evs) ==
  /\ \A s \in Streams : Len(events[s]) < MaxLag
  /\ events' = [s \in Streams |-> IF es[s] = "open" THEN events[s] \o evs ELSE events[s]]
  /\ UNCHANGED es
  /\ AgentOnly

\* The first turn, a restart's, or the next one: the message is stored.
BeginTurn ==
  /\ at \in {"starting", "idle"}
  /\ inbox # <<>>
  /\ at' = "turn"
  /\ begun' = said
  /\ rows' = Append(rows, UserMessage(Head(inbox)))
  /\ inbox' = Tail(inbox)
  /\ UNCHANGED <<spent, said, called, busVars>>
  /\ AgentOnly

Say ==
  /\ at = "turn"
  /\ said < MaxText
  /\ said' = said + 1
  /\ Publish(<<[type |-> "text_delta", n |-> said + 1]>>)
  /\ UNCHANGED <<spent, at, begun, called, rows, inbox>>

\* A call that needs no approval is carried out, another is put to the technician.
RequestTool ==
  /\ at = "turn"
  /\ called < MaxCalls
  /\ at' \in {"asking", "calling"}
  /\ called' = called + 1
  /\ Publish(<<[type |-> "tool_call_requested", n |-> called + 1]>>)
  /\ UNCHANGED <<spent, said, begun, rows, inbox>>

\* The new status is announced, and again when the technician has answered.
ApprovalStatus ==
  /\ \/ at = "asking" /\ at' = "waiting"
     \/ at = "waiting" /\ at' = "calling"
  /\ Publish(<<[type |-> "status_change"]>>)
  /\ UNCHANGED <<spent, said, begun, called, rows, inbox>>

ToolDone ==
  /\ at = "calling"
  /\ at' = "turn"
  /\ rows' = Append(rows, CardMessage(called, <<>>, {}))
  /\ Publish(<<[type |-> "tool_result", n |-> called]>>)
  /\ UNCHANGED <<spent, said, begun, called, inbox>>

\* The text of a turn is stored at its end, as one message (an empty one is never
\* shown).
SaveAnswer ==
  /\ at = "turn"
  /\ at' = "reporting"
  /\ rows' = IF said = begun THEN rows
             ELSE Append(rows, TextMessage(NoStream, begun + 1,
                                           [i \in 1..(said - begun) |-> begun + i]))
  /\ UNCHANGED <<spent, said, begun, called, inbox, busVars>>
  /\ AgentOnly

FinishTurn ==
  /\ at = "reporting"
  /\ at' = "idle"
  /\ Publish(<<[type |-> "agent_completed"], [type |-> "agent_idle"]>>)
  /\ UNCHANGED <<spent, said, begun, called, rows, inbox>>

\* except Exception, except asyncio.CancelledError: the text of a turn that was not
\* finished is not stored.
AgentEnds(from, event) ==
  /\ at \in from
  /\ at' = "over"
  /\ inbox' = <<>>
  /\ Publish(<<[type |-> event]>>)
  /\ UNCHANGED <<said, begun, called, rows>>
Failed ==
  /\ Spend
  /\ AgentEnds({"starting", "turn", "asking", "waiting", "calling", "reporting"}, "agent_failed")
Stopped == UNCHANGED spent /\ AgentEnds({"stopping"}, "agent_stopped")

-------------------------------------------------------------------------------
(* The timer *)

Revealed(b) == SubSeq(b.target, 1, b.revealed)
Unrevealed(s) ==
  {bubble[s].target[i] : i \in (bubble[s].revealed + 1)..Len(bubble[s].target)}

\* setCurrentContent: no message changes if the bubble is not among them any more.
WithContent(msgs, s, b) ==
  [i \in DOMAIN msgs |->
     IF b.id # 0 /\ msgs[i].kind = "text" /\ msgs[i].by = s /\ msgs[i].id = b.id
     THEN [msgs[i] EXCEPT !.text = Revealed(b)] ELSE msgs[i]]

\* Mutant: the tick that ends a bubble counts one word too many.
TickPast ==
  /\ timer # NoStream
  /\ LET b == bubble[timer]
     IN \E r \in {n \in b.revealed..(Len(b.target) + 1) : n > b.revealed} :
          /\ bubble' = [bubble EXCEPT ![timer].revealed = r]
          /\ messages' = WithContent(messages, timer, b)
          /\ timer' = IF r >= Len(b.target) THEN NoStream ELSE timer
  /\ UNCHANGED <<agentVars, busVars, httpVars, chatVars, spent, got, cut, wiped>>

\* revealStep: some more words, several when far behind; the timer stops at the end.
Tick ==
  /\ timer # NoStream
  /\ LET b == bubble[timer]
     IN \E r \in {n \in b.revealed..Len(b.target) : n > b.revealed \/ n = Len(b.target)} :
          /\ bubble' = [bubble EXCEPT ![timer].revealed = r]
          /\ messages' = WithContent(messages, timer, bubble'[timer])
          /\ timer' = IF r = Len(b.target) THEN NoStream ELSE timer
  /\ UNCHANGED <<agentVars, busVars, httpVars, chatVars, spent, got, cut, wiped>>

-------------------------------------------------------------------------------
(* The listeners *)

Handle(s, types) ==
  /\ es[s] = "open"
  /\ events[s] # <<>>
  /\ Head(events[s]).type \in types
  /\ events' = [events EXCEPT ![s] = Tail(@)]
  /\ UNCHANGED <<agentVars, es, httpVars, stream, sent, spent, wiped, overlap>>

\* Mutant: the timer is only set for a new bubble.
TextDeltaUntimed(s) ==
  LET n == Head(events[s]).n
      new == bubble[s].id = 0
  IN /\ Handle(s, {"text_delta"})
     /\ bubble' = [bubble EXCEPT ![s] =
          IF new THEN [id |-> n, target |-> <<n>>, revealed |-> 0]
          ELSE [bubble[s] EXCEPT !.target = Append(@, n)]]
     /\ messages' = IF new THEN Append(messages, TextMessage(s, n, <<>>)) ELSE messages
     /\ timer' = IF timer = NoStream /\ new THEN s ELSE timer
     /\ got' = got \cup {n}
     /\ UNCHANGED <<cut, status>>

\* Text begins a bubble or goes on in it.
TextDelta(s) ==
  LET n == Head(events[s]).n
      new == bubble[s].id = 0
  IN /\ Handle(s, {"text_delta"})
     /\ bubble' = [bubble EXCEPT ![s] =
          IF new THEN [id |-> n, target |-> <<n>>, revealed |-> 0]
          ELSE [bubble[s] EXCEPT !.target = Append(@, n)]]
     /\ messages' = IF new THEN Append(messages, TextMessage(s, n, <<>>)) ELSE messages
     /\ timer' = IF timer = NoStream THEN s ELSE timer
     /\ got' = got \cup {n}
     /\ UNCHANGED <<cut, status>>

\* flushReveal: the rest appears at once.
Flushed(s) == WithContent(messages, s, [bubble[s] EXCEPT !.revealed = Len(bubble[s].target)])

\* endBubble, before what else the listener shows.  Whoever's timer it is, it stops.
EndBubble(s) ==
  /\ timer' = NoStream
  /\ bubble' = [bubble EXCEPT ![s] = NoBubble]
  /\ UNCHANGED <<got, cut>>

\* Mutant: what a card absorbs is kept only if the agent said it.
WithCardTextOnly(msgs, c) ==
  LET last == Last(msgs)
  IN IF msgs # <<>> /\ last.kind # "card" /\ ~(last.kind = "text" /\ last.text = <<>>)
     THEN Append(Front(msgs), CardMessage(c, last.text, {}))
     ELSE Append(msgs, CardMessage(c, <<>>, {}))

\* A card absorbs the last message, unless that is a card or has no text yet.
WithCard(msgs, c) ==
  LET last == Last(msgs)
  IN IF msgs # <<>> /\ last.kind # "card" /\ ~(last.kind = "text" /\ last.text = <<>>)
     THEN Append(Front(msgs), CardMessage(c, last.text, last.user))
     ELSE Append(msgs, CardMessage(c, <<>>, {}))

HasCard(msgs, c) == \E i \in DOMAIN msgs : msgs[i].kind = "card" /\ msgs[i].id = c

\* Mutant: the bubble is ended without being flushed.
ToolCallRequestedUnflushed(s) ==
  LET c == Head(events[s]).n
  IN /\ Handle(s, {"tool_call_requested"})
     /\ EndBubble(s)
     /\ messages' = IF HasCard(messages, c) THEN messages ELSE WithCard(messages, c)
     /\ UNCHANGED status

ToolCallRequested(s) ==
  LET c == Head(events[s]).n
  IN /\ Handle(s, {"tool_call_requested"})
     /\ EndBubble(s)
     /\ messages' = IF HasCard(messages, c) THEN Flushed(s) ELSE WithCard(Flushed(s), c)
     /\ UNCHANGED status

StatusChange(s) ==
  /\ Handle(s, {"status_change"})
  /\ status' = "busy"
  /\ UNCHANGED <<messages, bubble, timer, got, cut>>

ToolResult(s) ==
  /\ Handle(s, {"tool_result"})
  /\ EndBubble(s)
  /\ messages' = Flushed(s)
  /\ UNCHANGED status

AgentCompletedOrFailed(s) ==
  /\ Handle(s, {"agent_completed", "agent_failed"})
  /\ EndBubble(s)
  /\ messages' = Append(Flushed(s), Notice)
  /\ status' = IF Head(events[s]).type = "agent_completed" THEN "idle" ELSE "stopped"

\* Only currentMessageId is reset: what is not revealed yet has no message any more.
AgentIdleOrStopped(s) ==
  LET stopped == Head(events[s]).type = "agent_stopped"
  IN /\ Handle(s, {"agent_idle", "agent_stopped"})
     /\ bubble' = [bubble EXCEPT ![s].id = 0]
     /\ cut' = IF bubble[s].id = 0 THEN cut ELSE cut \cup Unrevealed(s)
     /\ messages' = IF stopped THEN Append(messages, Notice) ELSE messages
     /\ status' = IF stopped THEN "stopped" ELSE "idle"
     /\ UNCHANGED <<timer, got>>

Deliver(s) ==
  \/ TextDelta(s) \/ ToolCallRequested(s) \/ StatusChange(s) \/ ToolResult(s)
  \/ AgentCompletedOrFailed(s) \/ AgentIdleOrStopped(s)

-------------------------------------------------------------------------------
(* Streams *)

\* openStreamConnection, for a chat whose EventSource `closing` was closed before.
OpenStream(closing) ==
  LET left == {t \in Streams \ {closing} : es[t] # "closed"}
      free == Streams \ (left \cup {timer})
      s == CHOOSE t \in free : TRUE
  IN /\ free # {}
     /\ es' = [t \in Streams |-> IF t = s THEN "connecting"
                                 ELSE IF t \in left THEN es[t] ELSE "closed"]
     /\ events' = [t \in Streams |-> IF t \in left THEN events[t] ELSE <<>>]
     /\ bubble' = [bubble EXCEPT ![s] = NoBubble]
     /\ stream' = s
     /\ overlap' = (overlap \/ left # {} \/ timer # NoStream)

\* Mutant: a new subscriber is sent the text of the turn again.
SubscribeReplayed(s) ==
  /\ es[s] = "connecting"
  /\ es' = [es EXCEPT ![s] = "open"]
  /\ events' = [events EXCEPT ![s] =
       [i \in 1..(said - begun) |-> [type |-> "text_delta", n |-> begun + i]]]
  /\ UNCHANGED <<agentVars, httpVars, textVars, chatVars, spent>>

\* The server has subscribed.
Subscribe(s) ==
  /\ es[s] = "connecting"
  /\ es' = [es EXCEPT ![s] = "open"]
  /\ UNCHANGED <<agentVars, events, httpVars, textVars, chatVars, spent>>

\* The connection breaks, and the browser reconnects by itself ...
Disconnect(s) ==
  /\ es[s] = "open"
  /\ Spend
  /\ es' = [es EXCEPT ![s] = "connecting"]
  /\ events' = [events EXCEPT ![s] = <<>>]
  /\ UNCHANGED <<agentVars, httpVars, textVars, chatVars>>

\* ... or gives up after an error answer.
Rejected(s) ==
  /\ es[s] = "connecting"
  /\ Spend
  /\ es' = [es EXCEPT ![s] = "closed"]
  /\ UNCHANGED <<agentVars, events, httpVars, textVars, chatVars>>

-------------------------------------------------------------------------------
(* Opening the chat *)

\* connectStream: the status is read now, the stored messages are asked for.
ConnectStream(st) ==
  loads' = Append(loads, [read |-> FALSE, live |-> st = "busy", rows |-> <<>>])

\* The chat is created or selected in the list, which tells its status.
ChatOpened ==
  /\ status = "unopened"
  /\ status' = CASE at = "over" -> "stopped" [] at = "idle" -> "idle" [] OTHER -> "busy"
  /\ ConnectStream(status')
  /\ UNCHANGED <<agentVars, busVars, posts, aborting, textVars, stream, sent, overlap, spent>>

\* It is left for the list and selected again, without a living EventSource.
ChatSelected ==
  /\ status # "unopened"
  /\ stream \in Streams => es[stream] = "closed"
  /\ Spend
  /\ stream' = NoStream
  /\ ConnectStream(status)
  /\ UNCHANGED <<agentVars, busVars, posts, aborting, textVars, status, sent, overlap>>

HistoryRead(l) ==
  /\ ~loads[l].read
  /\ loads' = [loads EXCEPT ![l].read = TRUE, ![l].rows = rows]
  /\ UNCHANGED <<agentVars, busVars, posts, aborting, textVars, chatVars, spent>>

\* historyToMessages: no tool rows if the chat was live.
HistoryToMessages(load) ==
  Kept(load.rows, {m \in ToSet(load.rows) : ~(load.live /\ m.kind = "card")})

TextIn(msgs) == UNION {ToSet(msgs[i].text) : i \in DOMAIN msgs}
UsersIn(msgs) == UNION {msgs[i].user : i \in DOMAIN msgs}

\* The stored messages replace what is shown, then a stream is opened.
HistoryLoaded(l) ==
  /\ loads[l].read
  /\ messages' = HistoryToMessages(loads[l])
  /\ cut' = cut \cup (got \ TextIn(messages'))
  /\ wiped' = (1..sent) \ UsersIn(messages')
  /\ loads' = RemoveAt(loads, l)
  /\ OpenStream(NoStream)
  /\ UNCHANGED <<agentVars, posts, aborting, timer, got, status, sent, spent>>

HistoryFailed(l) ==
  /\ Spend
  /\ loads' = RemoveAt(loads, l)
  /\ OpenStream(NoStream)
  /\ UNCHANGED <<agentVars, posts, aborting, messages, timer, got, cut, wiped, status, sent>>

-------------------------------------------------------------------------------
(* Stop and send *)

\* A chat is stopped until the first turn of its restart.
Restarts == at = "over" \/ (at = "starting" /\ inbox # <<0>>)

\* The abort reaches the agent, whose handler is entered, or not if it has not come to
\* its try block or is in the handler of another cancellation: then nothing is said.
StopClicked ==
  /\ status = "busy"
  /\ ~Restarts
  /\ ~aborting
  /\ Spend
  /\ \/ at' = "stopping" /\ UNCHANGED inbox
     \/ at \in {"starting", "stopping"} /\ at' = "over" /\ inbox' = <<>>
  /\ aborting' = TRUE
  /\ UNCHANGED <<said, begun, called, rows, busVars, loads, posts, textVars, chatVars>>

\* The answer reaches the chat, before or after agent_stopped.
AbortAnswered ==
  /\ aborting
  /\ aborting' = FALSE
  /\ status' = "stopped"
  /\ UNCHANGED <<agentVars, busVars, loads, posts, textVars, stream, sent, overlap, spent>>

\* onMessageSent: a stopped chat gets a new stream, and an idle one that has none.
MessageSent ==
  /\ status \in {"idle", "stopped"}
  /\ sent < MaxSends
  /\ sent' = sent + 1
  /\ posts' = posts \cup {sent'}
  /\ messages' = Append(messages, UserMessage(sent'))
  /\ CASE status = "stopped" ->
            /\ status' = "busy"
            /\ OpenStream(stream)
       [] status = "idle" /\ stream = NoStream ->
            /\ OpenStream(NoStream)
            /\ UNCHANGED status
       [] OTHER -> UNCHANGED <<busVars, bubble, stream, overlap, status>>
  /\ UNCHANGED <<agentVars, loads, aborting, timer, got, cut, wiped, spent>>

\* POST .../messages: queued, a (further) restart, or 409, which the chat only logs.
PostMessage(n) ==
  /\ n \in posts
  /\ posts' = posts \ {n}
  /\ inbox' = CASE at = "idle" -> Append(inbox, n) [] Restarts -> <<n>> [] OTHER -> inbox
  /\ at' = IF Restarts THEN "starting" ELSE at
  /\ UNCHANGED <<said, begun, called, rows, busVars, loads, aborting, textVars, chatVars, spent>>

-------------------------------------------------------------------------------
Agent ==
  \/ BeginTurn \/ Say \/ RequestTool \/ ApprovalStatus \/ ToolDone \/ SaveAnswer \/ FinishTurn
  \/ Failed \/ Stopped
Stream == \E s \in Streams : Deliver(s) \/ Subscribe(s) \/ Disconnect(s) \/ Rejected(s)
Page ==
  \/ ChatOpened \/ ChatSelected
  \/ \E l \in DOMAIN loads : HistoryRead(l) \/ HistoryLoaded(l) \/ HistoryFailed(l)
  \/ StopClicked \/ AbortAnswered \/ MessageSent
  \/ \E n \in Sends : PostMessage(n)

Next == Agent \/ Stream \/ Page \/ Tick

Spec == Init /\ [][Next]_vars

\* The browser calls the function of an interval that is set.
FairSpec == Spec /\ WF_vars(Tick)
-------------------------------------------------------------------------------
(* Properties *)

\* While one stream at a time writes to a chat, all text its listeners were handed
\* is in the transcript or about to be put there by the timer that runs, unless a
\* stop gave it up or a history replaced it: bubbles are ended in full wherever a
\* card or a notice comes, and no timer stops early.
TextIsKept ==
  ~overlap =>
    got \ cut \subseteq TextIn(messages) \cup (IF timer = NoStream THEN {} ELSE Unrevealed(timer))

Increasing(text) == \A i, j \in DOMAIN text : i < j => text[i] < text[j]
Precedes(text, later) == \A x \in ToSet(text), y \in ToSet(later) : x < y
InOrder(msgs) ==
  /\ \A i \in DOMAIN msgs : Increasing(msgs[i].text)
  /\ \A i, j \in DOMAIN msgs : i < j => Precedes(msgs[i].text, msgs[j].text)

\* ... and it is there once and in the order in which the agent said it, bubbles,
\* cards' thoughts and loaded messages taken together.
TranscriptInOrder == ~overlap => InOrder(messages)

\* What the technician sent is there once, as a message or as the thought of the card
\* that absorbed it, except where a history was loaded that did not have it yet.
UserTextKept ==
  \A n \in 1..sent :
    Cardinality({i \in DOMAIN messages : n \in messages[i].user}) = IF n \in wiped THEN 0 ELSE 1

\* Text appears without a further event.
TextAppears ==
  \A n \in Text : n \in got ~> n \in TextIn(messages) \cup cut \/ overlap
===============================================================================
