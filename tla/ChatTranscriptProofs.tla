------------------------- MODULE ChatTranscriptProofs -------------------------
(***************************************************************************)
(* What the technician sent and what the agent said is in the transcript,  *)
(* once and in its order, for every number of streams and bounds.          *)
(***************************************************************************)
EXTENDS ChatTranscript, FiniteSetTheorems, FunctionTheorems, SequenceTheorems, TLAPS

\* What is under way to a listener is later text than x.
Delta(e) == e.type = "text_delta"
After(x, q) == \A i \in DOMAIN q : Delta(q[i]) => x < q[i].n

\* Text is under way in the order in which it was said.
QueueOK(q, n) ==
  /\ \A i \in DOMAIN q : Delta(q[i]) => q[i].n \in 1..n
  /\ \A i, j \in DOMAIN q : Delta(q[i]) /\ Delta(q[j]) /\ i < j => q[i].n < q[j].n

\* ... and it is later than what the bubble has.
LineOK(s) ==
  /\ es[s] # "open" => events[s] = <<>>
  /\ QueueOK(events[s], said)
  /\ Increasing(bubble[s].target)
  /\ \A x \in ToSet(bubble[s].target) : x <= said /\ After(x, events[s])

TypeInv ==
  /\ TypeOK
  /\ \A s \in Streams : LineOK(s)

\* Nothing that the technician sent is among the messages twice.
Once(msgs, n) ==
  \A i, j \in DOMAIN msgs : n \in msgs[i].user /\ n \in msgs[j].user => i = j

\* A message is sent once, then queued once, then stored once.
UnderWay ==
  /\ posts \subseteq 1..sent
  /\ ToSet(inbox) \subseteq 0..sent
  /\ UsersIn(rows) \subseteq 0..sent
  /\ \A n \in Sends :
       /\ \A i, j \in DOMAIN inbox : inbox[i] = n /\ inbox[j] = n => i = j
       /\ n \in posts => n \notin ToSet(inbox)
       /\ n \in posts \cup ToSet(inbox) => n \notin UsersIn(rows)
       /\ Once(rows, n)

InHistories ==
  \A l \in DOMAIN loads :
    /\ UsersIn(loads[l].rows) \subseteq 0..sent
    /\ \A n \in Sends : Once(loads[l].rows, n)

InTranscript ==
  /\ wiped \subseteq 1..sent
  /\ \A n \in Sends :
       /\ Once(messages, n)
       /\ n \in UsersIn(messages) <=> n \in (1..sent) \ wiped

\* Stored messages have text that was said, in its order, and are no bubbles.
StoredOK(msgs, n) ==
  /\ InOrder(msgs)
  /\ \A i \in DOMAIN msgs : msgs[i].by = NoStream /\ ToSet(msgs[i].text) \subseteq 1..n

\* The text of the turn that goes on is not stored yet.
SaidBefore(msgs, n) == \A i \in DOMAIN msgs : ToSet(msgs[i].text) \subseteq 1..n
StoredInv ==
  /\ StoredOK(rows, said)
  /\ at \in {"turn", "asking", "waiting", "calling"} => SaidBefore(rows, begun)
  /\ \A l \in DOMAIN loads : StoredOK(loads[l].rows, said)

IsBubble(m, s, n) == m.kind = "text" /\ m.by = s /\ m.id = n

\* The bubbles of a stream were begun with earlier text than what is under way to it.
BubblesInv ==
  \A i \in DOMAIN messages :
    /\ ToSet(messages[i].text) \subseteq 1..said
    /\ \A s \in Streams, n \in Nat :
         IsBubble(messages[i], s, n) => n <= said /\ After(n, events[s])

\* What of a bubble is not revealed yet.
Rest(b) == {b.target[i] : i \in (b.revealed + 1)..Len(b.target)}

\* Whether stream s may write to the chat: its EventSource lives or its timer runs.
Writes(s, state, clock) == state # "closed" \/ clock = s

\* The bubble that is being filled: what of it is revealed is the last text there is.
Shown(s, b, clock, msgs) ==
  /\ b.revealed < Len(b.target) => clock = s
  /\ \E i \in DOMAIN msgs :
       /\ msgs[i].text = Revealed(b)
       /\ \A j \in DOMAIN msgs : IsBubble(msgs[j], s, b.id) <=> j = i
       /\ \A j \in DOMAIN msgs : j > i => msgs[j].text = <<>>
       /\ \A j \in DOMAIN msgs : j < i => Precedes(msgs[j].text, b.target)

\* What is shown is earlier than what is under way; a bubble that was left behind is
\* given up, and another one is on the screen.
StreamOK(s, b, q, clock, msgs, givenUp) ==
  /\ \A x \in TextIn(msgs) : After(x, q)
  /\ IF b.id = 0 THEN clock = s => Rest(b) \subseteq givenUp ELSE Shown(s, b, clock, msgs)

AllKept(msgs, bs, clock, handed, givenUp) ==
  handed \ givenUp \subseteq TextIn(msgs) \cup IF clock = NoStream THEN {} ELSE Rest(bs[clock])

\* While one stream at a time writes to the chat.
ChatOK(states, qs, bs, clock, msgs, handed, givenUp) ==
  /\ \A s, t \in Streams : Writes(s, states[s], clock) /\ Writes(t, states[t], clock) => s = t
  /\ \A s \in Streams :
       Writes(s, states[s], clock) => StreamOK(s, bs[s], qs[s], clock, msgs, givenUp)
  /\ InOrder(msgs)
  /\ AllKept(msgs, bs, clock, handed, givenUp)

StreamInv == ~overlap => ChatOK(es, events, bubble, timer, messages, got, cut)
-------------------------------------------------------------------------------
(* Types *)

AgentTypes ==
  /\ at \in {"starting", "turn", "asking", "waiting", "calling", "reporting", "idle",
            "stopping", "over"}
  /\ said \in 0..MaxText /\ begun \in 0..said
  /\ called \in 0..MaxCalls
  /\ rows \in Seq(Message)
  /\ inbox \in Seq(Sends \cup {0})
BusTypes ==
  /\ es \in [Streams -> {"closed", "connecting", "open"}]
  /\ events \in [Streams -> Seq(Event)]
HttpTypes ==
  /\ loads \in Seq([read : BOOLEAN, live : BOOLEAN, rows : Seq(Message)])
  /\ posts \subseteq Sends
  /\ aborting \in BOOLEAN
TextTypes ==
  /\ messages \in Seq(Message)
  /\ bubble \in [Streams -> Bubble]
  /\ \A s \in Streams : bubble[s].revealed <= Len(bubble[s].target)
  /\ timer \in Streams \cup {NoStream}
  /\ got \subseteq Text /\ cut \subseteq Text
  /\ wiped \subseteq Sends
ChatTypes ==
  /\ status \in {"unopened", "busy", "idle", "stopped"}
  /\ stream \in Streams \cup {NoStream}
  /\ sent \in 0..MaxSends
  /\ overlap \in BOOLEAN
Spending == spent \in 0..Budget

LEMMA TypeParts ==
  TypeOK <=> AgentTypes /\ BusTypes /\ HttpTypes /\ TextTypes /\ ChatTypes /\ Spending
  BY DEF TypeOK, AgentTypes, BusTypes, HttpTypes, TextTypes, ChatTypes, Spending

LEMMA TypePartsNext ==
  AgentTypes' /\ BusTypes' /\ HttpTypes' /\ TextTypes' /\ ChatTypes' /\ Spending' => TypeOK'
  BY DEF TypeOK, AgentTypes, BusTypes, HttpTypes, TextTypes, ChatTypes, Spending

LEMMA Bounds ==
  MaxText \in Nat /\ MaxCalls \in Nat /\ MaxSends \in Nat /\ MaxLag \in Nat /\ Budget \in Nat
<1>1. {MaxText, MaxCalls, MaxSends, MaxLag, Budget} \subseteq Nat
  BY BoundsAreNumbers
<1> QED
  BY <1>1

LEMMA MessageTypes ==
  /\ \A n \in Sends \cup {0} : UserMessage(n) \in Message
  /\ Notice \in Message
  /\ \A c \in Nat, text \in Seq(Text), u \in SUBSET (Sends \cup {0}) :
       CardMessage(c, text, u) \in Message
  /\ \A s \in Streams \cup {NoStream}, n \in Nat, text \in Seq(Text) :
       TextMessage(s, n, text) \in Message
<1>1. <<>> \in Seq(Text)
  OBVIOUS
<1> QED
  BY <1>1 DEF Message, UserMessage, Notice, CardMessage, TextMessage

LEMMA MessageFields ==
  ASSUME NEW m \in Message
  PROVE  /\ m.kind \in {"text", "user", "notice", "card"}
         /\ m.by \in Streams \cup {NoStream} /\ m.id \in Nat
         /\ m.text \in Seq(Text) /\ m.user \in SUBSET (Sends \cup {0})
  BY DEF Message

LEMMA QueueFacts ==
  ASSUME NEW n \in Nat, NEW q \in Seq(Event), QueueOK(q, n)
  PROVE  /\ q # <<>> => /\ Tail(q) \in Seq(Event) /\ QueueOK(Tail(q), n)
                        /\ Delta(Head(q)) => /\ Head(q).n \in 1..n
                                             /\ After(Head(q).n, Tail(q))
         /\ \A x : After(x, q) => After(x, Tail(q)) \/ q = <<>>
<1> SUFFICES ASSUME q # <<>>
             PROVE  /\ Tail(q) \in Seq(Event) /\ QueueOK(Tail(q), n)
                    /\ Delta(Head(q)) => Head(q).n \in 1..n /\ After(Head(q).n, Tail(q))
                    /\ \A x : After(x, q) => After(x, Tail(q))
  OBVIOUS
<1> DEFINE t == Tail(q)
<1>1. /\ t \in Seq(Event) /\ Head(q) = q[1] /\ 1 \in DOMAIN q
      /\ \A i \in DOMAIN t : i \in Nat /\ i >= 1 /\ i + 1 \in DOMAIN q /\ t[i] = q[i + 1]
  BY HeadTailProperties
<1> HIDE DEF t
<1>2. QueueOK(t, n)
  <2>1. \A i \in DOMAIN t : Delta(t[i]) => t[i].n \in 1..n
    BY <1>1 DEF QueueOK
  <2>2. ASSUME NEW i \in DOMAIN t, NEW j \in DOMAIN t, Delta(t[i]), Delta(t[j]), i < j
        PROVE  t[i].n < t[j].n
    <3>1. i + 1 \in DOMAIN q /\ j + 1 \in DOMAIN q /\ i + 1 < j + 1
          /\ t[i] = q[i + 1] /\ t[j] = q[j + 1]
      BY <1>1, <2>2
    <3> QED
      BY <2>2, <3>1 DEF QueueOK
  <2> QED
    BY <2>1, <2>2 DEF QueueOK
<1>3. Delta(Head(q)) => Head(q).n \in 1..n /\ After(Head(q).n, t)
  BY <1>1 DEF QueueOK, After
<1>4. \A x : After(x, q) => After(x, t)
  BY <1>1 DEF After
<1> QED
  BY <1>1, <1>2, <1>3, <1>4 DEF t

LEMMA Appended ==
  ASSUME NEW q \in Seq(Event), NEW r \in Seq(Event)
  PROVE  /\ q \o r \in Seq(Event)
         /\ \A i \in DOMAIN (q \o r) :
              \/ i \in DOMAIN q /\ (q \o r)[i] = q[i]
              \/ i > Len(q) /\ i - Len(q) \in DOMAIN r /\ (q \o r)[i] = r[i - Len(q)]
  OBVIOUS

\* What is published joins the queue.
LEMMA QueueJoined ==
  ASSUME NEW n \in Nat, NEW q \in Seq(Event), QueueOK(q, n), NEW r \in Seq(Event)
  PROVE  /\ (\A i \in DOMAIN r : ~Delta(r[i])) =>
              QueueOK(q \o r, n) /\ \A x : After(x, q) => After(x, q \o r)
         /\ r = <<[type |-> "text_delta", n |-> n + 1]>> =>
              QueueOK(q \o r, n + 1) /\ \A x \in 0..n : After(x, q) => After(x, q \o r)
<1> DEFINE b == q \o r
<1>1. /\ b \in Seq(Event)
      /\ \A i \in DOMAIN b :
              \/ i \in DOMAIN q /\ b[i] = q[i]
              \/ i > Len(q) /\ i - Len(q) \in DOMAIN r /\ b[i] = r[i - Len(q)]
  BY Appended
<1>2. DOMAIN q = 1..Len(q) /\ Len(q) \in Nat
  OBVIOUS
<1> HIDE DEF b
<1>3. ASSUME \A i \in DOMAIN r : ~Delta(r[i])
      PROVE  QueueOK(b, n) /\ \A x : After(x, q) => After(x, b)
  <2>1. \A i \in DOMAIN b : Delta(b[i]) => i \in DOMAIN q /\ b[i] = q[i]
    BY <1>1, <1>3
  <2> QED
    BY <2>1 DEF QueueOK, After
<1>4. ASSUME r = <<[type |-> "text_delta", n |-> n + 1]>>
      PROVE  QueueOK(b, n + 1) /\ \A x \in 0..n : After(x, q) => After(x, b)
  <2>0. DOMAIN r = {1} /\ r[1].n = n + 1
    BY <1>4
  <2>1. \A i \in DOMAIN b : (i \in DOMAIN q /\ b[i] = q[i]) \/ (i = Len(q) + 1 /\ b[i].n = n + 1)
    BY <1>1, <1>2, <2>0
  <2>2. \A i \in DOMAIN b : Delta(b[i]) => b[i].n \in 1..n + 1
    BY <2>1 DEF QueueOK
  <2>3. ASSUME NEW i \in DOMAIN b, NEW j \in DOMAIN b, Delta(b[i]), Delta(b[j]), i < j
        PROVE  b[i].n < b[j].n
    <3>0. i \in Nat /\ j \in Nat /\ j <= Len(q) + 1
      BY <1>1, <1>2, <2>1
    <3>1. i \in DOMAIN q /\ b[i] = q[i]
      <4>1. i # Len(q) + 1
        BY <1>2, <2>3, <3>0
      <4> QED
        BY <2>1, <4>1
    <3>2. CASE j \in DOMAIN q /\ b[j] = q[j]
      BY <2>3, <3>1, <3>2 DEF QueueOK
    <3>3. CASE b[j].n = n + 1
      BY <2>3, <3>1, <3>3 DEF QueueOK
    <3> QED
      BY <2>1, <3>2, <3>3
  <2>4. \A x \in 0..n : After(x, q) => After(x, b)
    BY <2>1 DEF After
  <2> QED
    BY <2>2, <2>3, <2>4 DEF QueueOK
<1> QED
  BY <1>3, <1>4 DEF b

LEMMA EmptyQueue == (\A x : After(x, <<>>)) /\ (\A n : QueueOK(<<>>, n)) /\ <<>> \in Seq(Event)
  BY DEF After, QueueOK

-------------------------------------------------------------------------------
(* What is under way to the listeners *)

\* Published events without text.
Quiet(evs) == evs \in Seq(Event) /\ \A i \in DOMAIN evs : ~Delta(evs[i])

LEMMA QuietOnes ==
  /\ \A type \in {"status_change", "agent_completed", "agent_idle", "agent_stopped",
                  "agent_failed"} : Quiet(<<[type |-> type]>>)
  /\ \A n \in Nat : Quiet(<<[type |-> "tool_result", n |-> n]>>)
  /\ \A n \in Nat : Quiet(<<[type |-> "tool_call_requested", n |-> n]>>)
  /\ Quiet(<<[type |-> "agent_completed"], [type |-> "agent_idle"]>>)
<1>1. \A type \in {"status_change", "agent_completed", "agent_idle", "agent_stopped",
                   "agent_failed"} : [type |-> type] \in Event /\ ~Delta([type |-> type])
  BY DEF Event, Delta
<1>2. \A n \in Nat, type \in {"tool_result", "tool_call_requested"} :
        [type |-> type, n |-> n] \in Event /\ ~Delta([type |-> type, n |-> n])
  BY DEF Event, Delta
<1>3. \A e \in Event : ~Delta(e) => Quiet(<<e>>)
  BY DEF Quiet
<1>4. ASSUME NEW e \in Event, NEW f \in Event, ~Delta(e), ~Delta(f)
      PROVE  Quiet(<<e, f>>)
  BY <1>4 DEF Quiet
<1>8. \A n \in Nat : Quiet(<<[type |-> "tool_call_requested", n |-> n]>>)
  BY <1>2, <1>3
<1>9. Quiet(<<[type |-> "agent_completed"], [type |-> "agent_idle"]>>)
  BY <1>1, <1>4
<1> HIDE DEF Quiet
<1>12. \A n \in Nat : Quiet(<<[type |-> "tool_result", n |-> n]>>)
  BY <1>2, <1>3
<1> QED
  BY <1>1, <1>3, <1>8, <1>9, <1>12

\* How a step changes what is under way: nothing, an end, one event less, or more.
BusStays == UNCHANGED <<said, es, events>>
Cleared ==
  /\ said' = said
  /\ es' \in [Streams -> {"closed", "connecting", "open"}]
  /\ events' = [s \in Streams |-> IF events'[s] = <<>> THEN <<>> ELSE events[s]]
  /\ \A s \in Streams : es'[s] # "open" => events'[s] = <<>>
Published == said' = said /\ \E evs : Quiet(evs) /\ Publish(evs)
Handled ==
  /\ UNCHANGED <<said, es>>
  /\ \E s \in Streams : /\ es[s] = "open" /\ events[s] # <<>>
                        /\ events' = [events EXCEPT ![s] = Tail(@)]

LEMMA Opening ==
  ASSUME TypeInv, NEW t, OpenStream(t), said' = said
  PROVE  Cleared
<1> DEFINE left == {u \in Streams \ {t} : es[u] # "closed"}
<1>1. PICK s \in Streams :
        /\ es' = [u \in Streams |-> IF u = s THEN "connecting"
                                    ELSE IF u \in left THEN es[u] ELSE "closed"]
        /\ events' = [u \in Streams |-> IF u \in left THEN events[u] ELSE <<>>]
        /\ s \notin left
  BY DEF OpenStream
<1>2. es' \in [Streams -> {"closed", "connecting", "open"}]
  BY <1>1, TypeParts DEF TypeInv, BusTypes
<1>3. \A u \in Streams : es'[u] # "open" => events'[u] = <<>>
  BY <1>1 DEF TypeInv, LineOK
<1>4. events' = [u \in Streams |-> IF events'[u] = <<>> THEN <<>> ELSE events[u]]
  BY <1>1
<1> QED
  BY <1>2, <1>3, <1>4 DEF Cleared

LEMMA BusSteps ==
  ASSUME TypeInv, [Next]_vars
  PROVE  BusStays \/ Cleared \/ Published \/ Handled \/ Say
<1>0. BusTypes /\ (\A s \in Streams : es[s] # "open" => events[s] = <<>>) /\ called \in Nat
  BY TypeParts, Bounds DEF TypeInv, LineOK, AgentTypes
<1>1. CASE BeginTurn \/ SaveAnswer
  BY <1>1 DEF BeginTurn, SaveAnswer, busVars, BusStays
<1>2. CASE Say
  BY <1>2
<1>3. CASE RequestTool
  <2>1. called + 1 \in Nat
    BY <1>0
  <2> QED
    BY <1>3, <2>1, QuietOnes DEF RequestTool, Published
<1>a. CASE ApprovalStatus
  BY <1>a, QuietOnes DEF ApprovalStatus, Published
<1>4. CASE ToolDone
  BY <1>0, <1>4, QuietOnes DEF ToolDone, Published
<1>5. CASE FinishTurn
  BY <1>5, QuietOnes DEF FinishTurn, Published
<1>6. CASE Failed
  BY <1>6, QuietOnes DEF Failed, AgentEnds, Published
<1>7. CASE Stopped
  BY <1>7, QuietOnes DEF Stopped, AgentEnds, Published
<1>8. ASSUME NEW s \in Streams, Deliver(s) PROVE Handled
  BY <1>8 DEF Deliver, TextDelta, ToolCallRequested, StatusChange, ToolResult,
              AgentCompletedOrFailed, AgentIdleOrStopped, Handle, Handled, agentVars
<1>9. ASSUME NEW s \in Streams, Subscribe(s) \/ Disconnect(s) \/ Rejected(s) PROVE Cleared
  <2>1. said' = said
    BY <1>9 DEF Subscribe, Disconnect, Rejected, agentVars
  <2>2. es' \in [Streams -> {"closed", "connecting", "open"}]
    BY <1>0, <1>9 DEF Subscribe, Disconnect, Rejected, BusTypes
  <2>3. events' = [t \in Streams |-> IF events'[t] = <<>> THEN <<>> ELSE events[t]]
    BY <1>0, <1>9 DEF Subscribe, Disconnect, Rejected, BusTypes
  <2>4. \A t \in Streams : es'[t] # "open" => events'[t] = <<>>
    BY <1>0, <1>9 DEF Subscribe, Disconnect, Rejected, BusTypes
  <2> QED
    BY <2>1, <2>2, <2>3, <2>4 DEF Cleared
<1>10. CASE ChatOpened \/ ChatSelected \/ StopClicked \/ AbortAnswered \/ Tick
  BY <1>10 DEF ChatOpened, ChatSelected, StopClicked, AbortAnswered, Tick, agentVars, busVars,
               BusStays
<1>11. ASSUME NEW l \in DOMAIN loads, HistoryRead(l) PROVE BusStays
  BY <1>11 DEF HistoryRead, agentVars, busVars, BusStays
<1>12. ASSUME NEW l \in DOMAIN loads, HistoryLoaded(l) \/ HistoryFailed(l) PROVE Cleared
  BY <1>12, Opening DEF HistoryLoaded, HistoryFailed, agentVars
<1>13. CASE MessageSent
  BY <1>13, Opening DEF MessageSent, agentVars, busVars, BusStays
<1>14. ASSUME NEW n \in Sends, PostMessage(n) PROVE BusStays
  BY <1>14 DEF PostMessage, busVars, BusStays
<1>15. CASE UNCHANGED vars
  BY <1>15 DEF vars, agentVars, busVars, BusStays
<1> QED
  BY <1>1, <1>2, <1>3, <1>4, <1>5, <1>6, <1>7, <1>8, <1>9, <1>10, <1>11, <1>12, <1>13, <1>14,
     <1>15, <1>a DEF Next, Agent, Stream, Page

\* The queues are in order, and what was later than something that was said stays later.
LEMMA QueueStep ==
  ASSUME TypeInv, [Next]_vars
  PROVE  /\ BusTypes' /\ said' \in Nat /\ said <= said'
         /\ \A s \in Streams :
              /\ es'[s] # "open" => events'[s] = <<>>
              /\ QueueOK(events'[s], said')
              /\ \A x \in 0..said : After(x, events[s]) => After(x, events'[s])
<1>0. /\ BusTypes /\ said \in Nat
      /\ \A s \in Streams : (es[s] # "open" => events[s] = <<>>) /\ QueueOK(events[s], said)
  BY TypeParts, Bounds DEF TypeInv, LineOK, AgentTypes
<1>1. CASE BusStays
  BY <1>0, <1>1 DEF BusStays, BusTypes
<1>2. CASE Cleared
  <2>1. BusTypes'
    BY <1>0, <1>2, EmptyQueue DEF Cleared, BusTypes
  <2>2. \A s \in Streams : events'[s] = <<>> \/ events'[s] = events[s]
    BY <1>2 DEF Cleared
  <2> QED
    BY <1>0, <1>2, <2>1, <2>2, EmptyQueue DEF Cleared
<1>3. CASE Published
  <2>1. PICK evs : Quiet(evs) /\ Publish(evs)
    BY <1>3 DEF Published
  <2>2. \A s \in Streams : events[s] \o evs \in Seq(Event)
    BY <1>0, <2>1, Appended DEF BusTypes, Quiet
  <2>3. BusTypes'
    BY <1>0, <2>1, <2>2 DEF BusTypes, Publish
  <2>4. \A s \in Streams : events'[s] = IF es[s] = "open" THEN events[s] \o evs ELSE events[s]
    BY <2>1 DEF Publish
  <2>5. \A s \in Streams : /\ QueueOK(events[s] \o evs, said)
                           /\ \A x : After(x, events[s]) => After(x, events[s] \o evs)
    BY <1>0, <2>1, QueueJoined DEF BusTypes, Quiet
  <2>6. said' = said /\ es' = es
    BY <1>3, <2>1 DEF Published, Publish
  <2> QED
    BY <1>0, <2>3, <2>4, <2>5, <2>6
<1>4. CASE Handled
  <2>1. PICK s \in Streams : /\ es[s] = "open" /\ events[s] # <<>>
                             /\ events' = [events EXCEPT ![s] = Tail(@)]
    BY <1>4 DEF Handled
  <2>2. said' = said /\ es' = es
    BY <1>4 DEF Handled
  <2>3. /\ Tail(events[s]) \in Seq(Event) /\ QueueOK(Tail(events[s]), said)
        /\ \A x : After(x, events[s]) => After(x, Tail(events[s]))
    BY <1>0, <2>1, QueueFacts DEF BusTypes
  <2>4. BusTypes'
    BY <1>0, <2>1, <2>2, <2>3 DEF BusTypes
  <2>5. \A t \in Streams : events'[t] = IF t = s THEN Tail(events[s]) ELSE events[t]
    BY <1>0, <2>1 DEF BusTypes
  <2> QED
    BY <1>0, <2>1, <2>2, <2>3, <2>4, <2>5
<1>5. CASE Say
  <2> DEFINE evs == <<[type |-> "text_delta", n |-> said + 1]>>
  <2>1. evs \in Seq(Event) /\ said + 1 \in Nat
    BY <1>0 DEF Event
  <2>2. said' = said + 1 /\ Publish(evs)
    BY <1>5 DEF Say
  <2>3. \A s \in Streams : events[s] \o evs \in Seq(Event)
    BY <1>0, <2>1, Appended DEF BusTypes
  <2>4. /\ BusTypes' /\ es' = es
        /\ \A s \in Streams : events'[s] = IF es[s] = "open" THEN events[s] \o evs ELSE events[s]
    BY <1>0, <2>2, <2>3 DEF BusTypes, Publish
  <2>5. \A s \in Streams : /\ QueueOK(events[s] \o evs, said + 1)
                           /\ \A x \in 0..said : After(x, events[s]) => After(x, events[s] \o evs)
    BY <1>0, <2>1, QueueJoined DEF BusTypes
  <2>6. \A s \in Streams : es[s] # "open" => QueueOK(events[s], said + 1)
    BY <1>0, EmptyQueue
  <2> HIDE DEF evs
  <2> QED
    BY <1>0, <2>2, <2>4, <2>5, <2>6
<1> QED
  BY <1>1, <1>2, <1>3, <1>4, <1>5, BusSteps

-------------------------------------------------------------------------------
(* Messages *)

\* The places that are kept are counted up without a gap.
LEMMA PlacesCounted ==
  ASSUME NEW R, NEW s \in Seq(R), NEW S
  PROVE  /\ Cardinality(Places(s, S)) \in Nat
         /\ \A i \in Places(s, S) : Place(s, S, i) \in 1..Cardinality(Places(s, S))
         /\ \A i, j \in Places(s, S) : i < j => Place(s, S, i) < Place(s, S, j)
         /\ \A k \in 1..Cardinality(Places(s, S)) : \E i \in Places(s, S) : Place(s, S, i) = k
<1> DEFINE P == Places(s, S)
           Upto(i) == {j \in P : j <= i}
           n == Cardinality(P)
<1>1. P \subseteq 1..Len(s) /\ Len(s) \in Nat
  BY DEF Places
<1>2. IsFiniteSet(P) /\ n \in Nat
  <2>1. IsFiniteSet(1..Len(s))
    BY <1>1, FS_Interval
  <2> HIDE DEF P
  <2>2. IsFiniteSet(P)
    BY <1>1, <2>1, FS_Subset
  <2> QED
    BY <2>2, FS_CardinalityType
<1>3. \A i : Place(s, S, i) = Cardinality(Upto(i))
  BY DEF Place
<1> HIDE DEF P
<1>4. ASSUME NEW i \in P
      PROVE  IsFiniteSet(Upto(i)) /\ Cardinality(Upto(i)) \in 1..n
  <2>1. IsFiniteSet(Upto(i)) /\ Cardinality(Upto(i)) <= n /\ Cardinality(Upto(i)) \in Nat
    BY <1>2, FS_Subset, FS_CardinalityType
  <2>2. i \in Upto(i)
    BY <1>1
  <2>3. Cardinality(Upto(i)) # 0
    BY <2>1, <2>2, FS_EmptySet
  <2> QED
    BY <1>2, <2>1, <2>3
<1>5. ASSUME NEW i \in P, NEW j \in P, i < j
      PROVE  Cardinality(Upto(i)) < Cardinality(Upto(j))
  <2>0. i \in Nat /\ j \in Nat /\ \A k \in P : k \in Nat
    BY <1>1
  <2>1. Upto(i) \subseteq Upto(j)
    <3>1. \A k \in Nat : k <= i => k <= j
      BY <1>5, <2>0
    <3> QED
      BY <2>0, <3>1
  <2>2. j \in Upto(j) /\ j \notin Upto(i)
    BY <1>5, <2>0
  <2> QED
    BY <1>4, <2>1, <2>2, FS_Subset
<1> DEFINE f == [i \in P |-> Cardinality(Upto(i))]
<1>6. f \in [P -> 1..n] /\ \A i, j \in P : i < j => f[i] < f[j]
  BY <1>4, <1>5
<1>7. f \in Injection(P, 1..n)
  <2> HIDE DEF f
  <2>1. ASSUME NEW i \in P, NEW j \in P, f[i] = f[j] PROVE i = j
    <3>1. i \in Nat /\ j \in Nat /\ f[i] \in Nat
      BY <1>1, <1>6
    <3> QED
      BY <1>6, <2>1, <3>1
  <2> QED
    BY <1>6, <2>1, Fun_IsInj
<1>8. IsFiniteSet(1..n) /\ Cardinality(1..n) = n
  BY <1>2, FS_Interval
<1>9. f \in Surjection(P, 1..n)
  BY <1>7, <1>8, FS_Injection
<1>10. \A k \in 1..n : \E i \in P : Cardinality(Upto(i)) = k
  BY <1>9 DEF Surjection
<1> QED
  BY <1>2, <1>3, <1>4, <1>5, <1>10 DEF P


\* filter keeps what it should, in its order.
LEMMA KeptPlaces ==
  ASSUME NEW R, NEW s \in Seq(R), NEW S
  PROVE  \E n \in Nat : \E p \in [1..n -> DOMAIN s] :
           /\ Kept(s, S) = [k \in 1..n |-> s[p[k]]]
           /\ \A k, l \in 1..n : k < l => p[k] < p[l]
           /\ \A k \in 1..n : s[p[k]] \in S
<1> DEFINE P == Places(s, S)
           n == Cardinality(P)
           nth(k) == CHOOSE i \in P : Place(s, S, i) = k
           p == [k \in 1..n |-> nth(k)]
<1>1. \A k \in 1..n : nth(k) \in P /\ Place(s, S, nth(k)) = k
  BY PlacesCounted
<1>2. Kept(s, S) = [k \in 1..n |-> s[nth(k)]]
  BY DEF Kept
<1>3. \A i, j \in P : i < j => Place(s, S, i) < Place(s, S, j)
  BY PlacesCounted
<1>4. P \subseteq DOMAIN s /\ P \subseteq Nat /\ n \in Nat /\ \A i \in P : s[i] \in S
  <2>1. P \subseteq DOMAIN s /\ DOMAIN s \subseteq Nat /\ \A i \in P : s[i] \in S
    BY DEF Places
  <2>2. n \in Nat
    BY PlacesCounted
  <2> QED
    BY <2>1, <2>2
<1> HIDE DEF P, n, nth
<1>5. p \in [1..n -> DOMAIN s] /\ Kept(s, S) = [k \in 1..n |-> s[p[k]]]
  BY <1>1, <1>2, <1>4
<1>6. ASSUME NEW k \in 1..n, NEW l \in 1..n, k < l PROVE p[k] < p[l]
  <2>1. p[k] \in P /\ p[l] \in P /\ Place(s, S, p[k]) = k /\ Place(s, S, p[l]) = l
    BY <1>1
  <2> HIDE DEF p
  <2>2. ~(p[l] < p[k]) /\ p[l] # p[k]
    BY <1>3, <1>4, <1>6, <2>1
  <2> QED
    BY <1>4, <2>1, <2>2
<1>7. \A k \in 1..n : s[p[k]] \in S
  BY <1>1, <1>4
<1> HIDE DEF p
<1> QED
  BY <1>4, <1>5, <1>6, <1>7

\* What is left of the stored messages is in their order.
LEMMA HistoryPlaces ==
  ASSUME NEW load, load.rows \in Seq(Message)
  PROVE  \E n \in Nat : \E p \in [1..n -> DOMAIN load.rows] :
           /\ HistoryToMessages(load) = [k \in 1..n |-> load.rows[p[k]]]
           /\ \A k, l \in 1..n : k < l => p[k] < p[l]
  BY KeptPlaces DEF HistoryToMessages

\* A bubble has no more text than there is.
LEMMA IncreasingIsShort == ASSUME NEW t \in Seq(Text), Increasing(t) PROVE Len(t) <= MaxText
<1>1. Len(t) \in Nat /\ DOMAIN t = 1..Len(t) /\ MaxText \in Nat
  BY Bounds
<1>2. /\ IsFiniteSet(1..Len(t)) /\ Cardinality(1..Len(t)) = Len(t)
      /\ IsFiniteSet(Text) /\ Cardinality(Text) = MaxText
  <2>1. \A n \in Nat : IsFiniteSet(1..n) /\ Cardinality(1..n) = n
    BY FS_Interval
  <2> QED
    BY <1>1, <2>1 DEF Text
<1>3. ASSUME MaxText < Len(t) PROVE FALSE
  <2>1. t \in [1..Len(t) -> Text]
    BY <1>1
  <2>2. PICK i \in 1..Len(t), j \in 1..Len(t) : i # j /\ t[i] = t[j]
    BY <1>2, <1>3, <2>1, FS_PigeonHole
  <2>3. t[i] \in Nat /\ t[j] \in Nat /\ (i < j \/ j < i)
    BY <1>1, <2>1, <2>2 DEF Text
  <2> QED
    BY <1>1, <2>2, <2>3 DEF Increasing
<1> QED
  BY <1>1, <1>3

\* A bubble of a stream.
LEMMA BubbleFacts ==
  ASSUME NEW b, b.target \in Seq(Text), b.revealed \in 0..Len(b.target)
  PROVE  /\ Revealed(b) \in Seq(Text) /\ Len(Revealed(b)) = b.revealed
         /\ \A i \in 1..b.revealed : Revealed(b)[i] = b.target[i]
         /\ DOMAIN b.target = 1..Len(b.target) /\ Len(b.target) \in Nat
<1>1. 1 \in Int /\ b.revealed \in Int /\ Len(b.target) \in Nat
  OBVIOUS
<1>2. \A i \in 1..b.revealed : b.target[i] \in Text
  <2>1. \A i \in 1..b.revealed : i \in 1..Len(b.target)
    BY <1>1
  <2> QED
    BY <2>1
<1>3. b.revealed - 1 + 1 = b.revealed /\ \A i \in Nat : 1 + i - 1 = i
  BY <1>1
<1> DEFINE s == SubSeq(b.target, 1, b.revealed)
<1>4. s \in Seq(Text) /\ Len(s) = (IF 1 <= b.revealed THEN b.revealed - 1 + 1 ELSE 0)
      /\ \A i \in 1..b.revealed - 1 + 1 : s[i] = b.target[1 + i - 1]
  BY <1>1, <1>2, SubSeqProperties
<1>5. s \in Seq(Text) /\ Len(s) = b.revealed /\ \A i \in 1..b.revealed : s[i] = b.target[i]
  BY <1>1, <1>3, <1>4
<1> QED
  BY <1>1, <1>5 DEF Revealed

\* Text and what the technician sent stay where they are; a further message has none.
Follows(new, old) ==
  /\ new \in Seq(Message)
  /\ DOMAIN old \subseteq DOMAIN new
  /\ \A i \in DOMAIN new :
       /\ new[i].text = IF i \in DOMAIN old THEN old[i].text ELSE <<>>
       /\ new[i].user = IF i \in DOMAIN old THEN old[i].user ELSE {}

\* No bubble is added or changed.
NoBubbles(new, old) ==
  \A i \in DOMAIN new : \A s \in Streams :
    new[i].kind = "text" /\ new[i].by = s => i \in DOMAIN old /\ new[i] = old[i]

LEMMA AppendFacts ==
  ASSUME NEW S, NEW msgs \in Seq(S), NEW m \in S
  PROVE  /\ Append(msgs, m) \in Seq(S) /\ Len(msgs) \in Nat
         /\ DOMAIN msgs = 1..Len(msgs) /\ DOMAIN Append(msgs, m) = 1..Len(msgs) + 1
         /\ \A i \in 1..Len(msgs) + 1 :
              Append(msgs, m)[i] = IF i \in 1..Len(msgs) THEN msgs[i] ELSE m
  OBVIOUS

LEMMA NoticeAdded ==
  ASSUME NEW msgs \in Seq(Message)
  PROVE  LET new == Append(msgs, Notice)
         IN Follows(new, msgs) /\ NoBubbles(new, msgs)
<1> DEFINE new == Append(msgs, Notice)
<1>1. Notice \in Message
  BY MessageTypes
<1>2. /\ new \in Seq(Message)
      /\ DOMAIN msgs = 1..Len(msgs) /\ DOMAIN new = 1..Len(msgs) + 1 /\ Len(msgs) \in Nat
      /\ \A i \in DOMAIN new : new[i] = IF i \in DOMAIN msgs THEN msgs[i] ELSE Notice
  BY <1>1, AppendFacts
<1>3. Notice.text = <<>> /\ Notice.user = {} /\ Notice.kind # "text"
  BY DEF Notice
<1> HIDE DEF new
<1>4. Follows(new, msgs)
  <2>1. DOMAIN msgs \subseteq DOMAIN new
    BY <1>2
  <2>2. \A i \in DOMAIN new :
          /\ new[i].text = IF i \in DOMAIN msgs THEN msgs[i].text ELSE <<>>
          /\ new[i].user = IF i \in DOMAIN msgs THEN msgs[i].user ELSE {}
    BY <1>2, <1>3
  <2> QED
    BY <1>2, <2>1, <2>2 DEF Follows
<1>5. NoBubbles(new, msgs)
  BY <1>2, <1>3 DEF NoBubbles
<1> QED
  BY <1>4, <1>5 DEF new

LEMMA CardAdded ==
  ASSUME NEW msgs \in Seq(Message), NEW c \in Nat
  PROVE  LET new == WithCard(msgs, c)
         IN Follows(new, msgs) /\ NoBubbles(new, msgs)
<1> DEFINE new == WithCard(msgs, c)
           n == Len(msgs)
<1>0. n \in Nat /\ DOMAIN msgs = 1..n /\ \A i \in 1..n : msgs[i] \in Message
  OBVIOUS
<1>1. CASE msgs # <<>> /\ Last(msgs).kind # "card"
           /\ ~(Last(msgs).kind = "text" /\ Last(msgs).text = <<>>)
  <2> DEFINE card == CardMessage(c, msgs[n].text, msgs[n].user)
             front == Front(msgs)
  <2>1. n >= 1 /\ Last(msgs) = msgs[n]
    BY <1>0, <1>1 DEF Last
  <2>2. new = Append(front, card)
    BY <1>1, <2>1 DEF WithCard
  <2>3. card \in Message
    BY <1>0, <2>1, MessageFields, MessageTypes
  <2>4. front \in Seq(Message) /\ Len(front) = n - 1 /\ \A i \in 1..n - 1 : front[i] = msgs[i]
    BY <1>0, <2>1 DEF Front
  <2>5. card.text = msgs[n].text /\ card.user = msgs[n].user /\ card.kind = "card"
    BY DEF CardMessage
  <2> HIDE DEF card, front, new, n
  <2>6. /\ new \in Seq(Message) /\ DOMAIN new = 1..(n - 1) + 1
        /\ \A i \in 1..(n - 1) + 1 : new[i] = IF i \in 1..n - 1 THEN front[i] ELSE card
    BY <2>2, <2>3, <2>4, AppendFacts
  <2>7. /\ DOMAIN new = 1..n
        /\ \A i \in 1..n : new[i] = IF i \in 1..n - 1 THEN msgs[i] ELSE card
        /\ \A i \in 1..n : i \in 1..n - 1 \/ i = n
    BY <1>0, <2>1, <2>4, <2>6
  <2>8. Follows(new, msgs)
    BY <1>0, <2>5, <2>6, <2>7 DEF Follows
  <2>9. NoBubbles(new, msgs)
    BY <1>0, <2>5, <2>7 DEF NoBubbles
  <2> QED
    BY <2>8, <2>9 DEF new
<1>2. CASE ~(msgs # <<>> /\ Last(msgs).kind # "card"
             /\ ~(Last(msgs).kind = "text" /\ Last(msgs).text = <<>>))
  <2> DEFINE card == CardMessage(c, <<>>, {})
  <2>1. new = Append(msgs, card)
    BY <1>2 DEF WithCard
  <2>2. card \in Message
    <3>1. <<>> \in Seq(Text) /\ {} \in SUBSET (Sends \cup {0})
      OBVIOUS
    <3> QED
      BY <3>1, MessageTypes
  <2>3. card.text = <<>> /\ card.user = {} /\ card.kind = "card"
    BY DEF CardMessage
  <2> HIDE DEF card, new, n
  <2>4. /\ new \in Seq(Message) /\ DOMAIN new = 1..Len(msgs) + 1
        /\ DOMAIN msgs \subseteq DOMAIN new
        /\ \A i \in DOMAIN new : new[i] = IF i \in DOMAIN msgs THEN msgs[i] ELSE card
    BY <2>1, <2>2, AppendFacts
  <2>5. Follows(new, msgs)
    BY <2>3, <2>4 DEF Follows
  <2>6. NoBubbles(new, msgs)
    BY <2>3, <2>4 DEF NoBubbles
  <2> QED
    BY <2>5, <2>6 DEF new
<1> QED
  BY <1>1, <1>2

\* setCurrentContent changes the text of one bubble only.
LEMMA ContentSet ==
  ASSUME NEW msgs \in Seq(Message), NEW s, NEW b, Revealed(b) \in Seq(Text)
  PROVE  LET new == WithContent(msgs, s, b)
         IN /\ new \in Seq(Message) /\ DOMAIN new = DOMAIN msgs
            /\ \A i \in DOMAIN msgs :
                 /\ new[i].kind = msgs[i].kind /\ new[i].by = msgs[i].by
                 /\ new[i].id = msgs[i].id /\ new[i].user = msgs[i].user
                 /\ new[i].text = IF b.id # 0 /\ IsBubble(msgs[i], s, b.id)
                                  THEN Revealed(b) ELSE msgs[i].text
<1> DEFINE set(m) == IF b.id # 0 /\ IsBubble(m, s, b.id) THEN [m EXCEPT !.text = Revealed(b)] ELSE m
           new == [i \in DOMAIN msgs |-> set(msgs[i])]
<1>1. WithContent(msgs, s, b) = new
  BY DEF WithContent, IsBubble
<1>2. ASSUME NEW m \in Message
      PROVE  /\ set(m) \in Message
             /\ set(m).kind = m.kind /\ set(m).by = m.by /\ set(m).id = m.id /\ set(m).user = m.user
             /\ set(m).text = IF b.id # 0 /\ IsBubble(m, s, b.id) THEN Revealed(b) ELSE m.text
  BY DEF Message
<1> HIDE DEF set
<1>3. \A i \in DOMAIN msgs : msgs[i] \in Message /\ new[i] = set(msgs[i])
  OBVIOUS
<1>4. DOMAIN new = 1..Len(msgs) /\ Len(msgs) \in Nat /\ DOMAIN msgs = 1..Len(msgs)
  OBVIOUS
<1>5. new \in Seq(Message)
  <2>1. \A i \in 1..Len(msgs) : set(msgs[i]) \in Message
    BY <1>2, <1>3, <1>4
  <2>2. new \in [1..Len(msgs) -> Message]
    BY <1>4, <2>1
  <2> QED
    BY <1>4, <2>2
<1> QED
  BY <1>1, <1>2, <1>3, <1>4, <1>5

\* flushReveal shows the whole bubble.
LEMMA FlushedFacts ==
  ASSUME TypeInv, NEW s \in Streams
  PROVE  /\ Flushed(s) \in Seq(Message) /\ DOMAIN Flushed(s) = DOMAIN messages
         /\ \A i \in DOMAIN messages :
              /\ Flushed(s)[i].kind = messages[i].kind /\ Flushed(s)[i].by = messages[i].by
              /\ Flushed(s)[i].id = messages[i].id /\ Flushed(s)[i].user = messages[i].user
              /\ Flushed(s)[i].text = IF bubble[s].id # 0 /\ IsBubble(messages[i], s, bubble[s].id)
                                      THEN bubble[s].target ELSE messages[i].text
<1> DEFINE b == bubble[s]
           f == [b EXCEPT !.revealed = Len(b.target)]
<1>1. messages \in Seq(Message) /\ b \in Bubble
  BY TypeParts DEF TypeInv, TextTypes
<1>2. f.id = b.id /\ f.target = b.target /\ f.revealed = Len(b.target) /\ b.target \in Seq(Text)
  BY <1>1 DEF Bubble
<1> HIDE DEF b, f
<1>3. Revealed(f) = b.target
  <2>1. SubSeq(b.target, 1, Len(b.target)) = b.target
    BY <1>2
  <2> QED
    BY <1>2, <2>1 DEF Revealed
<1>4. Flushed(s) = WithContent(messages, s, f)
  BY DEF Flushed, b, f
<1>5. Revealed(f) \in Seq(Text)
  BY <1>2, <1>3
<1> QED
  BY <1>1, <1>2, <1>3, <1>4, <1>5, ContentSet DEF b

-------------------------------------------------------------------------------
(* The agent's types *)

LEMMA AgentStep == ASSUME TypeInv, [Next]_vars PROVE AgentTypes'
<1>0. AgentTypes /\ MaxText \in Nat /\ MaxCalls \in Nat /\ said \in Nat /\ begun \in Nat
      /\ called \in Nat
  BY TypeParts, Bounds DEF TypeInv, AgentTypes
<1>1. CASE UNCHANGED agentVars
  BY <1>0, <1>1 DEF agentVars, AgentTypes
<1>2. CASE BeginTurn
  <2>1. inbox \in Seq(Sends \cup {0}) /\ inbox # <<>> /\ rows \in Seq(Message)
    BY <1>0, <1>2 DEF BeginTurn, AgentTypes
  <2>2. Head(inbox) \in Sends \cup {0} /\ Tail(inbox) \in Seq(Sends \cup {0})
    BY <2>1
  <2>3. Append(rows, UserMessage(Head(inbox))) \in Seq(Message)
    BY <2>1, <2>2, MessageTypes
  <2> QED
    BY <1>0, <1>2, <2>2, <2>3 DEF BeginTurn, AgentTypes
<1>3. CASE Say
  BY <1>0, <1>3 DEF Say, AgentTypes
<1>4. CASE RequestTool \/ ApprovalStatus
  BY <1>0, <1>4 DEF RequestTool, ApprovalStatus, AgentTypes
<1>5. CASE ToolDone
  <2>1. CardMessage(called, <<>>, {}) \in Message
    <3>1. <<>> \in Seq(Text) /\ {} \in SUBSET (Sends \cup {0})
      OBVIOUS
    <3> QED
      BY <1>0, <3>1, MessageTypes
  <2>2. Append(rows, CardMessage(called, <<>>, {})) \in Seq(Message)
    BY <1>0, <2>1 DEF AgentTypes
  <2> QED
    BY <1>0, <1>5, <2>2 DEF ToolDone, AgentTypes
<1>6. CASE SaveAnswer
  <2> DEFINE text == [i \in 1..(said - begun) |-> begun + i]
  <2>1. text \in Seq(Text)
    <3>1. said - begun \in Nat /\ \A i \in 1..(said - begun) : begun + i \in Text
      BY <1>0 DEF AgentTypes, Text
    <3> QED
      BY <3>1
  <2> HIDE DEF text
  <2>2. TextMessage(NoStream, begun + 1, text) \in Message
    BY <1>0, <2>1, MessageTypes
  <2>3. Append(rows, TextMessage(NoStream, begun + 1, text)) \in Seq(Message)
    BY <1>0, <2>2 DEF AgentTypes
  <2>4. rows' \in Seq(Message)
    BY <1>0, <1>6, <2>3 DEF SaveAnswer, AgentTypes, text
  <2> QED
    BY <1>0, <1>6, <2>4 DEF SaveAnswer, AgentTypes
<1>7. CASE FinishTurn
  BY <1>0, <1>7 DEF FinishTurn, AgentTypes
<1>8. CASE Failed \/ Stopped
  <2>1. <<>> \in Seq(Sends \cup {0})
    OBVIOUS
  <2> QED
    BY <1>0, <1>8, <2>1 DEF Failed, Stopped, AgentEnds, AgentTypes
<1>9. CASE StopClicked
  <2>1. <<>> \in Seq(Sends \cup {0})
    OBVIOUS
  <2> QED
    BY <1>0, <1>9, <2>1 DEF StopClicked, AgentTypes
<1>10. ASSUME NEW n \in Sends, PostMessage(n) PROVE AgentTypes'
  <2>1. inbox' \in Seq(Sends \cup {0})
    <3>1. inbox \in Seq(Sends \cup {0}) /\ n \in Sends \cup {0}
      BY <1>0 DEF AgentTypes
    <3>2. Append(inbox, n) \in Seq(Sends \cup {0}) /\ <<n>> \in Seq(Sends \cup {0})
      BY <3>1
    <3>3. CASE at = "idle"
      BY <1>10, <3>2, <3>3 DEF PostMessage, Restarts
    <3>4. CASE at # "idle"
      BY <1>10, <3>1, <3>2, <3>4 DEF PostMessage
    <3> QED
      BY <3>3, <3>4
  <2> QED
    BY <1>0, <1>10, <2>1 DEF PostMessage, AgentTypes
<1>11. ASSUME NEW s \in Streams, Deliver(s) \/ Subscribe(s) \/ Disconnect(s) \/ Rejected(s)
       PROVE  UNCHANGED agentVars
  BY <1>11 DEF Deliver, TextDelta, ToolCallRequested, StatusChange, ToolResult,
               AgentCompletedOrFailed, AgentIdleOrStopped, Handle, Subscribe, Disconnect, Rejected
<1>12. CASE ChatOpened \/ ChatSelected \/ AbortAnswered \/ MessageSent \/ Tick
  BY <1>1, <1>12 DEF ChatOpened, ChatSelected, AbortAnswered, MessageSent, Tick
<1>13. ASSUME NEW l \in DOMAIN loads, HistoryRead(l) \/ HistoryLoaded(l) \/ HistoryFailed(l)
       PROVE  UNCHANGED agentVars
  BY <1>13 DEF HistoryRead, HistoryLoaded, HistoryFailed
<1>14. CASE UNCHANGED vars
  BY <1>1, <1>14 DEF vars
<1> QED
  BY <1>1, <1>2, <1>3, <1>4, <1>5, <1>6, <1>7, <1>8, <1>9, <1>10, <1>11, <1>12, <1>13, <1>14
  DEF Next, Agent, Stream, Page

LEMMA Removed ==
  ASSUME NEW S, NEW q \in Seq(S), NEW l \in DOMAIN q
  PROVE  /\ RemoveAt(q, l) \in Seq(S)
         /\ \A k \in DOMAIN RemoveAt(q, l) : \E j \in DOMAIN q : RemoveAt(q, l)[k] = q[j]
<1> DEFINE n == Len(q)
           a == SubSeq(q, 1, l - 1)
           b == SubSeq(q, l + 1, n)
<1>0. n \in Nat /\ l \in 1..n /\ DOMAIN q = 1..n
  OBVIOUS
<1> DEFINE R == {q[j] : j \in DOMAIN q}
<1>1. a \in Seq(R) /\ b \in Seq(R)
  <2>1. 1 \in Int /\ l - 1 \in Int /\ l + 1 \in Int /\ n \in Int
    BY <1>0
  <2>2. (\A i \in 1..l - 1 : q[i] \in R) /\ (\A i \in l + 1..n : q[i] \in R)
    <3>1. (\A i \in 1..l - 1 : i \in DOMAIN q) /\ (\A i \in l + 1..n : i \in DOMAIN q)
      BY <1>0
    <3> QED
      BY <3>1
  <2> HIDE DEF n, R
  <2> QED
    BY <2>1, <2>2, SubSeqProperties
<1>2. RemoveAt(q, l) = a \o b
  BY DEF RemoveAt
<1> HIDE DEF a, b, n, R
<1>3. a \o b \in Seq(R)
  BY <1>1
<1>4. R \subseteq S
  BY <1>0 DEF R, n
<1>5. \A k \in DOMAIN (a \o b) : (a \o b)[k] \in R
  BY <1>3
<1>6. a \o b \in Seq(S)
  BY <1>3, <1>4
<1> QED
  BY <1>2, <1>5, <1>6 DEF R

LEMMA HttpStep == ASSUME TypeInv, [Next]_vars PROVE HttpTypes'
<1> DEFINE Load == [read : BOOLEAN, live : BOOLEAN, rows : Seq(Message)]
<1>0. HttpTypes /\ rows \in Seq(Message) /\ loads \in Seq(Load) /\ sent \in 0..MaxSends
      /\ MaxSends \in Nat
  BY TypeParts, Bounds DEF TypeInv, AgentTypes, HttpTypes, ChatTypes
<1>1. CASE UNCHANGED httpVars
  BY <1>0, <1>1 DEF httpVars, HttpTypes
<1>2. CASE Agent
  BY <1>1, <1>2 DEF Agent, BeginTurn, Say, RequestTool, ApprovalStatus, ToolDone, SaveAnswer, FinishTurn,
                    Failed, Stopped, AgentEnds, Publish, AgentOnly
<1>3. ASSUME NEW s \in Streams, Deliver(s) \/ Subscribe(s) \/ Disconnect(s) \/ Rejected(s)
      PROVE  UNCHANGED httpVars
  BY <1>3 DEF Deliver, TextDelta, ToolCallRequested, StatusChange, ToolResult,
              AgentCompletedOrFailed, AgentIdleOrStopped, Handle, Subscribe, Disconnect, Rejected
<1>4. ASSUME NEW st, ConnectStream(st) PROVE loads' \in Seq(Load)
  <2>1. <<>> \in Seq(Message)
    OBVIOUS
  <2>2. [read |-> FALSE, live |-> st = "busy", rows |-> <<>>] \in Load
    BY <2>1
  <2> HIDE DEF Load
  <2> QED
    BY <1>0, <1>4, <2>2 DEF ConnectStream
<1>5. CASE ChatOpened \/ ChatSelected
  BY <1>0, <1>4, <1>5 DEF ChatOpened, ChatSelected, HttpTypes
<1>6. ASSUME NEW l \in DOMAIN loads, HistoryRead(l) PROVE HttpTypes'
  <2>1. loads[l] \in Load
    <3> HIDE DEF Load
    <3> QED
      BY <1>0
  <2>2. [loads[l] EXCEPT !.read = TRUE, !.rows = rows] \in Load
    BY <1>0, <2>1
  <2> DEFINE r == [loads[l] EXCEPT !.read = TRUE, !.rows = rows]
  <2>3. loads' = [loads EXCEPT ![l] = r]
    BY <1>0, <1>6 DEF HistoryRead
  <2> HIDE DEF Load, r
  <2>4. loads' \in Seq(Load)
    BY <1>0, <2>2, <2>3 DEF r
  <2> QED
    BY <1>0, <1>6, <2>4 DEF HistoryRead, HttpTypes, Load
<1>7. ASSUME NEW l \in DOMAIN loads, HistoryLoaded(l) \/ HistoryFailed(l) PROVE HttpTypes'
  <2>1. loads' \in Seq(Load)
    <3> HIDE DEF Load
    <3>1. RemoveAt(loads, l) \in Seq(Load)
      BY <1>0, Removed
    <3> QED
      BY <1>7, <3>1 DEF HistoryLoaded, HistoryFailed
  <2> QED
    BY <1>0, <1>7, <2>1 DEF HistoryLoaded, HistoryFailed, HttpTypes
<1>8. CASE StopClicked \/ AbortAnswered
  BY <1>0, <1>8 DEF StopClicked, AbortAnswered, HttpTypes
<1>9. CASE MessageSent
  <2>1. posts' \subseteq Sends
    BY <1>0, <1>9 DEF MessageSent, HttpTypes, Sends
  <2> QED
    BY <1>0, <1>9, <2>1 DEF MessageSent, HttpTypes
<1>10. ASSUME NEW n \in Sends, PostMessage(n) PROVE HttpTypes'
  BY <1>0, <1>10 DEF PostMessage, HttpTypes
<1>11. CASE Tick
  BY <1>1, <1>11 DEF Tick
<1>12. CASE UNCHANGED vars
  BY <1>1, <1>12 DEF vars
<1> QED
  BY <1>1, <1>2, <1>3, <1>5, <1>6, <1>7, <1>8, <1>9, <1>10, <1>11, <1>12 DEF Next, Stream, Page

LEMMA ChatStep == ASSUME TypeInv, [Next]_vars PROVE ChatTypes' /\ Spending'
<1>0. /\ ChatTypes /\ Spending /\ MaxSends \in Nat /\ Budget \in Nat
      /\ sent \in Nat /\ spent \in Nat
  BY TypeParts, Bounds DEF TypeInv, ChatTypes, Spending
<1>1. ASSUME UNCHANGED <<status, stream, sent, overlap>>, UNCHANGED spent \/ Spend
      PROVE  ChatTypes' /\ Spending'
  BY <1>0, <1>1 DEF ChatTypes, Spending, Spend
<1>2. CASE BeginTurn \/ Say \/ RequestTool \/ ApprovalStatus \/ ToolDone \/ SaveAnswer \/ FinishTurn
  BY <1>1, <1>2 DEF BeginTurn, Say, RequestTool, ApprovalStatus, ToolDone, SaveAnswer, FinishTurn,
                    Publish, AgentOnly, chatVars
<1>3. CASE Failed \/ Stopped
  BY <1>1, <1>3 DEF Failed, Stopped, AgentEnds, Publish, AgentOnly, chatVars
<1>4. ASSUME NEW s \in Streams, Deliver(s) PROVE ChatTypes' /\ Spending'
  <2>1. UNCHANGED <<stream, sent, overlap, spent>>
    BY <1>4 DEF Deliver, TextDelta, ToolCallRequested, StatusChange, ToolResult,
                AgentCompletedOrFailed, AgentIdleOrStopped, Handle
  <2>2. status' \in {status, "busy", "idle", "stopped"}
    BY <1>4 DEF Deliver, TextDelta, ToolCallRequested, StatusChange, ToolResult,
                AgentCompletedOrFailed, AgentIdleOrStopped, Handle
  <2> QED
    BY <1>0, <2>1, <2>2 DEF ChatTypes, Spending
<1>5. ASSUME NEW s \in Streams, Subscribe(s) \/ Disconnect(s) \/ Rejected(s)
      PROVE  ChatTypes' /\ Spending'
  BY <1>1, <1>5 DEF Subscribe, Disconnect, Rejected, chatVars
<1>6. ASSUME NEW t, OpenStream(t) PROVE stream' \in Streams /\ overlap' \in BOOLEAN
  <2>1. stream' \in Streams
    BY <1>6 DEF OpenStream
  <2>2. overlap' \in BOOLEAN
    BY <1>6 DEF OpenStream
  <2> QED
    BY <2>1, <2>2
<1>7. CASE ChatOpened
  <2>1. status' \in {"stopped", "idle", "busy"}
    BY <1>7 DEF ChatOpened
  <2> QED
    BY <1>0, <1>7, <2>1 DEF ChatOpened, ChatTypes, Spending
<1>8. CASE ChatSelected
  BY <1>0, <1>8 DEF ChatSelected, ChatTypes, Spending, Spend
<1>9. ASSUME NEW l \in DOMAIN loads, HistoryRead(l) PROVE ChatTypes' /\ Spending'
  BY <1>1, <1>9 DEF HistoryRead, chatVars
<1>10. ASSUME NEW l \in DOMAIN loads, HistoryLoaded(l) \/ HistoryFailed(l)
       PROVE  ChatTypes' /\ Spending'
  <2>1. /\ OpenStream(NoStream) /\ UNCHANGED <<status, sent>>
        /\ UNCHANGED spent \/ Spend
    BY <1>10 DEF HistoryLoaded, HistoryFailed
  <2> QED
    BY <1>0, <1>6, <2>1 DEF ChatTypes, Spending, Spend
<1>11. CASE StopClicked \/ AbortAnswered
  BY <1>0, <1>11 DEF StopClicked, AbortAnswered, ChatTypes, Spending, Spend, chatVars
<1>12. CASE MessageSent
  <2>1. sent' = sent + 1 /\ sent < MaxSends /\ spent' = spent
    BY <1>12 DEF MessageSent
  <2>2. stream' \in Streams \cup {NoStream} /\ overlap' \in BOOLEAN
    BY <1>0, <1>6, <1>12 DEF MessageSent, ChatTypes
  <2>3. status' \in {"idle", "busy"}
    BY <1>12 DEF MessageSent
  <2> QED
    BY <1>0, <2>1, <2>2, <2>3 DEF ChatTypes, Spending
<1>13. ASSUME NEW n \in Sends, PostMessage(n) PROVE ChatTypes' /\ Spending'
  BY <1>1, <1>13 DEF PostMessage, chatVars
<1>14. CASE Tick
  BY <1>1, <1>14 DEF Tick, chatVars
<1>15. CASE UNCHANGED vars
  BY <1>1, <1>15 DEF vars, chatVars
<1> QED
  BY <1>2, <1>3, <1>4, <1>5, <1>7, <1>8, <1>9, <1>10, <1>11, <1>12, <1>13, <1>14, <1>15
  DEF Next, Agent, Stream, Page

-------------------------------------------------------------------------------
(* The text's types *)

\* The targets of bubbles stay what they are, or are emptied.
TargetsKept == \A s \in Streams : bubble'[s].target = bubble[s].target \/ bubble'[s].target = <<>>

LEMMA UnrevealedIsText == ASSUME TypeInv, NEW s \in Streams PROVE Unrevealed(s) \subseteq Text
<1>1. bubble[s].target \in Seq(Text) /\ bubble[s].revealed \in Nat
  BY TypeParts DEF TypeInv, TextTypes, Bubble
<1>2. \A i \in (bubble[s].revealed + 1)..Len(bubble[s].target) : i \in DOMAIN bubble[s].target
  BY <1>1
<1>3. \A i \in DOMAIN bubble[s].target : bubble[s].target[i] \in Text
  BY <1>1
<1> QED
  BY <1>2, <1>3 DEF Unrevealed

LEMMA NoBubbleType ==
  /\ NoBubble \in Bubble /\ NoBubble.id = 0 /\ NoBubble.target = <<>> /\ NoBubble.revealed = 0
  /\ Len(<<>>) = 0
<1>1. <<>> \in Seq(Text)
  OBVIOUS
<1> QED
  BY <1>1, Bounds DEF NoBubble, Bubble

\* Text that is handed over is text that was said, later than the bubble has.
LEMMA HandedOver ==
  ASSUME TypeInv, NEW s \in Streams, Handle(s, {"text_delta"})
  PROVE  LET n == Head(events[s]).n
         IN /\ n \in Text /\ n \in 1..said
            /\ After(n, Tail(events[s]))
            /\ \A x \in Nat : After(x, events[s]) => x < n
<1>1. /\ events[s] \in Seq(Event) /\ QueueOK(events[s], said) /\ said \in 0..MaxText
      /\ MaxText \in Nat /\ said \in Nat
  BY TypeParts, Bounds DEF TypeInv, BusTypes, AgentTypes, LineOK
<1>2. events[s] # <<>> /\ Delta(Head(events[s]))
  BY DEF Handle, Delta
<1>3. Head(events[s]).n \in 1..said /\ After(Head(events[s]).n, Tail(events[s]))
  BY <1>1, <1>2, QueueFacts
<1>4. \A x \in Nat : After(x, events[s]) => x < Head(events[s]).n
  BY <1>1, <1>2 DEF After
<1> QED
  BY <1>1, <1>3, <1>4 DEF Text

\* Text begins a bubble or goes on in it.
LEMMA Handing ==
  ASSUME TypeInv, NEW s \in Streams, TextDelta(s)
  PROVE  LET n == Head(events[s]).n
             b == bubble[s]
             c == bubble'[s]
         IN /\ c \in Bubble /\ bubble' = [bubble EXCEPT ![s] = c]
            /\ c.revealed <= Len(c.target)
            /\ IF b.id = 0 THEN c.id = n /\ c.target = <<n>> /\ c.revealed = 0
               ELSE c.id = b.id /\ c.target = Append(b.target, n) /\ c.revealed = b.revealed
            /\ Increasing(c.target)
<1> DEFINE n == Head(events[s]).n
           b == bubble[s]
           c == bubble'[s]
           first == [id |-> n, target |-> <<n>>, revealed |-> 0]
           more == [b EXCEPT !.target = Append(b.target, n)]
<1>1. /\ bubble \in [Streams -> Bubble] /\ b \in Bubble /\ b.revealed <= Len(b.target)
      /\ Increasing(b.target) /\ \A x \in ToSet(b.target) : After(x, events[s])
      /\ MaxText \in Nat
  BY TypeParts, Bounds DEF TypeInv, TextTypes, LineOK
<1>2. n \in Text /\ \A x \in Nat : After(x, events[s]) => x < n
  BY HandedOver DEF TextDelta
<1>3. bubble' = [bubble EXCEPT ![s] = IF b.id = 0 THEN first ELSE more]
  BY DEF TextDelta
<1>4. c = IF b.id = 0 THEN first ELSE more
  BY <1>1, <1>3
<1>9. bubble' = [bubble EXCEPT ![s] = c]
  BY <1>3, <1>4
<1>5. b.id \in Text \cup {0} /\ b.target \in Seq(Text) /\ b.revealed \in 0..MaxText
  BY <1>1 DEF Bubble
<1>6. first.id = n /\ first.target = <<n>> /\ first.revealed = 0
      /\ more.id = b.id /\ more.target = Append(b.target, n) /\ more.revealed = b.revealed
  BY <1>1 DEF Bubble
<1> HIDE DEF first, more, n, c, b
<1>7. CASE b.id = 0
  <2>1. c.id = n /\ c.target = <<n>> /\ c.revealed = 0
    BY <1>4, <1>6, <1>7
  <2>2. <<n>> \in Seq(Text) /\ Increasing(<<n>>) /\ Len(<<n>>) = 1
    BY <1>2 DEF Increasing
  <2>3. c \in Bubble
    BY <1>1, <1>2, <1>4, <1>7, <2>2 DEF Bubble, first
  <2> QED
    BY <1>7, <1>9, <2>1, <2>2, <2>3 DEF b, c, n
<1>8. CASE b.id # 0
  <2>1. c.id = b.id /\ c.target = Append(b.target, n) /\ c.revealed = b.revealed
    BY <1>4, <1>6, <1>8
  <2>2. /\ Append(b.target, n) \in Seq(Text) /\ Len(b.target) \in Nat
        /\ DOMAIN b.target = 1..Len(b.target) /\ DOMAIN Append(b.target, n) = 1..Len(b.target) + 1
        /\ \A i \in 1..Len(b.target) + 1 :
             Append(b.target, n)[i] = IF i \in 1..Len(b.target) THEN b.target[i] ELSE n
    BY <1>2, <1>5, AppendFacts
  <2>3. \A i \in 1..Len(b.target) : b.target[i] \in Text /\ b.target[i] < n
    <3>1. \A i \in 1..Len(b.target) : b.target[i] \in Text /\ b.target[i] \in ToSet(b.target)
      BY <1>5 DEF ToSet
    <3> QED
      BY <1>1, <1>2, <3>1 DEF Text
  <2>4. Increasing(Append(b.target, n))
    BY <1>1, <2>2, <2>3 DEF Increasing
  <2>5. c.revealed <= Len(c.target)
    BY <1>1, <1>5, <2>1, <2>2
  <2>6. c \in Bubble
    <3>1. c = more
      BY <1>4, <1>8
    <3> QED
      BY <1>1, <2>2, <3>1 DEF Bubble, more
  <2> QED
    BY <1>8, <1>9, <2>1, <2>4, <2>5, <2>6 DEF b, c, n
<1> QED
  BY <1>7, <1>8

\* A tick reveals some of what is not revealed, or nothing.
LEMMA Ticking ==
  ASSUME TypeInv, Tick
  PROVE  LET s == timer
             b == bubble[s]
             c == bubble'[s]
         IN /\ s \in Streams
            /\ c \in Bubble /\ bubble' = [bubble EXCEPT ![s] = c]
            /\ c.id = b.id /\ c.target = b.target
            /\ b.revealed <= c.revealed /\ c.revealed \in 0..Len(c.target)
            /\ messages' = WithContent(messages, s, c)
            /\ Revealed(c) \in Seq(Text)
            /\ timer' = IF c.revealed = Len(c.target) THEN NoStream ELSE s
<1> DEFINE b == bubble[timer]
<1>1. /\ timer \in Streams /\ bubble \in [Streams -> Bubble] /\ b \in Bubble
      /\ b.revealed <= Len(b.target) /\ Increasing(b.target) /\ MaxText \in Nat
  BY TypeParts, Bounds DEF TypeInv, TextTypes, LineOK, Tick
<1>2. b.id \in Text \cup {0} /\ b.target \in Seq(Text) /\ b.revealed \in 0..MaxText
      /\ Len(b.target) \in Nat /\ Len(b.target) <= MaxText
  BY <1>1, IncreasingIsShort DEF Bubble
<1>3. PICK r \in b.revealed..Len(b.target) :
        /\ bubble' = [bubble EXCEPT ![timer].revealed = r]
        /\ messages' = WithContent(messages, timer, bubble'[timer])
        /\ timer' = IF r = Len(b.target) THEN NoStream ELSE timer
  BY DEF Tick
<1> DEFINE c == [b EXCEPT !.revealed = r]
<1>4. bubble' = [bubble EXCEPT ![timer] = c]
  BY <1>3
<1>5. bubble'[timer] = c
  BY <1>1, <1>4
<1>6. c.id = b.id /\ c.target = b.target /\ c.revealed = r
  BY <1>1 DEF Bubble
<1>7. r \in Nat /\ b.revealed <= r /\ r <= Len(b.target)
  BY <1>2
<1>8. c \in Bubble
  <2>1. r \in 0..MaxText
    BY <1>1, <1>2, <1>7
  <2> QED
    BY <1>1, <2>1 DEF Bubble
<1> HIDE DEF b, c
<1>9. Revealed(c) \in Seq(Text)
  BY <1>2, <1>6, <1>7, BubbleFacts
<1> QED
  BY <1>1, <1>2, <1>3, <1>4, <1>5, <1>6, <1>7, <1>8, <1>9 DEF b

LEMMA Empties ==
  ASSUME TypeInv, NEW s, bubble' = [bubble EXCEPT ![s] = NoBubble]
  PROVE  /\ bubble' \in [Streams -> Bubble]
         /\ \A t \in Streams : bubble'[t].revealed <= Len(bubble'[t].target)
         /\ TargetsKept
<1>1. bubble \in [Streams -> Bubble] /\ \A t \in Streams : bubble[t].revealed <= Len(bubble[t].target)
  BY TypeParts DEF TypeInv, TextTypes
<1>2. \A t \in Streams : bubble'[t] = NoBubble \/ bubble'[t] = bubble[t]
  BY <1>1
<1>3. 0 <= Len(<<>>)
  BY NoBubbleType
<1> QED
  BY <1>1, <1>2, <1>3, NoBubbleType DEF TargetsKept

LEMMA TextStep ==
  ASSUME TypeInv, [Next]_vars
  PROVE  TextTypes' /\ (TargetsKept \/ \E s \in Streams : TextDelta(s))
<1>0. /\ TextTypes /\ messages \in Seq(Message) /\ bubble \in [Streams -> Bubble]
      /\ called \in Nat
  BY TypeParts, Bounds DEF TypeInv, TextTypes, AgentTypes
<1>1. ASSUME UNCHANGED textVars PROVE TextTypes' /\ TargetsKept
  BY <1>0, <1>1 DEF textVars, TextTypes, TargetsKept
<1>2. CASE Agent
  BY <1>1, <1>2 DEF Agent, BeginTurn, Say, RequestTool, ApprovalStatus, ToolDone, SaveAnswer, FinishTurn,
                    Failed, Stopped, AgentEnds, Publish, AgentOnly
<1>3. ASSUME NEW s \in Streams, TextDelta(s) PROVE TextTypes'
  <2> DEFINE n == Head(events[s]).n
  <2>1. /\ bubble'[s] \in Bubble /\ bubble' = [bubble EXCEPT ![s] = bubble'[s]]
        /\ bubble'[s].revealed <= Len(bubble'[s].target)
    BY <1>3, Handing
  <2>2. n \in Text /\ n \in Nat
    BY <1>3, HandedOver DEF TextDelta, Text
  <2>3. TextMessage(s, n, <<>>) \in Message
    <3>1. <<>> \in Seq(Text)
      OBVIOUS
    <3> QED
      BY <2>2, <3>1, MessageTypes
  <2>4. messages' \in Seq(Message)
    <3>1. Append(messages, TextMessage(s, n, <<>>)) \in Seq(Message)
      BY <1>0, <2>3
    <3> QED
      BY <1>0, <1>3, <3>1 DEF TextDelta
  <2>5. /\ timer' \in Streams \cup {NoStream} /\ got' = got \cup {n} /\ cut' = cut /\ wiped' = wiped
    BY <1>0, <1>3 DEF TextDelta, Handle, TextTypes
  <2>6. /\ bubble' \in [Streams -> Bubble]
        /\ \A t \in Streams : bubble'[t].revealed <= Len(bubble'[t].target)
    <3>1. \A t \in Streams : t # s => bubble'[t] = bubble[t]
      BY <1>0, <2>1
    <3>2. bubble' \in [Streams -> Bubble]
      BY <1>0, <2>1
    <3> QED
      BY <1>0, <2>1, <3>1, <3>2 DEF TextTypes
  <2> QED
    BY <1>0, <2>2, <2>4, <2>5, <2>6 DEF TextTypes
<1>4. ASSUME NEW s \in Streams, EndBubble(s), messages' \in Seq(Message), wiped' = wiped
      PROVE  TextTypes' /\ TargetsKept
  <2>1. bubble' = [bubble EXCEPT ![s] = NoBubble] /\ timer' = NoStream /\ UNCHANGED <<got, cut>>
    BY <1>4 DEF EndBubble
  <2> QED
    BY <1>0, <1>4, <2>1, Empties DEF TextTypes
<1>5. ASSUME NEW s \in Streams, ToolCallRequested(s) PROVE TextTypes' /\ TargetsKept
  <2> DEFINE c == Head(events[s]).n
  <2>1. Flushed(s) \in Seq(Message)
    BY FlushedFacts
  <2>2. c \in Nat
    <3>1. events[s] \in Seq(Event) /\ events[s] # <<>>
          /\ Head(events[s]).type = "tool_call_requested"
      BY <1>5, TypeParts DEF ToolCallRequested, Handle, TypeInv, BusTypes
    <3>2. Head(events[s]) \in Event
      BY <3>1
    <3> QED
      BY <3>1, <3>2 DEF Event
  <2>3. WithCard(Flushed(s), c) \in Seq(Message)
    BY <2>1, <2>2, CardAdded DEF Follows
  <2>4. messages' \in Seq(Message)
    BY <1>5, <2>1, <2>3 DEF ToolCallRequested
  <2> QED
    BY <1>4, <1>5, <2>4 DEF ToolCallRequested, Handle
<1>6. ASSUME NEW s \in Streams, StatusChange(s) PROVE TextTypes' /\ TargetsKept
  BY <1>1, <1>6 DEF StatusChange, Handle, textVars
<1>7. ASSUME NEW s \in Streams, ToolResult(s) PROVE TextTypes' /\ TargetsKept
  BY <1>4, <1>7, FlushedFacts DEF ToolResult, Handle
<1>8. ASSUME NEW s \in Streams, AgentCompletedOrFailed(s) PROVE TextTypes' /\ TargetsKept
  <2>1. messages' \in Seq(Message)
    BY <1>8, FlushedFacts, MessageTypes DEF AgentCompletedOrFailed
  <2> QED
    BY <1>4, <1>8, <2>1 DEF AgentCompletedOrFailed, Handle
<1>9. ASSUME NEW s \in Streams, AgentIdleOrStopped(s) PROVE TextTypes' /\ TargetsKept
  <2>1. messages' \in Seq(Message)
    <3>1. Append(messages, Notice) \in Seq(Message)
      BY <1>0, MessageTypes
    <3> QED
      BY <1>0, <1>9, <3>1 DEF AgentIdleOrStopped
  <2>2. cut' \subseteq Text
    BY <1>0, <1>9, UnrevealedIsText DEF AgentIdleOrStopped, TextTypes
  <2> DEFINE c == [bubble[s] EXCEPT !.id = 0]
  <2>3. bubble' = [bubble EXCEPT ![s] = c]
    BY <1>9 DEF AgentIdleOrStopped
  <2>4. c \in Bubble /\ c.target = bubble[s].target /\ c.revealed = bubble[s].revealed
    BY <1>0 DEF Bubble
  <2> HIDE DEF c
  <2>5. \A t \in Streams : bubble'[t] = IF t = s THEN c ELSE bubble[t]
    BY <1>0, <2>3
  <2>6. bubble' \in [Streams -> Bubble]
    BY <1>0, <2>3, <2>4
  <2>7. TargetsKept /\ \A t \in Streams : bubble'[t].revealed <= Len(bubble'[t].target)
    BY <1>0, <2>4, <2>5 DEF TargetsKept, TextTypes
  <2>8. UNCHANGED <<timer, got, wiped>>
    BY <1>9 DEF AgentIdleOrStopped, Handle
  <2> QED
    BY <1>0, <2>1, <2>2, <2>6, <2>7, <2>8 DEF TextTypes
<1>10. ASSUME NEW s \in Streams, Subscribe(s) \/ Disconnect(s) \/ Rejected(s)
       PROVE  TextTypes' /\ TargetsKept
  BY <1>1, <1>10 DEF Subscribe, Disconnect, Rejected
<1>11. ASSUME NEW t, OpenStream(t)
       PROVE  /\ bubble' \in [Streams -> Bubble] /\ TargetsKept
              /\ \A u \in Streams : bubble'[u].revealed <= Len(bubble'[u].target)
  <2>1. PICK s : bubble' = [bubble EXCEPT ![s] = NoBubble]
    BY <1>11 DEF OpenStream
  <2> QED
    BY <2>1, Empties
<1>12. ASSUME NEW l \in DOMAIN loads, HistoryLoaded(l) PROVE TextTypes' /\ TargetsKept
  <2>1. messages' \in Seq(Message)
    <3> DEFINE L == [read : BOOLEAN, live : BOOLEAN, rows : Seq(Message)]
    <3>1. loads[l].rows \in Seq(Message)
      <4>1. loads \in Seq(L)
        BY TypeParts DEF TypeInv, HttpTypes
      <4> HIDE DEF L
      <4>2. loads[l] \in L
        BY <4>1
      <4> QED
        BY <4>2 DEF L
    <3> DEFINE load == loads[l]
               old == load.rows
               InPlaces(n, p) == /\ HistoryToMessages(load) = [k \in 1..n |-> old[p[k]]]
                                 /\ \A j, k \in 1..n : j < k => p[j] < p[k]
    <3>2. \E n \in Nat : \E p \in [1..n -> DOMAIN old] : InPlaces(n, p)
      <4> HIDE DEF load
      <4> QED
        BY <3>1, HistoryPlaces DEF load
    <3> HIDE DEF InPlaces
    <3>5. PICK n \in Nat : \E p \in [1..n -> DOMAIN old] : InPlaces(n, p)
      BY <3>2
    <3>6. PICK p \in [1..n -> DOMAIN old] : InPlaces(n, p)
      BY <3>5
    <3> USE DEF InPlaces
    <3>3. \A k \in 1..n : loads[l].rows[p[k]] \in Message
      BY <3>1
    <3> HIDE DEF L
    <3>4. [k \in 1..n |-> loads[l].rows[p[k]]] \in Seq(Message)
      BY <3>3
    <3> QED
      BY <1>12, <3>6, <3>4 DEF HistoryLoaded
  <2>2. cut' \subseteq Text /\ timer' = timer /\ got' = got
    BY <1>0, <1>12 DEF HistoryLoaded, TextTypes
  <2>3. wiped' \subseteq Sends
    <3>1. 1..sent \subseteq Sends
      BY TypeParts, Bounds DEF TypeInv, ChatTypes, Sends
    <3> QED
      BY <1>12, <3>1 DEF HistoryLoaded
  <2>4. OpenStream(NoStream)
    BY <1>12 DEF HistoryLoaded
  <2> QED
    BY <1>0, <1>11, <2>1, <2>2, <2>3, <2>4 DEF TextTypes
<1>13. ASSUME NEW l \in DOMAIN loads, HistoryFailed(l) PROVE TextTypes' /\ TargetsKept
  <2>1. OpenStream(NoStream) /\ UNCHANGED <<messages, timer, got, cut, wiped>>
    BY <1>13 DEF HistoryFailed
  <2> QED
    BY <1>0, <1>11, <2>1 DEF TextTypes
<1>14. ASSUME NEW l \in DOMAIN loads, HistoryRead(l) PROVE TextTypes' /\ TargetsKept
  BY <1>1, <1>14 DEF HistoryRead
<1>15. CASE ChatOpened \/ ChatSelected \/ StopClicked \/ AbortAnswered
  BY <1>1, <1>15 DEF ChatOpened, ChatSelected, StopClicked, AbortAnswered
<1>16. CASE MessageSent
  <2>1. messages' \in Seq(Message)
    <3>1. sent + 1 \in Sends
      BY <1>16, TypeParts, Bounds DEF MessageSent, TypeInv, ChatTypes, Sends
    <3>2. UserMessage(sent + 1) \in Message
      BY <3>1, MessageTypes
    <3>3. messages' = Append(messages, UserMessage(sent + 1))
      BY <1>16 DEF MessageSent
    <3> QED
      BY <1>0, <3>2, <3>3
  <2>2. UNCHANGED <<timer, got, cut, wiped>>
    BY <1>16 DEF MessageSent
  <2>3. bubble' = bubble \/ \E t : OpenStream(t)
    BY <1>16 DEF MessageSent
  <2>4. CASE bubble' = bubble
    BY <1>0, <2>1, <2>2, <2>4 DEF TextTypes, TargetsKept
  <2>5. CASE \E t : OpenStream(t)
    BY <1>0, <1>11, <2>1, <2>2, <2>5 DEF TextTypes
  <2> QED
    BY <2>3, <2>4, <2>5
<1>17. ASSUME NEW n \in Sends, PostMessage(n) PROVE TextTypes' /\ TargetsKept
  BY <1>1, <1>17 DEF PostMessage
<1>18. CASE Tick
  <2> DEFINE c == bubble'[timer]
  <2>1. /\ timer \in Streams /\ c \in Bubble /\ bubble' = [bubble EXCEPT ![timer] = c]
        /\ c.target = bubble[timer].target /\ c.revealed \in 0..Len(c.target)
        /\ messages' = WithContent(messages, timer, c)
        /\ Revealed(c) \in Seq(Text)
        /\ timer' \in Streams \cup {NoStream}
    BY <1>18, Ticking
  <2>2. UNCHANGED <<got, cut, wiped>>
    BY <1>18 DEF Tick
  <2> HIDE DEF c
  <2>3. messages' \in Seq(Message)
    BY <1>0, <2>1, ContentSet
  <2>4. bubble' \in [Streams -> Bubble] /\ \A t \in Streams : bubble'[t] = IF t = timer THEN c ELSE bubble[t]
    BY <1>0, <2>1
  <2>5. \A t \in Streams : bubble'[t].revealed <= Len(bubble'[t].target)
    BY <1>0, <2>1, <2>4 DEF TextTypes
  <2>6. TargetsKept
    BY <2>1, <2>4 DEF TargetsKept
  <2> QED
    BY <1>0, <2>1, <2>2, <2>3, <2>4, <2>5, <2>6 DEF TextTypes
<1>19. CASE UNCHANGED vars
  BY <1>1, <1>19 DEF vars
<1> QED
  BY <1>2, <1>3, <1>5, <1>6, <1>7, <1>8, <1>9, <1>10, <1>12, <1>13, <1>14, <1>15, <1>16, <1>17,
     <1>18, <1>19 DEF Next, Stream, Page, Deliver

LEMMA LinesStep ==
  ASSUME TypeInv, [Next]_vars, NEW s \in Streams
  PROVE  LineOK(s)'
<1>0. /\ Increasing(bubble[s].target) /\ said \in Nat
      /\ \A x \in ToSet(bubble[s].target) : x <= said /\ After(x, events[s])
      /\ bubble \in [Streams -> Bubble]
  <2>1. said \in Nat
    BY TypeParts, Bounds DEF TypeInv, AgentTypes
  <2>2. bubble \in [Streams -> Bubble]
    BY TypeParts DEF TypeInv, TextTypes
  <2>3. LineOK(s)
    BY DEF TypeInv
  <2> QED
    BY <2>1, <2>2, <2>3 DEF LineOK
<1>1. /\ es'[s] # "open" => events'[s] = <<>>
      /\ QueueOK(events'[s], said') /\ said' \in Nat /\ said <= said'
      /\ \A x \in 0..said : After(x, events[s]) => After(x, events'[s])
  BY QueueStep
<1>2. \A x \in ToSet(bubble[s].target) : x \in Nat /\ x \in 0..said
  <2>1. bubble[s].target \in Seq(Text)
    BY <1>0 DEF Bubble
  <2>2. \A x \in ToSet(bubble[s].target) : x \in Text
    BY <2>1 DEF ToSet
  <2> QED
    BY <1>0, <2>2 DEF Text
<1>3. Increasing(<<>>) /\ ToSet(<<>>) = {}
  BY DEF Increasing, ToSet
<1>4. CASE bubble'[s].target = bubble[s].target \/ bubble'[s].target = <<>>
  <2>1. \A x \in ToSet(bubble'[s].target) : x <= said' /\ After(x, events'[s])
    BY <1>0, <1>1, <1>2, <1>3, <1>4
  <2> QED
    BY <1>0, <1>1, <1>3, <1>4, <2>1 DEF LineOK
<1>5. ASSUME NEW t \in Streams, TextDelta(t), bubble'[s].target # bubble[s].target PROVE LineOK(s)'
  <2> DEFINE n == Head(events[t]).n
  <2>1. bubble' = [bubble EXCEPT ![t] = bubble'[t]]
    BY <1>5, Handing
  <2>2. s = t
    BY <1>0, <1>5, <2>1
  <2>3. /\ Increasing(bubble'[s].target)
        /\ bubble'[s].target = <<n>> \/ bubble'[s].target = Append(bubble[s].target, n)
    BY <1>5, <2>2, Handing
  <2>4. n \in 1..said /\ After(n, Tail(events[s])) /\ n \in Text
    BY <1>5, <2>2, HandedOver DEF TextDelta
  <2>5. events'[s] = Tail(events[s])
    BY <1>5, <2>2, TypeParts DEF TextDelta, Handle, TypeInv, BusTypes
  <2>6. ToSet(<<n>>) = {n} /\ ToSet(Append(bubble[s].target, n)) \subseteq ToSet(bubble[s].target) \cup {n}
    <3>1. bubble[s].target \in Seq(Text)
      BY <1>0 DEF Bubble
    <3> HIDE DEF n
    <3>2. ToSet(<<n>>) = {n}
      BY DEF ToSet
    <3>3. ToSet(Append(bubble[s].target, n)) \subseteq ToSet(bubble[s].target) \cup {n}
      BY <2>4, <3>1, AppendFacts DEF ToSet
    <3> QED
      BY <3>2, <3>3
  <2> HIDE DEF n
  <2>7. \A x \in ToSet(bubble'[s].target) : x \in ToSet(bubble[s].target) \/ x = n
    <3>1. CASE bubble'[s].target = <<n>>
      <4>1. ToSet(bubble'[s].target) = {n}
        BY <2>6, <3>1
      <4> QED
        BY <4>1
    <3>2. CASE bubble'[s].target = Append(bubble[s].target, n)
      <4>1. ToSet(bubble'[s].target) \subseteq ToSet(bubble[s].target) \cup {n}
        BY <2>6, <3>2
      <4> QED
        BY <4>1
    <3> QED
      BY <2>3, <3>1, <3>2
  <2>8. n <= said' /\ After(n, events'[s])
    BY <1>0, <1>1, <2>4, <2>5
  <2>9. \A x \in ToSet(bubble'[s].target) : x <= said' /\ After(x, events'[s])
    BY <1>0, <1>1, <1>2, <2>7, <2>8
  <2> QED
    BY <1>1, <2>3, <2>9 DEF LineOK
<1> QED
  BY <1>4, <1>5, TextStep DEF TargetsKept

LEMMA TypeStep == TypeInv /\ [Next]_vars => TypeInv'
<1> SUFFICES ASSUME TypeInv, [Next]_vars PROVE TypeInv'
  OBVIOUS
<1>1. TypeOK'
  BY AgentStep, QueueStep, HttpStep, TextStep, ChatStep, TypePartsNext
<1>2. \A s \in Streams : LineOK(s)'
  BY LinesStep
<1> QED
  BY <1>1, <1>2 DEF TypeInv

LEMMA InitTypes == Init => TypeInv
<1> SUFFICES ASSUME Init PROVE TypeInv
  OBVIOUS
<1>0. /\ MaxText \in Nat /\ MaxCalls \in Nat /\ MaxSends \in Nat /\ Budget \in Nat
      /\ <<>> \in Seq(Message) /\ <<0>> \in Seq(Sends \cup {0}) /\ <<>> \in Seq(Event)
      /\ <<>> \in Seq([read : BOOLEAN, live : BOOLEAN, rows : Seq(Message)])
  BY Bounds
<1>1. AgentTypes
  BY <1>0 DEF Init, AgentTypes
<1>2. BusTypes
  BY <1>0 DEF Init, BusTypes
<1>3. HttpTypes
  BY <1>0 DEF Init, HttpTypes
<1>4. TextTypes
  <2>1. bubble \in [Streams -> Bubble]
    BY NoBubbleType DEF Init
  <2>2. \A s \in Streams : bubble[s].revealed <= Len(bubble[s].target)
    <3>1. 0 <= Len(<<>>)
      BY NoBubbleType
    <3> QED
      BY <3>1, NoBubbleType DEF Init
  <2> QED
    BY <1>0, <2>1, <2>2 DEF Init, TextTypes
<1>5. ChatTypes /\ Spending
  <2>1. 0 \in 0..MaxSends /\ 0 \in 0..Budget
    BY <1>0
  <2>2. ChatTypes
    BY <2>1 DEF Init, ChatTypes
  <2>3. Spending
    BY <2>1 DEF Init, Spending
  <2> QED
    BY <2>2, <2>3
<1>6. ASSUME NEW s \in Streams PROVE LineOK(s)
  <2>1. events[s] = <<>> /\ bubble[s].target = <<>>
    BY NoBubbleType DEF Init
  <2>2. Increasing(<<>>) /\ ToSet(<<>>) = {}
    BY DEF Increasing, ToSet
  <2> QED
    BY <2>1, <2>2, EmptyQueue DEF LineOK
<1> QED
  BY <1>1, <1>2, <1>3, <1>4, <1>5, <1>6, TypeParts DEF TypeInv

\* The types: a bubble reveals no more than it has, and has no more than was said.
THEOREM TranscriptTypes == Spec => []TypeOK
<1>1. TypeInv => TypeOK
  BY DEF TypeInv
<1> QED
  BY <1>1, InitTypes, TypeStep, PTL DEF Spec

-------------------------------------------------------------------------------
(* What the technician sent *)

UsersKept(new, old) ==
  /\ DOMAIN old \subseteq DOMAIN new
  /\ \A i \in DOMAIN new : new[i].user = IF i \in DOMAIN old THEN old[i].user ELSE {}

LEMMA UsersOfKept ==
  ASSUME NEW new, NEW old, UsersKept(new, old)
  PROVE  /\ UsersIn(new) = UsersIn(old)
         /\ \A n : Once(old, n) => Once(new, n)
<1>1. \A i \in DOMAIN new : \A n : n \in new[i].user => i \in DOMAIN old /\ n \in old[i].user
  BY DEF UsersKept
<1>2. \A i \in DOMAIN old : i \in DOMAIN new /\ new[i].user = old[i].user
  BY DEF UsersKept
<1>3. UsersIn(new) = UsersIn(old)
  BY <1>1, <1>2 DEF UsersIn
<1>4. \A n : Once(old, n) => Once(new, n)
  BY <1>1 DEF Once
<1> QED
  BY <1>3, <1>4

\* A message is appended.
LEMMA UsersAppended ==
  ASSUME NEW old \in Seq(Message), NEW m \in Message
  PROVE  /\ UsersIn(Append(old, m)) = UsersIn(old) \cup m.user
         /\ \A n : Once(old, n) /\ (n \in m.user => n \notin UsersIn(old)) => Once(Append(old, m), n)
<1> DEFINE new == Append(old, m)
<1>1. /\ Len(old) \in Nat /\ DOMAIN old = 1..Len(old) /\ DOMAIN new = 1..Len(old) + 1
      /\ \A i \in 1..Len(old) + 1 : new[i] = IF i \in 1..Len(old) THEN old[i] ELSE m
  BY AppendFacts
<1> HIDE DEF new
<1>2. /\ DOMAIN old \subseteq DOMAIN new /\ Len(old) + 1 \in DOMAIN new
      /\ \A i \in DOMAIN new : i \in DOMAIN old \/ i = Len(old) + 1
      /\ \A i \in DOMAIN old : new[i] = old[i]
      /\ new[Len(old) + 1] = m /\ Len(old) + 1 \notin DOMAIN old
  BY <1>1
<1>3. UsersIn(new) = UsersIn(old) \cup m.user
  <2>1. \A x : x \in UsersIn(new) <=> \E i \in DOMAIN new : x \in new[i].user
    BY DEF UsersIn
  <2>2. \A x : x \in UsersIn(old) <=> \E i \in DOMAIN old : x \in old[i].user
    BY DEF UsersIn
  <2>3. \A x : (\E i \in DOMAIN new : x \in new[i].user) <=> (\E i \in DOMAIN old : x \in old[i].user) \/ x \in m.user
    BY <1>2
  <2> QED
    BY <2>1, <2>2, <2>3
<1>4. ASSUME NEW n, Once(old, n), n \in m.user => n \notin UsersIn(old) PROVE Once(new, n)
  <2>1. \A i \in DOMAIN old : n \in old[i].user => n \in UsersIn(old)
    BY DEF UsersIn
  <2> QED
    BY <1>2, <1>4, <2>1 DEF Once
<1> QED
  BY <1>3, <1>4 DEF new

\* What is left of stored messages has nothing twice.
LEMMA UsersOfHistory ==
  ASSUME NEW load, load.rows \in Seq(Message)
  PROVE  /\ UsersIn(HistoryToMessages(load)) \subseteq UsersIn(load.rows)
         /\ \A n : Once(load.rows, n) => Once(HistoryToMessages(load), n)
<1> DEFINE old == load.rows
           new == HistoryToMessages(load)
           InPlaces(n, p) == /\ new = [k \in 1..n |-> old[p[k]]]
                             /\ \A j, k \in 1..n : j < k => p[j] < p[k]
<1>1. \E n \in Nat : \E p \in [1..n -> DOMAIN old] : InPlaces(n, p)
  BY HistoryPlaces
<1> HIDE DEF InPlaces
<1>2. PICK n \in Nat : \E p \in [1..n -> DOMAIN old] : InPlaces(n, p)
  BY <1>1
<1>3. PICK p \in [1..n -> DOMAIN old] : InPlaces(n, p)
  BY <1>2
<1> HIDE DEF new
<1>4. /\ DOMAIN new = 1..n /\ \A k \in 1..n : p[k] \in DOMAIN old /\ new[k] = old[p[k]]
      /\ \A j, k \in 1..n : j < k => p[j] < p[k]
      /\ DOMAIN old \subseteq Nat
  BY <1>3 DEF InPlaces
<1>5. UsersIn(new) \subseteq UsersIn(old)
  BY <1>4 DEF UsersIn
<1>6. ASSUME NEW x, Once(old, x) PROVE Once(new, x)
  <2> SUFFICES ASSUME NEW i \in 1..n, NEW j \in 1..n, x \in new[i].user, x \in new[j].user
               PROVE  i = j
    BY <1>4 DEF Once
  <2>1. p[i] = p[j] /\ p[i] \in Nat
    BY <1>4, <1>6 DEF Once
  <2>2. ~(i < j) /\ ~(j < i)
    <3>1. \A m \in Nat : ~(m < m)
      OBVIOUS
    <3> QED
      BY <1>4, <2>1, <3>1
  <2> QED
    BY <2>2
<1> QED
  BY <1>5, <1>6 DEF new

LEMMA UserFields ==
  /\ \A n : UserMessage(n).user = {n}
  /\ \A s, n, t : TextMessage(s, n, t).user = {}
  /\ \A c, t, u : CardMessage(c, t, u).user = u
  /\ Notice.user = {}
  BY DEF UserMessage, TextMessage, CardMessage, Notice

\* Nothing but the agent, a click and a POST moves what the technician sent.
LEMMA UnderWayStep == ASSUME TypeInv, UnderWay, [Next]_vars PROVE UnderWay'
<1>0. /\ rows \in Seq(Message) /\ inbox \in Seq(Sends \cup {0}) /\ sent \in Nat /\ MaxSends \in Nat
      /\ called \in Nat /\ sent <= MaxSends
  BY TypeParts, Bounds DEF TypeInv, AgentTypes, ChatTypes
<1>1. ASSUME UNCHANGED <<posts, inbox, rows, sent>> PROVE UnderWay'
  BY <1>1 DEF UnderWay, UsersIn, Once
<1>2. CASE BeginTurn
  <2> DEFINE n == Head(inbox)
             m == UserMessage(n)
  <2>1. /\ inbox # <<>> /\ rows' = Append(rows, m) /\ inbox' = Tail(inbox)
        /\ posts' = posts /\ sent' = sent
    BY <1>2 DEF BeginTurn, AgentOnly, httpVars, chatVars
  <2>2. /\ n = inbox[1] /\ 1 \in DOMAIN inbox /\ n \in Sends \cup {0}
        /\ \A i \in DOMAIN Tail(inbox) : i \in Nat /\ i >= 1 /\ i + 1 \in DOMAIN inbox /\ Tail(inbox)[i] = inbox[i + 1]
    BY <1>0, <2>1, HeadTailProperties
  <2>3. m \in Message /\ m.user = {n}
    BY <2>2, MessageTypes, UserFields
  <2>4. n \in ToSet(inbox) /\ n \in 0..sent
    BY <2>2 DEF ToSet, UnderWay
  <2> HIDE DEF m, n
  <2>5. UsersIn(rows') = UsersIn(rows) \cup {n}
    BY <1>0, <2>1, <2>3, UsersAppended
  <2>6. ToSet(inbox') \subseteq ToSet(inbox)
    BY <2>1, <2>2 DEF ToSet
  <2>7. ASSUME NEW k \in Sends
        PROVE  /\ \A i, j \in DOMAIN inbox' : inbox'[i] = k /\ inbox'[j] = k => i = j
               /\ k \in posts' => k \notin ToSet(inbox')
               /\ k \in posts' \cup ToSet(inbox') => k \notin UsersIn(rows')
               /\ Once(rows', k)
    <3>1. \A i, j \in DOMAIN inbox : inbox[i] = k /\ inbox[j] = k => i = j
      BY DEF UnderWay
    <3>2. \A i, j \in DOMAIN inbox' : inbox'[i] = k /\ inbox'[j] = k => i = j
      <4> SUFFICES ASSUME NEW i \in DOMAIN inbox', NEW j \in DOMAIN inbox', inbox'[i] = k, inbox'[j] = k
                   PROVE  i = j
        OBVIOUS
      <4>1. i + 1 \in DOMAIN inbox /\ j + 1 \in DOMAIN inbox /\ inbox[i + 1] = k /\ inbox[j + 1] = k
            /\ i \in Nat /\ j \in Nat
        BY <2>1, <2>2
      <4>2. i + 1 = j + 1
        BY <3>1, <4>1
      <4> QED
        BY <4>1, <4>2
    <3>3. k = n => k \notin ToSet(inbox')
      <4> SUFFICES ASSUME k = n, NEW i \in DOMAIN inbox', inbox'[i] = k PROVE FALSE
        BY DEF ToSet
      <4>1. i \in Nat /\ i >= 1 /\ i + 1 \in DOMAIN inbox /\ inbox[i + 1] = k
        BY <2>1, <2>2
      <4>2. i + 1 = 1
        BY <2>2, <3>1, <4>1
      <4> QED
        BY <4>1, <4>2
    <3>4. k \in posts => k # n
      BY <2>4 DEF UnderWay
    <3>5. Once(rows', k)
      <4>1. k = n => k \notin UsersIn(rows)
        BY <2>4 DEF UnderWay
      <4>2. Once(rows, k)
        BY DEF UnderWay
      <4> QED
        BY <1>0, <2>1, <2>3, <4>1, <4>2, UsersAppended
    <3> QED
      BY <2>1, <2>5, <2>6, <3>2, <3>3, <3>4, <3>5 DEF UnderWay
  <2> QED
    BY <2>1, <2>4, <2>5, <2>6, <2>7 DEF UnderWay
<1>3. ASSUME NEW m \in Message, m.user = {}, rows' = Append(rows, m) \/ rows' = rows,
             UNCHANGED <<posts, inbox, sent>>
      PROVE  UnderWay'
  <2>1. UsersIn(rows') = UsersIn(rows)
    BY <1>0, <1>3, UsersAppended
  <2>2. \A n : Once(rows, n) => Once(rows', n)
    BY <1>0, <1>3, UsersAppended
  <2> QED
    BY <1>3, <2>1, <2>2 DEF UnderWay
<1>4. CASE ToolDone
  <2>1. CardMessage(called, <<>>, {}) \in Message
    <3>1. <<>> \in Seq(Text) /\ {} \in SUBSET (Sends \cup {0})
      OBVIOUS
    <3> QED
      BY <1>0, <3>1, MessageTypes
  <2>2. rows' = Append(rows, CardMessage(called, <<>>, {})) /\ UNCHANGED <<posts, inbox, sent>>
    BY <1>4 DEF ToolDone, Publish, AgentOnly, httpVars, chatVars
  <2> QED
    BY <1>3, <2>1, <2>2, UserFields
<1>5. CASE SaveAnswer
  <2>1. UNCHANGED <<posts, inbox, sent>>
    BY <1>5 DEF SaveAnswer, AgentOnly, httpVars, chatVars
  <2>2. CASE said = begun
    BY <1>1, <1>5, <2>1, <2>2 DEF SaveAnswer
  <2>3. CASE said # begun
    <3> DEFINE m == TextMessage(NoStream, begun + 1, [i \in 1..(said - begun) |-> begun + i])
    <3>1. rows' = Append(rows, m)
      BY <1>5, <2>3 DEF SaveAnswer
    <3>2. rows' \in Seq(Message)
      BY AgentStep DEF AgentTypes
    <3>3. m \in Message /\ m.user = {}
      <4>1. m = rows'[Len(rows) + 1] /\ Len(rows) + 1 \in DOMAIN rows'
        BY <1>0, <3>1
      <4> QED
        BY <3>2, <4>1, UserFields
    <3> HIDE DEF m
    <3> QED
      BY <1>3, <2>1, <3>1, <3>3
  <2> QED
    BY <2>2, <2>3
<1>6. ASSUME UNCHANGED <<posts, rows, sent>>, inbox' = <<>>
      PROVE  UnderWay'
  <2>1. UNCHANGED <<posts, rows, sent>> /\ inbox' = <<>>
    BY <1>6
  <2>2. ToSet(<<>>) = {} /\ DOMAIN <<>> = {}
    BY DEF ToSet
  <2>3. UsersIn(rows)' = UsersIn(rows) /\ \A n : Once(rows, n) => Once(rows, n)'
    BY <2>1 DEF UsersIn, Once
  <2> QED
    BY <2>1, <2>2, <2>3 DEF UnderWay
<1>14. CASE Failed \/ Stopped
  BY <1>6, <1>14 DEF Failed, Stopped, AgentEnds, Publish, AgentOnly, httpVars, chatVars
<1>15. CASE StopClicked
  BY <1>1, <1>6, <1>15 DEF StopClicked, chatVars
<1>7. CASE Say \/ RequestTool \/ ApprovalStatus \/ FinishTurn
  BY <1>1, <1>7 DEF Say, RequestTool, ApprovalStatus, FinishTurn, Publish, AgentOnly, httpVars, chatVars
<1>8. ASSUME NEW s \in Streams, Deliver(s) \/ Subscribe(s) \/ Disconnect(s) \/ Rejected(s)
      PROVE  UnderWay'
  <2>1. UNCHANGED <<agentVars, httpVars, sent>>
    BY <1>8 DEF Deliver, TextDelta, ToolCallRequested, StatusChange, ToolResult,
                AgentCompletedOrFailed, AgentIdleOrStopped, Handle, Subscribe, Disconnect, Rejected,
                chatVars
  <2> QED
    BY <1>1, <2>1 DEF agentVars, httpVars
<1>9. CASE ChatOpened \/ ChatSelected \/ AbortAnswered \/ Tick
  BY <1>1, <1>9 DEF ChatOpened, ChatSelected, AbortAnswered, Tick, agentVars, httpVars, chatVars
<1>10. ASSUME NEW l \in DOMAIN loads, HistoryRead(l) \/ HistoryLoaded(l) \/ HistoryFailed(l)
       PROVE  UnderWay'
  BY <1>1, <1>10 DEF HistoryRead, HistoryLoaded, HistoryFailed, agentVars, chatVars
<1>11. CASE MessageSent
  <2>1. /\ sent' = sent + 1 /\ posts' = posts \cup {sent + 1} /\ inbox' = inbox /\ rows' = rows
    BY <1>11 DEF MessageSent, agentVars
  <2>2. sent + 1 \notin ToSet(inbox) /\ sent + 1 \notin UsersIn(rows)
    BY <1>0 DEF UnderWay
  <2>3. UsersIn(rows)' = UsersIn(rows) /\ \A n : Once(rows, n) => Once(rows, n)'
    BY <2>1 DEF UsersIn, Once
  <2>4. posts' \subseteq 1..sent' /\ 0..sent \subseteq 0..sent'
    BY <1>0, <2>1 DEF UnderWay
  <2> QED
    BY <2>1, <2>2, <2>3, <2>4 DEF UnderWay
<1>12. ASSUME NEW n \in Sends, PostMessage(n) PROVE UnderWay'
  <2>1. /\ n \in posts /\ posts' = posts \ {n} /\ UNCHANGED <<rows, sent>>
        /\ inbox' \in {Append(inbox, n), <<n>>, inbox}
    BY <1>12 DEF PostMessage, chatVars, Restarts
  <2>2. n \notin ToSet(inbox) /\ n \notin UsersIn(rows) /\ n \in 1..sent
    BY <2>1 DEF UnderWay
  <2>3. UsersIn(rows)' = UsersIn(rows) /\ \A k : Once(rows, k) => Once(rows, k)'
    BY <2>1 DEF UsersIn, Once
  <2>4. ToSet(inbox') \subseteq ToSet(inbox) \cup {n}
        /\ \A k \in Sends : \A i, j \in DOMAIN inbox' : inbox'[i] = k /\ inbox'[j] = k => i = j
    <3>1. CASE inbox' = inbox
      BY <3>1 DEF UnderWay
    <3>2. CASE inbox' = <<n>>
      BY <3>2 DEF ToSet
    <3>3. CASE inbox' = Append(inbox, n)
      <4>1. /\ Len(inbox) \in Nat /\ DOMAIN inbox = 1..Len(inbox) /\ DOMAIN inbox' = 1..Len(inbox) + 1
            /\ \A i \in 1..Len(inbox) + 1 : inbox'[i] = IF i \in 1..Len(inbox) THEN inbox[i] ELSE n
        BY <1>0, <3>3, AppendFacts
      <4>2. /\ \A i \in DOMAIN inbox' : i \in DOMAIN inbox \/ i = Len(inbox) + 1
            /\ \A i \in DOMAIN inbox : inbox'[i] = inbox[i] /\ inbox[i] # n
            /\ inbox'[Len(inbox) + 1] = n /\ Len(inbox) + 1 \notin DOMAIN inbox
        BY <2>2, <4>1 DEF ToSet
      <4>3. ToSet(inbox') \subseteq ToSet(inbox) \cup {n}
        BY <4>2 DEF ToSet
      <4>4. \A k \in Sends : \A i, j \in DOMAIN inbox' : inbox'[i] = k /\ inbox'[j] = k => i = j
        BY <4>2 DEF UnderWay
      <4> QED
        BY <4>3, <4>4
    <3> QED
      BY <2>1, <3>1, <3>2, <3>3
  <2>5. ToSet(inbox') \subseteq 0..sent
    BY <1>0, <2>2, <2>4 DEF UnderWay
  <2> QED
    BY <2>1, <2>2, <2>3, <2>4, <2>5 DEF UnderWay
<1>13. CASE UNCHANGED vars
  BY <1>1, <1>13 DEF vars, agentVars, httpVars, chatVars
<1> QED
  BY <1>2, <1>4, <1>5, <1>7, <1>8, <1>9, <1>10, <1>11, <1>12, <1>13, <1>14, <1>15
  DEF Next, Agent, Stream, Page

LEMMA LoadTypes == ASSUME TypeInv, NEW l \in DOMAIN loads PROVE loads[l].rows \in Seq(Message)
<1> DEFINE L == [read : BOOLEAN, live : BOOLEAN, rows : Seq(Message)]
<1>1. loads \in Seq(L)
  BY TypeParts DEF TypeInv, HttpTypes
<1> HIDE DEF L
<1>2. loads[l] \in L
  BY <1>1
<1> QED
  BY <1>2 DEF L

\* A history is read from the stored messages, and stays what was read.
LEMMA LoadsStep ==
  ASSUME TypeInv, [Next]_vars
  PROVE  \A l \in DOMAIN loads' :
           \/ \E j \in DOMAIN loads : loads'[l].rows = loads[j].rows
           \/ loads'[l].rows = <<>>
           \/ loads'[l].rows = rows
<1> DEFINE L == [read : BOOLEAN, live : BOOLEAN, rows : Seq(Message)]
<1>0. loads \in Seq(L)
  BY TypeParts DEF TypeInv, HttpTypes
<1>1. CASE loads' = loads
  BY <1>1
<1>2. ASSUME NEW st, ConnectStream(st)
      PROVE  \A l \in DOMAIN loads' : (\E j \in DOMAIN loads : loads'[l].rows = loads[j].rows)
                                      \/ loads'[l].rows = <<>>
  <2> DEFINE r == [read |-> FALSE, live |-> st = "busy", rows |-> <<>>]
  <2>1. r \in L /\ r.rows = <<>>
    <3>1. <<>> \in Seq(Message)
      OBVIOUS
    <3> QED
      BY <3>1
  <2>2. loads' = Append(loads, r)
    BY <1>2 DEF ConnectStream
  <2> HIDE DEF L, r
  <2> QED
    BY <1>0, <2>1, <2>2, AppendFacts
<1>3. CASE ChatOpened \/ ChatSelected
  BY <1>2, <1>3 DEF ChatOpened, ChatSelected
<1>4. ASSUME NEW l \in DOMAIN loads, HistoryRead(l)
      PROVE  \A k \in DOMAIN loads' : (\E j \in DOMAIN loads : loads'[k].rows = loads[j].rows)
                                      \/ loads'[k].rows = rows
  <2> DEFINE r == [loads[l] EXCEPT !.read = TRUE, !.rows = rows]
  <2>1. loads' = [loads EXCEPT ![l] = r]
    BY <1>4 DEF HistoryRead
  <2>2. r.rows = rows
    <3> HIDE DEF L
    <3>1. loads[l] \in L
      BY <1>0
    <3> QED
      BY <3>1 DEF L
  <2> HIDE DEF r
  <2> QED
    BY <2>1, <2>2
<1>5. ASSUME NEW l \in DOMAIN loads, HistoryLoaded(l) \/ HistoryFailed(l)
      PROVE  \A k \in DOMAIN loads' : \E j \in DOMAIN loads : loads'[k].rows = loads[j].rows
  <2>1. loads' = RemoveAt(loads, l)
    BY <1>5 DEF HistoryLoaded, HistoryFailed
  <2> HIDE DEF L
  <2>2. \A k \in DOMAIN loads' : \E j \in DOMAIN loads : loads'[k] = loads[j]
    BY <1>0, <2>1, Removed
  <2> QED
    BY <2>2
<1>6. CASE Agent
  BY <1>1, <1>6 DEF Agent, BeginTurn, Say, RequestTool, ApprovalStatus, ToolDone, SaveAnswer, FinishTurn,
                    Failed, Stopped, AgentEnds, Publish, AgentOnly, httpVars
<1>7. ASSUME NEW s \in Streams, Deliver(s) \/ Subscribe(s) \/ Disconnect(s) \/ Rejected(s)
      PROVE  loads' = loads
  BY <1>7 DEF Deliver, TextDelta, ToolCallRequested, StatusChange, ToolResult,
              AgentCompletedOrFailed, AgentIdleOrStopped, Handle, Subscribe, Disconnect, Rejected,
              httpVars
<1>8. CASE StopClicked \/ AbortAnswered \/ MessageSent \/ Tick
  BY <1>1, <1>8 DEF StopClicked, AbortAnswered, MessageSent, Tick, httpVars
<1>9. ASSUME NEW n \in Sends, PostMessage(n) PROVE loads' = loads
  BY <1>9 DEF PostMessage
<1>10. CASE UNCHANGED vars
  BY <1>1, <1>10 DEF vars, httpVars
<1> QED
  BY <1>1, <1>3, <1>4, <1>5, <1>6, <1>7, <1>8, <1>9, <1>10 DEF Next, Stream, Page

LEMMA SentStep ==
  ASSUME TypeInv, [Next]_vars
  PROVE  sent \in Nat /\ sent' \in Nat /\ sent <= sent' /\ (sent' = sent \/ MessageSent)
<1>1. sent \in Nat /\ sent' \in Nat
  BY ChatStep, TypeParts, Bounds DEF TypeInv, ChatTypes
<1>2. sent' = sent \/ MessageSent
  BY DEF Next, Agent, Stream, Page, BeginTurn, Say, RequestTool, ApprovalStatus, ToolDone, SaveAnswer, FinishTurn,
         Failed, Stopped, AgentEnds, Publish, AgentOnly, Deliver, TextDelta, ToolCallRequested,
         StatusChange, ToolResult, AgentCompletedOrFailed, AgentIdleOrStopped, Handle, Subscribe,
         Disconnect, Rejected, ChatOpened, ChatSelected, HistoryRead, HistoryLoaded, HistoryFailed,
         StopClicked, AbortAnswered, PostMessage, Tick, chatVars, vars
<1>3. MessageSent => sent' = sent + 1
  BY DEF MessageSent
<1> QED
  BY <1>1, <1>2, <1>3

LEMMA HistoriesStep == ASSUME TypeInv, UnderWay, InHistories, [Next]_vars PROVE InHistories'
<1>1. 0..sent \subseteq 0..sent'
  BY SentStep
<1>2. UsersIn(<<>>) = {} /\ \A n : Once(<<>>, n)
  BY DEF UsersIn, Once
<1>3. UsersIn(rows) \subseteq 0..sent /\ \A n \in Sends : Once(rows, n)
  BY DEF UnderWay
<1>4. ASSUME NEW l \in DOMAIN loads'
      PROVE  /\ UsersIn(loads'[l].rows) \subseteq 0..sent
             /\ \A n \in Sends : Once(loads'[l].rows, n)
  <2>1. CASE \E j \in DOMAIN loads : loads'[l].rows = loads[j].rows
    BY <2>1 DEF InHistories
  <2>2. CASE loads'[l].rows = <<>> \/ loads'[l].rows = rows
    BY <1>2, <1>3, <2>2
  <2> QED
    BY <2>1, <2>2, LoadsStep
<1>5. \A l \in DOMAIN loads' : /\ UsersIn(loads'[l].rows) \subseteq 0..sent'
                               /\ \A n \in Sends : Once(loads'[l].rows, n)
  BY <1>1, <1>4
<1> QED
  BY <1>5 DEF InHistories, UsersIn, Once

\* Bubbles, notices and cards leave what the technician sent where it is.
LEMMA TranscriptUsersStep ==
  ASSUME TypeInv, InHistories, InTranscript, [Next]_vars
  PROVE  InTranscript'
<1>0. /\ messages \in Seq(Message) /\ sent \in Nat /\ sent <= MaxSends /\ MaxSends \in Nat
      /\ called \in Nat
  BY TypeParts, Bounds DEF TypeInv, TextTypes, ChatTypes, AgentTypes
<1>1. ASSUME UsersKept(messages', messages), sent' = sent, wiped' = wiped
      PROVE  InTranscript'
  <2>1. /\ UsersIn(messages') = UsersIn(messages)
        /\ \A n : Once(messages, n) => Once(messages', n)
    BY <1>1, UsersOfKept
  <2>2. UsersIn(messages)' = UsersIn(messages') /\ \A n : Once(messages, n)' <=> Once(messages', n)
    BY DEF UsersIn, Once
  <2> QED
    BY <1>1, <2>1, <2>2 DEF InTranscript
<1>2. ASSUME messages' = messages, sent' = sent, wiped' = wiped PROVE InTranscript'
  <2>1. UsersKept(messages', messages)
    BY <1>2 DEF UsersKept
  <2> QED
    BY <1>1, <1>2, <2>1
<1>3. ASSUME NEW s \in Streams, NEW old,
             old = Flushed(s) \/ old = messages,
             messages' = old \/ Follows(messages', old), sent' = sent, wiped' = wiped
      PROVE  InTranscript'
  <2>1. DOMAIN old = DOMAIN messages /\ \A i \in DOMAIN messages : old[i].user = messages[i].user
    BY <1>3, FlushedFacts
  <2>2. UsersKept(messages', messages)
    BY <1>3, <2>1 DEF Follows, UsersKept
  <2> QED
    BY <1>1, <1>3, <2>2
<1>4. CASE Agent
  BY <1>2, <1>4 DEF Agent, BeginTurn, Say, RequestTool, ApprovalStatus, ToolDone, SaveAnswer, FinishTurn,
                    Failed, Stopped, AgentEnds, Publish, AgentOnly, textVars, chatVars
<1>5. ASSUME NEW s \in Streams, TextDelta(s) PROVE InTranscript'
  <2> DEFINE m == TextMessage(s, Head(events[s]).n, <<>>)
  <2>1. messages' = messages \/ messages' = Append(messages, m)
    BY <1>5 DEF TextDelta
  <2>2. UNCHANGED <<sent, wiped>>
    BY <1>5 DEF TextDelta, Handle
  <2>3. CASE messages' = Append(messages, m)
    <3>1. m \in Message /\ m.user = {} /\ m.text = <<>>
      <4>1. Head(events[s]).n \in Nat
        BY <1>5, HandedOver DEF TextDelta, Text
      <4>2. <<>> \in Seq(Text)
        OBVIOUS
      <4> QED
        BY <4>1, <4>2, MessageTypes, UserFields DEF TextMessage
    <3> HIDE DEF m
    <3>2. /\ DOMAIN messages \subseteq DOMAIN messages'
          /\ \A i \in DOMAIN messages' : messages'[i] = IF i \in DOMAIN messages THEN messages[i] ELSE m
      BY <1>0, <2>3, <3>1, AppendFacts
    <3>4. UsersKept(messages', messages)
      BY <3>1, <3>2 DEF UsersKept
    <3> QED
      BY <1>1, <2>2, <3>4
  <2> QED
    BY <1>2, <2>1, <2>2, <2>3
<1>6. ASSUME NEW s \in Streams, ToolCallRequested(s) PROVE InTranscript'
  <2> DEFINE c == Head(events[s]).n
  <2>1. Flushed(s) \in Seq(Message)
    BY FlushedFacts
  <2>2. c \in Nat
    <3>1. events[s] \in Seq(Event) /\ events[s] # <<>>
          /\ Head(events[s]).type = "tool_call_requested"
      BY <1>6, TypeParts DEF ToolCallRequested, Handle, TypeInv, BusTypes
    <3>2. Head(events[s]) \in Event
      BY <3>1
    <3> QED
      BY <3>1, <3>2 DEF Event
  <2>3. Follows(WithCard(Flushed(s), c), Flushed(s))
    BY <2>1, <2>2, CardAdded
  <2>4. messages' = Flushed(s) \/ Follows(messages', Flushed(s))
    BY <1>6, <2>3 DEF ToolCallRequested
  <2> QED
    BY <1>3, <1>6, <2>4 DEF ToolCallRequested, Handle
<1>7. ASSUME NEW s \in Streams, StatusChange(s) PROVE InTranscript'
  BY <1>2, <1>7 DEF StatusChange, Handle
<1>8. ASSUME NEW s \in Streams, ToolResult(s) PROVE InTranscript'
  BY <1>3, <1>8 DEF ToolResult, Handle
<1>9. ASSUME NEW s \in Streams, AgentCompletedOrFailed(s) PROVE InTranscript'
  <2>1. Flushed(s) \in Seq(Message)
    BY FlushedFacts
  <2>2. Follows(messages', Flushed(s))
    BY <1>9, <2>1, NoticeAdded DEF AgentCompletedOrFailed
  <2> QED
    BY <1>3, <1>9, <2>2 DEF AgentCompletedOrFailed, Handle
<1>10. ASSUME NEW s \in Streams, AgentIdleOrStopped(s) PROVE InTranscript'
  <2>1. messages' = messages \/ Follows(messages', messages)
    BY <1>0, <1>10, NoticeAdded DEF AgentIdleOrStopped
  <2> QED
    BY <1>3, <1>10, <2>1 DEF AgentIdleOrStopped, Handle
<1>11. ASSUME NEW s \in Streams, Subscribe(s) \/ Disconnect(s) \/ Rejected(s) PROVE InTranscript'
  BY <1>2, <1>11 DEF Subscribe, Disconnect, Rejected, textVars, chatVars
<1>12. CASE ChatOpened \/ ChatSelected \/ StopClicked \/ AbortAnswered
  BY <1>2, <1>12 DEF ChatOpened, ChatSelected, StopClicked, AbortAnswered, textVars, chatVars
<1>13. ASSUME NEW l \in DOMAIN loads, HistoryRead(l) \/ HistoryFailed(l) PROVE InTranscript'
  BY <1>2, <1>13 DEF HistoryRead, HistoryFailed, textVars, chatVars
<1>14. ASSUME NEW l \in DOMAIN loads, HistoryLoaded(l) PROVE InTranscript'
  <2>1. /\ messages' = HistoryToMessages(loads[l]) /\ sent' = sent
        /\ wiped' = (1..sent) \ UsersIn(messages')
    BY <1>14 DEF HistoryLoaded
  <2>2. UsersIn(messages') \subseteq 0..sent /\ \A n \in Sends : Once(messages', n)
    BY <2>1, LoadTypes, UsersOfHistory DEF InHistories
  <2>3. ASSUME NEW n \in Sends PROVE n \in UsersIn(messages') <=> n \in (1..sent') \ wiped'
    <3>1. n \in Nat /\ n >= 1
      BY <1>0 DEF Sends
    <3> QED
      BY <1>0, <2>1, <2>2, <3>1
  <2>4. UsersIn(messages)' = UsersIn(messages') /\ \A n : Once(messages, n)' <=> Once(messages', n)
    BY DEF UsersIn, Once
  <2> QED
    BY <2>1, <2>2, <2>3, <2>4 DEF InTranscript
<1>15. CASE MessageSent
  <2> DEFINE m == UserMessage(sent + 1)
  <2>1. /\ messages' = Append(messages, m) /\ sent' = sent + 1 /\ wiped' = wiped /\ sent < MaxSends
    BY <1>15 DEF MessageSent
  <2>2. m \in Message /\ m.user = {sent + 1}
    BY <1>0, <2>1, MessageTypes, UserFields DEF Sends
  <2> HIDE DEF m
  <2>3. sent + 1 \in Sends /\ sent + 1 \notin UsersIn(messages)
    BY <1>0, <2>1 DEF InTranscript, Sends
  <2>4. UsersIn(messages') = UsersIn(messages) \cup {sent + 1} /\ \A n \in Sends : Once(messages', n)
    BY <1>0, <2>1, <2>2, <2>3, UsersAppended DEF InTranscript
  <2>5. ASSUME NEW n \in Sends PROVE n \in UsersIn(messages') <=> n \in (1..sent') \ wiped'
    <3>1. n \in Nat /\ n >= 1
      BY <1>0 DEF Sends
    <3>2. n \in 1..sent' <=> n \in 1..sent \/ n = sent + 1
      BY <1>0, <2>1, <3>1
    <3>3. sent + 1 \notin wiped
      BY <1>0 DEF InTranscript
    <3> QED
      BY <2>1, <2>4, <3>2, <3>3 DEF InTranscript
  <2>6. wiped' \subseteq 1..sent'
    BY <1>0, <2>1 DEF InTranscript
  <2>7. UsersIn(messages)' = UsersIn(messages') /\ \A n : Once(messages, n)' <=> Once(messages', n)
    BY DEF UsersIn, Once
  <2> QED
    BY <2>4, <2>5, <2>6, <2>7 DEF InTranscript
<1>16. ASSUME NEW n \in Sends, PostMessage(n) PROVE InTranscript'
  BY <1>2, <1>16 DEF PostMessage, textVars, chatVars
<1>17. CASE Tick
  <2>1. /\ messages' = WithContent(messages, timer, bubble'[timer])
        /\ Revealed(bubble'[timer]) \in Seq(Text)
    BY <1>17, Ticking
  <2>2. DOMAIN messages' = DOMAIN messages
        /\ \A i \in DOMAIN messages : messages'[i].user = messages[i].user
    BY <1>0, <2>1, ContentSet
  <2>3. UsersKept(messages', messages)
    BY <2>2 DEF UsersKept
  <2>4. UNCHANGED <<sent, wiped>>
    BY <1>17 DEF Tick, chatVars
  <2> QED
    BY <1>1, <2>3, <2>4
<1>18. CASE UNCHANGED vars
  BY <1>2, <1>18 DEF vars, textVars, chatVars
<1> QED
  BY <1>4, <1>5, <1>6, <1>7, <1>8, <1>9, <1>10, <1>11, <1>12, <1>13, <1>14, <1>15, <1>16, <1>17,
     <1>18 DEF Next, Stream, Page, Deliver

UserInv == UnderWay /\ InHistories /\ InTranscript

LEMMA InitUsers == Init => UserInv
<1> SUFFICES ASSUME Init PROVE UserInv
  OBVIOUS
<1>1. sent = 0 /\ rows = <<>> /\ messages = <<>> /\ inbox = <<0>> /\ loads = <<>> /\ posts = {} /\ wiped = {}
  BY DEF Init
<1>2. UsersIn(<<>>) = {} /\ ToSet(<<0>>) = {0} /\ DOMAIN <<0>> = {1} /\ \A n : Once(<<>>, n)
  BY DEF UsersIn, ToSet, Once
<1>3. \A n \in Sends : n # 0
  BY Bounds DEF Sends
<1>4. UnderWay
  BY <1>1, <1>2, <1>3 DEF UnderWay
<1>5. InHistories
  BY <1>1 DEF InHistories
<1>6. InTranscript
  BY <1>1, <1>2 DEF InTranscript
<1> QED
  BY <1>4, <1>5, <1>6 DEF UserInv

\* What the technician sent is there once, as a message or as the thought of a card,
\* except where a history was loaded that did not have it.
THEOREM SentIsKept == Spec => []UserTextKept
<1>1. TypeInv /\ UserInv => UserTextKept
  <2> SUFFICES ASSUME TypeInv, UserInv, NEW n \in 1..sent
               PROVE  Cardinality({i \in DOMAIN messages : n \in messages[i].user})
                        = IF n \in wiped THEN 0 ELSE 1
    BY DEF UserTextKept
  <2> DEFINE I == {i \in DOMAIN messages : n \in messages[i].user}
  <2>1. n \in Sends
    BY TypeParts, Bounds DEF TypeInv, ChatTypes, Sends
  <2>2. Once(messages, n) /\ (n \in UsersIn(messages) <=> n \notin wiped)
    BY <2>1 DEF UserInv, InTranscript
  <2>3. CASE n \in wiped
    <3>1. I = {}
      BY <2>2, <2>3 DEF UsersIn
    <3> QED
      BY <2>3, <3>1, FS_EmptySet
  <2>4. CASE n \notin wiped
    <3>1. PICK i \in DOMAIN messages : n \in messages[i].user
      BY <2>2, <2>4 DEF UsersIn
    <3>2. I = {i}
      BY <2>2, <3>1 DEF Once
    <3> QED
      BY <2>4, <3>2, FS_Singleton
  <2> QED
    BY <2>3, <2>4
<1>2. TypeInv /\ UserInv /\ [Next]_vars => UserInv'
  BY UnderWayStep, HistoriesStep, TranscriptUsersStep DEF UserInv
<1> QED
  BY <1>1, <1>2, InitTypes, TypeStep, InitUsers, PTL DEF Spec

-------------------------------------------------------------------------------
(* What is stored *)

LEMMA NoText ==
  /\ ToSet(<<>>) = {} /\ Increasing(<<>>)
  /\ \A t : Precedes(<<>>, t) /\ Precedes(t, <<>>)
  BY DEF ToSet, Increasing, Precedes

LEMMA StoredLater ==
  ASSUME NEW msgs, NEW n \in Nat, NEW m \in Nat, n <= m, StoredOK(msgs, n)
  PROVE  StoredOK(msgs, m)
<1>1. 1..n \subseteq 1..m
  OBVIOUS
<1> QED
  BY <1>1 DEF StoredOK

\* A message is stored after those whose text is earlier.
LEMMA StoredAppended ==
  ASSUME NEW n \in Nat, NEW old \in Seq(Message), StoredOK(old, n), NEW m \in Message,
         m.by = NoStream, Increasing(m.text), ToSet(m.text) \subseteq 1..n,
         \A i \in DOMAIN old : Precedes(old[i].text, m.text)
  PROVE  StoredOK(Append(old, m), n)
<1> DEFINE new == Append(old, m)
<1>1. /\ Len(old) \in Nat /\ DOMAIN old = 1..Len(old) /\ DOMAIN new = 1..Len(old) + 1
      /\ \A i \in 1..Len(old) + 1 : new[i] = IF i \in 1..Len(old) THEN old[i] ELSE m
  BY AppendFacts
<1> HIDE DEF new
<1>2. /\ \A i \in DOMAIN new : i \in DOMAIN old \/ i = Len(old) + 1
      /\ \A i \in DOMAIN old : new[i] = old[i] /\ i \in Nat /\ i < Len(old) + 1
      /\ new[Len(old) + 1] = m
  BY <1>1
<1>3. \A i \in DOMAIN new : Increasing(new[i].text)
  BY <1>2 DEF StoredOK, InOrder
<1>4. ASSUME NEW i \in DOMAIN new, NEW j \in DOMAIN new, i < j
      PROVE  Precedes(new[i].text, new[j].text)
  <2>1. i \in DOMAIN old
    BY <1>1, <1>4
  <2> QED
    BY <1>2, <1>4, <2>1 DEF StoredOK, InOrder
<1>5. \A i \in DOMAIN new : new[i].by = NoStream /\ ToSet(new[i].text) \subseteq 1..n
  BY <1>2 DEF StoredOK
<1> QED
  BY <1>3, <1>4, <1>5 DEF StoredOK, InOrder, new

\* What is left of stored messages is in order.
LEMMA HistoryInOrder ==
  ASSUME NEW load, load.rows \in Seq(Message), NEW n, StoredOK(load.rows, n)
  PROVE  StoredOK(HistoryToMessages(load), n)
<1> DEFINE old == load.rows
           new == HistoryToMessages(load)
           InPlaces(k, p) == /\ new = [i \in 1..k |-> old[p[i]]]
                             /\ \A i, j \in 1..k : i < j => p[i] < p[j]
<1>1. \E k \in Nat : \E p \in [1..k -> DOMAIN old] : InPlaces(k, p)
  BY HistoryPlaces
<1> HIDE DEF InPlaces
<1>2. PICK k \in Nat : \E p \in [1..k -> DOMAIN old] : InPlaces(k, p)
  BY <1>1
<1>3. PICK p \in [1..k -> DOMAIN old] : InPlaces(k, p)
  BY <1>2
<1> HIDE DEF new
<1>4. /\ DOMAIN new = 1..k /\ \A i \in 1..k : p[i] \in DOMAIN old /\ new[i] = old[p[i]]
      /\ \A i, j \in 1..k : i < j => p[i] < p[j]
  BY <1>3 DEF InPlaces
<1> QED
  BY <1>4 DEF StoredOK, InOrder, new

\* Their part of StoredInv, stated of the rows after a step.
RowsNext ==
  /\ StoredOK(rows', said')
  /\ at' \in {"turn", "asking", "waiting", "calling"} => SaidBefore(rows', begun')

LEMMA RowsStep == ASSUME TypeInv, StoredInv, [Next]_vars PROVE RowsNext
<1>0. /\ rows \in Seq(Message) /\ said \in Nat /\ begun \in Nat /\ begun <= said
      /\ called \in Nat /\ said' \in Nat /\ said <= said' /\ said \in 0..MaxText
      /\ inbox \in Seq(Sends \cup {0}) /\ MaxText \in Nat
  BY QueueStep, TypeParts, Bounds DEF TypeInv, AgentTypes
<1>1. StoredOK(rows, said) /\ (at \in {"turn", "asking", "waiting", "calling"} => SaidBefore(rows, begun))
  BY DEF StoredInv
<1>a. StoredOK(rows, said')
  BY <1>0, <1>1, StoredLater
<1>2. ASSUME rows' = rows, (at' = at /\ begun' = begun) \/ at' \notin {"turn", "asking", "waiting", "calling"}
      PROVE  RowsNext
  BY <1>1, <1>a, <1>2 DEF RowsNext
<1>3. ASSUME NEW m \in Message, m.by = NoStream, m.text = <<>>, rows' = Append(rows, m),
             said' = said,
             (at \in {"turn", "asking", "waiting", "calling"} /\ begun' = begun) \/ begun' = said
      PROVE  RowsNext
  <2>1. StoredOK(Append(rows, m), said)
    BY <1>0, <1>1, <1>3, NoText, StoredAppended
  <2>2. SaidBefore(Append(rows, m), begun')
    <3>1. \A i \in DOMAIN Append(rows, m) : Append(rows, m)[i].text = <<>>
             \/ (i \in DOMAIN rows /\ Append(rows, m)[i] = rows[i])
      BY <1>0, <1>3, AppendFacts
    <3>2. \A i \in DOMAIN rows : ToSet(rows[i].text) \subseteq 1..begun'
      BY <1>1, <1>3 DEF StoredOK, SaidBefore
    <3> QED
      BY <3>1, <3>2, NoText DEF SaidBefore
  <2> QED
    BY <1>3, <2>1, <2>2 DEF RowsNext
<1>4. CASE BeginTurn
  <2>1. inbox # <<>> /\ rows' = Append(rows, UserMessage(Head(inbox))) /\ begun' = said /\ said' = said
    BY <1>4 DEF BeginTurn
  <2>2. UserMessage(Head(inbox)) \in Message
    <3>1. Head(inbox) \in Sends \cup {0}
      BY <1>0, <2>1
    <3> QED
      BY <3>1, MessageTypes
  <2>3. UserMessage(Head(inbox)).by = NoStream /\ UserMessage(Head(inbox)).text = <<>>
    BY DEF UserMessage
  <2> QED
    BY <1>3, <2>1, <2>2, <2>3
<1>5. CASE Say \/ RequestTool \/ ApprovalStatus
  <2>1. rows' = rows /\ begun' = begun /\ at \in {"turn", "asking", "waiting", "calling"}
    BY <1>5 DEF Say, RequestTool, ApprovalStatus
  <2> QED
    BY <1>1, <1>a, <2>1 DEF RowsNext
<1>6. CASE ToolDone
  <2>1. rows' = Append(rows, CardMessage(called, <<>>, {})) /\ begun' = begun /\ said' = said
        /\ at = "calling"
    BY <1>6 DEF ToolDone
  <2>2. CardMessage(called, <<>>, {}) \in Message
    <3>1. <<>> \in Seq(Text) /\ {} \in SUBSET (Sends \cup {0})
      OBVIOUS
    <3> QED
      BY <1>0, <3>1, MessageTypes
  <2>3. CardMessage(called, <<>>, {}).by = NoStream /\ CardMessage(called, <<>>, {}).text = <<>>
    BY DEF CardMessage
  <2> QED
    BY <1>3, <2>1, <2>2, <2>3
<1>7. CASE SaveAnswer
  <2>1. at = "turn" /\ at' = "reporting" /\ said' = said
    BY <1>7 DEF SaveAnswer
  <2>2. CASE said = begun
    <3>1. rows' = rows
      BY <1>7, <2>2 DEF SaveAnswer
    <3> QED
      BY <1>2, <2>1, <3>1
  <2>3. CASE said # begun
    <3> DEFINE text == [i \in 1..(said - begun) |-> begun + i]
               m == TextMessage(NoStream, begun + 1, text)
    <3>1. /\ \A i \in 1..(said - begun) : begun + i \in begun + 1..said /\ begun + i \in Text
          /\ said - begun \in Nat
      BY <1>0 DEF Text
    <3>2. /\ text \in Seq(Text) /\ DOMAIN text = 1..(said - begun)
          /\ \A i \in DOMAIN text : text[i] = begun + i
      BY <3>1
    <3>a. rows' = Append(rows, m)
      BY <1>7, <2>3 DEF SaveAnswer
    <3> HIDE DEF text
    <3>b. begun + 1 \in Nat /\ NoStream \in Streams \cup {NoStream}
      BY <1>0
    <3>3. m \in Message /\ m.by = NoStream /\ m.text = text
      <4>1. \A s, n, t : TextMessage(s, n, t).by = s /\ TextMessage(s, n, t).text = t
        BY DEF TextMessage
      <4>2. m \in Message
        BY <3>2, <3>b, MessageTypes
      <4> QED
        BY <4>1, <4>2
    <3> HIDE DEF m
    <3>5. Increasing(text)
      BY <1>0, <3>1, <3>2 DEF Increasing
    <3>6. \A x \in ToSet(text) : x \in begun + 1..said
      BY <3>1, <3>2 DEF ToSet
    <3>7. ToSet(text) \subseteq 1..said
      BY <1>0, <3>6
    <3>8. \A i \in DOMAIN rows : Precedes(rows[i].text, text)
      <4>1. \A i \in DOMAIN rows : ToSet(rows[i].text) \subseteq 1..begun
        BY <1>1, <2>1 DEF SaidBefore
      <4>2. \A x \in 1..begun, y \in begun + 1..said : x < y
        BY <1>0
      <4> QED
        BY <3>6, <4>1, <4>2 DEF Precedes
    <3>9. StoredOK(Append(rows, m), said)
      BY <1>0, <1>1, <3>3, <3>5, <3>7, <3>8, StoredAppended
    <3> QED
      BY <2>1, <3>a, <3>9 DEF RowsNext
  <2> QED
    BY <2>2, <2>3
<1>8. CASE FinishTurn \/ Failed \/ Stopped
  <2>1. rows' = rows /\ at' \notin {"turn", "asking", "waiting", "calling"}
    BY <1>8 DEF FinishTurn, Failed, Stopped, AgentEnds
  <2> QED
    BY <1>2, <2>1
<1>9. ASSUME NEW s \in Streams, Deliver(s) \/ Subscribe(s) \/ Disconnect(s) \/ Rejected(s)
      PROVE  RowsNext
  <2>1. UNCHANGED agentVars
    BY <1>9 DEF Deliver, TextDelta, ToolCallRequested, StatusChange, ToolResult,
                AgentCompletedOrFailed, AgentIdleOrStopped, Handle, Subscribe, Disconnect, Rejected
  <2> QED
    BY <1>2, <2>1 DEF agentVars
<1>10. CASE ChatOpened \/ ChatSelected \/ AbortAnswered \/ MessageSent \/ Tick
  <2>1. UNCHANGED agentVars
    BY <1>10 DEF ChatOpened, ChatSelected, AbortAnswered, MessageSent, Tick
  <2> QED
    BY <1>2, <2>1 DEF agentVars
<1>11. ASSUME NEW l \in DOMAIN loads, HistoryRead(l) \/ HistoryLoaded(l) \/ HistoryFailed(l)
       PROVE  RowsNext
  <2>1. UNCHANGED agentVars
    BY <1>11 DEF HistoryRead, HistoryLoaded, HistoryFailed
  <2> QED
    BY <1>2, <2>1 DEF agentVars
<1>12. CASE StopClicked
  <2>1. rows' = rows /\ at' \notin {"turn", "asking", "waiting", "calling"}
    BY <1>12 DEF StopClicked
  <2> QED
    BY <1>2, <2>1
<1>13. ASSUME NEW n \in Sends, PostMessage(n) PROVE RowsNext
  <2>1. rows' = rows /\ begun' = begun /\ (at' = at \/ at' = "starting")
    BY <1>13 DEF PostMessage
  <2> QED
    BY <1>2, <2>1
<1>14. CASE UNCHANGED vars
  BY <1>2, <1>14 DEF vars, agentVars
<1> QED
  BY <1>4, <1>5, <1>6, <1>7, <1>8, <1>9, <1>10, <1>11, <1>12, <1>13, <1>14
  DEF Next, Agent, Stream, Page

LEMMA StoredStep == ASSUME TypeInv, StoredInv, [Next]_vars PROVE StoredInv'
<1>0. said \in Nat /\ said' \in Nat /\ said <= said'
  BY QueueStep, TypeParts, Bounds DEF TypeInv, AgentTypes
<1>1. RowsNext
  BY RowsStep
<1>2. \A l \in DOMAIN loads' : StoredOK(loads'[l].rows, said')
  <2>1. StoredOK(<<>>, said')
    BY DEF StoredOK, InOrder
  <2>2. (\A j \in DOMAIN loads : StoredOK(loads[j].rows, said')) /\ StoredOK(rows, said')
    BY <1>0, StoredLater DEF StoredInv
  <2> QED
    BY <2>1, <2>2, LoadsStep
<1>3. (\A l \in DOMAIN loads : StoredOK(loads[l].rows, said))'
  BY <1>2 DEF StoredOK, InOrder
<1>4. StoredOK(rows, said)'
  BY <1>1 DEF RowsNext, StoredOK, InOrder
<1>5. (at \in {"turn", "asking", "waiting", "calling"} => SaidBefore(rows, begun))'
  BY <1>1 DEF RowsNext, SaidBefore
<1> QED
  BY <1>3, <1>4, <1>5 DEF StoredInv

-------------------------------------------------------------------------------
(* How a step changes what is shown *)

\* Messages without text are added, none is changed.
Grown(new, old) ==
  /\ new \in Seq(Message)
  /\ DOMAIN old \subseteq DOMAIN new
  /\ \A i \in DOMAIN new : IF i \in DOMAIN old THEN new[i] = old[i]
                           ELSE new[i].kind # "text" /\ new[i].text = <<>>

Untouched ==
  /\ UNCHANGED <<bubble, timer, got, cut, overlap>>
  /\ Grown(messages', messages)
  /\ \A s \in Streams : es'[s] # "closed" => es[s] # "closed"
Opened ==
  /\ \E closing : OpenStream(closing)
  /\ UNCHANGED <<timer, got, said>>
  /\ \/ Grown(messages', messages) /\ UNCHANGED cut
     \/ \E l \in DOMAIN loads : HistoryLoaded(l)
Ended(s) ==
  /\ es[s] = "open"
  /\ UNCHANGED <<es, got, cut, overlap, said>>
  /\ EndBubble(s)
  /\ Follows(messages', Flushed(s)) /\ NoBubbles(messages', Flushed(s))
Idled(s) ==
  /\ es[s] = "open"
  /\ UNCHANGED <<es, got, overlap, timer>>
  /\ bubble' = [bubble EXCEPT ![s].id = 0]
  /\ cut' = IF bubble[s].id = 0 THEN cut ELSE cut \cup Unrevealed(s)
  /\ Grown(messages', messages)

LEMMA GrownFacts ==
  ASSUME NEW msgs \in Seq(Message)
  PROVE  /\ Grown(msgs, msgs)
         /\ Grown(Append(msgs, Notice), msgs)
         /\ \A n \in Sends : Grown(Append(msgs, UserMessage(n)), msgs)
<1>1. Grown(msgs, msgs)
  BY DEF Grown
<1>2. ASSUME NEW m \in Message, m.kind # "text", m.text = <<>>
      PROVE  Grown(Append(msgs, m), msgs)
  <2> DEFINE new == Append(msgs, m)
  <2>1. /\ new \in Seq(Message) /\ Len(msgs) \in Nat
        /\ DOMAIN msgs = 1..Len(msgs) /\ DOMAIN new = 1..Len(msgs) + 1
        /\ \A i \in 1..Len(msgs) + 1 : new[i] = IF i \in 1..Len(msgs) THEN msgs[i] ELSE m
    BY AppendFacts
  <2> HIDE DEF new
  <2>2. DOMAIN msgs \subseteq DOMAIN new
    BY <2>1
  <2>3. Grown(new, msgs)
    BY <1>2, <2>1, <2>2 DEF Grown
  <2> QED
    BY <2>3 DEF new
<1>3. Notice.kind # "text" /\ Notice.text = <<>>
  BY DEF Notice
<1>4. \A n : UserMessage(n).kind # "text" /\ UserMessage(n).text = <<>>
  BY DEF UserMessage
<1>5. Grown(Append(msgs, Notice), msgs)
  BY <1>2, <1>3, MessageTypes
<1>6. \A n \in Sends : Grown(Append(msgs, UserMessage(n)), msgs)
  BY <1>2, <1>4, MessageTypes
<1> QED
  BY <1>1, <1>5, <1>6

LEMMA FollowsItself ==
  ASSUME NEW msgs \in Seq(Message) PROVE Follows(msgs, msgs) /\ NoBubbles(msgs, msgs)
  BY DEF Follows, NoBubbles

LEMMA ScreenSteps ==
  ASSUME TypeInv, [Next]_vars
  PROVE  \/ Untouched \/ Tick \/ Opened
         \/ \E s \in Streams : TextDelta(s) \/ Ended(s) \/ Idled(s)
<1>0. /\ messages \in Seq(Message) /\ sent \in Nat /\ MaxSends \in Nat
      /\ \A s \in Streams : events[s] \in Seq(Event)
  BY TypeParts, Bounds DEF TypeInv, TextTypes, ChatTypes, BusTypes
<1>1. Grown(messages, messages)
  BY <1>0, GrownFacts
<1>2. ASSUME UNCHANGED <<textVars, overlap>>,
             \A s \in Streams : es'[s] # "closed" => es[s] # "closed"
      PROVE  Untouched
  BY <1>1, <1>2 DEF textVars, Untouched
<1>3. CASE Agent
  <2>1. UNCHANGED <<textVars, overlap, es>>
    BY <1>3 DEF Agent, BeginTurn, Say, RequestTool, ApprovalStatus, ToolDone, SaveAnswer, FinishTurn,
                Failed, Stopped, AgentEnds, Publish, AgentOnly, busVars, chatVars
  <2> QED
    BY <1>2, <2>1
<1>4. ASSUME NEW s \in Streams, Deliver(s)
      PROVE  Untouched \/ TextDelta(s) \/ Ended(s) \/ Idled(s)
  <2> DEFINE c == Head(events[s]).n
  <2>0. /\ c \in Nat \/ Head(events[s]).type # "tool_call_requested"
        /\ Flushed(s) \in Seq(Message) /\ Follows(Flushed(s), Flushed(s))
        /\ NoBubbles(Flushed(s), Flushed(s))
    <3>1. Flushed(s) \in Seq(Message)
      BY FlushedFacts
    <3>2. Head(events[s]) \in Event
      <4>1. events[s] # <<>>
        BY <1>4 DEF Deliver, TextDelta, ToolCallRequested, StatusChange, ToolResult,
                    AgentCompletedOrFailed, AgentIdleOrStopped, Handle
      <4> QED
        BY <1>0, <4>1
    <3>3. c \in Nat \/ Head(events[s]).type # "tool_call_requested"
      BY <3>2 DEF Event
    <3> QED
      BY <3>1, <3>3, FollowsItself
  <2>1. CASE ToolCallRequested(s)
    <3>1. /\ es[s] = "open" /\ UNCHANGED <<es, got, cut, overlap, said>> /\ EndBubble(s)
          /\ messages' = IF HasCard(messages, c) THEN Flushed(s) ELSE WithCard(Flushed(s), c)
          /\ c \in Nat
      BY <2>0, <2>1 DEF ToolCallRequested, Handle, EndBubble, agentVars
    <3> HIDE DEF c
    <3>2. Follows(messages', Flushed(s)) /\ NoBubbles(messages', Flushed(s))
      BY <2>0, <3>1, CardAdded
    <3> QED
      BY <3>1, <3>2 DEF Ended
  <2>2. CASE ToolResult(s)
    <3>1. /\ es[s] = "open" /\ UNCHANGED <<es, got, cut, overlap, said>> /\ EndBubble(s)
          /\ messages' = Flushed(s)
      BY <2>2 DEF ToolResult, Handle, EndBubble, agentVars
    <3> QED
      BY <2>0, <3>1 DEF Ended
  <2>3. CASE AgentCompletedOrFailed(s)
    <3>1. /\ es[s] = "open" /\ UNCHANGED <<es, got, cut, overlap, said>> /\ EndBubble(s)
          /\ messages' = Append(Flushed(s), Notice)
      BY <2>3 DEF AgentCompletedOrFailed, Handle, EndBubble, agentVars
    <3>2. Follows(messages', Flushed(s)) /\ NoBubbles(messages', Flushed(s))
      BY <2>0, <3>1, NoticeAdded
    <3> QED
      BY <3>1, <3>2 DEF Ended
  <2>4. CASE AgentIdleOrStopped(s)
    <3>1. /\ es[s] = "open" /\ UNCHANGED <<es, got, overlap, timer>>
          /\ bubble' = [bubble EXCEPT ![s].id = 0]
          /\ cut' = IF bubble[s].id = 0 THEN cut ELSE cut \cup Unrevealed(s)
          /\ messages' = messages \/ messages' = Append(messages, Notice)
      BY <2>4 DEF AgentIdleOrStopped, Handle
    <3>2. Grown(messages', messages)
      BY <1>0, <3>1, GrownFacts
    <3> QED
      BY <3>1, <3>2 DEF Idled
  <2>5. CASE StatusChange(s)
    BY <1>1, <2>5 DEF StatusChange, Handle, Untouched
  <2> QED
    BY <1>4, <2>1, <2>2, <2>3, <2>4, <2>5 DEF Deliver
<1>5. ASSUME NEW s \in Streams, Subscribe(s) \/ Disconnect(s) \/ Rejected(s) PROVE Untouched
  <2>1. UNCHANGED <<textVars, overlap>>
    BY <1>5 DEF Subscribe, Disconnect, Rejected, chatVars
  <2>2. \A t \in Streams : es'[t] # "closed" => es[t] # "closed"
    BY <1>5, TypeParts DEF Subscribe, Disconnect, Rejected, TypeInv, BusTypes
  <2> QED
    BY <1>2, <2>1, <2>2
<1>6. CASE ChatOpened \/ ChatSelected \/ StopClicked \/ AbortAnswered
  <2>1. UNCHANGED <<textVars, overlap, es>>
    BY <1>6 DEF ChatOpened, ChatSelected, StopClicked, AbortAnswered, busVars, chatVars
  <2> QED
    BY <1>2, <2>1
<1>7. ASSUME NEW l \in DOMAIN loads, HistoryRead(l) PROVE Untouched
  <2>1. UNCHANGED <<textVars, overlap, es>>
    BY <1>7 DEF HistoryRead, busVars, chatVars
  <2> QED
    BY <1>2, <2>1
<1>8. ASSUME NEW l \in DOMAIN loads, HistoryLoaded(l) PROVE Opened
  BY <1>8 DEF HistoryLoaded, Opened, agentVars
<1>9. ASSUME NEW l \in DOMAIN loads, HistoryFailed(l) PROVE Opened
  BY <1>1, <1>9 DEF HistoryFailed, Opened, agentVars
<1>10. CASE MessageSent
  <2>1. Grown(messages', messages)
    <3>1. sent + 1 \in Sends
      BY <1>0, <1>10 DEF MessageSent, Sends
    <3>2. messages' = Append(messages, UserMessage(sent + 1))
      BY <1>10 DEF MessageSent
    <3> QED
      BY <1>0, <3>1, <3>2, GrownFacts
  <2>2. UNCHANGED <<timer, got, cut, said>>
    BY <1>10 DEF MessageSent, agentVars
  <2>3. (\E closing : OpenStream(closing)) \/ UNCHANGED <<es, bubble, overlap>>
    BY <1>10 DEF MessageSent, busVars
  <2> QED
    BY <2>1, <2>2, <2>3 DEF Untouched, Opened
<1>11. ASSUME NEW n \in Sends, PostMessage(n) PROVE Untouched
  <2>1. UNCHANGED <<textVars, overlap, es>>
    BY <1>11 DEF PostMessage, busVars, chatVars
  <2> QED
    BY <1>2, <2>1
<1>12. CASE UNCHANGED vars
  BY <1>2, <1>12 DEF vars, busVars, chatVars
<1> QED
  BY <1>3, <1>4, <1>5, <1>6, <1>7, <1>8, <1>9, <1>10, <1>11, <1>12 DEF Next, Stream, Page

-------------------------------------------------------------------------------
(* Bubbles *)

\* A step after which every text was said and every bubble was there before.
LEMMA BubblesStay ==
  ASSUME TypeInv, [Next]_vars, BubblesInv,
         \A i \in DOMAIN messages' : ToSet(messages'[i].text) \subseteq 1..said,
         \A i \in DOMAIN messages', s \in Streams, n \in Nat :
           IsBubble(messages'[i], s, n) => \E j \in DOMAIN messages : IsBubble(messages[j], s, n)
  PROVE  BubblesInv'
<1>1. said \in Nat /\ said' \in Nat /\ said <= said'
  BY QueueStep, TypeParts, Bounds DEF TypeInv, AgentTypes
<1>2. 1..said \subseteq 1..said'
  BY <1>1
<1>3. \A s \in Streams : \A x \in 0..said : After(x, events[s]) => After(x, events'[s])
  BY QueueStep
<1>4. ASSUME NEW i \in DOMAIN messages'
      PROVE  /\ ToSet(messages'[i].text) \subseteq 1..said'
             /\ \A s \in Streams, n \in Nat :
                  IsBubble(messages'[i], s, n) => n <= said' /\ After(n, events'[s])
  <2>1. ToSet(messages'[i].text) \subseteq 1..said'
    BY <1>2, <1>4
  <2>2. ASSUME NEW s \in Streams, NEW n \in Nat, IsBubble(messages'[i], s, n)
        PROVE  n <= said' /\ After(n, events'[s])
    <3>1. n <= said /\ After(n, events[s])
      BY <2>2 DEF BubblesInv
    <3> QED
      BY <1>1, <1>3, <3>1
  <2> QED
    BY <2>1, <2>2
<1> QED
  BY <1>4 DEF BubblesInv, IsBubble

\* What a bubble has was said, and so was what it shows.
LEMMA TargetSaid ==
  ASSUME TypeInv, NEW s \in Streams
  PROVE  ToSet(bubble[s].target) \subseteq 1..said
<1>1. bubble[s].target \in Seq(Text) /\ said \in Nat /\ MaxText \in Nat
  BY TypeParts, Bounds DEF TypeInv, TextTypes, AgentTypes, Bubble
<1>2. ToSet(bubble[s].target) \subseteq Text
  BY <1>1 DEF ToSet
<1>3. \A x \in ToSet(bubble[s].target) : x <= said
  BY DEF TypeInv, LineOK
<1> QED
  BY <1>1, <1>2, <1>3 DEF Text

LEMMA RevealedIsTarget ==
  ASSUME NEW b, b.target \in Seq(Text), b.revealed \in 0..Len(b.target)
  PROVE  /\ ToSet(Revealed(b)) \subseteq ToSet(b.target)
         /\ Increasing(b.target) => Increasing(Revealed(b))
         /\ \A i \in DOMAIN b.target :
              b.target[i] \in ToSet(Revealed(b)) \/ i \in (b.revealed + 1)..Len(b.target)
<1> DEFINE r == Revealed(b)
<1>1. /\ DOMAIN r = 1..b.revealed /\ b.revealed \in Nat
      /\ \A i \in 1..b.revealed : r[i] = b.target[i] /\ i \in DOMAIN b.target
      /\ DOMAIN b.target = 1..Len(b.target) /\ Len(b.target) \in Nat
  BY BubbleFacts
<1> HIDE DEF r
<1>2. ToSet(r) \subseteq ToSet(b.target)
  BY <1>1 DEF ToSet
<1>3. Increasing(b.target) => Increasing(r)
  BY <1>1 DEF Increasing
<1>4. ASSUME NEW i \in DOMAIN b.target, i \notin (b.revealed + 1)..Len(b.target)
      PROVE  b.target[i] \in ToSet(r)
  <2>1. i \in DOMAIN r /\ r[i] = b.target[i]
    BY <1>1, <1>4
  <2> QED
    BY <2>1 DEF ToSet
<1> QED
  BY <1>2, <1>3, <1>4 DEF r

LEMMA BubblesStep == ASSUME TypeInv, StoredInv, BubblesInv, [Next]_vars PROVE BubblesInv'
<1>0. /\ messages \in Seq(Message) /\ bubble \in [Streams -> Bubble] /\ said \in Nat
      /\ \A i \in DOMAIN messages : ToSet(messages[i].text) \subseteq 1..said
      /\ ToSet(<<>>) \subseteq 1..said
  BY TypeParts, Bounds, NoText DEF TypeInv, TextTypes, AgentTypes, BubblesInv
<1>1. ASSUME Grown(messages', messages) PROVE BubblesInv'
  <2>1. \A i \in DOMAIN messages' : ToSet(messages'[i].text) \subseteq 1..said
    BY <1>0, <1>1 DEF Grown
  <2>2. \A i \in DOMAIN messages', s \in Streams, n \in Nat :
          IsBubble(messages'[i], s, n) => \E j \in DOMAIN messages : IsBubble(messages[j], s, n)
    BY <1>1 DEF Grown, IsBubble
  <2> QED
    BY <2>1, <2>2, BubblesStay
<1>2. CASE Tick
  <2> DEFINE c == bubble'[timer]
  <2>1. /\ timer \in Streams /\ c.target = bubble[timer].target /\ c.target \in Seq(Text)
        /\ c.revealed \in 0..Len(c.target)
        /\ messages' = WithContent(messages, timer, c) /\ Revealed(c) \in Seq(Text)
    BY <1>2, Ticking DEF Bubble
  <2> HIDE DEF c
  <2>2. ToSet(Revealed(c)) \subseteq 1..said
    BY <2>1, RevealedIsTarget, TargetSaid
  <2>3. /\ DOMAIN messages' = DOMAIN messages
        /\ \A i \in DOMAIN messages :
             /\ messages'[i].kind = messages[i].kind /\ messages'[i].by = messages[i].by
             /\ messages'[i].id = messages[i].id
             /\ messages'[i].text = Revealed(c) \/ messages'[i].text = messages[i].text
    BY <1>0, <2>1, ContentSet
  <2>4. \A i \in DOMAIN messages' : ToSet(messages'[i].text) \subseteq 1..said
    BY <1>0, <2>2, <2>3
  <2>5. \A i \in DOMAIN messages', s \in Streams, n \in Nat :
          IsBubble(messages'[i], s, n) => \E j \in DOMAIN messages : IsBubble(messages[j], s, n)
    BY <2>3 DEF IsBubble
  <2> QED
    BY <2>4, <2>5, BubblesStay
<1>3. ASSUME NEW s \in Streams, Ended(s) PROVE BubblesInv'
  <2>1. /\ DOMAIN Flushed(s) = DOMAIN messages
        /\ \A i \in DOMAIN messages :
             /\ Flushed(s)[i].kind = messages[i].kind /\ Flushed(s)[i].by = messages[i].by
             /\ Flushed(s)[i].id = messages[i].id
             /\ ToSet(Flushed(s)[i].text) \subseteq 1..said
    BY <1>0, FlushedFacts, TargetSaid
  <2>2. Follows(messages', Flushed(s)) /\ NoBubbles(messages', Flushed(s))
    BY <1>3 DEF Ended
  <2>3. \A i \in DOMAIN messages' : ToSet(messages'[i].text) \subseteq 1..said
    BY <1>0, <2>1, <2>2 DEF Follows
  <2>4. \A i \in DOMAIN messages', t \in Streams, n \in Nat :
          IsBubble(messages'[i], t, n) => \E j \in DOMAIN messages : IsBubble(messages[j], t, n)
    BY <2>1, <2>2 DEF NoBubbles, IsBubble
  <2> QED
    BY <2>3, <2>4, BubblesStay
<1>4. ASSUME NEW s \in Streams, TextDelta(s) PROVE BubblesInv'
  <2> DEFINE n == Head(events[s]).n
             m == TextMessage(s, n, <<>>)
  <2>0. /\ UNCHANGED said /\ events' = [events EXCEPT ![s] = Tail(@)]
        /\ messages' = IF bubble[s].id = 0 THEN Append(messages, m) ELSE messages
    BY <1>4 DEF TextDelta, Handle, agentVars
  <2>1. n \in Text /\ n \in 1..said /\ After(n, Tail(events[s]))
    BY <1>4, HandedOver DEF TextDelta
  <2>2. events'[s] = Tail(events[s])
    BY <2>0, TypeParts DEF TypeInv, BusTypes
  <2>3. CASE bubble[s].id # 0
    <3>1. messages' = messages
      BY <2>0, <2>3
    <3> QED
      BY <1>0, <1>1, <3>1, GrownFacts
  <2>4. CASE bubble[s].id = 0
    <3>1. m \in Message /\ m.kind = "text" /\ m.by = s /\ m.id = n /\ m.text = <<>>
      <4>1. \A u, k, t : /\ TextMessage(u, k, t).kind = "text" /\ TextMessage(u, k, t).by = u
                         /\ TextMessage(u, k, t).id = k /\ TextMessage(u, k, t).text = t
        BY DEF TextMessage
      <4>2. <<>> \in Seq(Text) /\ n \in Nat
        BY <1>0, <2>1
      <4>3. m \in Message
        BY <4>2, MessageTypes
      <4> QED
        BY <4>1, <4>3
    <3>a. messages' = Append(messages, m)
      BY <2>0, <2>4
    <3> HIDE DEF m, n
    <3>2. /\ Len(messages) \in Nat
          /\ DOMAIN messages = 1..Len(messages) /\ DOMAIN messages' = 1..Len(messages) + 1
          /\ \A i \in 1..Len(messages) + 1 :
               messages'[i] = IF i \in 1..Len(messages) THEN messages[i] ELSE m
      BY <1>0, <3>1, <3>a, AppendFacts
    <3>3. \A i \in DOMAIN messages' : (i \in DOMAIN messages /\ messages'[i] = messages[i])
                                        \/ messages'[i] = m
      BY <3>2
    <3>4. \A t \in Streams : \A x \in 0..said : After(x, events[t]) => After(x, events'[t])
      BY QueueStep
    <3>5. ASSUME NEW i \in DOMAIN messages'
          PROVE  /\ ToSet(messages'[i].text) \subseteq 1..said'
                 /\ \A t \in Streams, k \in Nat :
                      IsBubble(messages'[i], t, k) => k <= said' /\ After(k, events'[t])
      <4>1. CASE messages'[i] = m
        BY <1>0, <2>0, <2>1, <2>2, <3>1, <4>1 DEF IsBubble
      <4>2. CASE i \in DOMAIN messages /\ messages'[i] = messages[i]
        <5>1. \A t \in Streams, k \in Nat :
                IsBubble(messages'[i], t, k) => k <= said /\ After(k, events[t])
          BY <4>2 DEF BubblesInv
        <5> QED
          BY <1>0, <2>0, <3>4, <4>2, <5>1
      <4> QED
        BY <3>3, <4>1, <4>2
    <3> QED
      BY <3>5 DEF BubblesInv, IsBubble
  <2> QED
    BY <2>3, <2>4
<1>5. CASE Opened
  <2>1. ASSUME NEW l \in DOMAIN loads, HistoryLoaded(l) PROVE BubblesInv'
    <3>1. messages' = HistoryToMessages(loads[l])
      BY <2>1 DEF HistoryLoaded
    <3>2. StoredOK(messages', said)
      BY <3>1, LoadTypes, HistoryInOrder DEF StoredInv
    <3>3. \A i \in DOMAIN messages', s \in Streams : messages'[i].by # s
      BY <3>2, NoStreamIsNoStream DEF StoredOK
    <3> QED
      BY <3>2, <3>3, BubblesStay DEF StoredOK, IsBubble
  <2> QED
    BY <1>1, <1>5, <2>1 DEF Opened
<1>6. CASE Untouched
  BY <1>1, <1>6 DEF Untouched
<1>7. ASSUME NEW s \in Streams, Idled(s) PROVE BubblesInv'
  BY <1>1, <1>7 DEF Idled
<1> QED
  BY <1>2, <1>3, <1>4, <1>5, <1>6, <1>7, ScreenSteps

-------------------------------------------------------------------------------
(* One stream at a time *)

StreamNext == ~overlap' => ChatOK(es', events', bubble', timer', messages', got', cut')

LEMMA NextStreamInv == StreamNext => StreamInv'
  BY DEF StreamNext, StreamInv

LEMMA RestIsUnrevealed == \A s : Unrevealed(s) = Rest(bubble[s])
  BY DEF Unrevealed, Rest

\* What was shown or written to the bubble is earlier than what comes.
LEMMA StaysLater ==
  ASSUME TypeInv, BubblesInv, [Next]_vars, NEW s \in Streams, NEW x,
         \/ x \in TextIn(messages) /\ After(x, events[s])
         \/ x \in ToSet(bubble[s].target)
  PROVE  After(x, events'[s])
<1>1. \A y \in 0..said : After(y, events[s]) => After(y, events'[s])
  BY QueueStep
<1>2. said \in Nat
  BY TypeParts, Bounds DEF TypeInv, AgentTypes
<1>3. TextIn(messages) \subseteq 1..said
  BY DEF BubblesInv, TextIn
<1>4. ToSet(bubble[s].target) \subseteq 1..said /\ \A y \in ToSet(bubble[s].target) : After(y, events[s])
  BY TargetSaid DEF TypeInv, LineOK
<1>5. x \in 1..said /\ After(x, events[s])
  BY <1>3, <1>4
<1> QED
  BY <1>1, <1>2, <1>5

LEMMA TextOfGrown ==
  ASSUME NEW new, NEW old \in Seq(Message), Grown(new, old)
  PROVE  /\ TextIn(new) = TextIn(old)
         /\ InOrder(old) => InOrder(new)
         /\ \A i \in DOMAIN new, j \in DOMAIN old : i \notin DOMAIN old => i > j
<1>1. ASSUME NEW i \in DOMAIN new
      PROVE  IF i \in DOMAIN old THEN new[i] = old[i] ELSE new[i].text = <<>>
  <2>1. IF i \in DOMAIN old THEN new[i] = old[i]
        ELSE new[i].kind # "text" /\ new[i].text = <<>>
    BY DEF Grown
  <2> QED
    BY <2>1
<1>2. \A i \in DOMAIN old : i \in DOMAIN new /\ new[i] = old[i]
  BY DEF Grown
<1>3. TextIn(new) = TextIn(old)
  <2>1. \A i \in DOMAIN new : new[i].text = <<>> \/ (i \in DOMAIN old /\ new[i] = old[i])
    BY <1>1
  <2> QED
    BY <1>2, <2>1, NoText DEF TextIn
<1>4. new \in Seq(Message) /\ DOMAIN new = 1..Len(new) /\ DOMAIN old = 1..Len(old)
      /\ Len(new) \in Nat /\ Len(old) \in Nat
  BY DEF Grown
<1>5. InOrder(old) => InOrder(new)
  <2> SUFFICES ASSUME InOrder(old) PROVE InOrder(new)
    OBVIOUS
  <2>1. \A i \in DOMAIN new : Increasing(new[i].text)
    BY <1>1, NoText DEF InOrder
  <2>2. \A i, j \in DOMAIN new : i < j => Precedes(new[i].text, new[j].text)
    BY <1>1, NoText DEF InOrder
  <2> QED
    BY <2>1, <2>2 DEF InOrder
<1>6. \A i \in DOMAIN new, j \in DOMAIN old : i \notin DOMAIN old => i > j
  BY <1>4
<1> QED
  BY <1>3, <1>5, <1>6

\* A bubble stays shown when messages without text come after it.
LEMMA ShownGrown ==
  ASSUME NEW new, NEW old \in Seq(Message), Grown(new, old), NEW s, NEW b, NEW clock,
         Shown(s, b, clock, old)
  PROVE  Shown(s, b, clock, new)
<1>1. PICK i \in DOMAIN old :
        /\ old[i].text = Revealed(b)
        /\ \A j \in DOMAIN old : IsBubble(old[j], s, b.id) <=> j = i
        /\ \A j \in DOMAIN old : j > i => old[j].text = <<>>
        /\ \A j \in DOMAIN old : j < i => Precedes(old[j].text, b.target)
  BY DEF Shown
<1>2. /\ i \in DOMAIN new
      /\ \A j \in DOMAIN new : \/ j \in DOMAIN old /\ new[j] = old[j]
                               \/ j \notin DOMAIN old /\ new[j].kind # "text" /\ new[j].text = <<>>
  BY DEF Grown
<1>3. \A j \in DOMAIN new : j \notin DOMAIN old => ~(j < i) /\ j # i /\ ~IsBubble(new[j], s, b.id)
  BY <1>2, TextOfGrown DEF IsBubble, Grown
<1> QED
  BY <1>1, <1>2, <1>3 DEF Shown, Grown

LEMMA UntouchedStep ==
  ASSUME TypeInv, BubblesInv, StreamInv, [Next]_vars, Untouched
  PROVE  StreamNext
<1> SUFFICES ASSUME ~overlap, ChatOK(es, events, bubble, timer, messages, got, cut)
             PROVE  ChatOK(es', events', bubble, timer, messages', got, cut)
  BY DEF StreamNext, StreamInv, Untouched
<1>0. messages \in Seq(Message) /\ Grown(messages', messages)
  BY TypeParts DEF TypeInv, TextTypes, Untouched
<1>1. \A s \in Streams : Writes(s, es'[s], timer) => Writes(s, es[s], timer)
  BY DEF Untouched, Writes
<1>2. TextIn(messages') = TextIn(messages) /\ InOrder(messages')
  BY <1>0, TextOfGrown DEF ChatOK
<1>3. ASSUME NEW s \in Streams, Writes(s, es'[s], timer)
      PROVE  StreamOK(s, bubble[s], events'[s], timer, messages', cut)
  <2>1. StreamOK(s, bubble[s], events[s], timer, messages, cut)
    BY <1>1, <1>3 DEF ChatOK
  <2>2. \A x \in TextIn(messages') : After(x, events'[s])
    BY <1>2, <2>1, StaysLater DEF StreamOK
  <2> QED
    BY <1>0, <2>1, <2>2, ShownGrown DEF StreamOK
<1>4. AllKept(messages', bubble, timer, got, cut)
  BY <1>2 DEF ChatOK, AllKept
<1> QED
  BY <1>1, <1>2, <1>3, <1>4 DEF ChatOK

LEMMA IdledStep ==
  ASSUME TypeInv, BubblesInv, StreamInv, [Next]_vars, NEW s \in Streams, Idled(s)
  PROVE  StreamNext
<1> SUFFICES ASSUME ~overlap, ChatOK(es, events, bubble, timer, messages, got, cut)
             PROVE  ChatOK(es, events', bubble', timer, messages', got, cut')
  BY DEF StreamNext, StreamInv, Idled
<1>0. messages \in Seq(Message) /\ Grown(messages', messages) /\ bubble \in [Streams -> Bubble]
      /\ timer \in Streams \cup {NoStream}
  BY TypeParts DEF TypeInv, TextTypes, Idled
<1>1. Writes(s, es[s], timer) /\ \A t \in Streams : Writes(t, es[t], timer) => t = s
  BY DEF Idled, Writes, ChatOK
<1>2. TextIn(messages') = TextIn(messages) /\ InOrder(messages')
  BY <1>0, TextOfGrown DEF ChatOK
<1>3. StreamOK(s, bubble[s], events[s], timer, messages, cut)
  BY <1>1 DEF ChatOK
<1>4. bubble'[s].id = 0 /\ Rest(bubble'[s]) = Rest(bubble[s])
  <2>1. bubble'[s] = [bubble[s] EXCEPT !.id = 0]
    BY <1>0 DEF Idled
  <2>2. bubble'[s].id = 0 /\ bubble'[s].target = bubble[s].target /\ bubble'[s].revealed = bubble[s].revealed
    BY <1>0, <2>1 DEF Bubble
  <2> QED
    BY <2>2 DEF Rest
<1>5. cut \subseteq cut' /\ (timer = s => Rest(bubble[s]) \subseteq cut')
  BY <1>3, RestIsUnrevealed DEF Idled, StreamOK
<1>6. \A x \in TextIn(messages') : After(x, events'[s])
  BY <1>2, <1>3, StaysLater DEF StreamOK
<1>7. StreamOK(s, bubble'[s], events'[s], timer, messages', cut')
  BY <1>4, <1>5, <1>6 DEF StreamOK
<1>8. AllKept(messages', bubble', timer, got, cut')
  <2>1. timer # NoStream => timer = s
    BY <1>0, <1>1 DEF Writes
  <2> QED
    BY <1>2, <1>4, <1>5, <2>1 DEF ChatOK, AllKept
<1> QED
  BY <1>1, <1>2, <1>7, <1>8 DEF ChatOK

\* A stream that is opened alone finds no bubble, no timer and nothing under way.
LEMMA OpenedStep ==
  ASSUME TypeInv, StoredInv, BubblesInv, StreamInv, [Next]_vars, Opened
  PROVE  StreamNext
<1> SUFFICES ASSUME ~overlap' PROVE ChatOK(es', events', bubble', timer', messages', got', cut')
  BY DEF StreamNext
<1>1. PICK closing : OpenStream(closing)
  BY DEF Opened
<1>2. ~overlap /\ timer = NoStream /\ timer' = NoStream /\ got' = got
      /\ {t \in Streams \ {closing} : es[t] # "closed"} = {}
  BY <1>1 DEF OpenStream, Opened
<1>3. PICK s \in Streams :
        /\ es' = [t \in Streams |-> IF t = s THEN "connecting" ELSE "closed"]
        /\ events' = [t \in Streams |-> <<>>]
        /\ bubble' = [bubble EXCEPT ![s] = NoBubble]
  <2> DEFINE left == {t \in Streams \ {closing} : es[t] # "closed"}
             free == Streams \ (left \cup {timer})
             s == CHOOSE t \in free : TRUE
  <2>1. free # {} /\ left = {}
    BY <1>1, <1>2 DEF OpenStream
  <2>2. s \in Streams
    BY <2>1
  <2>3. /\ es' = [t \in Streams |-> IF t = s THEN "connecting"
                                    ELSE IF t \in left THEN es[t] ELSE "closed"]
        /\ events' = [t \in Streams |-> IF t \in left THEN events[t] ELSE <<>>]
        /\ bubble' = [bubble EXCEPT ![s] = NoBubble]
    BY <1>1 DEF OpenStream
  <2> HIDE DEF s, free
  <2> QED
    BY <2>1, <2>2, <2>3
<1>0. /\ messages \in Seq(Message) /\ bubble \in [Streams -> Bubble]
      /\ \A t \in Streams : t # NoStream
  BY TypeParts, NoStreamIsNoStream DEF TypeInv, TextTypes
<1>4. \A t \in Streams : Writes(t, es'[t], timer') => t = s
  BY <1>0, <1>2, <1>3 DEF Writes
<1>5. StreamOK(s, bubble'[s], events'[s], timer', messages', cut')
  <2>1. bubble'[s].id = 0 /\ events'[s] = <<>> /\ timer' # s
    BY <1>0, <1>2, <1>3, NoBubbleType
  <2> QED
    BY <2>1, EmptyQueue DEF StreamOK
<1>6. CASE Grown(messages', messages) /\ cut' = cut
  <2>1. TextIn(messages') = TextIn(messages) /\ InOrder(messages')
    BY <1>0, <1>2, <1>6, TextOfGrown DEF StreamInv, ChatOK
  <2>2. AllKept(messages', bubble', timer', got', cut')
    BY <1>2, <1>6, <2>1 DEF StreamInv, ChatOK, AllKept
  <2> QED
    BY <1>4, <1>5, <2>1, <2>2 DEF ChatOK
<1>7. ASSUME NEW l \in DOMAIN loads, HistoryLoaded(l)
      PROVE  ChatOK(es', events', bubble', timer', messages', got', cut')
  <2>1. messages' = HistoryToMessages(loads[l]) /\ cut' = cut \cup (got \ TextIn(messages'))
    BY <1>7 DEF HistoryLoaded
  <2>2. InOrder(messages')
    BY <2>1, LoadTypes, HistoryInOrder DEF StoredInv, StoredOK
  <2>3. AllKept(messages', bubble', timer', got', cut')
    BY <1>2, <2>1 DEF AllKept
  <2> QED
    BY <1>4, <1>5, <2>2, <2>3 DEF ChatOK
<1> QED
  BY <1>6, <1>7 DEF Opened

\* The text of one message becomes the whole or a beginning of its stream's bubble.
LEMMA TextWritten ==
  ASSUME NEW new, NEW old, DOMAIN new = DOMAIN old, InOrder(old),
         NEW i \in DOMAIN old, NEW target, NEW text,
         \A j \in DOMAIN old : /\ j \in Nat
                               /\ new[j].text = IF j = i THEN text ELSE old[j].text
                               /\ j > i => old[j].text = <<>>
                               /\ j < i => Precedes(old[j].text, target),
         Increasing(text), ToSet(text) \subseteq ToSet(target), ToSet(old[i].text) \subseteq ToSet(text)
  PROVE  InOrder(new) /\ TextIn(new) = TextIn(old) \cup ToSet(text)
<1>1. \A j \in DOMAIN new : Increasing(new[j].text)
  BY DEF InOrder
<1>2. ASSUME NEW j \in DOMAIN new, NEW k \in DOMAIN new, j < k
      PROVE  Precedes(new[j].text, new[k].text)
  <2>1. CASE k = i
    <3>1. new[k].text = text /\ new[j].text = old[j].text /\ Precedes(old[j].text, target)
      BY <1>2, <2>1
    <3> QED
      BY <3>1 DEF Precedes
  <2>2. CASE k > i
    <3>1. new[k].text = <<>>
      BY <1>2, <2>2
    <3> QED
      BY <3>1, NoText
  <2>3. CASE k < i
    <3>1. new[k].text = old[k].text /\ new[j].text = old[j].text
      BY <1>2, <2>3
    <3> QED
      BY <1>2, <3>1 DEF InOrder
  <2> QED
    BY <2>1, <2>2, <2>3
<1>3. \A x \in TextIn(old) : x \in ToSet(text) \/ x \in TextIn(new)
  <2>1. ASSUME NEW j \in DOMAIN old, NEW x \in ToSet(old[j].text)
        PROVE  x \in ToSet(text) \/ x \in TextIn(new)
    <3>1. CASE j = i
      BY <2>1, <3>1
    <3>2. CASE j # i
      <4>1. new[j].text = old[j].text
        BY <3>2
      <4> QED
        BY <2>1, <4>1 DEF TextIn
    <3> QED
      BY <3>1, <3>2
  <2> QED
    BY <2>1 DEF TextIn
<1>4. ToSet(text) \subseteq TextIn(new)
  <2>1. new[i].text = text
    OBVIOUS
  <2> QED
    BY <2>1 DEF TextIn
<1>5. \A x \in TextIn(new) : x \in ToSet(text) \/ x \in TextIn(old)
  <2>1. \A j \in DOMAIN new : new[j].text = text \/ new[j].text = old[j].text
    OBVIOUS
  <2> QED
    BY <2>1 DEF TextIn
<1> QED
  BY <1>1, <1>2, <1>3, <1>4, <1>5 DEF InOrder

\* Stretching what is revealed.
LEMMA RevealedGrows ==
  ASSUME NEW b, NEW c, b.target = c.target, b.target \in Seq(Text),
         b.revealed \in 0..Len(b.target), c.revealed \in 0..Len(b.target),
         b.revealed <= c.revealed
  PROVE  /\ ToSet(Revealed(b)) \subseteq ToSet(Revealed(c))
         /\ Rest(b) \subseteq ToSet(Revealed(c)) \cup Rest(c)
         /\ Rest(c) \subseteq Rest(b)
         /\ c.revealed = Len(c.target) => Rest(c) = {}
<1>1. /\ DOMAIN Revealed(b) = 1..b.revealed /\ DOMAIN Revealed(c) = 1..c.revealed
      /\ \A i \in 1..b.revealed : Revealed(b)[i] = b.target[i]
      /\ \A i \in 1..c.revealed : Revealed(c)[i] = b.target[i]
      /\ b.revealed \in Nat /\ c.revealed \in Nat /\ Len(b.target) \in Nat
  BY BubbleFacts
<1>2. \A i \in 1..b.revealed : i \in 1..c.revealed
  BY <1>1
<1>3. ToSet(Revealed(b)) \subseteq ToSet(Revealed(c))
  BY <1>1, <1>2 DEF ToSet
<1>4. \A i \in (b.revealed + 1)..Len(b.target) :
        i \in 1..c.revealed \/ i \in (c.revealed + 1)..Len(c.target)
  BY <1>1
<1>5. \A i \in 1..c.revealed : b.target[i] \in ToSet(Revealed(c))
  BY <1>1 DEF ToSet
<1>6. Rest(b) \subseteq ToSet(Revealed(c)) \cup Rest(c)
  BY <1>4, <1>5 DEF Rest
<1>7. \A i \in (c.revealed + 1)..Len(c.target) : i \in (b.revealed + 1)..Len(b.target)
  BY <1>1
<1>8. Rest(c) \subseteq Rest(b)
  BY <1>7 DEF Rest
<1>9. c.revealed = Len(c.target) => Rest(c) = {}
  BY <1>1 DEF Rest
<1> QED
  BY <1>3, <1>6, <1>8, <1>9

LEMMA TextOfFollowing ==
  ASSUME NEW new, NEW old, Follows(new, old)
  PROVE  TextIn(new) = TextIn(old) /\ (InOrder(old) => InOrder(new))
<1>1. /\ \A i \in DOMAIN old : i \in DOMAIN new /\ new[i].text = old[i].text
      /\ \A i \in DOMAIN new : new[i].text = <<>> \/ (i \in DOMAIN old /\ new[i].text = old[i].text)
  BY DEF Follows
<1>2. TextIn(new) = TextIn(old)
  BY <1>1, NoText DEF TextIn
<1>3. InOrder(old) => InOrder(new)
  <2> SUFFICES ASSUME InOrder(old) PROVE InOrder(new)
    OBVIOUS
  <2>1. \A i \in DOMAIN new : Increasing(new[i].text)
    BY <1>1, NoText DEF InOrder
  <2>2. \A i, j \in DOMAIN new : i < j => Precedes(new[i].text, new[j].text)
    BY <1>1, NoText DEF InOrder
  <2> QED
    BY <2>1, <2>2 DEF InOrder
<1> QED
  BY <1>2, <1>3

\* A bubble and its stream, as their types and lines say.
LEMMA BubbleTypes ==
  ASSUME TypeInv, NEW s \in Streams
  PROVE  /\ bubble[s].target \in Seq(Text) /\ bubble[s].revealed \in 0..Len(bubble[s].target)
         /\ bubble[s].revealed \in Nat /\ Len(bubble[s].target) \in Nat
         /\ Increasing(bubble[s].target) /\ bubble[s].id \in Nat
         /\ Rest(bubble[s]) \subseteq ToSet(bubble[s].target)
<1>1. /\ bubble[s].target \in Seq(Text) /\ bubble[s].revealed \in 0..MaxText /\ MaxText \in Nat
      /\ bubble[s].revealed <= Len(bubble[s].target) /\ Increasing(bubble[s].target)
      /\ bubble[s].id \in Text \cup {0}
  BY TypeParts, Bounds DEF TypeInv, TextTypes, LineOK, Bubble
<1>2. bubble[s].id \in Nat
  BY <1>1 DEF Text
<1>3. \A i \in (bubble[s].revealed + 1)..Len(bubble[s].target) : i \in DOMAIN bubble[s].target
  BY <1>1
<1>4. Rest(bubble[s]) \subseteq ToSet(bubble[s].target)
  BY <1>3 DEF Rest, ToSet
<1> QED
  BY <1>1, <1>2, <1>4

\* Who writes is alone, and the timer runs for nobody else.
LEMMA Alone ==
  ASSUME TypeInv, StreamInv, ~overlap, NEW s \in Streams, Writes(s, es[s], timer)
  PROVE  /\ timer \in {NoStream, s} /\ s # NoStream
         /\ \A t \in Streams : Writes(t, es[t], timer) => t = s
         /\ StreamOK(s, bubble[s], events[s], timer, messages, cut)
         /\ InOrder(messages)
         /\ got \ cut \subseteq TextIn(messages) \cup IF timer = s THEN Rest(bubble[s]) ELSE {}
<1>1. timer \in Streams \cup {NoStream} /\ s # NoStream
  BY TypeParts, NoStreamIsNoStream DEF TypeInv, TextTypes
<1>2. ChatOK(es, events, bubble, timer, messages, got, cut)
  BY DEF StreamInv
<1>3. \A t \in Streams : Writes(t, es[t], timer) => t = s
  BY <1>2 DEF ChatOK
<1>4. timer \in {NoStream, s}
  BY <1>1, <1>3 DEF Writes
<1>5. StreamOK(s, bubble[s], events[s], timer, messages, cut) /\ InOrder(messages)
  BY <1>2 DEF ChatOK
<1>6. got \ cut \subseteq TextIn(messages) \cup IF timer = s THEN Rest(bubble[s]) ELSE {}
  BY <1>1, <1>2, <1>4 DEF ChatOK, AllKept
<1> QED
  BY <1>1, <1>3, <1>4, <1>5, <1>6

\* A bubble that is flushed is on the screen in full, and all is still in order.
LEMMA Flushing ==
  ASSUME TypeInv, NEW s \in Streams, InOrder(messages), bubble[s].id # 0,
         Shown(s, bubble[s], timer, messages)
  PROVE  /\ InOrder(Flushed(s))
         /\ TextIn(Flushed(s)) = TextIn(messages) \cup ToSet(bubble[s].target)
<1> DEFINE b == bubble[s]
<1>0. messages \in Seq(Message) /\ \A j \in DOMAIN messages : j \in Nat
  BY TypeParts DEF TypeInv, TextTypes
<1>1. PICK i \in DOMAIN messages :
        /\ messages[i].text = Revealed(b)
        /\ \A j \in DOMAIN messages : IsBubble(messages[j], s, b.id) <=> j = i
        /\ \A j \in DOMAIN messages : j > i => messages[j].text = <<>>
        /\ \A j \in DOMAIN messages : j < i => Precedes(messages[j].text, b.target)
  BY DEF Shown
<1>2. ToSet(messages[i].text) \subseteq ToSet(b.target) /\ Increasing(b.target)
  BY <1>1, BubbleTypes, RevealedIsTarget
<1>3. /\ DOMAIN Flushed(s) = DOMAIN messages
      /\ \A j \in DOMAIN messages :
           Flushed(s)[j].text = IF j = i THEN b.target ELSE messages[j].text
  BY <1>1, FlushedFacts
<1> HIDE DEF b
<1> QED
  <2>1. InOrder(Flushed(s)) /\ TextIn(Flushed(s)) = TextIn(messages) \cup ToSet(b.target)
    <3>1. \A j \in DOMAIN messages :
            /\ j \in Nat
            /\ Flushed(s)[j].text = IF j = i THEN b.target ELSE messages[j].text
            /\ j > i => messages[j].text = <<>>
            /\ j < i => Precedes(messages[j].text, b.target)
      BY <1>0, <1>1, <1>3
    <3>2. ToSet(b.target) \subseteq ToSet(b.target)
      OBVIOUS
    <3> DEFINE new == Flushed(s)
    <3>3. DOMAIN new = DOMAIN messages
      BY <1>3
    <3> HIDE DEF new
    <3> QED
      BY <1>2, <1>3, <3>1, <3>2, <3>3, TextWritten DEF new
  <2> QED
    BY <2>1 DEF b

\* A bubble that ends is on the screen in full.
LEMMA EndedStep ==
  ASSUME TypeInv, BubblesInv, StreamInv, [Next]_vars, NEW s \in Streams, Ended(s)
  PROVE  StreamNext
<1> SUFFICES ASSUME ~overlap
             PROVE  ChatOK(es, events', bubble', timer', messages', got, cut)
  BY DEF StreamNext, Ended
<1>0. /\ timer' = NoStream /\ bubble' = [bubble EXCEPT ![s] = NoBubble]
      /\ bubble \in [Streams -> Bubble] /\ Follows(messages', Flushed(s))
      /\ Writes(s, es[s], timer)
  BY TypeParts DEF TypeInv, TextTypes, Ended, EndBubble, Writes
<1>1. /\ \A t \in Streams : Writes(t, es[t], timer) => t = s
      /\ StreamOK(s, bubble[s], events[s], timer, messages, cut)
      /\ InOrder(messages)
      /\ got \ cut \subseteq TextIn(messages) \cup IF timer = s THEN Rest(bubble[s]) ELSE {}
  BY <1>0, Alone
<1>2. \A t \in Streams : Writes(t, es[t], timer') => t = s
  BY <1>0, <1>1, NoStreamIsNoStream DEF Writes
<1>3. /\ InOrder(messages')
      /\ TextIn(messages) \subseteq TextIn(messages')
      /\ TextIn(messages') \subseteq TextIn(messages) \cup ToSet(bubble[s].target)
      /\ got \ cut \subseteq TextIn(messages')
  <2>1. TextIn(messages') = TextIn(Flushed(s)) /\ (InOrder(Flushed(s)) => InOrder(messages'))
    BY <1>0, TextOfFollowing
  <2>2. CASE bubble[s].id = 0
    <3>1. /\ DOMAIN Flushed(s) = DOMAIN messages
          /\ \A j \in DOMAIN messages : Flushed(s)[j].text = messages[j].text
      BY <2>2, FlushedFacts
    <3>2. InOrder(Flushed(s)) /\ TextIn(Flushed(s)) = TextIn(messages)
      BY <1>1, <3>1 DEF InOrder, TextIn
    <3>3. timer = s => Rest(bubble[s]) \subseteq cut
      BY <1>1, <2>2 DEF StreamOK
    <3>4. got \ cut \subseteq TextIn(messages)
      BY <1>1, <3>3
    <3> QED
      BY <2>1, <3>2, <3>4
  <2>3. CASE bubble[s].id # 0
    <3>1. Shown(s, bubble[s], timer, messages)
      BY <1>1, <2>3 DEF StreamOK
    <3>2. InOrder(Flushed(s)) /\ TextIn(Flushed(s)) = TextIn(messages) \cup ToSet(bubble[s].target)
      BY <1>1, <2>3, <3>1, Flushing
    <3>3. Rest(bubble[s]) \subseteq ToSet(bubble[s].target)
      BY BubbleTypes
    <3> QED
      BY <1>1, <2>1, <3>2, <3>3
  <2> QED
    BY <2>2, <2>3
<1>4. StreamOK(s, bubble'[s], events'[s], timer', messages', cut)
  <2>1. bubble'[s].id = 0 /\ timer' # s
    BY <1>0, NoBubbleType, NoStreamIsNoStream
  <2>2. \A x \in TextIn(messages') : After(x, events'[s])
    BY <1>1, <1>3, StaysLater DEF StreamOK
  <2> QED
    BY <2>1, <2>2 DEF StreamOK
<1>5. AllKept(messages', bubble', timer', got, cut)
  BY <1>0, <1>3 DEF AllKept
<1> QED
  BY <1>2, <1>3, <1>4, <1>5 DEF ChatOK

\* A tick moves text from the bubble to the screen.
LEMMA TickStep ==
  ASSUME TypeInv, BubblesInv, StreamInv, [Next]_vars, Tick
  PROVE  StreamNext
<1> SUFFICES ASSUME ~overlap
             PROVE  ChatOK(es', events', bubble', timer', messages', got', cut')
  BY DEF StreamNext, Tick, chatVars
<1> DEFINE s == timer
           b == bubble[s]
           c == bubble'[s]
<1>0. /\ messages \in Seq(Message) /\ \A j \in DOMAIN messages : j \in Nat
      /\ UNCHANGED <<es, events, got, cut>>
  BY TypeParts DEF TypeInv, TextTypes, Tick, busVars
<1>1. /\ s \in Streams /\ c.id = b.id /\ c.target = b.target
      /\ b.revealed <= c.revealed /\ c.revealed \in 0..Len(c.target)
      /\ messages' = WithContent(messages, s, c) /\ Revealed(c) \in Seq(Text)
      /\ timer' = IF c.revealed = Len(c.target) THEN NoStream ELSE s
  BY Ticking
<1>2. /\ b.target \in Seq(Text) /\ b.revealed \in 0..Len(b.target) /\ Increasing(b.target)
      /\ Rest(b) \subseteq ToSet(b.target)
  BY <1>1, BubbleTypes
<1>3. /\ \A t \in Streams : Writes(t, es[t], timer) => t = s
      /\ StreamOK(s, b, events[s], s, messages, cut)
      /\ InOrder(messages) /\ s # NoStream
      /\ got \ cut \subseteq TextIn(messages) \cup Rest(b)
  BY <1>1, Alone DEF Writes
<1>4. /\ ToSet(Revealed(b)) \subseteq ToSet(Revealed(c))
      /\ Rest(b) \subseteq ToSet(Revealed(c)) \cup Rest(c)
      /\ Rest(c) \subseteq Rest(b)
      /\ c.revealed = Len(c.target) => Rest(c) = {}
  BY <1>1, <1>2, RevealedGrows
<1>5. Increasing(Revealed(c)) /\ ToSet(Revealed(c)) \subseteq ToSet(c.target)
  BY <1>1, <1>2, RevealedIsTarget
<1>6. /\ DOMAIN messages' = DOMAIN messages
      /\ \A j \in DOMAIN messages :
           /\ messages'[j].kind = messages[j].kind /\ messages'[j].by = messages[j].by
           /\ messages'[j].id = messages[j].id
           /\ messages'[j].text = IF c.id # 0 /\ IsBubble(messages[j], s, c.id)
                                  THEN Revealed(c) ELSE messages[j].text
  BY <1>0, <1>1, ContentSet
<1>a. c.revealed \in Nat /\ Len(c.target) \in Nat
  BY <1>1, <1>2
<1>b. \A t \in Streams : Writes(t, es'[t], timer') => t = s
  BY <1>0, <1>1, <1>3, NoStreamIsNoStream DEF Writes
<1>c. bubble'[s] = c /\ bubble[s] = b
  OBVIOUS
<1>d. timer' # NoStream => timer' = s /\ bubble'[timer'] = c
  BY <1>1
<1> HIDE DEF b, c
<1>7. CASE b.id = 0
  <2>1. \A j \in DOMAIN messages : messages'[j].text = messages[j].text
    BY <1>1, <1>6, <1>7
  <2>2. InOrder(messages') /\ TextIn(messages') = TextIn(messages)
    BY <1>3, <1>6, <2>1 DEF InOrder, TextIn
  <2>3. Rest(b) \subseteq cut /\ \A x \in TextIn(messages) : After(x, events[s])
    BY <1>3, <1>7 DEF StreamOK
  <2>4. \A x \in TextIn(messages') : After(x, events'[s])
    BY <1>1, <2>2, <2>3, StaysLater
  <2>5. StreamOK(s, bubble'[s], events'[s], timer', messages', cut')
    BY <1>0, <1>1, <1>4, <1>7, <1>c, <2>3, <2>4 DEF StreamOK
  <2>6. AllKept(messages', bubble', timer', got', cut')
    BY <1>0, <1>3, <2>2, <2>3 DEF AllKept
  <2> QED
    BY <1>b, <2>2, <2>5, <2>6 DEF ChatOK
<1>8. CASE b.id # 0
  <2>0. Shown(s, b, s, messages) /\ \A x \in TextIn(messages) : After(x, events[s])
    BY <1>3, <1>8 DEF StreamOK
  <2>1. PICK i \in DOMAIN messages :
          /\ messages[i].text = Revealed(b)
          /\ \A j \in DOMAIN messages : IsBubble(messages[j], s, b.id) <=> j = i
          /\ \A j \in DOMAIN messages : j > i => messages[j].text = <<>>
          /\ \A j \in DOMAIN messages : j < i => Precedes(messages[j].text, b.target)
    BY <2>0 DEF Shown
  <2>2. \A j \in DOMAIN messages :
          messages'[j].text = IF j = i THEN Revealed(c) ELSE messages[j].text
    BY <1>1, <1>6, <1>8, <2>1
  <2>3. InOrder(messages') /\ TextIn(messages') = TextIn(messages) \cup ToSet(Revealed(c))
    <3>1. ToSet(messages[i].text) \subseteq ToSet(Revealed(c))
      BY <1>4, <2>1
    <3>2. \A j \in DOMAIN messages :
            /\ j \in Nat
            /\ messages'[j].text = IF j = i THEN Revealed(c) ELSE messages[j].text
            /\ j > i => messages[j].text = <<>>
            /\ j < i => Precedes(messages[j].text, b.target)
      BY <1>0, <2>1, <2>2
    <3>3. /\ DOMAIN messages' = DOMAIN messages /\ InOrder(messages) /\ Increasing(Revealed(c))
          /\ ToSet(Revealed(c)) \subseteq ToSet(b.target)
      BY <1>1, <1>3, <1>5, <1>6
    <3> QED
      BY <3>1, <3>2, <3>3, TextWritten
  <2>4. \A x \in TextIn(messages') : After(x, events'[s])
    BY <1>1, <1>5, <1>c, <2>0, <2>3, StaysLater
  <2>5. Shown(s, c, timer', messages')
    <3>1. c.revealed < Len(c.target) => timer' = s
      BY <1>1, <1>a
    <3>2. \A j \in DOMAIN messages' : IsBubble(messages'[j], s, c.id) <=> j = i
      BY <1>1, <1>6, <2>1 DEF IsBubble
    <3>3. \A j \in DOMAIN messages' : j > i => messages'[j].text = <<>>
      BY <1>0, <1>6, <2>1, <2>2
    <3>4. \A j \in DOMAIN messages' : j < i => Precedes(messages'[j].text, c.target)
      BY <1>0, <1>1, <1>6, <2>1, <2>2
    <3> QED
      BY <1>6, <2>2, <3>1, <3>2, <3>3, <3>4 DEF Shown
  <2>6. StreamOK(s, bubble'[s], events'[s], timer', messages', cut')
    BY <1>1, <1>8, <1>c, <2>4, <2>5 DEF StreamOK
  <2>7. AllKept(messages', bubble', timer', got', cut')
    <3>1. got \ cut \subseteq TextIn(messages') \cup Rest(c)
      BY <1>3, <1>4, <2>3
    <3>2. timer' = NoStream => Rest(c) = {}
      BY <1>1, <1>3, <1>4
    <3> QED
      BY <1>0, <1>d, <3>1, <3>2 DEF AllKept
  <2> QED
    BY <1>b, <2>3, <2>6, <2>7 DEF ChatOK
<1> QED
  BY <1>7, <1>8

\* Text that joins a bubble is not revealed yet, and what is revealed stays.
LEMMA Joined ==
  ASSUME NEW b, NEW c, NEW n \in Text, b.target \in Seq(Text),
         b.revealed \in 0..Len(b.target),
         c.target = Append(b.target, n), c.revealed = b.revealed
  PROVE  /\ Revealed(c) = Revealed(b)
         /\ Rest(b) \cup {n} \subseteq Rest(c)
         /\ ToSet(c.target) \subseteq ToSet(b.target) \cup {n}
<1>1. /\ c.target \in Seq(Text) /\ Len(b.target) \in Nat /\ Len(c.target) = Len(b.target) + 1
      /\ DOMAIN b.target = 1..Len(b.target) /\ DOMAIN c.target = 1..Len(b.target) + 1
      /\ \A i \in 1..Len(b.target) + 1 :
           c.target[i] = IF i \in 1..Len(b.target) THEN b.target[i] ELSE n
  BY AppendFacts
<1>2. c.revealed \in 0..Len(c.target) /\ b.revealed \in Nat /\ c.revealed = b.revealed
  BY <1>1
<1>3. Revealed(c) = Revealed(b)
  <2>1. /\ Revealed(b) \in Seq(Text) /\ Len(Revealed(b)) = b.revealed
        /\ \A i \in 1..b.revealed : Revealed(b)[i] = b.target[i]
    BY BubbleFacts
  <2>2. /\ Revealed(c) \in Seq(Text) /\ Len(Revealed(c)) = b.revealed
        /\ \A i \in 1..b.revealed : Revealed(c)[i] = c.target[i]
    BY <1>1, <1>2, BubbleFacts
  <2>3. \A i \in 1..b.revealed : i \in 1..Len(b.target) /\ i \in 1..Len(b.target) + 1
    BY <1>1, <1>2
  <2>4. \A i \in 1..b.revealed : Revealed(c)[i] = Revealed(b)[i]
    BY <1>1, <2>1, <2>2, <2>3
  <2> QED
    BY <2>1, <2>2, <2>4
<1>4. n \in Rest(c)
  <2>1. Len(b.target) + 1 \in (c.revealed + 1)..Len(c.target) /\ c.target[Len(b.target) + 1] = n
    BY <1>1, <1>2
  <2> QED
    BY <2>1 DEF Rest
<1>5. Rest(b) \subseteq Rest(c)
  <2>1. \A i \in (b.revealed + 1)..Len(b.target) :
          i \in (c.revealed + 1)..Len(c.target) /\ c.target[i] = b.target[i]
    BY <1>1, <1>2
  <2> QED
    BY <2>1 DEF Rest
<1>6. ToSet(c.target) \subseteq ToSet(b.target) \cup {n}
  <2>1. \A i \in DOMAIN c.target : c.target[i] = n \/ (i \in DOMAIN b.target /\ c.target[i] = b.target[i])
    BY <1>1
  <2> QED
    BY <2>1 DEF ToSet
<1> QED
  BY <1>3, <1>4, <1>5, <1>6

LEMMA TextDeltaStep ==
  ASSUME TypeInv, BubblesInv, StreamInv, [Next]_vars, NEW s \in Streams, TextDelta(s)
  PROVE  StreamNext
<1> SUFFICES ASSUME ~overlap
             PROVE  ChatOK(es', events', bubble', timer', messages', got', cut')
  BY DEF StreamNext, TextDelta, Handle
<1> DEFINE n == Head(events[s]).n
           b == bubble[s]
           c == bubble'[s]
           m == TextMessage(s, n, <<>>)
<1>0. /\ messages \in Seq(Message) /\ said \in Nat
      /\ es[s] = "open" /\ es' = es /\ cut' = cut /\ got' = got \cup {n}
      /\ messages' = IF b.id = 0 THEN Append(messages, m) ELSE messages
      /\ timer' = IF timer = NoStream THEN s ELSE timer
  BY TypeParts, Bounds DEF TypeInv, TextTypes, AgentTypes, TextDelta, Handle
<1>1. /\ timer' = s /\ s # NoStream
      /\ \A t \in Streams : Writes(t, es[t], timer) => t = s
      /\ StreamOK(s, b, events[s], timer, messages, cut)
      /\ InOrder(messages)
      /\ got \ cut \subseteq TextIn(messages) \cup IF timer = s THEN Rest(b) ELSE {}
  <2>1. Writes(s, es[s], timer)
    BY <1>0 DEF Writes
  <2> QED
    BY <1>0, <2>1, Alone
<1>2. \A t \in Streams : Writes(t, es'[t], timer') => t = s
  BY <1>0, <1>1 DEF Writes
<1>3. n \in Text /\ n \in Nat /\ \A x \in Nat : After(x, events[s]) => x < n
  BY HandedOver DEF TextDelta, Text
<1>4. IF b.id = 0 THEN c.id = n /\ c.target = <<n>> /\ c.revealed = 0
      ELSE c.id = b.id /\ c.target = Append(b.target, n) /\ c.revealed = b.revealed
  BY Handing
<1>5. \A x \in TextIn(messages) : x \in Nat /\ x < n /\ After(x, events[s])
  <2>1. \A x \in TextIn(messages) : x \in 1..said
    BY DEF BubblesInv, TextIn
  <2>2. \A x \in TextIn(messages) : After(x, events[s])
    BY <1>1 DEF StreamOK
  <2> QED
    BY <1>0, <1>3, <2>1, <2>2
<1>6. \A i \in DOMAIN messages : ToSet(messages[i].text) \subseteq TextIn(messages)
  BY DEF TextIn
<1>7. bubble'[s] = c
  OBVIOUS
<1>a. m \in Message /\ m.kind = "text" /\ m.by = s /\ m.id = n /\ m.text = <<>>
  <2>1. \A u, k, t : /\ TextMessage(u, k, t).kind = "text" /\ TextMessage(u, k, t).by = u
                     /\ TextMessage(u, k, t).id = k /\ TextMessage(u, k, t).text = t
    BY DEF TextMessage
  <2>2. <<>> \in Seq(Text)
    OBVIOUS
  <2>3. m \in Message
    BY <1>3, <2>2, MessageTypes
  <2> QED
    BY <2>1, <2>3
<1>b. b.target \in Seq(Text) /\ b.revealed \in 0..Len(b.target)
  BY BubbleTypes
<1>c. \A i \in DOMAIN messages : ~IsBubble(messages[i], s, n)
  BY <1>3 DEF BubblesInv
<1> HIDE DEF b, c, m, n
<1>8. CASE b.id = 0
  <2>1. messages' = Append(messages, m) /\ c.id = n /\ c.target = <<n>> /\ c.revealed = 0
    BY <1>0, <1>4, <1>8
  <2>2. /\ Len(messages) \in Nat
        /\ DOMAIN messages = 1..Len(messages) /\ DOMAIN messages' = 1..Len(messages) + 1
        /\ \A i \in 1..Len(messages) + 1 :
             messages'[i] = IF i \in 1..Len(messages) THEN messages[i] ELSE m
    BY <1>0, <1>a, <2>1, AppendFacts
  <2>3. /\ \A i \in DOMAIN messages : i \in DOMAIN messages' /\ messages'[i] = messages[i]
        /\ \A i \in DOMAIN messages' : (i \in DOMAIN messages /\ messages'[i] = messages[i])
                                       \/ (messages'[i] = m /\ i = Len(messages) + 1)
        /\ Len(messages) + 1 \in DOMAIN messages' /\ messages'[Len(messages) + 1] = m
    BY <2>2
  <2>4. TextIn(messages') = TextIn(messages)
    BY <1>a, <2>3, NoText DEF TextIn
  <2>5. InOrder(messages')
    <3>1. \A i \in DOMAIN messages' : Increasing(messages'[i].text)
      BY <1>1, <1>a, <2>3, NoText DEF InOrder
    <3>2. \A i, j \in DOMAIN messages' : i < j => Precedes(messages'[i].text, messages'[j].text)
      BY <1>1, <1>a, <2>3, NoText DEF InOrder
    <3> QED
      BY <3>1, <3>2 DEF InOrder
  <2>6. /\ Revealed(c) = <<>> /\ Rest(c) = {n} /\ ToSet(c.target) = {n}
        /\ c.revealed < Len(c.target)
    <3>1. <<n>> \in Seq(Text) /\ Len(<<n>>) = 1 /\ <<n>>[1] = n /\ DOMAIN <<n>> = 1..1
      BY <1>3
    <3>2. Revealed(c) \in Seq(Text) /\ Len(Revealed(c)) = 0
      <4>1. c.target \in Seq(Text) /\ c.revealed \in 0..Len(c.target) /\ c.revealed = 0
        BY <2>1, <3>1
      <4> QED
        BY <4>1, BubbleFacts
    <3>3. Revealed(c) = <<>>
      BY <3>2
    <3>4. (c.revealed + 1)..Len(c.target) = 1..1 /\ c.target[1] = n /\ DOMAIN c.target = 1..1
          /\ 1..1 = {1}
      BY <2>1, <3>1
    <3>5. Rest(c) = {n} /\ ToSet(c.target) = {n}
      BY <3>4 DEF Rest, ToSet
    <3> QED
      BY <2>1, <3>1, <3>3, <3>5
  <2>7. Shown(s, c, timer', messages')
    <3> DEFINE i == Len(messages) + 1
    <3>1. i \in DOMAIN messages' /\ messages'[i].text = Revealed(c)
      BY <1>a, <2>3, <2>6
    <3>2. \A j \in DOMAIN messages' : IsBubble(messages'[j], s, c.id) <=> j = i
      <4>1. IsBubble(m, s, n)
        BY <1>a DEF IsBubble
      <4>2. i \notin DOMAIN messages
        BY <2>2
      <4> QED
        BY <1>c, <2>1, <2>3, <4>1, <4>2
    <3>3. \A j \in DOMAIN messages' : ~(j > i)
      BY <2>2
    <3>4. \A j \in DOMAIN messages' : j < i => Precedes(messages'[j].text, c.target)
      <4>1. \A j \in DOMAIN messages' : j < i => j \in DOMAIN messages /\ messages'[j] = messages[j]
        BY <2>2
      <4> QED
        BY <1>5, <1>6, <2>6, <4>1 DEF Precedes
    <3> HIDE DEF i
    <3> QED
      BY <1>1, <3>1, <3>2, <3>3, <3>4 DEF Shown
  <2>8. \A x \in TextIn(messages') : After(x, events'[s])
    BY <1>5, <2>4, StaysLater
  <2>9. StreamOK(s, bubble'[s], events'[s], timer', messages', cut')
    BY <1>3, <1>7, <2>1, <2>7, <2>8 DEF StreamOK, Text
  <2>10. AllKept(messages', bubble', timer', got', cut')
    <3>1. timer = s => Rest(b) \subseteq cut
      BY <1>1, <1>8 DEF StreamOK
    <3>2. got \ cut \subseteq TextIn(messages)
      BY <1>1, <3>1
    <3> QED
      BY <1>0, <1>1, <1>7, <2>4, <2>6, <3>2 DEF AllKept
  <2> QED
    BY <1>2, <2>5, <2>9, <2>10 DEF ChatOK
<1>9. CASE b.id # 0
  <2>1. messages' = messages /\ c.id = b.id /\ c.target = Append(b.target, n)
        /\ c.revealed = b.revealed
    BY <1>0, <1>4, <1>9
  <2>2. /\ Revealed(c) = Revealed(b)
        /\ Rest(b) \cup {n} \subseteq Rest(c)
        /\ ToSet(c.target) \subseteq ToSet(b.target) \cup {n}
    BY <1>3, <1>b, <2>1, Joined
  <2>3. PICK i \in DOMAIN messages :
          /\ messages[i].text = Revealed(b)
          /\ \A j \in DOMAIN messages : IsBubble(messages[j], s, b.id) <=> j = i
          /\ \A j \in DOMAIN messages : j > i => messages[j].text = <<>>
          /\ \A j \in DOMAIN messages : j < i => Precedes(messages[j].text, b.target)
    BY <1>1, <1>9 DEF StreamOK, Shown
  <2>4. \A j \in DOMAIN messages : j < i => Precedes(messages[j].text, c.target)
    BY <1>5, <1>6, <2>2, <2>3 DEF Precedes
  <2>5. Shown(s, c, timer', messages')
    BY <1>1, <2>1, <2>2, <2>3, <2>4 DEF Shown
  <2>6. \A x \in TextIn(messages') : After(x, events'[s])
    BY <1>5, <2>1, StaysLater
  <2>7. StreamOK(s, bubble'[s], events'[s], timer', messages', cut')
    BY <1>7, <1>9, <2>1, <2>5, <2>6 DEF StreamOK
  <2>8. AllKept(messages', bubble', timer', got', cut')
    BY <1>0, <1>1, <1>7, <2>1, <2>2 DEF AllKept
  <2> QED
    BY <1>1, <1>2, <2>1, <2>7, <2>8 DEF ChatOK
<1> QED
  BY <1>8, <1>9

-------------------------------------------------------------------------------
(* The transcript *)

IInv == TypeInv /\ StoredInv /\ BubblesInv /\ StreamInv

LEMMA TranscriptInductive == IInv /\ [Next]_vars => IInv'
<1> SUFFICES ASSUME IInv, [Next]_vars PROVE IInv'
  OBVIOUS
<1>1. TypeInv /\ StoredInv /\ BubblesInv /\ StreamInv
  BY DEF IInv
<1>2. TypeInv' /\ StoredInv' /\ BubblesInv'
  BY <1>1, TypeStep, StoredStep, BubblesStep
<1>3. StreamNext
  BY <1>1, ScreenSteps, UntouchedStep, TickStep, OpenedStep, TextDeltaStep, EndedStep, IdledStep
<1> QED
  BY <1>2, <1>3, NextStreamInv DEF IInv

LEMMA InitTranscript == Init => IInv
<1> SUFFICES ASSUME Init PROVE IInv
  OBVIOUS
<1>1. /\ rows = <<>> /\ messages = <<>> /\ loads = <<>> /\ timer = NoStream /\ got = {}
      /\ at = "starting" /\ \A s \in Streams : es[s] = "closed"
  BY DEF Init
<1>2. InOrder(<<>>) /\ TextIn(<<>>) = {} /\ \A n : StoredOK(<<>>, n)
  BY DEF InOrder, TextIn, StoredOK
<1>3. StoredInv
  BY <1>1, <1>2 DEF StoredInv
<1>4. BubblesInv
  BY <1>1 DEF BubblesInv
<1>5. \A s \in Streams : ~Writes(s, es[s], timer)
  BY <1>1, NoStreamIsNoStream DEF Writes
<1>6. StreamInv
  BY <1>1, <1>2, <1>5 DEF StreamInv, ChatOK, AllKept
<1> QED
  BY <1>3, <1>4, <1>6, InitTypes DEF IInv

\* While one stream at a time writes to a chat, all text its listeners were handed is
\* in the transcript or comes with the timer, unless a stop or a history gave it up.
THEOREM TextStays == Spec => []TextIsKept
<1>1. IInv => TextIsKept
  BY RestIsUnrevealed DEF IInv, StreamInv, ChatOK, AllKept, TextIsKept
<1> QED
  BY <1>1, InitTranscript, TranscriptInductive, PTL DEF Spec

\* ... and it is there once, in the order in which the agent said it.
THEOREM TextInOrder == Spec => []TranscriptInOrder
<1>1. IInv => TranscriptInOrder
  BY DEF IInv, StreamInv, ChatOK, TranscriptInOrder
<1> QED
  BY <1>1, InitTranscript, TranscriptInductive, PTL DEF Spec
===============================================================================
