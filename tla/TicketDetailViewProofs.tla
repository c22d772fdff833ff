------------------------ MODULE TicketDetailViewProofs ------------------------
(***************************************************************************)
(* Proofs about TicketDetailView, for any number of calls, views, streams  *)
(* and loads and any budget: its type invariant, that a view shows a tool  *)
(* call once, that what it shows as executed has its result stored, that   *)
(* its input is offered when the chat takes messages, and that each card   *)
(* tells the state of its call.                                            *)
(***************************************************************************)
EXTENDS TicketDetailView, TLAPS

(* The type invariant in parts *)

AgentTypes ==
  /\ status \in Statuses
  /\ at \in {"starting", "turn", "asking", "waiting", "executing", "declined", "idle",
             "stopping", "stopped", "failing", "failed", "over"}
  /\ tool \in Calls \cup {NoCall}
  /\ row \in [Calls -> {"none", "pending", "approved", "rejected", "executed"}]
  /\ auto \subseteq Calls
  /\ decision \in {"none", "approved", "rejected"}
  /\ saved \in Seq(Calls)
  /\ inbox \in BOOLEAN

BusTypes ==
  /\ es \in [Streams -> {"closed", "connecting", "open"}]
  /\ owner \in [Streams -> Views \cup {NoView}]
  /\ events \in [Streams -> Seq(Event)]

ViewRecord == [at : {"new", "open", "closed"}, status : Statuses,
               cards : Seq(Card), stream : Streams \cup {NoStream}]
ViewTypes == view \in [Views -> ViewRecord]

PageTypes ==
  /\ open \in Views \cup {NoView}
  /\ active \in BOOLEAN
  /\ listed \in Statuses

LoadRecord == [at : {"none", "sent", "read"}, view : Views \cup {NoView},
               live : BOOLEAN, rows : Seq(Calls)]
LoadTypes == load \in [Loads -> LoadRecord]

PatchRecord == [at : {"none", "sent", "committed", "resolved", "refused"},
                view : Views \cup {NoView}, answer : {"approved", "rejected"}]
RequestTypes ==
  /\ patch \in [Calls -> PatchRecord]
  /\ post \in [at : {"none", "sent"}, view : Views \cup {NoView}]
  /\ abort \in [at : {"none", "sent", "accepted", "refused"}, view : Views \cup {NoView}]

SpentTypes == spent \in 0..Budget
About == Calls \cup {"status", "end"}
MissedTypes == missed \in [Views -> SUBSET About]

LEMMA TypeParts ==
  TypeOK <=> /\ AgentTypes /\ BusTypes /\ ViewTypes /\ PageTypes
             /\ LoadTypes /\ RequestTypes /\ SpentTypes /\ MissedTypes
BY DEF TypeOK, AgentTypes, BusTypes, ViewRecord, ViewTypes, PageTypes, LoadRecord, LoadTypes,
       PatchRecord, RequestTypes, SpentTypes, About, MissedTypes

\* What an event is about: a call or the status.
LEMMA SubjectIs ==
  ASSUME NEW ev \in Event
  PROVE  Subject(ev) \in Calls \cup {"status"} /\ Subject(ev) # "end"
<1>1. CASE ev \in [type : {"tool_call_requested"}, call : Calls, auto : BOOLEAN]
  BY <1>1, StatusIsNoCall DEF Subject
<1>2. CASE ev \in [type : {"tool_call_approved", "tool_call_rejected", "tool_result"}, call : Calls]
  BY <1>2, StatusIsNoCall DEF Subject
<1>3. CASE ev \in [type : {"status_change"}, status : Statuses]
  BY <1>3 DEF Subject
<1>4. CASE ev \in [type : {"agent_completed", "agent_idle", "agent_stopped", "agent_failed"}]
  BY <1>4 DEF Subject
<1> QED
  BY <1>1, <1>2, <1>3, <1>4 DEF Event

LEMMA SubjectsAre == ASSUME NEW evs \in Seq(Event) PROVE Subjects(evs) \subseteq About
<1>1. \A i \in DOMAIN evs : evs[i] \in Event
  OBVIOUS
<1> QED
  BY <1>1, SubjectIs DEF Subjects, About

LEMMA PublishTypes ==
  ASSUME BusTypes, MissedTypes, NEW evs \in Seq(Event), Publish(evs)
  PROVE  BusTypes' /\ MissedTypes'
<1>1. BusTypes'
  BY DEF BusTypes, Publish
<1>2. Subjects(evs) \in SUBSET About
  BY SubjectsAre
<1>3. MissedTypes'
  BY <1>2 DEF MissedTypes, Publish
<1> QED
  BY <1>1, <1>3

-------------------------------------------------------------------------------
(* The invariant *)

Stored == {saved[k] : k \in DOMAIN saved}
Distinct(q) == \A i, j \in DOMAIN q : q[i] = q[j] => i = j

\* A result is stored once: the tool that is being executed has none yet.
ToolInv ==
  /\ Distinct(saved)
  /\ \A c \in Stored : row[c] # "none"
  /\ at \in {"asking", "waiting", "executing", "declined"} =>
       tool \in Calls /\ row[tool] # "none" /\ tool \notin Stored

\* A history is a part of what is stored, an announced result is stored.
LoadInv ==
  \A l \in Loads : /\ Distinct(load[l].rows)
                   /\ \A i \in DOMAIN load[l].rows : load[l].rows[i] \in Stored
EventInv ==
  \A e \in Streams : \A i \in DOMAIN events[e] :
    events[e][i].type = "tool_result" => events[e][i].call \in Stored

\* The two properties, for the cards of one view.
CardsInv(cards) ==
  /\ \A i, j \in DOMAIN cards : cards[i].call = cards[j].call => i = j
  /\ \A i \in DOMAIN cards : cards[i].status = "executed" => cards[i].call \in Stored
ViewInv == \A v \in Views : CardsInv(view[v].cards)

Types == /\ AgentTypes /\ BusTypes /\ ViewTypes /\ PageTypes
         /\ LoadTypes /\ RequestTypes /\ SpentTypes /\ MissedTypes
Inv == ToolInv /\ LoadInv /\ EventInv /\ ViewInv
IInv == Types /\ Inv

LEMMA ViewInvIs == ViewInv <=> OneCardPerCall /\ ExecutedIsStored
BY DEF ViewInv, CardsInv, OneCardPerCall, ExecutedIsStored, Stored

\* Whatever is stored stays stored; so do the invariants of what has not changed.
LEMMA EventsKept ==
  ASSUME EventInv, Stored \subseteq Stored', events' = events
  PROVE  EventInv'
BY DEF EventInv

LEMMA LoadsKept ==
  ASSUME LoadInv, Stored \subseteq Stored', load' = load
  PROVE  LoadInv'
BY DEF LoadInv, Distinct

LEMMA ViewsKept ==
  ASSUME ViewInv, Stored \subseteq Stored', view' = view
  PROVE  ViewInv'
BY DEF ViewInv, CardsInv

LEMMA ToolKept ==
  ASSUME ToolInv, UNCHANGED agentVars
  PROVE  ToolInv' /\ Stored' = Stored
BY DEF ToolInv, Stored, Distinct, agentVars

LEMMA EventsPublished ==
  ASSUME BusTypes, EventInv, Stored \subseteq Stored', NEW evs \in Seq(Event), Publish(evs),
         \A i \in DOMAIN evs : evs[i].type = "tool_result" => evs[i].call \in Stored'
  PROVE  EventInv'
<1> SUFFICES ASSUME NEW e \in Streams, NEW i \in DOMAIN events'[e],
                    events'[e][i].type = "tool_result"
             PROVE  events'[e][i].call \in Stored'
  BY DEF EventInv
<1>1. events[e] \in Seq(Event)
  BY DEF BusTypes
<1>2. CASE es[e] # "open"
  <2>1. events'[e] = events[e]
    BY <1>2 DEF Publish
  <2> QED
    BY <2>1 DEF EventInv
<1>3. CASE es[e] = "open"
  <2>1. events'[e] = events[e] \o evs
    BY <1>3 DEF Publish
  <2>2. CASE i \in DOMAIN events[e]
    <3>1. events'[e][i] = events[e][i]
      BY <1>1, <2>1, <2>2
    <3> QED
      BY <2>2, <3>1 DEF EventInv
  <2>3. CASE i \notin DOMAIN events[e]
    <3>1. i - Len(events[e]) \in DOMAIN evs /\ events'[e][i] = evs[i - Len(events[e])]
      BY <1>1, <2>1, <2>3
    <3> QED
      BY <3>1
  <2> QED
    BY <2>2, <2>3
<1> QED
  BY <1>2, <1>3

-------------------------------------------------------------------------------
(* Cards *)

LEMMA UpdatedCards ==
  ASSUME NEW cards \in Seq(Card), CardsInv(cards), NEW c \in Calls, NEW s \in CardStatuses,
         s = "executed" => c \in Stored
  PROVE  Updated(cards, c, s) \in Seq(Card) /\ CardsInv(Updated(cards, c, s))
<1> DEFINE new == Updated(cards, c, s)
<1>1. new \in Seq(Card)
  BY DEF Updated, Card
<1>2. /\ DOMAIN new = DOMAIN cards
      /\ \A i \in DOMAIN cards : new[i].call = cards[i].call
      /\ \A i \in DOMAIN cards : new[i].status = cards[i].status
                                   \/ (new[i].status = s /\ new[i].call = c)
  BY DEF Updated, Card
<1>3. CardsInv(new)
  BY <1>2 DEF CardsInv
<1> QED
  BY <1>1, <1>3

LEMMA AddedCard ==
  ASSUME NEW cards \in Seq(Card), CardsInv(cards), NEW c \in Calls, ~Has(cards, c),
         NEW s \in CardStatuses \ {"executed"}
  PROVE  LET new == Append(cards, [call |-> c, status |-> s])
         IN new \in Seq(Card) /\ CardsInv(new)
<1> DEFINE new == Append(cards, [call |-> c, status |-> s])
<1>1. new \in Seq(Card)
  BY DEF Card
<1>2. /\ DOMAIN new = DOMAIN cards \cup {Len(cards) + 1}
      /\ \A i \in DOMAIN cards : new[i] = cards[i] /\ i # Len(cards) + 1
      /\ new[Len(cards) + 1] = [call |-> c, status |-> s]
  OBVIOUS
<1>3. \A i \in DOMAIN cards : cards[i].call # c
  BY DEF Has
<1>4. CardsInv(new)
  <2> HIDE DEF new
  <2>1. \A i, j \in DOMAIN new : new[i].call = new[j].call => i = j
    BY <1>2, <1>3 DEF CardsInv
  <2>2. \A i \in DOMAIN new : new[i].status = "executed" => new[i].call \in Stored
    BY <1>2 DEF CardsInv
  <2> QED
    BY <2>1, <2>2 DEF CardsInv
<1> QED
  BY <1>1, <1>4

LEMMA CardsAfterEvent ==
  ASSUME NEW cards \in Seq(Card), CardsInv(cards), NEW ev \in Event,
         ev.type = "tool_result" => ev.call \in Stored
  PROVE  CardsAfter(cards, ev) \in Seq(Card) /\ CardsInv(CardsAfter(cards, ev))
<1>1. CASE ev.type = "tool_call_requested"
  <2>1. ev.call \in Calls /\ ev.auto \in BOOLEAN
    BY <1>1 DEF Event
  <2>2. CASE Has(cards, ev.call)
    BY <1>1, <2>2 DEF CardsAfter
  <2>3. CASE ~Has(cards, ev.call)
    <3> DEFINE s == IF ev.auto THEN "auto_approved" ELSE "pending"
    <3>1. s \in CardStatuses \ {"executed"}
      BY DEF CardStatuses
    <3>2. CardsAfter(cards, ev) = Append(cards, [call |-> ev.call, status |-> s])
      BY <1>1, <2>3 DEF CardsAfter
    <3> HIDE DEF s
    <3> QED
      BY <2>1, <2>3, <3>1, <3>2, AddedCard
  <2> QED
    BY <2>2, <2>3
<1>2. CASE ev.type = "tool_call_approved"
  <2>1. ev.call \in Calls /\ CardsAfter(cards, ev) = Updated(cards, ev.call, "approved")
    BY <1>2 DEF Event, CardsAfter
  <2> QED
    BY <2>1, UpdatedCards DEF CardStatuses
<1>3. CASE ev.type = "tool_call_rejected"
  <2>1. ev.call \in Calls /\ CardsAfter(cards, ev) = Updated(cards, ev.call, "rejected")
    BY <1>3 DEF Event, CardsAfter
  <2> QED
    BY <2>1, UpdatedCards DEF CardStatuses
<1>4. CASE ev.type = "tool_result"
  <2>1. ev.call \in Calls /\ CardsAfter(cards, ev) = Updated(cards, ev.call, "executed")
    BY <1>4 DEF Event, CardsAfter
  <2> QED
    BY <1>4, <2>1, UpdatedCards DEF CardStatuses
<1>5. CASE ev.type \notin {"tool_call_requested", "tool_call_approved", "tool_call_rejected",
                           "tool_result"}
  BY <1>5 DEF CardsAfter
<1> QED
  BY <1>1, <1>2, <1>3, <1>4, <1>5

-------------------------------------------------------------------------------
(* Initially *)

LEMMA Initially == Init => IInv
<1> SUFFICES ASSUME Init PROVE IInv
  OBVIOUS
<1>a. <<>> \in Seq(Calls)
  OBVIOUS
<1> USE DEF Init
<1>1. AgentTypes
  <2>1. status \in Statuses /\ inbox \in BOOLEAN
    BY DEF Statuses
  <2>2. saved \in Seq(Calls)
    BY <1>a
  <2>3. tool \in Calls \cup {NoCall} /\ auto \subseteq Calls
    OBVIOUS
  <2>4. row \in [Calls -> {"none", "pending", "approved", "rejected", "executed"}]
    OBVIOUS
  <2> QED
    BY <2>1, <2>2, <2>3, <2>4 DEF AgentTypes
<1>2. BusTypes /\ ViewTypes
  <2>1. BusTypes
    BY DEF BusTypes
  <2>2. [at |-> "new", status |-> "running", cards |-> <<>>, stream |-> NoStream] \in ViewRecord
    BY DEF ViewRecord, Statuses
  <2>3. ViewTypes
    BY <2>2 DEF ViewTypes
  <2> QED
    BY <2>1, <2>3
<1>3. PageTypes /\ SpentTypes /\ MissedTypes
  <2>1. PageTypes
    BY DEF PageTypes, Statuses
  <2>2. SpentTypes
    BY BudgetIsNumber DEF SpentTypes
  <2>3. MissedTypes
    BY DEF MissedTypes
  <2> QED
    BY <2>1, <2>2, <2>3
<1>4. LoadTypes /\ RequestTypes
  <2>1. NoLoad \in LoadRecord
    BY <1>a DEF LoadRecord, NoLoad
  <2>2. LoadTypes
    BY <2>1 DEF LoadTypes
  <2>3. NoPatch \in PatchRecord
    BY DEF PatchRecord, NoPatch
  <2>4. patch \in [Calls -> PatchRecord]
    BY <2>3
  <2> QED
    BY <2>2, <2>4 DEF RequestTypes, NoRequest
<1>5. ToolInv /\ LoadInv
  <2>1. DOMAIN saved = {} /\ Stored = {}
    BY DEF Stored
  <2>2. \A l \in Loads : DOMAIN load[l].rows = {}
    BY DEF NoLoad
  <2>3. ToolInv
    BY <2>1 DEF ToolInv, Distinct
  <2> QED
    BY <2>2, <2>3 DEF LoadInv, Distinct
<1>6. EventInv /\ ViewInv
  BY DEF EventInv, ViewInv, CardsInv
<1> QED
  BY <1>1, <1>2, <1>3, <1>4, <1>5, <1>6 DEF IInv, Types, Inv

-------------------------------------------------------------------------------
(* The agent's steps *)

LEMMA AgentStep ==
  ASSUME IInv, AgentOnly, AgentTypes', ToolInv', Stored \subseteq Stored',
         BusTypes', MissedTypes', EventInv'
  PROVE  IInv'
<1>1. ViewTypes' /\ PageTypes' /\ LoadTypes' /\ RequestTypes' /\ SpentTypes'
  BY DEF IInv, Types, AgentOnly, pageVars, httpVars, ViewTypes, PageTypes, LoadTypes,
         RequestTypes, SpentTypes
<1>2. LoadInv' /\ ViewInv'
  BY LoadsKept, ViewsKept DEF IInv, Inv, AgentOnly, httpVars
<1> QED
  BY <1>1, <1>2 DEF IInv, Types, Inv

LEMMA QuietStep ==
  ASSUME IInv, AgentOnly, Quiet, AgentTypes', ToolInv', Stored \subseteq Stored'
  PROVE  IInv'
<1>1. BusTypes' /\ MissedTypes'
  BY DEF IInv, Types, Quiet, busVars, BusTypes, MissedTypes
<1>2. EventInv'
  BY EventsKept DEF IInv, Inv, Quiet, busVars
<1> QED
  BY <1>1, <1>2, AgentStep

LEMMA PublishStep ==
  ASSUME IInv, AgentOnly, AgentTypes', ToolInv', Stored \subseteq Stored',
         NEW evs \in Seq(Event), Publish(evs),
         \A i \in DOMAIN evs : evs[i].type = "tool_result" => evs[i].call \in Stored'
  PROVE  IInv'
<1>1. BusTypes' /\ MissedTypes'
  BY PublishTypes DEF IInv, Types
<1>2. EventInv'
  BY EventsPublished DEF IInv, Types, Inv
<1> QED
  BY <1>1, <1>2, AgentStep

LEMMA BeginTurnKeeps == ASSUME IInv, BeginTurn PROVE IInv'
<1>1. AgentTypes' /\ Stored' = Stored
  BY DEF IInv, Types, AgentTypes, BeginTurn, Statuses, Stored
<1>2. ToolInv'
  BY DEF IInv, Inv, ToolInv, BeginTurn, Stored, Distinct
<1> QED
  BY <1>1, <1>2, QuietStep DEF BeginTurn

LEMMA TakeMessageKeeps == ASSUME IInv, TakeMessage PROVE IInv'
<1>1. AgentTypes' /\ Stored' = Stored
  BY DEF IInv, Types, AgentTypes, TakeMessage, Statuses, Stored
<1>2. ToolInv'
  BY DEF IInv, Inv, ToolInv, TakeMessage, Stored, Distinct
<1> QED
  BY <1>1, <1>2, QuietStep DEF TakeMessage

LEMMA RequestToolKeeps ==
  ASSUME IInv, NEW c \in Calls, NEW a \in BOOLEAN, RequestTool(c, a)
  PROVE  IInv'
<1> DEFINE evs == <<[type |-> "tool_call_requested", call |-> c, auto |-> a]>>
<1>1. AgentTypes' /\ Stored' = Stored
  BY DEF IInv, Types, AgentTypes, RequestTool, Stored
<1>2. c \notin Stored
  BY DEF IInv, Inv, ToolInv, RequestTool
<1>3. \A d \in Calls : row[d] # "none" => row'[d] # "none"
  BY DEF IInv, Types, AgentTypes, RequestTool
<1>4. row'[c] = "pending" /\ tool' = c /\ saved' = saved
  BY DEF IInv, Types, AgentTypes, RequestTool
<1>5. Stored \subseteq Calls
  BY DEF IInv, Types, AgentTypes, Stored
<1>6. ToolInv'
  BY <1>1, <1>2, <1>3, <1>4, <1>5 DEF IInv, Inv, ToolInv, Distinct
<1>7. evs \in Seq(Event) /\ \A i \in DOMAIN evs : evs[i].type # "tool_result"
  BY DEF Event
<1>8. Publish(evs) /\ AgentOnly
  BY DEF RequestTool
<1> HIDE DEF evs
<1> QED
  BY <1>1, <1>6, <1>7, <1>8, PublishStep

LEMMA AskTechnicianKeeps == ASSUME IInv, AskTechnician PROVE IInv'
<1> DEFINE evs == <<[type |-> "status_change", status |-> "waiting_on_approval"]>>
<1>1. AgentTypes' /\ Stored' = Stored
  BY DEF IInv, Types, AgentTypes, AskTechnician, Statuses, Stored
<1>2. ToolInv'
  BY DEF IInv, Inv, ToolInv, AskTechnician, Stored, Distinct
<1>3. evs \in Seq(Event) /\ \A i \in DOMAIN evs : evs[i].type # "tool_result"
  BY DEF Event, Statuses
<1>4. Publish(evs) /\ AgentOnly
  BY DEF AskTechnician
<1> HIDE DEF evs
<1> QED
  BY <1>1, <1>2, <1>3, <1>4, PublishStep

LEMMA TakeDecisionKeeps == ASSUME IInv, TakeDecision PROVE IInv'
<1> DEFINE evs == <<[type |-> "status_change", status |-> "running"]>>
<1>1. AgentTypes' /\ Stored' = Stored
  BY DEF IInv, Types, AgentTypes, TakeDecision, Statuses, Stored
<1>2. ToolInv'
  BY DEF IInv, Inv, ToolInv, TakeDecision, Stored, Distinct
<1>3. evs \in Seq(Event) /\ \A i \in DOMAIN evs : evs[i].type # "tool_result"
  BY DEF Event, Statuses
<1>4. Publish(evs) /\ AgentOnly
  BY DEF TakeDecision
<1> HIDE DEF evs
<1> QED
  BY <1>1, <1>2, <1>3, <1>4, PublishStep

LEMMA FinishTurnKeeps == ASSUME IInv, FinishTurn PROVE IInv'
<1> DEFINE evs == <<[type |-> "agent_completed"], [type |-> "agent_idle"]>>
<1>1. AgentTypes' /\ Stored' = Stored
  BY DEF IInv, Types, AgentTypes, FinishTurn, Statuses, Stored
<1>2. ToolInv'
  BY DEF IInv, Inv, ToolInv, FinishTurn, Stored, Distinct
<1>3. evs \in Seq(Event) /\ \A i \in DOMAIN evs : evs[i].type # "tool_result"
  BY DEF Event
<1>4. Publish(evs) /\ AgentOnly
  BY DEF FinishTurn
<1> HIDE DEF evs
<1> QED
  BY <1>1, <1>2, <1>3, <1>4, PublishStep

\* The result is stored by the step that announces it.
LEMMA ToolDoneKeeps == ASSUME IInv, ToolDone PROVE IInv'
<1> DEFINE evs == <<[type |-> "tool_result", call |-> tool]>>
<1>1. tool \in Calls /\ tool \notin Stored /\ saved \in Seq(Calls)
  BY DEF IInv, Types, AgentTypes, Inv, ToolInv, ToolDone
<1>2. AgentTypes'
  BY <1>1 DEF IInv, Types, AgentTypes, ToolDone
<1>3. /\ DOMAIN saved' = DOMAIN saved \cup {Len(saved) + 1}
      /\ \A i \in DOMAIN saved : saved'[i] = saved[i] /\ i # Len(saved) + 1
      /\ saved'[Len(saved) + 1] = tool
  BY <1>1 DEF ToolDone
<1>4. Stored' = Stored \cup {tool}
  BY <1>3 DEF Stored
<1>5. Distinct(saved)'
  BY <1>1, <1>3 DEF IInv, Inv, ToolInv, Distinct, Stored
<1>6. \A c \in Stored' : row'[c] # "none"
  <2>1. \A c \in Calls : (c = tool \/ row[c] # "none") => row'[c] # "none"
    BY <1>1 DEF IInv, Types, AgentTypes, ToolDone
  <2>2. Stored \subseteq Calls
    BY <1>1 DEF Stored
  <2> QED
    BY <1>1, <1>4, <2>1, <2>2 DEF IInv, Inv, ToolInv
<1>7. ToolInv'
  BY <1>5, <1>6 DEF ToolInv, ToolDone
<1>8. evs \in Seq(Event) /\ \A i \in DOMAIN evs : evs[i].call \in Stored'
  BY <1>1, <1>4 DEF Event
<1>9. Publish(evs) /\ AgentOnly
  BY DEF ToolDone
<1> HIDE DEF evs
<1> QED
  BY <1>2, <1>4, <1>7, <1>8, <1>9, PublishStep

LEMMA AgentEndsKeeps ==
  ASSUME IInv, NEW from, NEW event \in {"agent_stopped", "agent_failed"}, AgentEnds(from, event)
  PROVE  IInv'
<1> DEFINE evs == <<[type |-> event]>>
<1>1. AgentTypes' /\ Stored' = Stored
  BY DEF IInv, Types, AgentTypes, AgentEnds, Statuses, Stored
<1>2. ToolInv'
  BY DEF IInv, Inv, ToolInv, AgentEnds, Stored, Distinct
<1>3. evs \in Seq(Event) /\ \A i \in DOMAIN evs : evs[i].type # "tool_result"
  BY DEF Event
<1>4. Publish(evs) /\ AgentOnly
  BY DEF AgentEnds
<1> HIDE DEF evs
<1> QED
  BY <1>1, <1>2, <1>3, <1>4, PublishStep

LEMMA EndIsStoredKeeps == ASSUME IInv, EndIsStored PROVE IInv'
<1>1. AgentTypes' /\ Stored' = Stored
  BY DEF IInv, Types, AgentTypes, EndIsStored, Statuses, Stored
<1>2. ToolInv'
  BY DEF IInv, Inv, ToolInv, EndIsStored, Stored, Distinct
<1> QED
  BY <1>1, <1>2, QuietStep DEF EndIsStored

-------------------------------------------------------------------------------
(* Steps that leave the agent alone *)

LEMMA SpendTypes ==
  ASSUME SpentTypes, Spend \/ UNCHANGED spent
  PROVE  SpentTypes'
BY BudgetIsNumber DEF SpentTypes, Spend

LEMMA EventsFewer ==
  ASSUME BusTypes, EventInv, Stored' = Stored,
         \A x \in Streams : \/ events'[x] = events[x]
                            \/ events'[x] = <<>>
                            \/ events[x] # <<>> /\ events'[x] = Tail(events[x])
  PROVE  EventInv'
<1> SUFFICES ASSUME NEW x \in Streams, NEW i \in DOMAIN events'[x],
                    events'[x][i].type = "tool_result"
             PROVE  events'[x][i].call \in Stored
  BY DEF EventInv
<1>1. events[x] \in Seq(Event)
  BY DEF BusTypes
<1>2. CASE events'[x] = events[x]
  BY <1>2 DEF EventInv
<1>3. CASE events'[x] = <<>>
  BY <1>3
<1>4. CASE events[x] # <<>> /\ events'[x] = Tail(events[x])
  <2>1. i + 1 \in DOMAIN events[x] /\ events'[x][i] = events[x][i + 1]
    BY <1>1, <1>4
  <2> QED
    BY <2>1 DEF EventInv
<1> QED
  BY <1>2, <1>3, <1>4

LEMMA PageStep ==
  ASSUME IInv, UNCHANGED agentVars, BusTypes', ViewTypes', PageTypes', LoadTypes', RequestTypes',
         Spend \/ UNCHANGED spent, MissedTypes', LoadInv', EventInv', ViewInv'
  PROVE  IInv'
<1>1. AgentTypes'
  BY DEF IInv, Types, AgentTypes, agentVars
<1>2. ToolInv' /\ SpentTypes'
  BY ToolKept, SpendTypes DEF IInv, Types, Inv
<1> QED
  BY <1>1, <1>2 DEF IInv, Types, Inv

LEMMA StreamStep ==
  ASSUME IInv, UNCHANGED <<agentVars, pageVars, httpVars>>, Spend \/ UNCHANGED spent,
         BusTypes', ViewTypes', MissedTypes', EventInv', ViewInv'
  PROVE  IInv'
<1>1. PageTypes' /\ LoadTypes' /\ RequestTypes'
  BY DEF IInv, Types, pageVars, httpVars, PageTypes, LoadTypes, RequestTypes
<1>2. LoadInv'
  BY ToolKept, LoadsKept DEF IInv, Inv, httpVars
<1> QED
  BY <1>1, <1>2, PageStep

LEMMA SubscribeKeeps == ASSUME IInv, NEW e \in Streams, Subscribe(e) PROVE IInv'
<1>1. BusTypes' /\ ViewTypes' /\ MissedTypes'
  BY DEF IInv, Types, BusTypes, ViewTypes, MissedTypes, Subscribe
<1>2. EventInv' /\ ViewInv'
  BY ToolKept, EventsKept, ViewsKept DEF IInv, Inv, Subscribe
<1> QED
  BY <1>1, <1>2, StreamStep DEF Subscribe

LEMMA DisconnectKeeps == ASSUME IInv, NEW e \in Streams, Disconnect(e) PROVE IInv'
<1>1. BusTypes' /\ ViewTypes'
  BY DEF IInv, Types, BusTypes, ViewTypes, Disconnect
<1>2. MissedTypes'
  <2>1. Subjects(events[e]) \subseteq About
    BY SubjectsAre DEF IInv, Types, BusTypes
  <2> QED
    BY <2>1 DEF IInv, Types, MissedTypes, Disconnect
<1>3. \A x \in Streams : events'[x] = events[x] \/ events'[x] = <<>>
  BY DEF IInv, Types, BusTypes, Disconnect
<1>4. EventInv' /\ ViewInv'
  BY <1>3, ToolKept, EventsFewer, ViewsKept DEF IInv, Types, Inv, Disconnect
<1> QED
  BY <1>1, <1>2, <1>4, StreamStep DEF Disconnect

LEMMA RejectedKeeps == ASSUME IInv, NEW e \in Streams, Rejected(e) PROVE IInv'
<1>1. BusTypes' /\ ViewTypes' /\ MissedTypes'
  BY DEF IInv, Types, BusTypes, ViewTypes, MissedTypes, Rejected
<1>2. EventInv' /\ ViewInv'
  BY ToolKept, EventsKept, ViewsKept DEF IInv, Inv, Rejected
<1> QED
  BY <1>1, <1>2, StreamStep DEF Rejected

\* New cards for one view, and perhaps a new status, at, or stream.
LEMMA CardsReplaced ==
  ASSUME ViewTypes, ViewInv, Stored' = Stored, NEW v, NEW r \in ViewRecord,
         view' = [view EXCEPT ![v] = r], CardsInv(r.cards)
  PROVE  ViewTypes' /\ ViewInv'
<1>1. ViewTypes'
  BY DEF ViewTypes
<1>2. \A w \in Views : view'[w] = IF w = v THEN r ELSE view[w]
  BY DEF ViewTypes
<1>3. ASSUME NEW w \in Views PROVE CardsInv(view'[w].cards)
  BY <1>2 DEF ViewInv
<1>4. ViewInv'
  BY <1>3 DEF ViewInv, CardsInv
<1> QED
  BY <1>1, <1>4

LEMMA DeliverKeeps == ASSUME IInv, NEW e \in Streams, Deliver(e) PROVE IInv'
<1> DEFINE v == owner[e]
           ev == Head(events[e])
           cards == CardsAfter(view[v].cards, ev)
           st == StatusAfter(view[v].status, ev)
<1>1. events[e] \in Seq(Event) /\ events[e] # <<>>
  BY DEF IInv, Types, BusTypes, Deliver
<1>2. ev \in Event /\ ev = events[e][1] /\ 1 \in DOMAIN events[e]
  BY <1>1
<1>3. BusTypes'
  BY <1>1 DEF IInv, Types, BusTypes, Deliver
<1>4. \A x \in Streams : \/ events'[x] = events[x]
                         \/ events[x] # <<>> /\ events'[x] = Tail(events[x])
  BY DEF IInv, Types, BusTypes, Deliver
<1>5. EventInv'
  BY <1>4, ToolKept, EventsFewer DEF IInv, Types, Inv, Deliver
<1>6. ViewTypes' /\ ViewInv'
  <2>1. CASE v \notin Views
    <3>1. view' = view
      BY <2>1 DEF IInv, Types, ViewTypes, Deliver
    <3> QED
      BY <3>1, ToolKept, ViewsKept DEF IInv, Types, Inv, ViewTypes, Deliver
  <2>2. CASE v \in Views
    <3>1. view[v] \in ViewRecord /\ CardsInv(view[v].cards)
      BY <2>2 DEF IInv, Types, Inv, ViewTypes, ViewInv
    <3>2. view[v].cards \in Seq(Card) /\ view[v].status \in Statuses
      BY <3>1 DEF ViewRecord
    <3>3. ev.type = "tool_result" => ev.call \in Stored
      BY <1>2 DEF IInv, Inv, EventInv
    <3> HIDE DEF ev
    <3>4. cards \in Seq(Card) /\ CardsInv(cards)
      BY <1>2, <3>1, <3>2, <3>3, CardsAfterEvent
    <3>5. st \in Statuses
      BY <1>2, <3>2 DEF StatusAfter, Event, Statuses
    <3> DEFINE r == [view[v] EXCEPT !.cards = cards, !.status = st]
    <3>6. view' = [view EXCEPT ![v] = r]
      BY DEF Deliver, ev
    <3> HIDE DEF cards, st
    <3>7. r \in ViewRecord /\ r.cards = cards
      BY <3>1, <3>4, <3>5 DEF ViewRecord
    <3> HIDE DEF r
    <3>8. ViewTypes /\ ViewInv /\ Stored' = Stored
      BY ToolKept DEF IInv, Types, Inv, Deliver
    <3>9. CardsInv(r.cards)
      BY <3>4, <3>7
    <3> QED
      BY <3>6, <3>7, <3>8, <3>9, CardsReplaced
  <2> QED
    BY <2>1, <2>2
<1>7. MissedTypes'
  BY DEF IInv, Types, MissedTypes, Deliver
<1> QED
  BY <1>3, <1>5, <1>6, <1>7, StreamStep DEF Deliver

LEMMA BusKeeps == ASSUME IInv, Bus PROVE IInv'
BY SubscribeKeeps, DisconnectKeeps, RejectedKeeps, DeliverKeeps DEF Bus

-------------------------------------------------------------------------------
(* Opening and closing *)

\* Everything but the agent, the page and the requests has to be looked at.
LEMMA ViewStep ==
  ASSUME IInv, UNCHANGED <<agentVars, patch, post, abort>>, Spend \/ UNCHANGED spent,
         BusTypes', ViewTypes', PageTypes', LoadTypes', MissedTypes',
         LoadInv', EventInv', ViewInv'
  PROVE  IInv'
<1>1. RequestTypes'
  BY DEF IInv, Types, RequestTypes
<1> QED
  BY <1>1, PageStep

LEMMA LoadReplaced ==
  ASSUME LoadTypes, LoadInv, Stored' = Stored, NEW l, NEW r \in LoadRecord,
         load' = [load EXCEPT ![l] = r], Distinct(r.rows),
         \A i \in DOMAIN r.rows : r.rows[i] \in Stored
  PROVE  LoadTypes' /\ LoadInv'
<1>1. LoadTypes'
  BY DEF LoadTypes
<1>2. \A k \in Loads : load'[k] = IF k = l THEN r ELSE load[k]
  BY DEF LoadTypes
<1>3. ASSUME NEW k \in Loads
      PROVE  Distinct(load'[k].rows) /\ \A i \in DOMAIN load'[k].rows : load'[k].rows[i] \in Stored
  BY <1>2 DEF LoadInv
<1>4. LoadInv'
  BY <1>3 DEF LoadInv, Distinct
<1> QED
  BY <1>1, <1>4

LEMMA ConnectStreamKeeps ==
  ASSUME LoadTypes, LoadInv, Stored' = Stored, NEW v \in Views \cup {NoView}, NEW s,
         ConnectStream(v, s)
  PROVE  LoadTypes' /\ LoadInv'
<1> DEFINE r == [at |-> "sent", view |-> v, live |-> s \in {"running", "waiting_on_approval"},
                 rows |-> <<>>]
<1>1. PICK l \in Loads : load' = [load EXCEPT ![l] = r]
  BY DEF ConnectStream
<1>2. <<>> \in Seq(Calls)
  OBVIOUS
<1>3. r \in LoadRecord /\ DOMAIN r.rows = {}
  BY <1>2 DEF LoadRecord
<1>4. Distinct(r.rows) /\ \A i \in DOMAIN r.rows : r.rows[i] \in Stored
  BY <1>3 DEF Distinct
<1> HIDE DEF r
<1> QED
  BY <1>1, <1>3, <1>4, LoadReplaced

LEMMA OpenStreamKeeps ==
  ASSUME BusTypes, EventInv, Stored' = Stored, NEW v \in Views \cup {NoView}, NEW e \in Streams,
         OpenStream(v, e)
  PROVE  BusTypes' /\ EventInv'
<1>1. BusTypes'
  BY DEF BusTypes, OpenStream
<1>2. \A x \in Streams : events'[x] = events[x] \/ events'[x] = <<>>
  BY DEF BusTypes, OpenStream
<1>3. EventInv'
  BY <1>2, EventsFewer
<1> QED
  BY <1>1, <1>3

\* A view that keeps its cards.
LEMMA CardsUntouched ==
  ASSUME ViewTypes, ViewInv, Stored' = Stored, NEW v,
         NEW r, v \in Views => r \in ViewRecord /\ r.cards = view[v].cards,
         view' = [view EXCEPT ![v] = r]
  PROVE  ViewTypes' /\ ViewInv'
<1>1. CASE v \in Views
  <2>1. CardsInv(r.cards)
    BY <1>1 DEF ViewInv
  <2> QED
    BY <1>1, <2>1, CardsReplaced
<1>2. CASE v \notin Views
  <2>1. view' = view
    BY <1>2 DEF ViewTypes
  <2> QED
    BY <2>1, ViewsKept DEF ViewTypes
<1> QED
  BY <1>1, <1>2

LEMMA OpenChatKeeps ==
  ASSUME IInv, NEW v \in Views, NEW s \in Statuses, OpenChat(v, s)
  PROVE  IInv'
<1>1. Stored' = Stored /\ ViewTypes /\ ViewInv /\ LoadTypes /\ LoadInv
  BY ToolKept DEF IInv, Types, Inv, OpenChat
<1>2. BusTypes' /\ EventInv'
  BY <1>1, EventsKept DEF IInv, Types, Inv, BusTypes, OpenChat, busVars
<1>3. ViewTypes' /\ ViewInv'
  <2> DEFINE r == [view[v] EXCEPT !.at = "open", !.status = s]
  <2>1. r \in ViewRecord /\ r.cards = view[v].cards
    BY <1>1 DEF ViewTypes, ViewRecord
  <2>2. view' = [view EXCEPT ![v] = r]
    BY DEF OpenChat
  <2> HIDE DEF r
  <2> QED
    BY <1>1, <2>1, <2>2, CardsUntouched
<1>4. PageTypes' /\ MissedTypes'
  BY DEF IInv, Types, PageTypes, MissedTypes, About, OpenChat
<1>5. LoadTypes' /\ LoadInv'
  BY <1>1, ConnectStreamKeeps DEF OpenChat
<1> QED
  BY <1>2, <1>3, <1>4, <1>5, ViewStep DEF OpenChat

LEMMA ChatCreatedKeeps == ASSUME IInv, ChatCreated PROVE IInv'
BY OpenChatKeeps DEF ChatCreated, Statuses

\* Selecting the chat that is open.
LEMMA ReselectedKeeps ==
  ASSUME IInv, open \in Views, active' = TRUE,
         IF Connected(open)
         THEN UNCHANGED <<view, load>>
         ELSE /\ view' = [view EXCEPT ![open].stream = NoStream]
              /\ ConnectStream(open, view[open].status),
         UNCHANGED <<agentVars, busVars, open, listed, patch, post, abort, spent, missed>>
  PROVE  IInv'
<1>1. Stored' = Stored /\ ViewTypes /\ ViewInv /\ LoadTypes /\ LoadInv
  BY ToolKept DEF IInv, Types, Inv
<1>2. BusTypes' /\ EventInv'
  BY <1>1, EventsKept DEF IInv, Types, Inv, BusTypes, busVars
<1>3. PageTypes' /\ MissedTypes'
  BY DEF IInv, Types, PageTypes, MissedTypes
<1>4. CASE Connected(open)
  <2>1. ViewTypes' /\ LoadTypes'
    BY <1>1, <1>4 DEF ViewTypes, LoadTypes
  <2>2. LoadInv' /\ ViewInv'
    BY <1>1, <1>4, LoadsKept, ViewsKept
  <2> QED
    BY <1>2, <1>3, <2>1, <2>2, ViewStep
<1>5. CASE ~Connected(open)
  <2> DEFINE r == [view[open] EXCEPT !.stream = NoStream]
  <2>1. r \in ViewRecord /\ r.cards = view[open].cards
    BY <1>1 DEF ViewTypes, ViewRecord
  <2>2. view' = [view EXCEPT ![open] = r]
    BY <1>5
  <2> HIDE DEF r
  <2>3. ViewTypes' /\ ViewInv'
    BY <1>1, <2>1, <2>2, CardsUntouched
  <2>4. LoadTypes' /\ LoadInv'
    BY <1>1, <1>5, ConnectStreamKeeps
  <2> QED
    BY <1>2, <1>3, <2>3, <2>4, ViewStep
<1> QED
  BY <1>4, <1>5

LEMMA ChatSelectedKeeps == ASSUME IInv, ChatSelected PROVE IInv'
<1>1. CASE \E v \in Views : OpenChat(v, listed)
  BY <1>1, OpenChatKeeps DEF IInv, Types, PageTypes
<1>2. CASE open # NoView /\ ~(\E v \in Views : OpenChat(v, listed))
  BY <1>2, ReselectedKeeps DEF IInv, Types, PageTypes, ChatSelected
<1> QED
  BY <1>1, <1>2 DEF ChatSelected

LEMMA BackToListKeeps == ASSUME IInv, BackToList PROVE IInv'
<1>1. Stored' = Stored
  BY ToolKept DEF IInv, Inv, BackToList
<1>2. BusTypes' /\ ViewTypes' /\ PageTypes' /\ LoadTypes' /\ MissedTypes'
  BY DEF IInv, Types, BusTypes, ViewTypes, PageTypes, LoadTypes, MissedTypes, BackToList,
         busVars, httpVars
<1>3. LoadInv' /\ EventInv' /\ ViewInv'
  BY <1>1, LoadsKept, EventsKept, ViewsKept DEF IInv, Inv, BackToList, busVars, httpVars
<1> QED
  BY <1>2, <1>3, ViewStep DEF BackToList, httpVars

LEMMA CloseTabKeeps == ASSUME IInv, CloseTab PROVE IInv'
<1>1. Stored' = Stored /\ ViewTypes /\ ViewInv /\ BusTypes /\ EventInv
  BY ToolKept DEF IInv, Types, Inv, CloseTab
<1>2. BusTypes'
  BY <1>1 DEF BusTypes, CloseTab
<1>3. \A x \in Streams : events'[x] = events[x] \/ events'[x] = <<>>
  BY <1>1 DEF CloseTab
<1>4. EventInv'
  BY <1>1, <1>3, EventsFewer
<1>5. ViewTypes' /\ ViewInv'
  <2> DEFINE r == [view[open] EXCEPT !.at = "closed"]
  <2>1. open \in Views => r \in ViewRecord /\ r.cards = view[open].cards
    BY <1>1 DEF ViewTypes, ViewRecord
  <2>2. view' = [view EXCEPT ![open] = r]
    BY DEF CloseTab
  <2> HIDE DEF r
  <2> QED
    BY <1>1, <2>1, <2>2, CardsUntouched
<1>6. PageTypes' /\ LoadTypes' /\ MissedTypes'
  BY DEF IInv, Types, PageTypes, LoadTypes, MissedTypes, CloseTab, httpVars
<1>7. LoadInv'
  BY <1>1, LoadsKept DEF IInv, Inv, CloseTab, httpVars
<1> QED
  BY <1>2, <1>4, <1>5, <1>6, <1>7, ViewStep DEF CloseTab, httpVars

LEMMA ListLoadedKeeps == ASSUME IInv, ListLoaded PROVE IInv'
<1>1. Stored' = Stored
  BY ToolKept DEF IInv, Inv, ListLoaded
<1>2. BusTypes' /\ ViewTypes' /\ PageTypes' /\ LoadTypes' /\ MissedTypes'
  BY DEF IInv, Types, AgentTypes, BusTypes, ViewTypes, PageTypes, LoadTypes, MissedTypes,
         ListLoaded, busVars, httpVars
<1>3. LoadInv' /\ EventInv' /\ ViewInv'
  BY <1>1, LoadsKept, EventsKept, ViewsKept DEF IInv, Inv, ListLoaded, busVars, httpVars
<1> QED
  BY <1>2, <1>3, ViewStep DEF ListLoaded, httpVars

\* What is read is what is stored.
LEMMA HistoryReadKeeps == ASSUME IInv, NEW l \in Loads, HistoryRead(l) PROVE IInv'
<1>1. Stored' = Stored /\ LoadTypes /\ LoadInv
  BY ToolKept DEF IInv, Types, Inv, HistoryRead
<1>2. BusTypes' /\ ViewTypes' /\ PageTypes' /\ MissedTypes'
  BY DEF IInv, Types, BusTypes, ViewTypes, PageTypes, MissedTypes, HistoryRead, busVars, pageVars
<1>3. EventInv' /\ ViewInv'
  BY <1>1, EventsKept, ViewsKept DEF IInv, Inv, HistoryRead, busVars
<1>4. LoadTypes' /\ LoadInv'
  <2> DEFINE r == [load[l] EXCEPT !.at = "read", !.rows = saved]
  <2>1. r \in LoadRecord /\ r.rows = saved
    BY <1>1 DEF IInv, Types, AgentTypes, LoadTypes, LoadRecord
  <2>2. load' = [load EXCEPT ![l] = r]
    BY DEF HistoryRead
  <2>3. Distinct(saved) /\ \A i \in DOMAIN saved : saved[i] \in Stored
    BY DEF IInv, Inv, ToolInv, Stored
  <2> HIDE DEF r
  <2> QED
    BY <1>1, <2>1, <2>2, <2>3, LoadReplaced
<1> QED
  BY <1>2, <1>3, <1>4, ViewStep DEF HistoryRead

\* Every row of a history has a result of its own.
LEMMA HistoryCards ==
  ASSUME IInv, NEW l \in Loads
  PROVE  HistoryToMessages(l) \in Seq(Card) /\ CardsInv(HistoryToMessages(l))
<1> DEFINE rows == load[l].rows
<1>1. rows \in Seq(Calls) /\ Distinct(rows) /\ \A i \in DOMAIN rows : rows[i] \in Stored
  BY DEF IInv, Types, Inv, LoadTypes, LoadRecord, LoadInv
<1>2. CASE load[l].live
  <2>1. HistoryToMessages(l) = <<>>
    BY <1>2 DEF HistoryToMessages
  <2> QED
    BY <2>1 DEF CardsInv
<1>3. CASE ~load[l].live
  <2> DEFINE cards == [i \in DOMAIN rows |-> [call |-> rows[i], status |-> "executed"]]
  <2>1. HistoryToMessages(l) = cards
    BY <1>3 DEF HistoryToMessages
  <2> HIDE DEF rows
  <2>2. cards \in Seq(Card)
    <3>1. DOMAIN rows = 1..Len(rows) /\ Len(rows) \in Nat
      BY <1>1
    <3>2. \A i \in DOMAIN rows : [call |-> rows[i], status |-> "executed"] \in Card
      BY <1>1 DEF Card, CardStatuses
    <3>3. cards \in [1..Len(rows) -> Card]
      BY <3>1, <3>2
    <3> HIDE DEF cards
    <3> QED
      BY <3>1, <3>3
  <2>3. DOMAIN cards = DOMAIN rows /\ \A i \in DOMAIN rows : cards[i].call = rows[i]
    OBVIOUS
  <2> HIDE DEF cards
  <2>4. CardsInv(cards)
    BY <1>1, <2>3 DEF CardsInv, Distinct
  <2> QED
    BY <2>1, <2>2, <2>4
<1> QED
  BY <1>2, <1>3

\* A request that is answered makes room for another.
LEMMA LoadDone ==
  ASSUME LoadTypes, LoadInv, Stored' = Stored, NEW l, load' = [load EXCEPT ![l] = NoLoad]
  PROVE  LoadTypes' /\ LoadInv'
<1>1. <<>> \in Seq(Calls) /\ DOMAIN NoLoad.rows = {}
  BY DEF NoLoad
<1>2. NoLoad \in LoadRecord
  BY <1>1 DEF NoLoad, LoadRecord
<1>3. Distinct(NoLoad.rows) /\ \A i \in DOMAIN NoLoad.rows : NoLoad.rows[i] \in Stored
  BY <1>1 DEF Distinct
<1> QED
  BY <1>2, <1>3, LoadReplaced

LEMMA HistoryLoadedKeeps == ASSUME IInv, NEW l \in Loads, HistoryLoaded(l) PROVE IInv'
<1> DEFINE v == load[l].view
           cards == HistoryToMessages(l)
<1>1. Stored' = Stored /\ ViewTypes /\ ViewInv /\ LoadTypes /\ LoadInv /\ BusTypes /\ EventInv
  BY ToolKept DEF IInv, Types, Inv, HistoryLoaded
<1>2. PICK e \in Streams : OpenStream(v, e)
                           /\ view' = [view EXCEPT ![v].cards = cards, ![v].stream = e]
  BY DEF HistoryLoaded
<1>3. v \in Views \cup {NoView}
  BY <1>1 DEF LoadTypes, LoadRecord
<1>4. cards \in Seq(Card) /\ CardsInv(cards)
  BY HistoryCards
<1> HIDE DEF cards, v
<1>5. BusTypes' /\ EventInv'
  BY <1>1, <1>2, <1>3, OpenStreamKeeps
<1>6. ViewTypes' /\ ViewInv'
  <2>1. CASE v \in Views
    <3> DEFINE r == [view[v] EXCEPT !.cards = cards, !.stream = e]
    <3>1. r \in ViewRecord /\ r.cards = cards
      BY <1>1, <1>4, <2>1 DEF ViewTypes, ViewRecord
    <3>2. view' = [view EXCEPT ![v] = r]
      BY <1>2
    <3> HIDE DEF r
    <3> QED
      BY <1>1, <1>4, <3>1, <3>2, CardsReplaced
  <2>2. CASE v \notin Views
    <3>1. view' = view
      BY <1>1, <1>2, <2>2 DEF ViewTypes
    <3> QED
      BY <1>1, <3>1, ViewsKept DEF ViewTypes
  <2> QED
    BY <2>1, <2>2
<1>7. PageTypes' /\ MissedTypes'
  BY DEF IInv, Types, PageTypes, MissedTypes, About, HistoryLoaded, pageVars
<1>8. LoadTypes' /\ LoadInv'
  BY <1>1, LoadDone DEF HistoryLoaded
<1> QED
  BY <1>5, <1>6, <1>7, <1>8, ViewStep DEF HistoryLoaded

LEMMA HistoryFailedKeeps == ASSUME IInv, NEW l \in Loads, HistoryFailed(l) PROVE IInv'
<1> DEFINE v == load[l].view
<1>1. Stored' = Stored /\ ViewTypes /\ ViewInv /\ LoadTypes /\ LoadInv /\ BusTypes /\ EventInv
  BY ToolKept DEF IInv, Types, Inv, HistoryFailed
<1>2. PICK e \in Streams : OpenStream(v, e) /\ view' = [view EXCEPT ![v].stream = e]
  BY DEF HistoryFailed
<1>3. v \in Views \cup {NoView}
  BY <1>1 DEF LoadTypes, LoadRecord
<1> HIDE DEF v
<1>4. BusTypes' /\ EventInv'
  BY <1>1, <1>2, <1>3, OpenStreamKeeps
<1>5. ViewTypes' /\ ViewInv'
  <2> DEFINE r == [view[v] EXCEPT !.stream = e]
  <2>1. v \in Views => r \in ViewRecord /\ r.cards = view[v].cards
    BY <1>1 DEF ViewTypes, ViewRecord
  <2>2. view' = [view EXCEPT ![v] = r]
    BY <1>2
  <2> HIDE DEF r
  <2> QED
    BY <1>1, <2>1, <2>2, CardsUntouched
<1>6. PageTypes' /\ MissedTypes'
  BY DEF IInv, Types, PageTypes, MissedTypes, HistoryFailed, pageVars
<1>7. LoadTypes' /\ LoadInv'
  BY <1>1, LoadDone DEF HistoryFailed
<1> QED
  BY <1>4, <1>5, <1>6, <1>7, ViewStep DEF HistoryFailed

-------------------------------------------------------------------------------
(* Requests and what they change in the agent's part *)

LEMMA RequestStep ==
  ASSUME IInv, AgentTypes', ToolInv', Stored' = Stored, UNCHANGED <<busVars, view, pageVars, load>>,
         Spend \/ UNCHANGED spent, RequestTypes', MissedTypes'
  PROVE  IInv'
<1>1. BusTypes' /\ ViewTypes' /\ PageTypes' /\ LoadTypes'
  BY DEF IInv, Types, BusTypes, ViewTypes, PageTypes, LoadTypes, busVars, pageVars
<1>2. LoadInv' /\ EventInv' /\ ViewInv'
  BY LoadsKept, EventsKept, ViewsKept DEF IInv, Inv, busVars
<1>3. SpentTypes'
  BY SpendTypes DEF IInv, Types
<1> QED
  BY <1>1, <1>2, <1>3 DEF IInv, Types, Inv

LEMMA OnlyRequestStep ==
  ASSUME IInv, UNCHANGED <<agentVars, busVars, view, pageVars, load>>,
         Spend \/ UNCHANGED spent, RequestTypes', MissedTypes'
  PROVE  IInv'
<1>1. AgentTypes'
  BY DEF IInv, Types, AgentTypes, agentVars
<1>2. ToolInv' /\ Stored' = Stored
  BY ToolKept DEF IInv, Inv
<1> QED
  BY <1>1, <1>2, RequestStep

LEMMA StopClickedKeeps == ASSUME IInv, StopClicked PROVE IInv'
<1>1. RequestTypes' /\ MissedTypes'
  BY DEF IInv, Types, PageTypes, RequestTypes, MissedTypes, StopClicked
<1> QED
  BY <1>1, OnlyRequestStep DEF StopClicked

LEMMA AbortLostKeeps == ASSUME IInv, AbortLost PROVE IInv'
<1>1. RequestTypes' /\ MissedTypes'
  BY DEF IInv, Types, RequestTypes, MissedTypes, AbortLost, NoRequest
<1> QED
  BY <1>1, OnlyRequestStep DEF AbortLost

LEMMA PostLostKeeps == ASSUME IInv, PostLost PROVE IInv'
<1>1. RequestTypes' /\ MissedTypes'
  BY DEF IInv, Types, RequestTypes, MissedTypes, About, PostLost, Unanswered, NoRequest
<1> QED
  BY <1>1, OnlyRequestStep DEF PostLost

LEMMA PatchLostKeeps == ASSUME IInv, NEW c \in Calls, PatchLost(c) PROVE IInv'
<1>1. RequestTypes' /\ MissedTypes'
  BY DEF IInv, Types, RequestTypes, PatchRecord, MissedTypes, PatchLost
<1> QED
  BY <1>1, OnlyRequestStep DEF PatchLost

LEMMA FailsKeeps == ASSUME IInv, Fails PROVE IInv'
<1>1. AgentTypes' /\ RequestTypes' /\ MissedTypes'
  BY DEF IInv, Types, AgentTypes, RequestTypes, MissedTypes, Fails, Dropped, Quiet, AgentOnly, httpVars
<1>2. ToolInv' /\ Stored' = Stored
  BY DEF IInv, Inv, ToolInv, Fails, Dropped, Stored, Distinct
<1> QED
  BY <1>1, <1>2, RequestStep DEF Fails, Quiet, AgentOnly, httpVars

LEMMA AgentKeeps == ASSUME IInv, Agent PROVE IInv'
<1>1. CASE BeginTurn
  BY <1>1, BeginTurnKeeps
<1>2. CASE AskTechnician
  BY <1>2, AskTechnicianKeeps
<1>3. CASE TakeDecision
  BY <1>3, TakeDecisionKeeps
<1>4. CASE ToolDone
  BY <1>4, ToolDoneKeeps
<1>5. CASE FinishTurn
  BY <1>5, FinishTurnKeeps
<1>6. CASE TakeMessage
  BY <1>6, TakeMessageKeeps
<1>7. CASE Stopped
  BY <1>7, AgentEndsKeeps DEF Stopped
<1>8. CASE Failed
  BY <1>8, AgentEndsKeeps DEF Failed
<1>9. CASE \E c \in Calls, a \in BOOLEAN : RequestTool(c, a)
  BY <1>9, RequestToolKeeps
<1>10. CASE Fails
  BY <1>10, FailsKeeps
<1>11. CASE EndIsStored
  BY <1>11, EndIsStoredKeeps
<1> QED
  BY <1>1, <1>2, <1>3, <1>4, <1>5, <1>6, <1>7, <1>8, <1>9, <1>10, <1>11 DEF Agent

LEMMA AbortChatKeeps == ASSUME IInv, AbortChat PROVE IInv'
<1>1. /\ status' \in {status, "stopped"} /\ at' \in {at, "stopping", "over"}
      /\ \/ at' = at /\ UNCHANGED <<tool, decision, inbox>>
         \/ at' \in {"stopping", "over"} /\ Dropped
      /\ UNCHANGED <<row, auto, saved, busVars, view, pageVars, load, patch, post, spent>>
  BY DEF AbortChat, Cancelled, CancelledUnheard, NotCancelled, Unannounced, Quiet
<1>2. AgentTypes'
  BY <1>1 DEF IInv, Types, AgentTypes, Statuses, Dropped
<1>3. RequestTypes'
  BY <1>1 DEF IInv, Types, RequestTypes, AbortChat
<1>4. MissedTypes'
  BY DEF IInv, Types, MissedTypes, About, AbortChat, Cancelled, CancelledUnheard, NotCancelled,
         Unannounced, Quiet
<1>5. ToolInv' /\ Stored' = Stored
  BY <1>1 DEF IInv, Inv, ToolInv, Stored, Distinct, Dropped
<1> QED
  BY <1>1, <1>2, <1>3, <1>4, <1>5, RequestStep

LEMMA PostMessageKeeps == ASSUME IInv, PostMessage PROVE IInv'
<1> USE DEF PostMessage, Queued, Restarted, Refused, Dropped, Unanswered
<1>1. AgentTypes' /\ RequestTypes'
  BY DEF IInv, Types, AgentTypes, RequestTypes, NoRequest
<1>2. MissedTypes'
  BY DEF IInv, Types, MissedTypes, About
<1>3. ToolInv' /\ Stored' = Stored
  BY DEF IInv, Inv, ToolInv, Stored, Distinct
<1> QED
  BY <1>1, <1>2, <1>3, RequestStep

LEMMA ReplacedKeeps == ASSUME IInv, Replaced PROVE IInv'
<1> DEFINE evs == <<[type |-> "agent_stopped"]>>
<1>1. evs \in Seq(Event) /\ \A i \in DOMAIN evs : evs[i].type # "tool_result"
  BY DEF Event
<1>2. Publish(evs)
  BY DEF Replaced
<1> HIDE DEF evs
<1>3. BusTypes' /\ MissedTypes'
  BY <1>1, <1>2, PublishTypes DEF IInv, Types
<1>4. ToolInv' /\ Stored' = Stored
  BY ToolKept DEF IInv, Inv, Replaced
<1>5. EventInv'
  BY <1>1, <1>2, EventsPublished, <1>4 DEF IInv, Types, Inv
<1>6. AgentTypes' /\ ViewTypes' /\ PageTypes' /\ LoadTypes' /\ RequestTypes' /\ SpentTypes'
  BY DEF IInv, Types, AgentTypes, ViewTypes, PageTypes, LoadTypes, RequestTypes, SpentTypes,
         Replaced, NoRequest, agentVars, pageVars
<1>7. LoadInv' /\ ViewInv'
  BY <1>4, LoadsKept, ViewsKept DEF IInv, Inv, Replaced
<1> QED
  BY <1>3, <1>4, <1>5, <1>6, <1>7 DEF IInv, Types, Inv

LEMMA PatchCommitKeeps == ASSUME IInv, NEW c \in Calls, PatchCommit(c) PROVE IInv'
<1>1. patch[c].answer \in {"approved", "rejected"} /\ saved' = saved
  BY DEF IInv, Types, RequestTypes, PatchRecord, PatchCommit
<1>2. AgentTypes' /\ RequestTypes' /\ MissedTypes'
  <2>1. AgentTypes'
    BY <1>1 DEF IInv, Types, AgentTypes, PatchCommit
  <2>2. RequestTypes' /\ MissedTypes'
    BY <1>1 DEF IInv, Types, RequestTypes, PatchRecord, MissedTypes, PatchCommit
  <2> QED
    BY <2>1, <2>2
<1>3. \A d \in Calls : row[d] # "none" => row'[d] # "none"
  BY <1>1 DEF IInv, Types, AgentTypes, PatchCommit
<1>4. Stored' = Stored /\ Stored \subseteq Calls
  BY <1>1 DEF IInv, Types, AgentTypes, Stored
<1>5. ToolInv'
  BY <1>1, <1>3, <1>4 DEF IInv, Inv, ToolInv, PatchCommit, Distinct
<1> QED
  BY <1>2, <1>4, <1>5, RequestStep DEF PatchCommit

\* Another status, or none, for a view; its cards stay.
LEMMA AbortAnsweredKeeps == ASSUME IInv, AbortAnswered PROVE IInv'
<1>1. Stored' = Stored /\ ViewTypes /\ ViewInv
  BY ToolKept DEF IInv, Types, Inv, AbortAnswered
<1>2. ViewTypes' /\ ViewInv'
  <2>1. CASE abort.at = "accepted"
    <3> DEFINE v == abort.view
               r == [view[v] EXCEPT !.status = "stopped"]
    <3>1. v \in Views => r \in ViewRecord /\ r.cards = view[v].cards
      BY <1>1 DEF ViewTypes, ViewRecord, Statuses
    <3>2. view' = [view EXCEPT ![v] = r]
      BY <2>1 DEF AbortAnswered
    <3> HIDE DEF r, v
    <3> QED
      BY <1>1, <3>1, <3>2, CardsUntouched
  <2>2. CASE abort.at # "accepted"
    <3>1. view' = view
      BY <2>2 DEF AbortAnswered
    <3> QED
      BY <1>1, <3>1, ViewsKept DEF ViewTypes
  <2> QED
    BY <2>1, <2>2
<1>3. BusTypes' /\ PageTypes' /\ LoadTypes' /\ RequestTypes' /\ MissedTypes'
  BY DEF IInv, Types, BusTypes, PageTypes, LoadTypes, RequestTypes, MissedTypes, AbortAnswered,
         NoRequest, busVars, pageVars
<1>4. LoadInv' /\ EventInv'
  BY <1>1, LoadsKept, EventsKept DEF IInv, Inv, AbortAnswered, busVars
<1> QED
  BY <1>2, <1>3, <1>4, PageStep DEF AbortAnswered

\* The stream of the view is replaced, or opened, or neither.
LEMMA MessageSentKeeps == ASSUME IInv, MessageSent PROVE IInv'
<1> DEFINE w == view[open]
           old == w.stream
           first(e) ==
             /\ es' = [s \in Streams |-> IF s = e THEN "connecting"
                                         ELSE IF s = old THEN "closed" ELSE es[s]]
             /\ owner' = [s \in Streams |-> IF s = e THEN open
                                            ELSE IF s = old THEN NoView ELSE owner[s]]
             /\ events' = [s \in Streams |-> IF s \in {e, old} THEN <<>> ELSE events[s]]
             /\ view' = [view EXCEPT ![open].status = "running", ![open].stream = e]
<1>1. Stored' = Stored /\ ViewTypes /\ ViewInv /\ BusTypes /\ EventInv
  BY ToolKept DEF IInv, Types, Inv, MessageSent
<1>2. open \in Views \cup {NoView} /\ MissedTypes
  BY DEF IInv, Types, PageTypes
<1>3. open \in Views => w \in ViewRecord /\ old \in Streams \cup {NoStream}
  BY <1>1 DEF ViewTypes, ViewRecord
<1>4. PageTypes' /\ LoadTypes' /\ RequestTypes'
  BY DEF IInv, Types, PageTypes, LoadTypes, RequestTypes, MessageSent, pageVars
<1>5. LoadInv'
  BY <1>1, LoadsKept DEF IInv, Inv, MessageSent
<1>6. BusTypes' /\ EventInv' /\ ViewTypes' /\ ViewInv' /\ MissedTypes'
  <2>1. CASE /\ \E e \in FreeStreams \cup ({old} \ {NoStream}) : first(e)
             /\ missed' = IF old = NoStream THEN missed
                          ELSE [missed EXCEPT ![open] = @ \cup Subjects(events[old])]
    <3>1. PICK e \in FreeStreams \cup ({old} \ {NoStream}) : first(e)
      BY <2>1
    <3>2. BusTypes'
      BY <1>1, <1>2, <3>1 DEF BusTypes
    <3>3. \A x \in Streams : events'[x] = events[x] \/ events'[x] = <<>>
      BY <1>1, <3>1
    <3>4. EventInv'
      BY <1>1, <3>3, EventsFewer
    <3>5. ViewTypes' /\ ViewInv'
      <4> DEFINE r == [w EXCEPT !.status = "running", !.stream = e]
      <4>1. open \in Views => r \in ViewRecord /\ r.cards = view[open].cards
        BY <1>3, <3>1 DEF FreeStreams, ViewRecord, Statuses
      <4>2. view' = [view EXCEPT ![open] = r]
        BY <3>1
      <4> HIDE DEF r
      <4> QED
        BY <1>1, <4>1, <4>2, CardsUntouched
    <3>6. MissedTypes'
      <4>1. CASE old # NoStream /\ open \in Views
        <5>1. Subjects(events[old]) \subseteq About
          BY <1>1, <1>3, <4>1, SubjectsAre DEF BusTypes
        <5>2. missed' = [missed EXCEPT ![open] = @ \cup Subjects(events[old])]
          BY <2>1, <4>1
        <5> HIDE DEF old
        <5> QED
          BY <1>2, <4>1, <5>1, <5>2 DEF MissedTypes
      <4>2. CASE old = NoStream \/ open \notin Views
        <5>1. missed' = missed
          BY <1>2, <2>1, <4>2 DEF MissedTypes
        <5> QED
          BY <1>2, <5>1 DEF MissedTypes
      <4> QED
        BY <4>1, <4>2
    <3> QED
      BY <3>2, <3>4, <3>5, <3>6
  <2>2. CASE /\ \E e \in Streams : OpenStream(open, e) /\ view' = [view EXCEPT ![open].stream = e]
             /\ UNCHANGED missed
    <3>1. PICK e \in Streams : OpenStream(open, e) /\ view' = [view EXCEPT ![open].stream = e]
      BY <2>2
    <3>2. BusTypes' /\ EventInv'
      BY <1>1, <1>2, <3>1, OpenStreamKeeps
    <3>3. ViewTypes' /\ ViewInv'
      <4> DEFINE r == [w EXCEPT !.stream = e]
      <4>1. open \in Views => r \in ViewRecord /\ r.cards = view[open].cards
        BY <1>3 DEF ViewRecord
      <4>2. view' = [view EXCEPT ![open] = r]
        BY <3>1
      <4> HIDE DEF r
      <4> QED
        BY <1>1, <4>1, <4>2, CardsUntouched
    <3>4. MissedTypes'
      BY <1>2, <2>2 DEF MissedTypes
    <3> QED
      BY <3>2, <3>3, <3>4
  <2>3. CASE UNCHANGED <<busVars, view, missed>>
    <3>1. BusTypes' /\ ViewTypes' /\ MissedTypes'
      BY <1>1, <1>2, <2>3 DEF BusTypes, ViewTypes, MissedTypes, busVars
    <3>2. EventInv' /\ ViewInv'
      BY <1>1, <2>3, EventsKept, ViewsKept DEF busVars
    <3> QED
      BY <3>1, <3>2
  <2> QED
    BY <2>1, <2>2, <2>3 DEF MessageSent
<1> QED
  BY <1>4, <1>5, <1>6, PageStep DEF MessageSent

LEMMA PageKeeps == ASSUME IInv, Page PROVE IInv'
<1>1. CASE ChatCreated \/ ChatSelected \/ BackToList \/ ListLoaded
  BY <1>1, ChatCreatedKeeps, ChatSelectedKeeps, BackToListKeeps, ListLoadedKeeps
<1>2. CASE ChatClosed \/ PageLeft
  BY <1>2, CloseTabKeeps DEF ChatClosed, PageLeft
<1>3. CASE StopClicked \/ AbortChat \/ AbortAnswered \/ AbortLost
  BY <1>3, StopClickedKeeps, AbortChatKeeps, AbortAnsweredKeeps, AbortLostKeeps
<1>4. CASE MessageSent \/ PostMessage \/ PostLost
  BY <1>4, MessageSentKeeps, PostMessageKeeps, PostLostKeeps
<1>5. CASE \E l \in Loads : HistoryRead(l) \/ HistoryLoaded(l) \/ HistoryFailed(l)
  BY <1>5, HistoryReadKeeps, HistoryLoadedKeeps, HistoryFailedKeeps
<1> QED
  BY <1>1, <1>2, <1>3, <1>4, <1>5 DEF Page

-------------------------------------------------------------------------------
(* Answers *)

LEMMA CardClickedKeeps ==
  ASSUME IInv, NEW c \in Calls, NEW answer \in {"approved", "rejected"}, CardClicked(c, answer)
  PROVE  IInv'
<1>1. Stored' = Stored /\ ViewTypes /\ ViewInv
  BY ToolKept DEF IInv, Types, Inv, CardClicked
<1>2. ViewTypes' /\ ViewInv'
  <2>1. CASE open \in Views
    <3> DEFINE new == Updated(view[open].cards, c, answer)
               r == [view[open] EXCEPT !.cards = new]
    <3>1. view[open] \in ViewRecord /\ CardsInv(view[open].cards)
      BY <1>1, <2>1 DEF ViewTypes, ViewInv
    <3>2. view[open].cards \in Seq(Card)
      BY <3>1 DEF ViewRecord
    <3>3. new \in Seq(Card) /\ CardsInv(new)
      BY <3>1, <3>2, UpdatedCards DEF CardStatuses
    <3> HIDE DEF new
    <3>4. r \in ViewRecord /\ r.cards = new
      BY <3>1, <3>3 DEF ViewRecord
    <3>5. view' = [view EXCEPT ![open] = r]
      BY DEF CardClicked, new
    <3> HIDE DEF r
    <3> QED
      BY <1>1, <3>3, <3>4, <3>5, CardsReplaced
  <2>2. CASE open \notin Views
    <3>1. view' = view
      BY <1>1, <2>2 DEF ViewTypes, CardClicked
    <3> QED
      BY <1>1, <3>1, ViewsKept DEF ViewTypes
  <2> QED
    BY <2>1, <2>2
<1>3. BusTypes' /\ PageTypes' /\ LoadTypes' /\ MissedTypes'
  BY DEF IInv, Types, BusTypes, PageTypes, LoadTypes, MissedTypes, CardClicked, busVars, pageVars
<1>4. RequestTypes'
  BY DEF IInv, Types, PageTypes, RequestTypes, PatchRecord, CardClicked
<1>5. LoadInv' /\ EventInv'
  BY <1>1, LoadsKept, EventsKept DEF IInv, Inv, CardClicked, busVars
<1> QED
  BY <1>2, <1>3, <1>4, <1>5, PageStep DEF CardClicked

LEMMA PatchAnsweredKeeps == ASSUME IInv, NEW c \in Calls, PatchAnswered(c) PROVE IInv'
<1> DEFINE v == patch[c].view
           new == Updated(view[v].cards, c, "pending")
           r == [view[v] EXCEPT !.cards = new]
<1>1. Stored' = Stored /\ ViewTypes /\ ViewInv
  BY ToolKept DEF IInv, Types, Inv, PatchAnswered
<1>2. ViewTypes' /\ ViewInv'
  <2>1. CASE patch[c].at = "refused" /\ v \in Views
    <3>1. view[v] \in ViewRecord /\ CardsInv(view[v].cards)
      BY <1>1, <2>1 DEF ViewTypes, ViewInv
    <3>2. view[v].cards \in Seq(Card)
      BY <3>1 DEF ViewRecord
    <3>3. new \in Seq(Card) /\ CardsInv(new)
      BY <3>1, <3>2, UpdatedCards DEF CardStatuses
    <3>4. view' = [view EXCEPT ![v] = r]
      BY <2>1 DEF PatchAnswered
    <3> HIDE DEF new
    <3>5. r \in ViewRecord /\ r.cards = new
      BY <3>1, <3>3 DEF ViewRecord
    <3> HIDE DEF r
    <3> QED
      BY <1>1, <3>3, <3>4, <3>5, CardsReplaced
  <2>2. CASE patch[c].at # "refused" \/ v \notin Views
    <3>1. view' = view
      BY <1>1, <2>2 DEF ViewTypes, PatchAnswered
    <3> QED
      BY <1>1, <3>1, ViewsKept DEF ViewTypes
  <2> QED
    BY <2>1, <2>2
<1>3. BusTypes' /\ PageTypes' /\ LoadTypes' /\ MissedTypes'
  <2>1. BusTypes' /\ PageTypes' /\ LoadTypes'
    BY DEF IInv, Types, BusTypes, PageTypes, LoadTypes, PatchAnswered, busVars, pageVars
  <2>2. MissedTypes /\ c \in About
    BY DEF IInv, Types, About
  <2>3. CASE patch[c].at = "refused"
    <3> DEFINE m == IF row[c] = "pending" THEN missed[v] ELSE missed[v] \cup {c}
    <3>1. missed' = [missed EXCEPT ![v] = m]
      BY <2>3 DEF PatchAnswered
    <3>2. v \in Views => m \in SUBSET About
      BY <2>2 DEF MissedTypes
    <3> HIDE DEF m, v
    <3> QED
      BY <2>1, <2>2, <3>1, <3>2 DEF MissedTypes
  <2>4. CASE patch[c].at # "refused"
    <3>1. missed' = missed
      BY <2>4 DEF PatchAnswered
    <3> QED
      BY <2>1, <2>2, <3>1 DEF MissedTypes
  <2> QED
    BY <2>1, <2>2, <2>3, <2>4
<1>4. RequestTypes'
  BY DEF IInv, Types, RequestTypes, PatchRecord, PatchAnswered, NoPatch
<1>5. LoadInv' /\ EventInv'
  BY <1>1, LoadsKept, EventsKept DEF IInv, Inv, PatchAnswered, busVars
<1> QED
  BY <1>2, <1>3, <1>4, <1>5, PageStep DEF PatchAnswered

\* An answer for the gate, and an event that is not a result.
LEMMA ResolveStep ==
  ASSUME IInv, NEW c \in Calls, NEW answer, Resolve(c, answer), AgentTypes', ToolInv',
         Stored' = Stored, UNCHANGED <<view, pageVars, load>>, RequestTypes',
         Spend \/ UNCHANGED spent
  PROVE  IInv'
<1> DEFINE ev == [type |-> IF answer = "approved" THEN "tool_call_approved"
                           ELSE "tool_call_rejected", call |-> c]
<1>1. ev \in Event /\ ev.type # "tool_result"
  BY DEF Event
<1>2. Publish(<<ev>>)
  BY DEF Resolve
<1> HIDE DEF ev
<1>3. <<ev>> \in Seq(Event) /\ \A i \in DOMAIN <<ev>> : <<ev>>[i].type # "tool_result"
  BY <1>1
<1>4. BusTypes' /\ MissedTypes'
  BY <1>2, <1>3, PublishTypes DEF IInv, Types
<1>5. EventInv'
  BY <1>2, <1>3, EventsPublished DEF IInv, Types, Inv
<1>6. ViewTypes' /\ PageTypes' /\ LoadTypes' /\ SpentTypes'
  BY SpendTypes DEF IInv, Types, ViewTypes, PageTypes, LoadTypes, pageVars
<1>7. LoadInv' /\ ViewInv'
  BY LoadsKept, ViewsKept DEF IInv, Inv
<1> QED
  BY <1>4, <1>5, <1>6, <1>7 DEF IInv, Types, Inv

LEMMA PatchResolveKeeps == ASSUME IInv, NEW c \in Calls, PatchResolve(c) PROVE IInv'
<1>1. patch[c].answer \in {"approved", "rejected"}
  BY DEF IInv, Types, RequestTypes, PatchRecord
<1>2. AgentTypes' /\ RequestTypes'
  BY <1>1 DEF IInv, Types, AgentTypes, RequestTypes, PatchRecord, PatchResolve, Resolve
<1>3. ToolInv' /\ Stored' = Stored
  BY DEF IInv, Inv, ToolInv, PatchResolve, Stored, Distinct
<1> QED
  BY <1>2, <1>3, ResolveStep DEF PatchResolve

LEMMA OtherAnswersKeeps ==
  ASSUME IInv, NEW c \in Calls, NEW answer \in {"approved", "rejected"}, OtherAnswers(c, answer)
  PROVE  IInv'
<1>1. AgentTypes' /\ RequestTypes' /\ saved' = saved
  BY DEF IInv, Types, AgentTypes, RequestTypes, OtherAnswers, Resolve, httpVars
<1>2. \A d \in Calls : row[d] # "none" => row'[d] # "none"
  BY DEF IInv, Types, AgentTypes, OtherAnswers
<1>3. Stored' = Stored /\ Stored \subseteq Calls
  BY <1>1 DEF IInv, Types, AgentTypes, Stored
<1>4. ToolInv'
  BY <1>1, <1>2, <1>3 DEF IInv, Inv, ToolInv, OtherAnswers, Distinct
<1> QED
  BY <1>1, <1>3, <1>4, ResolveStep DEF OtherAnswers, httpVars

LEMMA AnswersKeep == ASSUME IInv, Answers PROVE IInv'
BY PatchCommitKeeps, PatchResolveKeeps, PatchAnsweredKeeps, PatchLostKeeps, CardClickedKeeps,
   OtherAnswersKeeps DEF Answers

-------------------------------------------------------------------------------
(* The theorems *)

LEMMA StutterKeeps == ASSUME IInv, UNCHANGED vars PROVE IInv'
<1>1. UNCHANGED agentVars /\ UNCHANGED <<pageVars, httpVars, busVars, view, spent, missed>>
  BY DEF vars
<1>2. BusTypes' /\ ViewTypes' /\ MissedTypes'
  BY <1>1 DEF IInv, Types, BusTypes, ViewTypes, MissedTypes, busVars
<1>3. EventInv' /\ ViewInv'
  BY <1>1, ToolKept, EventsKept, ViewsKept DEF IInv, Inv, busVars
<1> QED
  BY <1>1, <1>2, <1>3, StreamStep

LEMMA Inductive == Spec => []IInv
<1>1. Init => IInv
  BY Initially
<1>2. IInv /\ [Next]_vars => IInv'
  BY AgentKeeps, BusKeeps, PageKeeps, AnswersKeep, ReplacedKeeps, StutterKeeps DEF Next
<1> QED
  BY <1>1, <1>2, PTL DEF Spec

\* Every variable of the chat's view, of its bus and of its agent keeps its type.
THEOREM TypeCorrect == Spec => []TypeOK
<1>1. IInv => TypeOK
  BY TypeParts DEF IInv, Types
<1> QED
  BY <1>1, Inductive, PTL

\* However many streams, histories, clicks and errors: a view shows a tool call
\* once.
THEOREM OneCard == Spec => []OneCardPerCall
<1>1. IInv => OneCardPerCall
  BY ViewInvIs DEF IInv, Inv
<1> QED
  BY <1>1, Inductive, PTL

\* A card says executed only of a call whose result is stored.
THEOREM ExecutedStored == Spec => []ExecutedIsStored
<1>1. IInv => ExecutedIsStored
  BY ViewInvIs DEF IInv, Inv
<1> QED
  BY <1>1, Inductive, PTL

-------------------------------------------------------------------------------
(* The agent at rest, streams without a subscription, the open view *)

Resting == at = "idle" \/ (at = "over" /\ status \in {"idle", "stopped"})
StatusAtRest == /\ at = "idle" => status = "idle"
                /\ at \in Ending => ~inbox
NoQueueUnsubscribed == \A e \in Streams : es[e] # "open" => events[e] = <<>>
OpenIsOpen == \A v \in Views : v = open => view[v].at = "open"
ActiveIsOpen == active => open # NoView
NewIsBare ==
  \A v \in Views : view[v].at = "new" =>
    /\ \A e \in Streams : owner[e] # v
    /\ \A l \in Loads : load[l].at # "none" => load[l].view # v
Base == StatusAtRest /\ NoQueueUnsubscribed /\ OpenIsOpen /\ ActiveIsOpen /\ NewIsBare

LEMMA BaseInitially == Init => Base
BY NoViewIsNoView DEF Init, Base, StatusAtRest, NoQueueUnsubscribed, OpenIsOpen, ActiveIsOpen,
       NewIsBare, NoLoad, Ending

LEMMA StatusAtRestKept ==
  ASSUME IInv, StatusAtRest, [Next]_vars
  PROVE  StatusAtRest'
<1> USE DEF StatusAtRest, Ending
<1>1. CASE Agent
  <2>1. CASE BeginTurn \/ TakeMessage
    BY <2>1 DEF BeginTurn, TakeMessage
  <2>2. CASE AskTechnician \/ TakeDecision
    BY <2>2 DEF AskTechnician, TakeDecision
  <2>3. CASE ToolDone \/ FinishTurn
    BY <2>3 DEF ToolDone, FinishTurn
  <2>4. CASE Stopped \/ Failed
    BY <2>4 DEF Stopped, Failed, AgentEnds
  <2>5. ASSUME NEW c \in Calls, NEW a \in BOOLEAN, RequestTool(c, a)
        PROVE  StatusAtRest'
    BY <2>5 DEF RequestTool
  <2>6. CASE Fails \/ EndIsStored
    BY <2>6 DEF Fails, EndIsStored, Dropped
  <2> QED
    BY <1>1, <2>1, <2>2, <2>3, <2>4, <2>5, <2>6 DEF Agent
<1>2. CASE Bus
  <2>1. UNCHANGED agentVars
    BY <1>2 DEF Bus, Subscribe, Disconnect, Rejected, Deliver
  <2> QED
    BY <2>1 DEF agentVars
<1>3. CASE Page
  <2>1. CASE AbortChat \/ PostMessage
    BY <2>1 DEF AbortChat, Cancelled, CancelledUnheard, NotCancelled, PostMessage, Queued,
       Restarted, Refused, Dropped
  <2>2. CASE MessageSent
    BY <2>2 DEF MessageSent, agentVars
  <2>3. CASE ~(AbortChat \/ PostMessage \/ MessageSent)
    <3>1. UNCHANGED agentVars
      BY <1>3, <2>3 DEF Page, ChatCreated, ChatSelected, OpenChat, BackToList, ChatClosed, PageLeft,
         CloseTab, ListLoaded, StopClicked, AbortAnswered, AbortLost, PostLost, HistoryRead,
         HistoryLoaded, HistoryFailed
    <3> QED
      BY <3>1 DEF agentVars
  <2> QED
    BY <2>1, <2>2, <2>3
<1>4. CASE Answers
  <2>1. UNCHANGED <<at, status, inbox>>
    BY <1>4 DEF Answers, PatchCommit, PatchResolve, PatchAnswered, PatchLost, CardClicked,
       OtherAnswers, agentVars
  <2> QED
    BY <2>1
<1>5. CASE UNCHANGED vars
  BY <1>5 DEF vars, agentVars
<1>6. CASE Replaced
  BY <1>6 DEF Replaced, agentVars
<1> QED
  BY <1>1, <1>2, <1>3, <1>4, <1>5, <1>6 DEF Next

LEMMA NoQueueUnsubscribedKept ==
  ASSUME IInv, NoQueueUnsubscribed, [Next]_vars
  PROVE  NoQueueUnsubscribed'
<1> USE DEF NoQueueUnsubscribed
<1>0. BusTypes /\ ViewTypes
  BY DEF IInv, Types
<1>1. ASSUME NEW evs, Publish(evs) PROVE NoQueueUnsubscribed'
  BY <1>1 DEF Publish
<1>2. ASSUME NEW v, NEW e \in Streams, OpenStream(v, e) PROVE NoQueueUnsubscribed'
  BY <1>0, <1>2 DEF OpenStream, BusTypes
<1>3. CASE UNCHANGED busVars
  BY <1>3 DEF busVars
<1>4. CASE Agent
  <2>1. CASE BeginTurn \/ TakeMessage \/ Fails \/ EndIsStored
    BY <1>3, <2>1 DEF BeginTurn, TakeMessage, Fails, EndIsStored, Quiet
  <2>2. CASE AskTechnician \/ TakeDecision \/ ToolDone \/ FinishTurn
    BY <1>1, <2>2 DEF AskTechnician, TakeDecision, ToolDone, FinishTurn
  <2>3. CASE Stopped \/ Failed
    BY <1>1, <2>3 DEF Stopped, Failed, AgentEnds
  <2>4. ASSUME NEW c \in Calls, NEW a \in BOOLEAN, RequestTool(c, a)
        PROVE  NoQueueUnsubscribed'
    BY <1>1, <2>4 DEF RequestTool
  <2> QED
    BY <1>4, <2>1, <2>2, <2>3, <2>4 DEF Agent
<1>5. CASE Bus
  <2> SUFFICES ASSUME NEW e \in Streams, Subscribe(e) \/ Disconnect(e) \/ Rejected(e) \/ Deliver(e)
               PROVE  NoQueueUnsubscribed'
    BY <1>5 DEF Bus
  <2>1. CASE Subscribe(e)
    BY <1>0, <2>1 DEF Subscribe, BusTypes
  <2>2. CASE Disconnect(e)
    BY <1>0, <2>2 DEF Disconnect, BusTypes
  <2>3. CASE Rejected(e)
    BY <1>0, <2>3 DEF Rejected, BusTypes
  <2>4. CASE Deliver(e)
    BY <1>0, <2>4 DEF Deliver, BusTypes
  <2> QED
    BY <2>1, <2>2, <2>3, <2>4
<1>6. CASE Page
  <2>1. CASE ChatClosed \/ PageLeft
    BY <1>0, <2>1 DEF ChatClosed, PageLeft, CloseTab, BusTypes
  <2>2. ASSUME NEW l \in Loads, HistoryLoaded(l) \/ HistoryFailed(l)
        PROVE  NoQueueUnsubscribed'
    BY <1>2, <2>2 DEF HistoryLoaded, HistoryFailed
  <2>3. CASE MessageSent
    BY <1>0, <1>2, <1>3, <2>3 DEF MessageSent, BusTypes, busVars
  <2>4. CASE ~(ChatClosed \/ PageLeft \/ MessageSent
               \/ \E l \in Loads : HistoryLoaded(l) \/ HistoryFailed(l))
    <3>1. UNCHANGED busVars
      BY <1>6, <2>4 DEF Page, ChatCreated, ChatSelected, OpenChat, BackToList, ListLoaded,
         StopClicked, AbortChat, AbortAnswered, AbortLost, PostMessage, PostLost, HistoryRead,
         Cancelled, CancelledUnheard, NotCancelled, Unannounced, Queued, Restarted, Refused, Quiet
    <3> QED
      BY <1>3, <3>1
  <2> QED
    BY <2>1, <2>2, <2>3, <2>4
<1>7. CASE Answers
  <2> SUFFICES ASSUME NEW c \in Calls,
                      \/ PatchCommit(c) \/ PatchAnswered(c) \/ PatchLost(c)
                           \/ \E answer \in {"approved", "rejected"} : CardClicked(c, answer)
                      \/ PatchResolve(c)
                           \/ \E answer \in {"approved", "rejected"} : OtherAnswers(c, answer)
               PROVE  NoQueueUnsubscribed'
    BY <1>7 DEF Answers
  <2>1. CASE \/ PatchCommit(c) \/ PatchAnswered(c) \/ PatchLost(c)
             \/ \E answer \in {"approved", "rejected"} : CardClicked(c, answer)
    BY <1>3, <2>1 DEF PatchCommit, PatchAnswered, PatchLost, CardClicked
  <2>2. CASE \/ PatchResolve(c)
             \/ \E answer \in {"approved", "rejected"} : OtherAnswers(c, answer)
    BY <1>1, <2>2 DEF PatchResolve, OtherAnswers, Resolve
  <2> QED
    BY <2>1, <2>2
<1>9. CASE Replaced
  BY <1>1, <1>9 DEF Replaced
<1>8. CASE UNCHANGED vars
  BY <1>3, <1>8 DEF vars
<1> QED
  BY <1>4, <1>5, <1>6, <1>7, <1>8, <1>9 DEF Next

LEMMA OpenIsOpenKept ==
  ASSUME IInv, OpenIsOpen, [Next]_vars
  PROVE  OpenIsOpen'
<1> USE DEF OpenIsOpen
<1>0. ViewTypes /\ open \in Views \cup {NoView}
  BY DEF IInv, Types, PageTypes
<1>1. CASE UNCHANGED open /\ \A v \in Views : view'[v].at = view[v].at
  BY <1>1
<1>2. CASE Agent
  <2>1. UNCHANGED <<view, open>>
    BY <1>2 DEF Agent, BeginTurn, TakeMessage, AskTechnician, TakeDecision, ToolDone, FinishTurn,
       Fails, EndIsStored, Stopped, Failed, AgentEnds, RequestTool, AgentOnly, pageVars
  <2> QED
    BY <1>1, <2>1
<1>3. CASE Bus
  <2>1. UNCHANGED open /\ \A v \in Views : view'[v].at = view[v].at
    BY <1>0, <1>3 DEF Bus, Subscribe, Disconnect, Rejected, Deliver, pageVars, ViewTypes, ViewRecord
  <2> QED
    BY <1>1, <2>1
<1>4. CASE Page
  <2>1. ASSUME NEW v \in Views, NEW s, OpenChat(v, s)
        PROVE  OpenIsOpen'
    BY <1>0, <2>1 DEF OpenChat, ViewTypes, ViewRecord
  <2>2. CASE ChatCreated
    BY <2>1, <2>2 DEF ChatCreated
  <2>3. CASE ChatSelected
    <3>1. CASE \E v \in Views : OpenChat(v, listed)
      BY <2>1, <3>1
    <3>2. CASE ~\E v \in Views : OpenChat(v, listed)
      <4>1. UNCHANGED open /\ \A v \in Views : view'[v].at = view[v].at
        BY <1>0, <2>3, <3>2 DEF ChatSelected, ViewTypes, ViewRecord
      <4> QED
        BY <1>1, <4>1
    <3> QED
      BY <3>1, <3>2
  <2>4. CASE ChatClosed \/ PageLeft
    BY <2>4, NoViewIsNoView DEF ChatClosed, PageLeft, CloseTab
  <2>5. CASE MessageSent
    <3>1. UNCHANGED open /\ \A v \in Views : view'[v].at = view[v].at
      BY <1>0, <2>5 DEF MessageSent, ViewTypes, ViewRecord, pageVars, busVars
    <3> QED
      BY <1>1, <3>1
  <2>6. CASE AbortAnswered
    <3>1. UNCHANGED open /\ \A v \in Views : view'[v].at = view[v].at
      BY <1>0, <2>6 DEF AbortAnswered, ViewTypes, ViewRecord, pageVars
    <3> QED
      BY <1>1, <3>1
  <2>7. CASE \E l \in Loads : HistoryLoaded(l) \/ HistoryFailed(l)
    <3>1. PICK l \in Loads : HistoryLoaded(l) \/ HistoryFailed(l)
      BY <2>7
    <3> DEFINE w == load[l].view
    <3>2. PICK r : view' = [view EXCEPT ![w] = r] /\ (w \in Views => r.at = view[w].at)
      <4>1. CASE HistoryLoaded(l)
        <5> DEFINE cards == HistoryToMessages(l)
        <5>1. PICK e \in Streams : view' = [view EXCEPT ![w].cards = cards, ![w].stream = e]
          BY <4>1 DEF HistoryLoaded
        <5> DEFINE r == [view[w] EXCEPT !.cards = cards, !.stream = e]
        <5>2. view' = [view EXCEPT ![w] = r]
          BY <5>1
        <5>3. w \in Views => r.at = view[w].at
          BY <1>0 DEF ViewTypes, ViewRecord
        <5> HIDE DEF r
        <5> QED
          BY <5>2, <5>3
      <4>2. CASE HistoryFailed(l)
        <5>1. PICK e \in Streams : view' = [view EXCEPT ![w].stream = e]
          BY <4>2 DEF HistoryFailed
        <5> DEFINE r == [view[w] EXCEPT !.stream = e]
        <5>2. view' = [view EXCEPT ![w] = r]
          BY <5>1
        <5>3. w \in Views => r.at = view[w].at
          BY <1>0 DEF ViewTypes, ViewRecord
        <5> HIDE DEF r
        <5> QED
          BY <5>2, <5>3
      <4> QED
        BY <3>1, <4>1, <4>2
    <3>3. UNCHANGED open
      BY <3>1 DEF HistoryLoaded, HistoryFailed, pageVars
    <3> HIDE DEF w
    <3>4. \A v \in Views : view'[v].at = view[v].at
      BY <1>0, <3>2 DEF ViewTypes, ViewRecord
    <3> QED
      BY <1>1, <3>3, <3>4
  <2>8. CASE \/ BackToList \/ ListLoaded \/ StopClicked \/ AbortChat \/ AbortLost \/ PostMessage
             \/ PostLost \/ \E l \in Loads : HistoryRead(l)
    <3>1. UNCHANGED <<open, view>>
      BY <2>8 DEF BackToList, ListLoaded, StopClicked, AbortChat, AbortLost, PostMessage, PostLost,
         HistoryRead, pageVars
    <3> QED
      BY <1>1, <3>1
  <2> QED
    BY <1>4, <2>2, <2>3, <2>4, <2>5, <2>6, <2>7, <2>8 DEF Page
<1>5. CASE Answers
  <2>1. UNCHANGED open /\ \A v \in Views : view'[v].at = view[v].at
    BY <1>0, <1>5 DEF Answers, PatchCommit, PatchResolve, PatchAnswered, PatchLost, CardClicked,
       OtherAnswers, pageVars, ViewTypes, ViewRecord
  <2> QED
    BY <1>1, <2>1
<1>6. CASE UNCHANGED vars
  BY <1>1, <1>6 DEF vars, pageVars
<1>7. CASE Replaced
  BY <1>1, <1>7 DEF Replaced, pageVars
<1> QED
  BY <1>2, <1>3, <1>4, <1>5, <1>6, <1>7 DEF Next

LEMMA ActiveIsOpenKept ==
  ASSUME ActiveIsOpen, [Next]_vars
  PROVE  ActiveIsOpen'
<1> USE DEF ActiveIsOpen
<1>1. CASE UNCHANGED pageVars
  BY <1>1 DEF pageVars
<1>2. CASE Agent
  BY <1>1, <1>2 DEF Agent, BeginTurn, TakeMessage, AskTechnician, TakeDecision, ToolDone, FinishTurn,
     Fails, EndIsStored, Stopped, Failed, AgentEnds, RequestTool, AgentOnly
<1>3. CASE Bus
  BY <1>1, <1>3 DEF Bus, Subscribe, Disconnect, Rejected, Deliver
<1>4. CASE Answers
  BY <1>1, <1>4 DEF Answers, PatchCommit, PatchResolve, PatchAnswered, PatchLost, CardClicked,
     OtherAnswers
<1>5. CASE Page
  <2>1. CASE ChatCreated \/ ChatSelected
    BY <2>1, NoViewIsNoView DEF ChatCreated, ChatSelected, OpenChat
  <2>2. CASE BackToList \/ ChatClosed \/ PageLeft \/ ListLoaded
    <3>1. CASE BackToList \/ ChatClosed \/ PageLeft
      BY <3>1 DEF BackToList, ChatClosed, PageLeft, CloseTab
    <3>2. CASE ListLoaded
      BY <3>2 DEF ListLoaded
    <3> QED
      BY <2>2, <3>1, <3>2
  <2>3. CASE ~(ChatCreated \/ ChatSelected \/ BackToList \/ ChatClosed \/ PageLeft \/ ListLoaded)
    <3>1. UNCHANGED pageVars
      BY <1>5, <2>3 DEF Page, StopClicked, AbortChat, AbortAnswered, AbortLost, MessageSent,
         PostMessage, PostLost, HistoryRead, HistoryLoaded, HistoryFailed
    <3> QED
      BY <1>1, <3>1
  <2> QED
    BY <2>1, <2>2, <2>3
<1>6. CASE UNCHANGED vars
  BY <1>1, <1>6 DEF vars
<1>7. CASE Replaced
  BY <1>1, <1>7 DEF Replaced, pageVars
<1> QED
  BY <1>2, <1>3, <1>4, <1>5, <1>6, <1>7 DEF Next

LEMMA NewIsBareKept ==
  ASSUME IInv, OpenIsOpen, ActiveIsOpen, NewIsBare, [Next]_vars
  PROVE  NewIsBare'
<1> DEFINE Older == \A v \in Views : view'[v].at = "new" => view[v].at = "new"
           OlderOwners == \A e \in Streams : \A v \in Views :
             owner'[e] = v => owner[e] = v \/ view'[v].at # "new"
           OlderLoads == \A l \in Loads : load'[l].at = "none" \/ \A v \in Views :
             load'[l].view = v => (load[l].at # "none" /\ load[l].view = v) \/ view'[v].at # "new"
<1>0. ViewTypes /\ BusTypes /\ LoadTypes /\ open \in Views \cup {NoView}
  BY DEF IInv, Types, PageTypes
<1>1. ASSUME Older, OlderOwners, OlderLoads PROVE NewIsBare'
  BY <1>1 DEF NewIsBare
<1>2. CASE UNCHANGED <<view, owner, load>>
  BY <1>1, <1>2
<1>3. CASE Agent \/ Replaced \/ UNCHANGED vars
  BY <1>2, <1>3 DEF Agent, BeginTurn, TakeMessage, AskTechnician, TakeDecision, ToolDone, FinishTurn,
     Fails, EndIsStored, Stopped, Failed, AgentEnds, RequestTool, Replaced, Publish, Quiet, AgentOnly,
     httpVars, busVars, vars
<1>4. CASE Bus
  <2>1. Older
    BY <1>0, <1>4 DEF Bus, Subscribe, Disconnect, Rejected, Deliver, ViewTypes, ViewRecord
  <2>2. OlderOwners
    BY <1>0, <1>4, NoViewIsNoView DEF Bus, Subscribe, Disconnect, Rejected, Deliver, BusTypes
  <2>3. OlderLoads
    BY <1>4 DEF Bus, Subscribe, Disconnect, Rejected, Deliver, httpVars
  <2> QED
    BY <1>1, <2>1, <2>2, <2>3
<1>5. CASE Answers
  <2>1. Older
    BY <1>0, <1>5 DEF Answers, PatchCommit, PatchResolve, PatchAnswered, PatchLost, CardClicked,
       OtherAnswers, ViewTypes, ViewRecord
  <2>2. UNCHANGED <<owner, load>>
    BY <1>5 DEF Answers, PatchCommit, PatchResolve, PatchAnswered, PatchLost, CardClicked,
       OtherAnswers, Resolve, Publish, busVars, httpVars
  <2> QED
    BY <1>1, <2>1, <2>2
<1>6. CASE Page
  <2>1. ASSUME NEW w \in Views, NEW s, ConnectStream(w, s), view'[w].at # "new"
        PROVE  OlderLoads
    BY <1>0, <2>1 DEF ConnectStream, LoadTypes
  <2>2. ASSUME NEW w \in Views, NEW s, OpenChat(w, s) PROVE NewIsBare'
    <3>1. Older /\ view'[w].at = "open" /\ ConnectStream(w, s) /\ UNCHANGED owner
      BY <1>0, <2>2 DEF OpenChat, ViewTypes, ViewRecord, busVars
    <3>2. OlderLoads
      BY <2>1, <3>1
    <3> QED
      BY <1>1, <3>1, <3>2
  <2>3. CASE ChatSelected /\ ~\E w \in Views : OpenChat(w, listed)
    <3>1. open \in Views /\ view[open].at = "open" /\ UNCHANGED owner
      BY <1>0, <2>3 DEF ChatSelected, OpenIsOpen, busVars
    <3>2. CASE Connected(open)
      BY <1>2, <2>3, <3>1, <3>2 DEF ChatSelected
    <3>3. CASE ~Connected(open)
      <4>1. view' = [view EXCEPT ![open].stream = NoStream]
            /\ ConnectStream(open, view[open].status)
        BY <2>3, <3>3 DEF ChatSelected
      <4>2. Older /\ view'[open].at = "open"
        BY <1>0, <3>1, <4>1 DEF ViewTypes, ViewRecord
      <4>3. OlderLoads
        BY <2>1, <3>1, <4>1, <4>2
      <4> QED
        BY <1>1, <3>1, <4>2, <4>3
    <3> QED
      BY <3>2, <3>3
  <2>4. CASE ChatClosed \/ PageLeft
    <3>1. Older /\ UNCHANGED load
      <4>1. view' = [view EXCEPT ![open].at = "closed"] /\ UNCHANGED load
        BY <2>4 DEF ChatClosed, PageLeft, CloseTab, httpVars
      <4> QED
        BY <1>0, <4>1 DEF ViewTypes, ViewRecord
    <3>2. OlderOwners
      BY <2>4, NoViewIsNoView DEF ChatClosed, PageLeft, CloseTab
    <3> QED
      BY <1>1, <3>1, <3>2
  <2>5. CASE MessageSent
    <3>1. open \in Views /\ view[open].at = "open"
      BY <1>0, <2>5 DEF MessageSent, ActiveIsOpen, OpenIsOpen
    <3>2. (\A v \in Views : view'[v].at = view[v].at) /\ UNCHANGED load
      BY <1>0, <2>5 DEF MessageSent, ViewTypes, ViewRecord
    <3>3. \A e \in Streams : owner'[e] \in {owner[e], NoView, open}
      BY <1>0, <2>5 DEF MessageSent, OpenStream, BusTypes, busVars
    <3>4. OlderOwners
      BY <3>1, <3>2, <3>3, NoViewIsNoView
    <3> QED
      BY <1>1, <3>2, <3>4
  <2>6. CASE \E l \in Loads : HistoryLoaded(l) \/ HistoryFailed(l)
    <3>1. PICK l \in Loads : HistoryLoaded(l) \/ HistoryFailed(l)
      BY <2>6
    <3> DEFINE w == load[l].view
    <3>2. load[l].at # "none" /\ load' = [load EXCEPT ![l] = NoLoad]
      BY <3>1 DEF HistoryLoaded, HistoryFailed
    <3>3. \E e \in Streams : OpenStream(w, e)
      BY <3>1 DEF HistoryLoaded, HistoryFailed
    <3>4. \A v \in Views : view'[v].at = view[v].at
      <4>1. CASE HistoryLoaded(l)
        <5> DEFINE cards == HistoryToMessages(l)
        <5>1. PICK e \in Streams : view' = [view EXCEPT ![w].cards = cards, ![w].stream = e]
          BY <4>1 DEF HistoryLoaded
        <5> HIDE DEF cards, w
        <5> QED
          BY <1>0, <5>1 DEF ViewTypes, ViewRecord
      <4>2. CASE HistoryFailed(l)
        <5>1. PICK e \in Streams : view' = [view EXCEPT ![w].stream = e]
          BY <4>2 DEF HistoryFailed
        <5> HIDE DEF w
        <5> QED
          BY <1>0, <5>1 DEF ViewTypes, ViewRecord
      <4> QED
        BY <3>1, <4>1, <4>2
    <3>5. OlderLoads
      BY <1>0, <3>2 DEF LoadTypes, NoLoad
    <3>6. w \in Views => view[w].at # "new"
      BY <3>2 DEF NewIsBare
    <3> HIDE DEF w
    <3>7. OlderOwners
      BY <1>0, <3>3, <3>4, <3>6 DEF OpenStream, BusTypes
    <3> QED
      BY <1>1, <3>4, <3>5, <3>7
  <2>7. CASE \E l \in Loads : HistoryRead(l)
    <3>1. UNCHANGED <<view, owner>>
      BY <2>7 DEF HistoryRead, busVars
    <3>2. OlderLoads
      BY <1>0, <2>7 DEF HistoryRead, LoadTypes, LoadRecord
    <3> QED
      BY <1>1, <3>1, <3>2
  <2>8. CASE AbortAnswered
    <3>1. UNCHANGED <<owner, load>>
      BY <2>8 DEF AbortAnswered, busVars
    <3>2. Older
      BY <1>0, <2>8 DEF AbortAnswered, ViewTypes, ViewRecord
    <3> QED
      BY <1>1, <3>1, <3>2
  <2>9. CASE \/ BackToList \/ ListLoaded \/ StopClicked \/ AbortChat \/ AbortLost \/ PostMessage
             \/ PostLost
    BY <1>2, <2>9 DEF BackToList, ListLoaded, StopClicked, AbortChat, Cancelled, CancelledUnheard,
       NotCancelled, Unannounced, Quiet, AbortLost, PostMessage, Queued, Restarted, Refused, PostLost,
       busVars, httpVars
  <2> QED
    BY <1>6, <2>2, <2>3, <2>4, <2>5, <2>6, <2>7, <2>8, <2>9 DEF Page, ChatCreated
<1> QED
  BY <1>3, <1>4, <1>5, <1>6 DEF Next

LEMMA BaseAlways == Spec => []Base
<1>1. Init => Base
  BY BaseInitially
<1>2. IInv /\ Base /\ [Next]_vars => Base'
  BY StatusAtRestKept, NoQueueUnsubscribedKept, OpenIsOpenKept, ActiveIsOpenKept, NewIsBareKept
     DEF Base
<1> QED
  BY <1>1, <1>2, Inductive, PTL DEF Spec

-------------------------------------------------------------------------------
(* What is under way to the open view *)

\* q[i] is the last event of q about s.
LastAbout(q, s, i) ==
  i \in DOMAIN q /\ Subject(q[i]) = s /\ \A j \in DOMAIN q : j > i => Subject(q[j]) # s

\* A subscription of v still has to deliver an event of S.
Awaits(v, S) == \E e \in Subscribed(v) : \E i \in DOMAIN events[e] : events[e][i] \in S

\* What a step does to the subscriptions of v, if it neither publishes nor delivers.
StreamsKept(v) ==
  \A e \in Subscribed(v) : \/ e \in Subscribed(v)' /\ events'[e] = events[e]
                           \/ Subjects(events[e]) \subseteq missed'[v]
QueuesFewer ==
  \A e \in Streams : events'[e] = <<>> \/ UNCHANGED <<events[e], owner[e]>>

LEMMA AwaitsKept ==
  ASSUME NEW v, NEW S, NEW s, StreamsKept(v), Awaits(v, S),
         \A ev \in S : Subject(ev) = s, s \notin missed'[v]
  PROVE  Awaits(v, S)'
<1>1. PICK e \in Subscribed(v) : \E i \in DOMAIN events[e] : events[e][i] \in S
  BY DEF Awaits
<1>2. PICK i \in DOMAIN events[e] : events[e][i] \in S
  BY <1>1
<1>3. s \in Subjects(events[e])
  BY <1>2 DEF Subjects
<1>4. e \in Subscribed(v)' /\ events'[e] = events[e]
  BY <1>3 DEF StreamsKept
<1> QED
  BY <1>2, <1>4 DEF Awaits

LEMMA AwaitsPublished ==
  ASSUME BusTypes, NEW evs \in Seq(Event), Publish(evs), NEW v, NEW S, Awaits(v, S)
  PROVE  Awaits(v, S)'
<1>1. PICK e \in Subscribed(v) : \E i \in DOMAIN events[e] : events[e][i] \in S
  BY DEF Awaits
<1>2. PICK i \in DOMAIN events[e] : events[e][i] \in S
  BY <1>1
<1>3. e \in Subscribed(v)' /\ events'[e] = events[e] \o evs
  BY DEF Subscribed, Publish
<1>4. events[e] \in Seq(Event)
  BY DEF BusTypes, Subscribed
<1>5. i \in DOMAIN events'[e] /\ events'[e][i] = events[e][i]
  BY <1>3, <1>4
<1> QED
  BY <1>2, <1>3, <1>5 DEF Awaits

LEMMA PublishedAwaited ==
  ASSUME BusTypes, MissedTypes, NEW evs \in Seq(Event), Publish(evs),
         NEW v \in Views, view[v].at = "open", NEW S,
         NEW i \in DOMAIN evs, evs[i] \in S, Subject(evs[i]) \notin missed'[v]
  PROVE  Awaits(v, S)'
<1>0. Subject(evs[i]) # "end" /\ Subject(evs[i]) \in Subjects(evs)
  BY SubjectIs DEF Subjects
<1>1. Subscribed(v) # {}
  BY <1>0 DEF MissedTypes, Publish
<1>2. PICK e \in Subscribed(v) : TRUE
  BY <1>1
<1>3. e \in Subscribed(v)' /\ events'[e] = events[e] \o evs
  BY DEF Subscribed, Publish
<1>4. events[e] \in Seq(Event)
  BY DEF BusTypes, Subscribed
<1>5. Len(events[e]) + i \in DOMAIN events'[e] /\ events'[e][Len(events[e]) + i] = evs[i]
  BY <1>3, <1>4
<1> QED
  BY <1>3, <1>5 DEF Awaits

LEMMA AwaitsDelivered ==
  ASSUME BusTypes, NEW e \in Streams, Deliver(e), NEW v, NEW S, Awaits(v, S),
         owner[e] = v => Head(events[e]) \notin S
  PROVE  Awaits(v, S)'
<1>1. PICK x \in Subscribed(v) : \E i \in DOMAIN events[x] : events[x][i] \in S
  BY DEF Awaits
<1>2. PICK i \in DOMAIN events[x] : events[x][i] \in S
  BY <1>1
<1>3. x \in Subscribed(v)' /\ x \in Streams /\ owner[x] = v
  BY DEF Subscribed, Deliver
<1>4. events[x] \in Seq(Event)
  BY <1>3 DEF BusTypes
<1>5. CASE x # e
  <2>1. events'[x] = events[x]
    BY <1>3, <1>5 DEF BusTypes, Deliver
  <2> QED
    BY <1>2, <1>3, <2>1 DEF Awaits
<1>6. CASE x = e
  <2>1. events'[e] = Tail(events[e]) /\ events[e] # <<>>
    BY DEF BusTypes, Deliver
  <2>2. i # 1
    BY <1>2, <1>3, <1>4, <1>6
  <2>3. i - 1 \in DOMAIN events'[e] /\ events'[e][i - 1] = events[e][i]
    BY <1>2, <1>4, <1>6, <2>1, <2>2
  <2> QED
    BY <1>2, <1>3, <1>6, <2>3 DEF Awaits
<1> QED
  BY <1>5, <1>6

\* The steps that publish, and those that neither publish nor deliver.
Answering == {"approved", "rejected"}
Speaks ==
  \/ AskTechnician \/ TakeDecision \/ ToolDone \/ FinishTurn \/ Stopped \/ Failed \/ Replaced
  \/ \E c \in Calls, a \in BOOLEAN : RequestTool(c, a)
  \/ \E c \in Calls : PatchResolve(c) \/ \E answer \in Answering : OtherAnswers(c, answer)
Silent ==
  \/ BeginTurn \/ TakeMessage \/ Fails \/ EndIsStored \/ Page \/ UNCHANGED vars
  \/ \E e \in Streams : Subscribe(e) \/ Disconnect(e) \/ Rejected(e)
  \/ \E c \in Calls : \/ PatchCommit(c) \/ PatchAnswered(c) \/ PatchLost(c)
                      \/ \E answer \in Answering : CardClicked(c, answer)

LEMMA Kinds == ASSUME [Next]_vars PROVE Speaks \/ Silent \/ \E e \in Streams : Deliver(e)
BY DEF Next, Agent, Bus, Answers, Speaks, Silent, Answering

LEMMA SameStreams ==
  ASSUME UNCHANGED busVars
  PROVE  QueuesFewer /\ \A v \in Views : StreamsKept(v)
BY DEF busVars, QueuesFewer, StreamsKept, Subscribed

\* A stream that is opened had no subscription.
LEMMA OpenedStream ==
  ASSUME BusTypes, NEW w, NEW x \in Streams, OpenStream(w, x)
  PROVE  QueuesFewer /\ \A v \in Views : StreamsKept(v)
<1>1. es[x] = "closed" /\ \A e \in Streams \ {x} : UNCHANGED <<es[e], owner[e], events[e]>>
  BY DEF BusTypes, OpenStream, FreeStreams
<1>2. events'[x] = <<>>
  BY DEF BusTypes, OpenStream
<1>3. \A v \in Views : \A e \in Subscribed(v) : e # x
  BY <1>1 DEF Subscribed
<1> QED
  BY <1>1, <1>2, <1>3 DEF QueuesFewer, StreamsKept, Subscribed

LEMMA MessageSentStreams ==
  ASSUME IInv, MessageSent
  PROVE  QueuesFewer /\ \A v \in Views : v = open' => StreamsKept(v)
<1> DEFINE w == view[open]
           old == w.stream
<1>0. BusTypes /\ MissedTypes /\ open' = open
  BY DEF IInv, Types, MessageSent, pageVars
<1>1. CASE /\ \E e \in FreeStreams \cup ({old} \ {NoStream}) :
                /\ es' = [s \in Streams |-> IF s = e THEN "connecting"
                                            ELSE IF s = old THEN "closed" ELSE es[s]]
                /\ owner' = [s \in Streams |-> IF s = e THEN open
                                               ELSE IF s = old THEN NoView ELSE owner[s]]
                /\ events' = [s \in Streams |-> IF s \in {e, old} THEN <<>> ELSE events[s]]
                /\ view' = [view EXCEPT ![open].status = "running", ![open].stream = e]
           /\ missed' = IF old = NoStream THEN missed
                        ELSE [missed EXCEPT ![open] = @ \cup Subjects(events[old])]
  <2>1. PICK e \in FreeStreams \cup ({old} \ {NoStream}) :
                /\ es' = [s \in Streams |-> IF s = e THEN "connecting"
                                            ELSE IF s = old THEN "closed" ELSE es[s]]
                /\ owner' = [s \in Streams |-> IF s = e THEN open
                                               ELSE IF s = old THEN NoView ELSE owner[s]]
                /\ events' = [s \in Streams |-> IF s \in {e, old} THEN <<>> ELSE events[s]]
    BY <1>1
  <2> HIDE DEF old
  <2>2. QueuesFewer
    BY <2>1 DEF QueuesFewer
  <2> SUFFICES ASSUME NEW v \in Views, v = open, NEW x \in Subscribed(v)
               PROVE  \/ x \in Subscribed(v)' /\ events'[x] = events[x]
                      \/ Subjects(events[x]) \subseteq missed'[v]
    BY <1>0, <2>2 DEF StreamsKept
  <2>3. x \in Streams /\ owner[x] = v /\ es[x] = "open"
    BY DEF Subscribed
  <2>4. CASE x = old
    <3>1. missed'[v] = missed[v] \cup Subjects(events[old])
      BY <1>0, <1>1, <2>3, <2>4, NoStreamIsNoStream DEF MissedTypes
    <3> QED
      BY <2>4, <3>1
  <2>5. CASE x # old
    <3>1. x # e
      BY <2>3, <2>5 DEF FreeStreams
    <3>2. es'[x] = es[x] /\ owner'[x] = owner[x] /\ events'[x] = events[x]
      BY <2>1, <2>3, <2>5, <3>1
    <3> QED
      BY <2>3, <3>2 DEF Subscribed
  <2> QED
    BY <2>4, <2>5
<1>2. CASE \E e \in Streams : OpenStream(open, e)
  BY <1>0, <1>2, OpenedStream
<1>3. CASE UNCHANGED busVars
  BY <1>3, SameStreams
<1> QED
  BY <1>1, <1>2, <1>3 DEF MessageSent

LEMMA SilentStreams ==
  ASSUME IInv, Base, Silent
  PROVE  QueuesFewer /\ \A v \in Views : v = open' => StreamsKept(v)
<1>0. BusTypes /\ MissedTypes
  BY DEF IInv, Types
<1>1. CASE BeginTurn \/ TakeMessage \/ Fails \/ EndIsStored \/ UNCHANGED vars
  BY <1>1, SameStreams DEF BeginTurn, TakeMessage, Fails, EndIsStored, vars, Quiet
<1>2. CASE \E c \in Calls : \/ PatchCommit(c) \/ PatchAnswered(c) \/ PatchLost(c)
                            \/ \E answer \in Answering : CardClicked(c, answer)
  BY <1>2, SameStreams DEF PatchCommit, PatchAnswered, PatchLost, CardClicked
<1>3. CASE \E e \in Streams : Subscribe(e) \/ Disconnect(e) \/ Rejected(e)
  <2> SUFFICES ASSUME NEW e \in Streams, Subscribe(e) \/ Disconnect(e) \/ Rejected(e)
               PROVE  QueuesFewer /\ \A v \in Views : StreamsKept(v)
    BY <1>3
  <2>1. CASE Subscribe(e)
    BY <1>0, <2>1 DEF Subscribe, BusTypes, QueuesFewer, StreamsKept, Subscribed
  <2>2. CASE Disconnect(e)
    <3>1. \A x \in Streams \ {e} : UNCHANGED <<es[x], owner[x], events[x]>>
      BY <1>0, <2>2 DEF Disconnect, BusTypes
    <3>2. events'[e] = <<>> /\ owner'[e] = owner[e]
      BY <1>0, <2>2 DEF Disconnect, BusTypes
    <3>3. owner[e] \in Views => Subjects(events[e]) \subseteq missed'[owner[e]]
      BY <1>0, <2>2 DEF Disconnect, MissedTypes
    <3>4. \A v \in Views : e \in Subscribed(v) => owner[e] = v
      BY DEF Subscribed
    <3> QED
      BY <3>1, <3>2, <3>3, <3>4 DEF QueuesFewer, StreamsKept, Subscribed
  <2>3. CASE Rejected(e)
    <3>1. \A x \in Streams \ {e} : UNCHANGED <<es[x], owner[x], events[x]>>
      BY <1>0, <2>3 DEF Rejected, BusTypes
    <3>2. UNCHANGED events /\ es[e] # "open" /\ events[e] = <<>>
      BY <2>3 DEF Rejected, Base, NoQueueUnsubscribed
    <3> QED
      BY <3>1, <3>2 DEF QueuesFewer, StreamsKept, Subscribed
  <2> QED
    BY <2>1, <2>2, <2>3
<1>4. CASE Page
  <2>1. CASE ChatClosed \/ PageLeft
    <3>1. open' = NoView /\ QueuesFewer
      BY <2>1 DEF ChatClosed, PageLeft, CloseTab, QueuesFewer
    <3> QED
      BY <3>1, NoViewIsNoView
  <2>2. CASE \E l \in Loads : HistoryLoaded(l) \/ HistoryFailed(l)
    <3>1. PICK l \in Loads : \E e \in Streams : OpenStream(load[l].view, e)
      BY <2>2 DEF HistoryLoaded, HistoryFailed
    <3> QED
      BY <1>0, <3>1, OpenedStream
  <2>3. CASE MessageSent
    BY <2>3, MessageSentStreams
  <2>4. CASE ~(ChatClosed \/ PageLeft \/ MessageSent
               \/ \E l \in Loads : HistoryLoaded(l) \/ HistoryFailed(l))
    <3>1. UNCHANGED busVars
      BY <1>4, <2>4 DEF Page, ChatCreated, ChatSelected, OpenChat, BackToList, ListLoaded,
         StopClicked, AbortChat, Cancelled, CancelledUnheard, NotCancelled, Unannounced, Quiet,
         AbortAnswered, AbortLost, PostMessage, Queued, Restarted, Refused, PostLost, HistoryRead
    <3> QED
      BY <3>1, SameStreams
  <2> QED
    BY <2>1, <2>2, <2>3, <2>4
<1> QED
  BY <1>1, <1>2, <1>3, <1>4 DEF Silent

\* A step that neither publishes nor delivers takes nothing from what the open view
\* has missed, unless it opens the chat or loads its history.
LEMMA SilentMissed ==
  ASSUME IInv, Silent, NEW v \in Views, v = open'
  PROVE  \/ v = open /\ missed[v] \subseteq missed'[v]
         \/ view[v].at = "new" /\ \A c \in Calls : row'[c] # "none" => c \in missed'[v]
         \/ v = open /\ \E l \in Loads : HistoryLoaded(l) /\ v = load[l].view
<1>0. MissedTypes /\ BusTypes /\ v # NoView
  BY NoViewIsNoView DEF IInv, Types
<1>1. CASE open' = open /\ UNCHANGED missed
  BY <1>1
<1>2. CASE BeginTurn \/ TakeMessage \/ Fails \/ EndIsStored \/ UNCHANGED vars
  BY <1>1, <1>2 DEF BeginTurn, TakeMessage, Fails, EndIsStored, Quiet, AgentOnly, pageVars, vars
<1>3. CASE \E e \in Streams : Subscribe(e) \/ Disconnect(e) \/ Rejected(e)
  BY <1>0, <1>3 DEF Subscribe, Disconnect, Rejected, pageVars, MissedTypes
<1>4. CASE \E d \in Calls : \/ PatchCommit(d) \/ PatchAnswered(d) \/ PatchLost(d)
                            \/ \E answer \in Answering : CardClicked(d, answer)
  BY <1>0, <1>4 DEF PatchCommit, PatchAnswered, PatchLost, CardClicked, pageVars, MissedTypes
<1>5. ASSUME NEW w \in Views, NEW s, OpenChat(w, s)
      PROVE  view[v].at = "new" /\ \A c \in Calls : row'[c] # "none" => c \in missed'[v]
  <2>1. w = v /\ row' = row /\ view[v].at = "new"
    BY <1>5 DEF OpenChat, agentVars
  <2> QED
    BY <1>0, <1>5, <2>1 DEF OpenChat, MissedTypes
<1>6. CASE ChatSelected /\ ~\E w \in Views : OpenChat(w, listed)
  BY <1>1, <1>6 DEF ChatSelected
<1>7. CASE ChatClosed \/ PageLeft
  BY <1>0, <1>7 DEF ChatClosed, PageLeft, CloseTab
<1>8. CASE MessageSent
  <2>1. open' = open /\ v = open
    BY <1>8 DEF MessageSent, pageVars
  <2>2. UNCHANGED missed \/ \E S : missed' = [missed EXCEPT ![open] = @ \cup S]
    BY <1>8 DEF MessageSent
  <2> QED
    BY <1>0, <2>1, <2>2 DEF MissedTypes
<1>9. CASE \E l \in Loads : HistoryLoaded(l)
  BY <1>0, <1>9 DEF HistoryLoaded, pageVars, MissedTypes
<1>10. CASE PostMessage \/ PostLost \/ AbortChat
  <2>1. open' = open /\ v = open
    BY <1>10 DEF PostMessage, PostLost, AbortChat, pageVars
  <2>2. CASE PostMessage \/ PostLost
    <3>1. UNCHANGED missed \/ missed' = [missed EXCEPT ![post.view] = @ \cup {"status"}]
      BY <2>2 DEF PostMessage, Queued, Restarted, Refused, PostLost, Unanswered
    <3> QED
      BY <1>0, <2>1, <3>1 DEF MissedTypes
  <2>3. CASE AbortChat
    BY <1>0, <2>1, <2>3 DEF AbortChat, Cancelled, CancelledUnheard, NotCancelled, Unannounced, Quiet
  <2> QED
    BY <1>10, <2>2, <2>3
<1>11. CASE \/ BackToList \/ ListLoaded \/ StopClicked \/ AbortAnswered \/ AbortLost
            \/ \E l \in Loads : HistoryRead(l) \/ HistoryFailed(l)
  BY <1>1, <1>11 DEF BackToList, ListLoaded, StopClicked, AbortAnswered, AbortLost,
     HistoryRead, HistoryFailed, pageVars
<1> QED
  BY <1>2, <1>3, <1>4, <1>5, <1>6, <1>7, <1>8, <1>9, <1>10, <1>11
     DEF Silent, Page, ChatCreated

\* What it missed of the end stays missed, too.
LEMMA SilentEnd ==
  ASSUME IInv, Silent, NEW v \in Views, v = open', "end" \notin missed'[v], view[v].at # "new"
  PROVE  v = open /\ "end" \notin missed[v]
<1>1. CASE missed[v] \subseteq missed'[v]
  BY <1>1, SilentMissed DEF HistoryLoaded, pageVars
<1>2. ASSUME NEW l \in Loads, HistoryLoaded(l), v = open, v = load[l].view
      PROVE  "end" \notin missed[v]
  <2> DEFINE cards == HistoryToMessages(l)
             known == {c \in Calls : row[c] # "none"}
             shown == {cards[i].call : i \in DOMAIN cards}
  <2>1. cards \in Seq(Card)
    BY HistoryCards DEF IInv
  <2>2. missed' = [missed EXCEPT ![v] = (@ \cup known) \ shown]
    BY <1>2 DEF HistoryLoaded
  <2> HIDE DEF cards, known
  <2>3. \A i \in DOMAIN cards : cards[i] \in Card
    BY <2>1
  <2>4. "end" \notin shown
    BY <2>3, StatusIsNoCall DEF Card
  <2> HIDE DEF shown
  <2> QED
    BY <2>2, <2>4 DEF IInv, Types, MissedTypes
<1> QED
  BY <1>1, <1>2, SilentMissed

-------------------------------------------------------------------------------
(* The input of a chat at rest *)

Offering == {"agent_completed", "agent_idle", "agent_stopped", "agent_failed"}

\* What an agent at rest published last about its status enables the input, unless
\* the view was not told of the end.
RestAnnounced ==
  Resting => \A v \in Views : \A e \in Streams : \A i \in DOMAIN events[e] :
    v = open /\ owner[e] = v /\ "end" \notin missed[v] /\ LastAbout(events[e], "status", i) =>
      events[e][i].type \in Offering

\* A view that has not missed it offers the input, or is about to.
StatusEvents == {ev \in Event : Subject(ev) = "status"}
InputOffered ==
  \A v \in Views :
    v = open /\ {"status", "end"} \cap missed[v] = {} /\ Resting /\ ~inbox
        /\ ~(post.at = "sent" /\ post.view = v) =>
      CanSendMessage(view[v]) \/ Awaits(v, StatusEvents)

LEMMA LastOfFewer ==
  ASSUME NEW q \in Seq(Event), NEW r, r = q \/ r = <<>> \/ (q # <<>> /\ r = Tail(q)),
         NEW s, NEW i, LastAbout(r, s, i)
  PROVE  \E k \in DOMAIN q : LastAbout(q, s, k) /\ q[k] = r[i]
<1>1. CASE r = q
  BY <1>1 DEF LastAbout
<1>2. CASE r = <<>>
  BY <1>2 DEF LastAbout
<1>3. CASE q # <<>> /\ r = Tail(q)
  <2>1. i \in 1..Len(q) - 1 /\ \A j \in 1..Len(q) - 1 : j \in DOMAIN r /\ r[j] = q[j + 1]
    BY <1>3 DEF LastAbout
  <2>2. i + 1 \in DOMAIN q /\ Subject(q[i + 1]) = s /\ q[i + 1] = r[i]
    BY <2>1 DEF LastAbout
  <2>3. ASSUME NEW j \in DOMAIN q, j > i + 1 PROVE Subject(q[j]) # s
    <3>1. j \in 1..Len(q) /\ Len(q) \in Nat /\ i \in Nat
      BY <2>1
    <3>2. j - 1 \in 1..Len(q) - 1 /\ j - 1 > i /\ (j - 1) + 1 = j
      BY <2>1, <2>3, <3>1
    <3>3. j - 1 \in DOMAIN r /\ j - 1 > i /\ r[j - 1] = q[j]
      BY <2>1, <3>2
    <3> QED
      BY <3>3 DEF LastAbout
  <2> QED
    BY <2>2, <2>3 DEF LastAbout
<1> QED
  BY <1>1, <1>2, <1>3

\* The last event about s in a queue r that has grown by evs: of q, or of evs.
OldIsLast(q, evs, r, s, i) ==
  i \in DOMAIN q /\ LastAbout(q, s, i) /\ r[i] = q[i] /\ \A k \in DOMAIN evs : Subject(evs[k]) # s
NewIsLast(evs, r, s, i) == \E k \in DOMAIN evs : LastAbout(evs, s, k) /\ r[i] = evs[k]

LEMMA LastOfMore ==
  ASSUME NEW q \in Seq(Event), NEW evs \in Seq(Event), NEW r, r = q \o evs, NEW s, NEW i,
         LastAbout(r, s, i)
  PROVE  OldIsLast(q, evs, r, s, i) \/ NewIsLast(evs, r, s, i)
<1>1. /\ DOMAIN r = 1..Len(q) + Len(evs) /\ DOMAIN q = 1..Len(q) /\ DOMAIN evs = 1..Len(evs)
      /\ Len(q) \in Nat /\ Len(evs) \in Nat
      /\ \A j \in DOMAIN q : r[j] = q[j]
      /\ \A j \in DOMAIN evs : r[Len(q) + j] = evs[j]
  OBVIOUS
<1>2. CASE i \in DOMAIN q
  <2>1. LastAbout(q, s, i)
    BY <1>1, <1>2 DEF LastAbout
  <2>2. ASSUME NEW k \in DOMAIN evs PROVE Subject(evs[k]) # s
    <3>1. Len(q) + k \in DOMAIN r /\ Len(q) + k > i
      BY <1>1, <1>2
    <3> QED
      BY <1>1, <3>1 DEF LastAbout
  <2> QED
    BY <1>1, <1>2, <2>1, <2>2 DEF OldIsLast
<1>3. CASE i \notin DOMAIN q
  <2> DEFINE k == i - Len(q)
  <2>1. k \in DOMAIN evs /\ r[i] = evs[k]
    <3>1. i \in DOMAIN r
      BY DEF LastAbout
    <3>2. k \in DOMAIN evs /\ i = Len(q) + k
      BY <1>1, <1>3, <3>1
    <3> QED
      BY <1>1, <3>2
  <2>2. \A j \in DOMAIN evs : j > k => Len(q) + j \in DOMAIN r /\ Len(q) + j > i
    <3>1. i \in DOMAIN r
      BY DEF LastAbout
    <3> QED
      BY <1>1, <3>1
  <2>3. LastAbout(evs, s, k)
    BY <1>1, <2>1, <2>2 DEF LastAbout
  <2> QED
    BY <2>1, <2>3 DEF NewIsLast
<1> QED
  BY <1>2, <1>3

\* An agent that comes to rest says so, unless it is cancelled in an await in which
\* no handler hears it.
LEMMA SilentRest ==
  ASSUME Silent, Resting'
  PROVE  \/ Resting
         \/ UNCHANGED open /\ \A v \in Views : view[v].at = "open" => "end" \in missed'[v]
<1> USE DEF Resting
<1>1. CASE BeginTurn \/ TakeMessage \/ Fails \/ EndIsStored \/ UNCHANGED vars
  BY <1>1 DEF BeginTurn, TakeMessage, Fails, EndIsStored, vars, agentVars
<1>2. CASE \E c \in Calls : \/ PatchCommit(c) \/ PatchAnswered(c) \/ PatchLost(c)
                            \/ \E answer \in Answering : CardClicked(c, answer)
  BY <1>2 DEF PatchCommit, PatchAnswered, PatchLost, CardClicked, agentVars
<1>3. CASE \E e \in Streams : Subscribe(e) \/ Disconnect(e) \/ Rejected(e)
  BY <1>3 DEF Subscribe, Disconnect, Rejected, agentVars
<1>4. CASE Page
  <2>1. CASE PostMessage
    BY <2>1 DEF PostMessage, Queued, Restarted, Refused
  <2>2. CASE AbortChat
    <3>1. CASE at' # "over" \/ UNCHANGED <<at, status>>
      BY <2>2, <3>1 DEF AbortChat, Cancelled, CancelledUnheard, NotCancelled
    <3>2. CASE ~(at' # "over" \/ UNCHANGED <<at, status>>)
      BY <2>2, <3>2 DEF AbortChat, Cancelled, CancelledUnheard, NotCancelled, Unannounced, pageVars
    <3> QED
      BY <3>1, <3>2
  <2>3. CASE MessageSent
    BY <2>3 DEF MessageSent, agentVars
  <2>4. CASE ~(AbortChat \/ PostMessage \/ MessageSent)
    <3>1. UNCHANGED agentVars
      BY <1>4, <2>4 DEF Page, ChatCreated, ChatSelected, OpenChat, BackToList, ChatClosed, PageLeft,
         CloseTab, ListLoaded, StopClicked, AbortAnswered, AbortLost, PostLost, HistoryRead,
         HistoryLoaded, HistoryFailed
    <3> QED
      BY <3>1 DEF agentVars
  <2> QED
    BY <2>1, <2>2, <2>3, <2>4
<1> QED
  BY <1>1, <1>2, <1>3, <1>4 DEF Silent

\* What a step that ends at rest publishes about the status.
LEMMA SpeaksAtRest ==
  ASSUME IInv, Speaks, Resting'
  PROVE  \E evs \in Seq(Event) :
           /\ Publish(evs)
           /\ \A i \in DOMAIN evs : LastAbout(evs, "status", i) => evs[i].type \in Offering
           /\ \/ /\ Resting /\ UNCHANGED <<at, inbox, open, view, post>>
              \/ \E i \in DOMAIN evs : evs[i] \in StatusEvents
<1> USE DEF Resting
<1>1. CASE FinishTurn
  <2> DEFINE evs == <<[type |-> "agent_completed"], [type |-> "agent_idle"]>>
  <2>1. Publish(evs)
    BY <1>1 DEF FinishTurn
  <2>2. evs \in Seq(Event) /\ 1 \in DOMAIN evs /\ \A i \in DOMAIN evs : evs[i].type \in Offering
    BY DEF Event, Offering
  <2>3. evs[1] \in StatusEvents
    BY DEF StatusEvents, Event, Subject
  <2> HIDE DEF evs
  <2> QED
    BY <2>1, <2>2, <2>3
<1>2. CASE Stopped \/ Failed
  <2>1. PICK t \in {"agent_stopped", "agent_failed"} : Publish(<<[type |-> t]>>)
    BY <1>2 DEF Stopped, Failed, AgentEnds
  <2> DEFINE evs == <<[type |-> t]>>
  <2>2. evs \in Seq(Event) /\ 1 \in DOMAIN evs /\ \A i \in DOMAIN evs : evs[i].type \in Offering
    BY DEF Event, Offering
  <2>3. evs[1] \in StatusEvents
    BY DEF StatusEvents, Event, Subject
  <2>4. Publish(evs)
    BY <2>1
  <2> HIDE DEF evs
  <2> QED
    BY <2>2, <2>3, <2>4
<1>3. CASE \E c \in Calls : PatchResolve(c) \/ \E answer \in Answering : OtherAnswers(c, answer)
  <2>0. PICK c \in Calls : \E answer : Resolve(c, answer)
    BY <1>3 DEF PatchResolve, OtherAnswers
  <2>1. PICK answer : Resolve(c, answer)
    BY <2>0
  <2> DEFINE ev == [type |-> IF answer = "approved" THEN "tool_call_approved"
                             ELSE "tool_call_rejected", call |-> c]
             evs == <<ev>>
  <2>2. ev \in Event /\ Subject(ev) = c
    BY DEF Event, Subject
  <2>3. Publish(evs)
    BY <2>1 DEF Resolve
  <2> HIDE DEF ev
  <2>4. evs \in Seq(Event) /\ \A i \in DOMAIN evs : Subject(evs[i]) # "status"
    BY <2>2, StatusIsNoCall
  <2>5. UNCHANGED <<status, at, inbox, open, view, post>>
    BY <1>3 DEF PatchResolve, OtherAnswers, pageVars, httpVars
  <2> HIDE DEF evs
  <2> QED
    BY <2>3, <2>4, <2>5 DEF LastAbout
<1>4. CASE AskTechnician \/ TakeDecision \/ ToolDone \/ Replaced
  BY <1>4 DEF AskTechnician, TakeDecision, ToolDone, Replaced, agentVars
<1>5. CASE \E c \in Calls, a \in BOOLEAN : RequestTool(c, a)
  BY <1>5 DEF RequestTool
<1> QED
  BY <1>1, <1>2, <1>3, <1>4, <1>5 DEF Speaks

\* A publication that is not about the status leaves the end missed.
LEMMA EndPublished ==
  ASSUME MissedTypes, NEW evs \in Seq(Event), Publish(evs), NEW v \in Views, "end" \notin missed'[v],
         \A i \in DOMAIN evs : Subject(evs[i]) # "status"
  PROVE  "end" \notin missed[v]
<1>1. "status" \notin Subjects(evs)
  BY DEF Subjects
<1> QED
  BY <1>1 DEF MissedTypes, Publish

LEMMA DeliveredEnd ==
  ASSUME IInv, NEW e \in Streams, Deliver(e), NEW v \in Views, "end" \notin missed'[v]
  PROVE  "end" \notin missed[v]
<1> DEFINE ev == Head(events[e])
           cards == CardsAfter(view[owner[e]].cards, ev)
<1>1. events[e] \in Seq(Event) /\ events[e] # <<>>
  BY DEF IInv, Types, BusTypes, Deliver
<1>2. ev \in Event
  BY <1>1
<1>3. missed' = [missed EXCEPT ![owner[e]] =
        IF Subject(ev) = "status" \/ Has(cards, Subject(ev)) THEN @ \ {Subject(ev)} ELSE @]
  BY DEF Deliver
<1> HIDE DEF ev, cards
<1>4. Subject(ev) # "end"
  BY <1>2, SubjectIs
<1> QED
  BY <1>3, <1>4 DEF IInv, Types, MissedTypes

LEMMA RestAnnouncedKept ==
  ASSUME IInv, Base, RestAnnounced, [Next]_vars
  PROVE  RestAnnounced'
<1>0. BusTypes /\ MissedTypes
  BY DEF IInv, Types
<1> SUFFICES ASSUME Resting', NEW v \in Views, NEW e \in Streams, NEW i \in DOMAIN events'[e],
                    v = open', owner'[e] = v, "end" \notin missed'[v],
                    LastAbout(events'[e], "status", i)
             PROVE  events'[e][i].type \in Offering
  BY DEF RestAnnounced, Resting, LastAbout
<1>1. events[e] \in Seq(Event)
  BY <1>0 DEF BusTypes
<1>2. ASSUME Resting, v = open, owner[e] = v, "end" \notin missed[v],
             \/ events'[e] = events[e] \/ events'[e] = <<>>
             \/ events[e] # <<>> /\ events'[e] = Tail(events[e])
      PROVE  events'[e][i].type \in Offering
  <2> DEFINE q == events[e]
             r == events'[e]
  <2>a. q \in Seq(Event) /\ (r = q \/ r = <<>> \/ (q # <<>> /\ r = Tail(q)))
        /\ LastAbout(r, "status", i)
    BY <1>1, <1>2
  <2> HIDE DEF q, r
  <2>b. \E k \in DOMAIN q : LastAbout(q, "status", k) /\ q[k] = r[i]
    BY <2>a, LastOfFewer
  <2>1. PICK k \in DOMAIN events[e] : LastAbout(events[e], "status", k)
                                      /\ events[e][k] = events'[e][i]
    BY <2>b DEF q, r
  <2> QED
    BY <1>2, <2>1 DEF RestAnnounced
<1>3. CASE Silent
  <2>1. events'[e] = events[e] /\ owner[e] = v
    BY <1>3, SilentStreams DEF QueuesFewer
  <2>2. v = open /\ "end" \notin missed[v]
    BY <1>3, <2>1, SilentEnd DEF Base, NewIsBare
  <2>3. Resting
    BY <1>3, <2>2, SilentRest DEF Base, OpenIsOpen
  <2> QED
    BY <1>2, <2>1, <2>2, <2>3
<1>4. CASE \E d \in Streams : Deliver(d)
  <2>1. PICK d \in Streams : Deliver(d)
    BY <1>4
  <2>2. Resting /\ v = open /\ owner[e] = v
    BY <2>1 DEF Deliver, agentVars, pageVars, Resting
  <2>3. \/ events'[e] = events[e]
        \/ events[e] # <<>> /\ events'[e] = Tail(events[e])
    BY <1>0, <2>1 DEF Deliver, BusTypes
  <2> QED
    BY <1>2, <2>1, <2>2, <2>3, DeliveredEnd
<1>5. CASE Speaks
  <2>1. PICK evs \in Seq(Event) :
          /\ Publish(evs)
          /\ \A k \in DOMAIN evs : LastAbout(evs, "status", k) => evs[k].type \in Offering
          /\ \/ Resting /\ UNCHANGED open
             \/ \E k \in DOMAIN evs : evs[k] \in StatusEvents
    BY <1>5, SpeaksAtRest
  <2>2. /\ events'[e] = IF es[e] = "open" THEN events[e] \o evs ELSE events[e]
        /\ owner[e] = v
    BY <2>1 DEF Publish
  <2>3. CASE es[e] # "open"
    <3>1. events[e] = <<>>
      BY <2>3 DEF Base, NoQueueUnsubscribed
    <3> QED
      BY <2>2, <2>3, <3>1 DEF LastAbout
  <2>4. CASE es[e] = "open"
    <3>1. events'[e] = events[e] \o evs
      BY <2>2, <2>4
    <3>2. \/ OldIsLast(events[e], evs, events'[e], "status", i)
          \/ NewIsLast(evs, events'[e], "status", i)
      BY <1>1, <3>1, LastOfMore
    <3>3. CASE OldIsLast(events[e], evs, events'[e], "status", i)
      <4>1. Resting /\ v = open
        BY <2>1, <3>3 DEF StatusEvents, OldIsLast
      <4>2. "end" \notin missed[v]
        BY <1>0, <2>1, <3>3, EndPublished DEF OldIsLast
      <4> QED
        BY <2>2, <3>3, <4>1, <4>2 DEF RestAnnounced, OldIsLast
    <3> QED
      BY <2>1, <3>2, <3>3 DEF NewIsLast
  <2> QED
    BY <2>3, <2>4
<1> QED
  BY <1>3, <1>4, <1>5, Kinds

\* The premise of InputOffered.
Quieted(v) == /\ v = open /\ {"status", "end"} \cap missed[v] = {} /\ Resting /\ ~inbox
              /\ ~(post.at = "sent" /\ post.view = v)

LEMMA OfferedOnOpening ==
  ASSUME IInv, Base, NEW w \in Views, NEW s \in Statuses, OpenChat(w, s),
         NEW v \in Views, Quieted(v)'
  PROVE  CanSendMessage(view'[v])
<1>1. v = w /\ s = status /\ Resting
  BY DEF IInv, Types, MissedTypes, OpenChat, Quieted, Resting, agentVars
<1>2. view'[v].status = s
  BY <1>1 DEF IInv, Types, ViewTypes, ViewRecord, OpenChat
<1> QED
  BY <1>1, <1>2 DEF Base, StatusAtRest, Resting, CanSendMessage

LEMMA SilentOffered ==
  ASSUME IInv, Base, InputOffered, Silent, NEW v \in Views, Quieted(v)'
  PROVE  CanSendMessage(view'[v]) \/ Awaits(v, StatusEvents)'
<1>a. view[v].at # "new" => v = open /\ "end" \notin missed[v]
  BY SilentEnd DEF Quieted
<1>b. ViewTypes /\ MissedTypes /\ RequestTypes
  BY DEF IInv, Types
<1>0. Resting /\ ViewTypes /\ MissedTypes /\ RequestTypes
  BY <1>b, SilentRest DEF Quieted, Base, OpenIsOpen
<1>1. ASSUME v = open, "status" \notin missed[v], ~inbox, ~(post.at = "sent" /\ post.view = v),
             view'[v].status = view[v].status
      PROVE  CanSendMessage(view'[v]) \/ Awaits(v, StatusEvents)'
  <2>1. CanSendMessage(view[v]) \/ Awaits(v, StatusEvents)
    BY <1>0, <1>1, <1>a DEF InputOffered, Base, OpenIsOpen
  <2>2. CanSendMessage(view[v]) => CanSendMessage(view'[v])
    BY <1>1 DEF CanSendMessage
  <2>3. StreamsKept(v) /\ "status" \notin missed'[v]
    BY SilentStreams DEF Quieted
  <2>4. \A ev \in StatusEvents : Subject(ev) = "status"
    BY DEF StatusEvents
  <2>5. Awaits(v, StatusEvents) => Awaits(v, StatusEvents)'
    BY <2>3, <2>4, AwaitsKept
  <2> QED
    BY <2>1, <2>2, <2>5
<1> USE DEF Quieted
<1>2. CASE BeginTurn \/ TakeMessage \/ Fails \/ EndIsStored
  BY <1>2 DEF BeginTurn, TakeMessage, Fails, EndIsStored, Resting
<1>3. CASE UNCHANGED vars
  BY <1>1, <1>3 DEF vars, agentVars, pageVars, httpVars
<1>4. CASE \E c \in Calls : \/ PatchCommit(c) \/ PatchAnswered(c) \/ PatchLost(c)
                            \/ \E answer \in Answering : CardClicked(c, answer)
  <2> SUFFICES ASSUME NEW c \in Calls, \/ PatchCommit(c) \/ PatchAnswered(c) \/ PatchLost(c)
                            \/ \E answer \in Answering : CardClicked(c, answer)
               PROVE  CanSendMessage(view'[v]) \/ Awaits(v, StatusEvents)'
    BY <1>4
  <2>1. CASE PatchCommit(c) \/ PatchLost(c)
    BY <1>1, <2>1 DEF PatchCommit, PatchLost, agentVars, pageVars
  <2>2. CASE PatchAnswered(c)
    <3>1. view'[v].status = view[v].status
      <4>1. CASE patch[c].at = "refused"
        <5> DEFINE w == patch[c].view
                   r == [view[w] EXCEPT !.cards = Updated(view[w].cards, c, "pending")]
        <5>1. view' = [view EXCEPT ![w] = r]
          BY <2>2, <4>1 DEF PatchAnswered
        <5>2. w \in Views => r.status = view[w].status
          BY <1>0 DEF ViewTypes, ViewRecord
        <5> HIDE DEF r, w
        <5> QED
          BY <1>0, <5>1, <5>2 DEF ViewTypes
      <4>2. CASE patch[c].at # "refused"
        BY <2>2, <4>2 DEF PatchAnswered
      <4> QED
        BY <4>1, <4>2
    <3>2. "status" \notin missed[v]
      BY <1>0, <2>2 DEF PatchAnswered, MissedTypes
    <3>3. UNCHANGED <<open, inbox, post>>
      BY <2>2 DEF PatchAnswered, agentVars, pageVars
    <3> QED
      BY <1>1, <3>1, <3>2, <3>3
  <2>3. CASE \E answer \in Answering : CardClicked(c, answer)
    <3>1. view'[v].status = view[v].status
      BY <1>0, <2>3 DEF CardClicked, ViewTypes, ViewRecord
    <3>2. UNCHANGED <<open, inbox, post, missed>>
      BY <2>3 DEF CardClicked, agentVars, pageVars
    <3> QED
      BY <1>1, <3>1, <3>2
  <2> QED
    BY <2>1, <2>2, <2>3
<1>5. CASE \E e \in Streams : Subscribe(e) \/ Disconnect(e) \/ Rejected(e)
  <2>1. UNCHANGED <<open, inbox, post, view>>
    BY <1>5 DEF Subscribe, Disconnect, Rejected, agentVars, pageVars, httpVars
  <2>2. "status" \notin missed[v]
    BY <1>0, <1>5 DEF Subscribe, Disconnect, Rejected, MissedTypes
  <2> QED
    BY <1>1, <2>1, <2>2
<1>6. CASE ChatCreated \/ ChatSelected
  <2>1. ASSUME NEW w \in Views, NEW s \in Statuses, OpenChat(w, s)
        PROVE  CanSendMessage(view'[v])
    BY <2>1, OfferedOnOpening
  <2>2. CASE ChatCreated \/ \E w \in Views : OpenChat(w, listed)
    BY <2>1, <2>2 DEF ChatCreated, Statuses, IInv, Types, PageTypes
  <2>3. CASE ~(ChatCreated \/ \E w \in Views : OpenChat(w, listed))
    <3>1. UNCHANGED <<open, inbox, post, missed>>
      BY <1>6, <2>3 DEF ChatSelected, agentVars
    <3>2. view'[v].status = view[v].status
      BY <1>0, <1>6, <2>3 DEF ChatSelected, ViewTypes, ViewRecord
    <3> QED
      BY <1>1, <3>1, <3>2
  <2> QED
    BY <2>2, <2>3
<1>7. CASE ChatClosed \/ PageLeft
  BY <1>7, NoViewIsNoView DEF ChatClosed, PageLeft, CloseTab
<1>8. CASE BackToList \/ ListLoaded \/ StopClicked \/ AbortLost \/ \E l \in Loads : HistoryRead(l)
  BY <1>1, <1>8 DEF BackToList, ListLoaded, StopClicked, AbortLost, HistoryRead, agentVars, httpVars,
     pageVars
<1>9. CASE AbortChat
  <2>1. UNCHANGED <<open, view, post>> /\ v = open /\ view[v].at = "open"
    BY <1>9 DEF AbortChat, pageVars, Base, OpenIsOpen
  <2>2. UNCHANGED <<missed, inbox>>
    BY <1>9, <2>1 DEF AbortChat, Cancelled, CancelledUnheard, NotCancelled, Unannounced, Quiet, Resting
  <2> QED
    BY <1>1, <2>1, <2>2
<1>10. CASE AbortAnswered
  <2>1. UNCHANGED <<open, inbox, post, missed>>
    BY <1>10 DEF AbortAnswered, agentVars, pageVars
  <2>2. view'[v].status = view[v].status \/ view'[v].status = "stopped"
    BY <1>0, <1>10 DEF AbortAnswered, ViewTypes, ViewRecord
  <2> QED
    BY <1>1, <2>1, <2>2 DEF CanSendMessage
<1>11. CASE MessageSent
  BY <1>11 DEF MessageSent, pageVars
\* It is queued for an idle agent, and starts one that is over; or it is lost.
<1>12. CASE PostMessage
  <2>1. at = "over" /\ Unanswered
    BY <1>0, <1>12 DEF PostMessage, Queued, Restarted, Refused, Base, StatusAtRest, Resting, Ending
  <2>2. UNCHANGED <<open, view>> /\ ~inbox
    BY <1>12, <2>1 DEF PostMessage, pageVars, Base, StatusAtRest, Ending
  <2>3. post.view # v /\ "status" \notin missed[v]
    BY <1>0, <2>1 DEF Unanswered, MissedTypes
  <2> QED
    BY <1>1, <2>2, <2>3
<1>13. CASE PostLost
  <2>1. UNCHANGED <<open, inbox, view>>
    BY <1>13 DEF PostLost, agentVars, pageVars
  <2>2. post.view # v /\ "status" \notin missed[v]
    BY <1>0, <1>13 DEF PostLost, Unanswered, MissedTypes
  <2> QED
    BY <1>1, <2>1, <2>2
<1>14. CASE \E l \in Loads : HistoryLoaded(l) \/ HistoryFailed(l)
  <2> SUFFICES ASSUME NEW l \in Loads, HistoryLoaded(l) \/ HistoryFailed(l)
               PROVE  CanSendMessage(view'[v]) \/ Awaits(v, StatusEvents)'
    BY <1>14
  <2>1. UNCHANGED <<open, inbox, post>>
    BY DEF HistoryLoaded, HistoryFailed, agentVars, pageVars
  <2>2. CASE HistoryLoaded(l)
    <3> DEFINE w == load[l].view
               cards == HistoryToMessages(l)
               shown == {cards[i].call : i \in DOMAIN cards}
               known == {c \in Calls : row[c] # "none"}
    <3>1. missed' = [missed EXCEPT ![w] = (@ \cup known) \ shown]
      BY <2>2 DEF HistoryLoaded
    <3>2. shown \subseteq Calls
      <4>1. cards \in Seq(Card)
        BY HistoryCards
      <4> HIDE DEF cards
      <4>2. \A i \in DOMAIN cards : cards[i] \in Card
        BY <4>1
      <4>3. \A i \in DOMAIN cards : cards[i].call \in Calls
        BY <4>2 DEF Card
      <4> QED
        BY <4>3
    <3>3. PICK e \in Streams : view' = [view EXCEPT ![w].cards = cards, ![w].stream = e]
      BY <2>2 DEF HistoryLoaded
    <3> DEFINE r == [view[w] EXCEPT !.cards = cards, !.stream = e]
    <3>4. view' = [view EXCEPT ![w] = r]
      BY <3>3
    <3>5. w \in Views => r.status = view[w].status
      BY <1>0 DEF ViewTypes, ViewRecord
    <3> HIDE DEF r, w, cards, shown, known
    <3>6. view'[v].status = view[v].status
      BY <1>0, <3>4, <3>5 DEF ViewTypes
    <3>7. "status" \notin missed[v]
      BY <1>0, <3>1, <3>2, StatusIsNoCall DEF MissedTypes
    <3> QED
      BY <1>1, <2>1, <3>6, <3>7
  <2>3. CASE HistoryFailed(l)
    <3> DEFINE w == load[l].view
    <3>1. missed' = missed
      BY <2>3 DEF HistoryFailed
    <3>2. PICK e \in Streams : view' = [view EXCEPT ![w].stream = e]
      BY <2>3 DEF HistoryFailed
    <3> HIDE DEF w
    <3>3. view'[v].status = view[v].status
      BY <1>0, <3>2 DEF ViewTypes, ViewRecord
    <3> QED
      BY <1>1, <2>1, <3>1, <3>3
  <2> QED
    BY <2>2, <2>3
<1> QED
  BY <1>2, <1>3, <1>4, <1>5, <1>6, <1>7, <1>8, <1>9, <1>10, <1>11, <1>12, <1>13, <1>14
     DEF Silent, Page

LEMMA DeliverOffered ==
  ASSUME IInv, Base, RestAnnounced, InputOffered, NEW e \in Streams, Deliver(e),
         NEW v \in Views, Quieted(v)'
  PROVE  CanSendMessage(view'[v]) \/ Awaits(v, StatusEvents)'
<1> DEFINE w == owner[e]
           ev == Head(events[e])
           cards == CardsAfter(view[w].cards, ev)
           st == StatusAfter(view[w].status, ev)
<1>0. BusTypes /\ ViewTypes /\ MissedTypes
  BY DEF IInv, Types
<1>1. events[e] \in Seq(Event) /\ events[e] # <<>> /\ e \in Streams /\ es[e] = "open"
  BY <1>0 DEF BusTypes, Deliver
<1>2. ev \in Event /\ ev = events[e][1] /\ 1 \in DOMAIN events[e]
  BY <1>1
<1>3. /\ v = open /\ Resting /\ ~inbox /\ ~(post.at = "sent" /\ post.view = v)
      /\ "end" \notin missed[v]
  <2>1. "end" \notin missed'[v]
    BY DEF Quieted
  <2> QED
    BY <2>1, DeliveredEnd DEF Quieted, Deliver, Resting, agentVars, pageVars, httpVars
<1>4. view'[v].status = IF v = w THEN st ELSE view[v].status
  <2> DEFINE r == [view[w] EXCEPT !.cards = cards, !.status = st]
  <2> HIDE DEF ev
  <2>1. view' = [view EXCEPT ![w] = r]
    BY DEF Deliver, ev
  <2> HIDE DEF cards, st
  <2>2. w \in Views => r.status = st
    BY <1>0 DEF ViewTypes, ViewRecord
  <2> HIDE DEF r, w
  <2> QED
    BY <1>0, <2>1, <2>2 DEF ViewTypes
<1>5. CASE w = v /\ ev \in StatusEvents
  <2>1. CASE LastAbout(events[e], "status", 1)
    <3>1. ev.type \in Offering
      BY <1>2, <1>3, <1>5, <2>1 DEF RestAnnounced
    <3>2. st \in {"idle", "stopped"}
      BY <3>1 DEF StatusAfter, Offering
    <3> QED
      BY <1>4, <1>5, <3>2 DEF CanSendMessage
  <2>2. CASE ~LastAbout(events[e], "status", 1)
    <3>1. PICK j \in DOMAIN events[e] : j > 1 /\ Subject(events[e][j]) = "status"
      BY <1>2, <1>5, <2>2 DEF LastAbout, StatusEvents
    <3>2. events'[e] = Tail(events[e]) /\ e \in Subscribed(v)'
      BY <1>0, <1>1, <1>5 DEF BusTypes, Deliver, Subscribed
    <3>3. j - 1 \in DOMAIN events'[e] /\ events'[e][j - 1] = events[e][j]
      BY <1>1, <3>1, <3>2
    <3>4. events[e][j] \in StatusEvents
      BY <1>1, <3>1 DEF StatusEvents
    <3> QED
      BY <3>2, <3>3, <3>4 DEF Awaits
  <2> QED
    BY <2>1, <2>2
<1>6. CASE w # v \/ ev \notin StatusEvents
  <2>1. Subject(ev) \in About
    BY <1>2, SubjectIs DEF About
  <2>2. w = v => Subject(ev) # "status"
    BY <1>2, <1>6 DEF StatusEvents
  <2>3. "status" \notin missed[v]
    <3> HIDE DEF ev, w
    <3>1. missed' = [missed EXCEPT ![w] =
            IF Subject(ev) = "status" \/ Has(cards, Subject(ev)) THEN @ \ {Subject(ev)} ELSE @]
      BY DEF Deliver, ev, w
    <3>2. "status" \notin missed'[v]
      BY DEF Quieted
    <3> HIDE DEF cards
    <3> QED
      BY <1>0, <2>2, <3>1, <3>2 DEF MissedTypes
  <2>4. CanSendMessage(view[v]) \/ Awaits(v, StatusEvents)
    BY <1>3, <2>3 DEF InputOffered
  <2>5. w = v => st = view[v].status
    <3>1. ASSUME w = v
          PROVE  ev.type \in {"tool_call_requested", "tool_call_approved", "tool_call_rejected",
                              "tool_result"}
      <4> HIDE DEF ev, w
      <4>1. ev \notin [type : {"status_change"}, status : Statuses]
            /\ ev \notin [type : {"agent_completed", "agent_idle", "agent_stopped", "agent_failed"}]
        BY <2>2, <3>1 DEF Subject
      <4> QED
        BY <1>2, <4>1 DEF Event
    <3> QED
      BY <3>1 DEF StatusAfter
  <2>6. view'[v].status = view[v].status
    BY <1>4, <2>5
  <2>7. Awaits(v, StatusEvents) => Awaits(v, StatusEvents)'
    BY <1>0, <1>6, AwaitsDelivered
  <2> QED
    BY <2>4, <2>6, <2>7 DEF CanSendMessage
<1> QED
  BY <1>5, <1>6

LEMMA SpeaksOffered ==
  ASSUME IInv, Base, InputOffered, Speaks, NEW v \in Views, Quieted(v)'
  PROVE  CanSendMessage(view'[v]) \/ Awaits(v, StatusEvents)'
<1>0. BusTypes /\ MissedTypes
  BY DEF IInv, Types
<1>1. PICK evs \in Seq(Event) :
        /\ Publish(evs)
        /\ \/ Resting /\ UNCHANGED <<at, inbox, open, view, post>>
           \/ \E i \in DOMAIN evs : evs[i] \in StatusEvents
  BY SpeaksAtRest DEF Quieted
<1>2. open' = open
  BY DEF Speaks, AskTechnician, TakeDecision, ToolDone, FinishTurn, Stopped, Failed, AgentEnds,
     Replaced, RequestTool, PatchResolve, OtherAnswers, AgentOnly, pageVars
<1>3. CASE ~\E i \in DOMAIN evs : evs[i] \in StatusEvents
  <2>0. \A i \in DOMAIN evs : Subject(evs[i]) # "status"
    BY <1>3 DEF StatusEvents
  <2>1. {"status", "end"} \cap missed[v] = {}
    BY <1>0, <1>1, <2>0, EndPublished DEF Quieted, Publish, MissedTypes
  <2>2. CanSendMessage(view[v]) \/ Awaits(v, StatusEvents)
    BY <1>1, <1>3, <2>1 DEF Quieted, InputOffered
  <2> QED
    BY <1>0, <1>1, <1>3, <2>2, AwaitsPublished
<1>4. CASE \E i \in DOMAIN evs : evs[i] \in StatusEvents
  <2>1. PICK i \in DOMAIN evs : evs[i] \in StatusEvents
    BY <1>4
  <2>2. view[v].at = "open" /\ Subject(evs[i]) \notin missed'[v]
    BY <1>2, <2>1 DEF Quieted, Base, OpenIsOpen, StatusEvents
  <2> QED
    BY <1>0, <1>1, <2>1, <2>2, PublishedAwaited
<1> QED
  BY <1>1, <1>3, <1>4

LEMMA InputOfferedKept ==
  ASSUME IInv, Base, RestAnnounced, InputOffered, [Next]_vars
  PROVE  InputOffered'
<1> SUFFICES ASSUME NEW v \in Views, Quieted(v)'
             PROVE  CanSendMessage(view'[v]) \/ Awaits(v, StatusEvents)'
  BY DEF InputOffered, Quieted, CanSendMessage, Resting
<1> QED
  BY Kinds, SilentOffered, DeliverOffered, SpeaksOffered

LEMMA OfferAlways == Spec => [](RestAnnounced /\ InputOffered)
<1>1. Init => RestAnnounced /\ InputOffered
  BY NoViewIsNoView DEF Init, RestAnnounced, InputOffered
<1>2. IInv /\ Base /\ RestAnnounced /\ InputOffered /\ [Next]_vars
        => RestAnnounced' /\ InputOffered'
  BY RestAnnouncedKept, InputOfferedKept
<1> QED
  BY <1>1, <1>2, Inductive, BaseAlways, PTL DEF Spec

\* A chat that takes messages offers its input, in a view that has caught up and
\* missed nothing about the status.  The agent comes to rest by the end of a turn, a
\* stop or a failure, each announced last by an event that enables the input, or it
\* is cancelled in an await that no handler outlives: then every open view counts as
\* not told of the end, until the next event about the status.
THEOREM AcceptingOffered == Spec => []AcceptingIsOffered
<1>1. IInv /\ InputOffered => AcceptingIsOffered
  <2> SUFFICES ASSUME IInv, InputOffered, open # NoView, CaughtUp(open),
                      missed[open] \cap {"status", "end"} = {}, Resting, ~inbox, post.at = "none"
               PROVE  CanSendMessage(view[open])
    BY DEF AcceptingIsOffered, IInv, Types, AgentTypes, Resting
  <2>1. open \in Views
    BY DEF IInv, Types, PageTypes
  <2>2. ~Awaits(open, StatusEvents)
    BY DEF CaughtUp, Awaits
  <2> QED
    BY <2>1, <2>2 DEF InputOffered
<1> QED
  BY <1>1, Inductive, OfferAlways, PTL

-------------------------------------------------------------------------------
(* Calls, what is announced of them, and their cards *)

\* The row of a call, its answer under way, and whether it was auto-approved.
CallOk(c) ==
  /\ row[c] = "none" => patch[c].at = "none" /\ c \notin auto
  /\ c \in Stored => row[c] \in {"executed", "rejected"}
  /\ row[c] = "executed" => c \in Stored
  /\ c \in auto => patch[c].at = "none"
  /\ patch[c].at = "committed" => c \notin Stored /\ row[c] = patch[c].answer
  /\ patch[c].at = "resolved" => row[c] # "pending"
ToolOk ==
  /\ at \in {"asking", "waiting", "declined"} => tool \notin auto
  /\ (at \in {"executing", "declined"} /\ tool \notin auto) \/ (at = "waiting" /\ decision # "none")
       => row[tool] # "pending" /\ patch[tool].at # "committed"
CallsInv == (\A c \in Calls : CallOk(c)) /\ ToolOk

EventOk(ev) ==
  /\ Subject(ev) \in Calls => row[Subject(ev)] # "none"
  /\ ev.type = "tool_call_requested" => (ev.auto <=> ev.call \in auto)
  /\ ev.type \in {"tool_call_approved", "tool_call_rejected", "tool_result"} =>
       row[ev.call] # "pending"
EventsInv == \A e \in Streams : \A i \in DOMAIN events[e] : EventOk(events[e][i])

CardOk(card) ==
  /\ row[card.call] # "none"
  /\ card.status = "pending" => card.call \notin auto
CardsOf(v) == {view[v].cards[i] : i \in DOMAIN view[v].cards}
CardsOk == \A v \in Views : \A card \in CardsOf(v) : CardOk(card)

\* A row is made once, is answered or executed once, and stays auto-approved or not.
RowsGrow ==
  \A c \in Calls : row[c] # "none" =>
    /\ row'[c] # "none"
    /\ row[c] # "pending" => row'[c] # "pending"
    /\ c \in auto' <=> c \in auto

LEMMA SubjectCall ==
  ASSUME NEW c \in Calls, NEW ev \in Event
  PROVE  Subject(ev) = c <=>
           /\ ev.type \in {"tool_call_requested", "tool_call_approved", "tool_call_rejected",
                           "tool_result"}
           /\ ev.call = c
<1>1. CASE ev \in [type : {"tool_call_requested"}, call : Calls, auto : BOOLEAN]
  BY <1>1 DEF Subject
<1>2. CASE ev \in [type : {"tool_call_approved", "tool_call_rejected", "tool_result"}, call : Calls]
  BY <1>2 DEF Subject
<1>3. CASE ev \in [type : {"status_change"}, status : Statuses]
  BY <1>3, StatusIsNoCall DEF Subject
<1>4. CASE ev \in [type : {"agent_completed", "agent_idle", "agent_stopped", "agent_failed"}]
  BY <1>4, StatusIsNoCall DEF Subject
<1> QED
  BY <1>1, <1>2, <1>3, <1>4 DEF Event

LEMMA CallEvent ==
  ASSUME NEW ev \in Event,
         ev.type \in {"tool_call_requested", "tool_call_approved", "tool_call_rejected",
                      "tool_result"}
  PROVE  /\ ev.call \in Calls /\ Subject(ev) = ev.call
         /\ ev.type = "tool_call_requested" => ev.auto \in BOOLEAN
<1>1. ev \in [type : {"tool_call_requested"}, call : Calls, auto : BOOLEAN]
      \/ ev \in [type : {"tool_call_approved", "tool_call_rejected", "tool_result"}, call : Calls]
  BY DEF Event
<1>2. ev.call \in Calls
  BY <1>1
<1> QED
  BY <1>1, <1>2, SubjectCall

\* What a step that publishes does to each call: nothing, or it makes its row and
\* announces it, or it answers or ends it and announces that.
SameCall(c) == /\ row'[c] = row[c] /\ patch'[c] = patch[c]
               /\ c \in Stored' <=> c \in Stored
               /\ c \in auto' <=> c \in auto
Made(c, evs) == /\ row[c] = "none" /\ row'[c] = "pending" /\ c \notin Stored'
                /\ \E a \in BOOLEAN :
                     /\ a <=> c \in auto'
                     /\ evs = <<[type |-> "tool_call_requested", call |-> c, auto |-> a]>>
Settles(c, evs) ==
  /\ row[c] # "none" /\ row'[c] \notin {"none", "pending"} /\ (c \in auto' <=> c \in auto)
  /\ \E t \in {"tool_call_approved", "tool_call_rejected", "tool_result"} :
       /\ evs = <<[type |-> t, call |-> c]>>
       /\ t = "tool_call_approved" => row'[c] = "approved" /\ c \notin Stored'
       /\ t = "tool_call_rejected" => row'[c] = "rejected" /\ c \notin Stored'
       /\ t = "tool_result" => c \in Stored'

\* One event about one call.
LEMMA OneEvent ==
  ASSUME NEW c \in Calls, NEW t \in {"tool_call_approved", "tool_call_rejected", "tool_result"}
  PROVE  /\ [type |-> t, call |-> c] \in Event
         /\ Subject([type |-> t, call |-> c]) = c
         /\ <<[type |-> t, call |-> c]>> \in Seq(Event)
         /\ \A k \in DOMAIN <<[type |-> t, call |-> c]>> :
              <<[type |-> t, call |-> c]>>[k] = [type |-> t, call |-> c]
<1> DEFINE ev == [type |-> t, call |-> c]
<1>1. ev \in Event /\ Subject(ev) = c
  BY DEF Event, Subject
<1> HIDE DEF ev
<1>2. <<ev>> \in Seq(Event) /\ \A k \in DOMAIN <<ev>> : <<ev>>[k] = ev
  BY <1>1
<1> QED
  BY <1>1, <1>2 DEF ev

LEMMA RequestEvent ==
  ASSUME NEW c \in Calls, NEW a \in BOOLEAN
  PROVE  LET ev == [type |-> "tool_call_requested", call |-> c, auto |-> a]
         IN  /\ ev \in Event /\ Subject(ev) = c /\ <<ev>> \in Seq(Event)
             /\ \A k \in DOMAIN <<ev>> : <<ev>>[k] = ev
<1> DEFINE ev == [type |-> "tool_call_requested", call |-> c, auto |-> a]
<1>1. ev \in Event /\ Subject(ev) = c
  BY DEF Event, Subject
<1> HIDE DEF ev
<1>2. <<ev>> \in Seq(Event) /\ \A k \in DOMAIN <<ev>> : <<ev>>[k] = ev
  BY <1>1
<1> QED
  BY <1>1, <1>2 DEF ev

\* Who missed nothing of a call after a publication had missed nothing before.
LEMMA CallPublished ==
  ASSUME MissedTypes, NEW evs \in Seq(Event), Publish(evs), NEW v \in Views, NEW c \in Calls,
         c \notin missed'[v]
  PROVE  c \notin missed[v]
BY StatusIsNoCall DEF MissedTypes, Publish

\* What the steps that publish do to the calls and say of them.
SpeaksOfCalls(evs) ==
  /\ Publish(evs)
  /\ \/ \A c \in Calls : SameCall(c) /\ \A k \in DOMAIN evs : Subject(evs[k]) # c
     \/ \E c \in Calls : /\ Made(c, evs) \/ Settles(c, evs)
                         /\ \A d \in Calls \ {c} : SameCall(d)

LEMMA AgentSpeaks ==
  ASSUME IInv, CallsInv,
         \/ AskTechnician \/ TakeDecision \/ ToolDone \/ FinishTurn \/ Stopped \/ Failed
         \/ Replaced \/ \E c \in Calls, a \in BOOLEAN : RequestTool(c, a)
  PROVE  \E evs \in Seq(Event) : SpeaksOfCalls(evs)
<1>0. AgentTypes
  BY DEF IInv, Types
<1>1. ASSUME NEW t \in {"waiting_on_approval", "running"},
             Publish(<<[type |-> "status_change", status |-> t]>>),
             UNCHANGED <<row, auto, saved, patch>>
      PROVE  \E evs \in Seq(Event) : SpeaksOfCalls(evs)
  <2> DEFINE ev == [type |-> "status_change", status |-> t]
  <2>1. ev \in Event /\ Subject(ev) = "status"
    BY DEF Event, Statuses, Subject
  <2>2. Publish(<<ev>>)
    BY <1>1
  <2> HIDE DEF ev
  <2>3. <<ev>> \in Seq(Event) /\ \A k \in DOMAIN <<ev>> : Subject(<<ev>>[k]) = "status"
    BY <2>1
  <2> QED
    BY <1>1, <2>2, <2>3, StatusIsNoCall DEF SpeaksOfCalls, SameCall, Stored
<1>2. CASE AskTechnician \/ TakeDecision
  <2>1. UNCHANGED <<row, auto, saved, patch>>
    BY <1>2 DEF AskTechnician, TakeDecision, AgentOnly, httpVars
  <2> QED
    BY <1>1, <1>2, <2>1 DEF AskTechnician, TakeDecision
<1>3. CASE FinishTurn \/ Stopped \/ Failed \/ Replaced
  <2>1. UNCHANGED <<row, auto, saved, patch>>
    BY <1>3 DEF FinishTurn, Stopped, Failed, AgentEnds, Replaced, AgentOnly, agentVars, httpVars
  <2>2. \A t \in Offering : [type |-> t] \in Event /\ Subject([type |-> t]) = "status"
    BY DEF Offering, Event, Subject
  <2>3. CASE FinishTurn
    <3> DEFINE x == [type |-> "agent_completed"]
               y == [type |-> "agent_idle"]
    <3>1. x \in Event /\ y \in Event /\ Subject(x) = "status" /\ Subject(y) = "status"
      BY <2>2 DEF Offering
    <3>2. Publish(<<x, y>>)
      BY <2>3 DEF FinishTurn
    <3> HIDE DEF x, y
    <3>3. <<x, y>> \in Seq(Event) /\ \A k \in DOMAIN <<x, y>> : Subject(<<x, y>>[k]) = "status"
      BY <3>1
    <3> QED
      BY <2>1, <3>2, <3>3, StatusIsNoCall DEF SpeaksOfCalls, SameCall, Stored
  <2>4. CASE Stopped \/ Failed \/ Replaced
    <3>1. PICK t \in Offering : Publish(<<[type |-> t]>>)
      BY <2>4 DEF Stopped, Failed, AgentEnds, Replaced, Offering
    <3> DEFINE x == [type |-> t]
    <3>2. x \in Event /\ Subject(x) = "status" /\ Publish(<<x>>)
      BY <2>2, <3>1
    <3> HIDE DEF x
    <3>3. <<x>> \in Seq(Event) /\ \A k \in DOMAIN <<x>> : Subject(<<x>>[k]) = "status"
      BY <3>2
    <3> QED
      BY <2>1, <3>2, <3>3, StatusIsNoCall DEF SpeaksOfCalls, SameCall, Stored
  <2> QED
    BY <1>3, <2>3, <2>4
<1>4. ASSUME NEW c \in Calls, NEW a \in BOOLEAN, RequestTool(c, a)
      PROVE  \E evs \in Seq(Event) : SpeaksOfCalls(evs)
  <2> DEFINE evs == <<[type |-> "tool_call_requested", call |-> c, auto |-> a]>>
  <2>1. Publish(evs) /\ UNCHANGED <<saved, patch>> /\ Stored' = Stored
    BY <1>4 DEF RequestTool, AgentOnly, httpVars, Stored
  <2>2. row[c] = "none" /\ row'[c] = "pending" /\ c \notin Stored /\ (a <=> c \in auto')
    BY <1>0, <1>4 DEF RequestTool, AgentTypes, IInv, Inv, ToolInv, CallsInv, CallOk
  <2>3. \A d \in Calls \ {c} : row'[d] = row[d] /\ (d \in auto' <=> d \in auto)
    BY <1>0, <1>4 DEF RequestTool, AgentTypes
  <2>4. Made(c, evs) /\ \A d \in Calls \ {c} : SameCall(d)
    BY <2>1, <2>2, <2>3 DEF Made, SameCall
  <2>5. evs \in Seq(Event)
    BY RequestEvent
  <2> QED
    BY <2>1, <2>4, <2>5 DEF SpeaksOfCalls
<1>5. CASE ToolDone
  <2> DEFINE evs == <<[type |-> "tool_result", call |-> tool]>>
  <2>1. tool \in Calls /\ row[tool] # "none" /\ saved \in Seq(Calls)
    BY <1>0, <1>5 DEF ToolDone, AgentTypes, IInv, Inv, ToolInv
  <2>2. Publish(evs) /\ UNCHANGED <<auto, patch>>
    BY <1>5 DEF ToolDone, AgentOnly, httpVars
  <2>3. Stored' = Stored \cup {tool}
    <3>1. saved' = Append(saved, tool)
      BY <1>5 DEF ToolDone
    <3>2. /\ DOMAIN saved' = DOMAIN saved \cup {Len(saved) + 1}
          /\ \A i \in DOMAIN saved : saved'[i] = saved[i] /\ i # Len(saved) + 1
          /\ saved'[Len(saved) + 1] = tool
      BY <2>1, <3>1
    <3> QED
      BY <3>2 DEF Stored
  <2>4. row'[tool] \in {"executed", "rejected"} /\ \A d \in Calls \ {tool} : row'[d] = row[d]
    BY <1>0, <1>5, <2>1 DEF ToolDone, AgentTypes
  <2>5. Settles(tool, evs) /\ \A d \in Calls \ {tool} : SameCall(d)
    BY <2>1, <2>2, <2>3, <2>4 DEF Settles, SameCall
  <2>6. evs \in Seq(Event)
    BY <2>1, OneEvent
  <2> QED
    BY <2>1, <2>2, <2>5, <2>6 DEF SpeaksOfCalls
<1> QED
  BY <1>2, <1>3, <1>4, <1>5

LEMMA AnswersSpeak ==
  ASSUME IInv, CallsInv, NEW c \in Calls,
         PatchResolve(c) \/ \E answer \in Answering : OtherAnswers(c, answer)
  PROVE  \E evs \in Seq(Event) : SpeaksOfCalls(evs)
<1>0. AgentTypes /\ RequestTypes
  BY DEF IInv, Types
<1>1. PICK answer \in Answering :
        Resolve(c, answer) /\ ((PatchResolve(c) /\ answer = patch[c].answer) \/ OtherAnswers(c, answer))
  BY <1>0 DEF PatchResolve, OtherAnswers, RequestTypes, PatchRecord, Answering
<1> DEFINE t == IF answer = "approved" THEN "tool_call_approved" ELSE "tool_call_rejected"
           evs == <<[type |-> t, call |-> c]>>
<1>2. Publish(evs) /\ t \in {"tool_call_approved", "tool_call_rejected", "tool_result"}
  BY <1>1 DEF Resolve
<1>3. UNCHANGED <<auto, saved>> /\ Stored' = Stored
  BY <1>1 DEF PatchResolve, OtherAnswers, Stored
<1>4. row[c] # "none" /\ row'[c] = answer /\ c \notin Stored
  BY <1>0, <1>1 DEF PatchResolve, OtherAnswers, CallsInv, CallOk, AgentTypes, Answering
<1>5. \A d \in Calls \ {c} : row'[d] = row[d] /\ patch'[d] = patch[d]
  BY <1>0, <1>1 DEF PatchResolve, OtherAnswers, AgentTypes, RequestTypes, httpVars
<1>6. Settles(c, evs) /\ \A d \in Calls \ {c} : SameCall(d)
  BY <1>2, <1>3, <1>4, <1>5 DEF Settles, SameCall, Answering
<1>7. evs \in Seq(Event)
  BY <1>2, OneEvent
<1> QED
  BY <1>2, <1>6, <1>7 DEF SpeaksOfCalls

LEMMA SpeaksOf ==
  ASSUME IInv, CallsInv, Speaks
  PROVE  \E evs \in Seq(Event) : SpeaksOfCalls(evs)
BY AgentSpeaks, AnswersSpeak DEF Speaks

\* The calls after a step that leaves rows, results and answers alone.
LEMMA CallsUntouched ==
  ASSUME CallsInv, UNCHANGED <<row, auto, saved, patch>>, ToolOk'
  PROVE  CallsInv' /\ RowsGrow
BY DEF CallsInv, CallOk, Stored, RowsGrow

\* Who executes or waits has a tool.
LEMMA ToolIsCall ==
  ASSUME IInv, at \in {"asking", "waiting", "executing", "declined"}
  PROVE  tool \in Calls
BY DEF IInv, Inv, ToolInv

LEMMA ToolUntouched ==
  ASSUME ToolOk, UNCHANGED <<at, tool, decision, row, auto, patch>>
  PROVE  ToolOk'
BY DEF ToolOk

LEMMA AgentKeepsCalls ==
  ASSUME IInv, CallsInv, Agent
  PROVE  CallsInv' /\ RowsGrow
<1>0. AgentTypes /\ RequestTypes /\ ToolOk /\ Stored \subseteq Calls
  BY DEF IInv, Types, AgentTypes, CallsInv, Stored
<1>1. CASE BeginTurn \/ TakeMessage
  BY <1>0, <1>1, CallsUntouched DEF BeginTurn, TakeMessage, AgentOnly, httpVars, ToolOk
<1>2. CASE AskTechnician \/ FinishTurn
  BY <1>0, <1>2, CallsUntouched DEF AskTechnician, FinishTurn, AgentOnly, httpVars, ToolOk
<1>3. CASE TakeDecision
  BY <1>0, <1>3, CallsUntouched DEF TakeDecision, AgentOnly, httpVars, ToolOk
<1>4. CASE Stopped \/ Failed
  BY <1>0, <1>4, CallsUntouched DEF Stopped, Failed, AgentEnds, AgentOnly, httpVars, ToolOk
<1>5. CASE ToolDone
  <2>1. tool \in Calls /\ UNCHANGED <<auto, patch>> /\ at' = "turn"
    BY <1>5 DEF ToolDone, AgentOnly, httpVars, IInv, Inv, ToolInv
  <2>2. row'[tool] = (IF at = "executing" THEN "executed" ELSE "rejected")
        /\ \A d \in Calls \ {tool} : row'[d] = row[d]
    BY <1>0, <1>5, <2>1 DEF ToolDone, AgentTypes
  <2>3. Stored' = Stored \cup {tool}
    <3>1. saved' = Append(saved, tool) /\ saved \in Seq(Calls)
      BY <1>0, <1>5 DEF ToolDone, AgentTypes
    <3>2. /\ DOMAIN saved' = DOMAIN saved \cup {Len(saved) + 1}
          /\ \A i \in DOMAIN saved : saved'[i] = saved[i] /\ i # Len(saved) + 1
          /\ saved'[Len(saved) + 1] = tool
      BY <3>1
    <3> QED
      BY <3>2 DEF Stored
  <2>4. patch[tool].at # "committed"
    BY <1>0, <1>5, <2>1 DEF ToolDone, ToolOk, CallsInv, CallOk
  <2>5. row[tool] # "none"
    BY <1>5 DEF ToolDone, IInv, Inv, ToolInv
  <2>6. \A c \in Calls : CallOk(c)'
    BY <2>1, <2>2, <2>3, <2>4, <2>5 DEF CallsInv, CallOk
  <2>7. ToolOk' /\ RowsGrow
    BY <2>1, <2>2 DEF ToolOk, RowsGrow
  <2> QED
    BY <2>6, <2>7 DEF CallsInv
<1>6. ASSUME NEW c \in Calls, NEW a \in BOOLEAN, RequestTool(c, a)
      PROVE  CallsInv' /\ RowsGrow
  <2>1. UNCHANGED <<patch, saved>> /\ Stored' = Stored /\ row[c] = "none" /\ c \notin Stored
    BY <1>6 DEF RequestTool, AgentOnly, httpVars, Stored, IInv, Inv, ToolInv
  <2>2. row'[c] = "pending" /\ \A d \in Calls \ {c} : row'[d] = row[d]
    BY <1>0, <1>6 DEF RequestTool, AgentTypes
  <2>3. (c \in auto' <=> a) /\ \A d \in Calls \ {c} : d \in auto' <=> d \in auto
    BY <1>0, <1>6, <2>1 DEF RequestTool, CallsInv, CallOk
  <2>4. patch[c].at = "none"
    BY <2>1 DEF CallsInv, CallOk
  <2>5. \A d \in Calls : CallOk(d)'
    BY <2>1, <2>2, <2>3, <2>4 DEF CallsInv, CallOk
  <2>6. tool' = c /\ at' = IF a THEN "executing" ELSE "asking"
    BY <1>6 DEF RequestTool
  <2>7. ToolOk' /\ RowsGrow
    BY <2>1, <2>2, <2>3, <2>6 DEF ToolOk, RowsGrow
  <2> QED
    BY <2>5, <2>7 DEF CallsInv
<1>7. CASE Fails \/ EndIsStored
  <2>1. UNCHANGED <<row, auto, saved, patch>>
    BY <1>7 DEF Fails, EndIsStored, AgentOnly, httpVars
  <2>2. ToolOk'
    BY <1>0, <1>7, <2>1 DEF Fails, Dropped, EndIsStored, ToolOk
  <2> QED
    BY <2>1, <2>2, CallsUntouched
<1> QED
  BY <1>1, <1>2, <1>3, <1>4, <1>5, <1>6, <1>7 DEF Agent, AgentOnly, httpVars

LEMMA PageKeepsCalls ==
  ASSUME IInv, CallsInv, Page
  PROVE  CallsInv' /\ RowsGrow
<1>0. ToolOk
  BY DEF CallsInv
<1>1. CASE AbortChat \/ PostMessage
  <2>1. UNCHANGED <<row, auto, saved, patch>>
    BY <1>1 DEF AbortChat, PostMessage
  <2>2. \/ UNCHANGED <<at, tool, decision>>
        \/ at' \notin {"asking", "waiting", "executing", "declined"} /\ decision' = "none"
    BY <1>1 DEF AbortChat, Cancelled, CancelledUnheard, NotCancelled, PostMessage, Queued, Restarted,
       Refused, Dropped
  <2>3. ToolOk'
    BY <1>0, <2>1, <2>2 DEF ToolOk
  <2> QED
    BY <2>1, <2>3, CallsUntouched
<1>2. CASE MessageSent
  BY <1>0, <1>2, CallsUntouched, ToolUntouched DEF MessageSent, agentVars
<1>3. CASE ~(AbortChat \/ PostMessage \/ MessageSent)
  <2>1. UNCHANGED <<agentVars, patch>>
    BY <1>3 DEF Page, ChatCreated, ChatSelected, OpenChat, BackToList, ChatClosed, PageLeft,
       CloseTab, ListLoaded, StopClicked, AbortAnswered, AbortLost, PostLost, HistoryRead,
       HistoryLoaded, HistoryFailed, httpVars
  <2> QED
    BY <1>0, <2>1, CallsUntouched, ToolUntouched DEF agentVars
<1> QED
  BY <1>1, <1>2, <1>3

\* One answer goes on, nothing else.
LEMMA PatchReplaced ==
  ASSUME IInv, CallsInv, NEW c \in Calls, NEW r, patch' = [patch EXCEPT ![c] = r],
         UNCHANGED agentVars, r.at # "committed", r.at # "none" => row[c] # "none" /\ c \notin auto,
         r.at = "resolved" => row[c] # "pending"
  PROVE  CallsInv' /\ RowsGrow
<1>1. patch'[c] = r /\ \A d \in Calls \ {c} : patch'[d] = patch[d]
  BY DEF IInv, Types, RequestTypes
<1>2. \A d \in Calls : CallOk(d)'
  BY <1>1 DEF CallsInv, CallOk, agentVars, Stored
<1>3. tool \in Calls => (patch'[tool].at = "committed" => patch[tool].at = "committed")
  BY <1>1
<1>5. ToolOk' /\ RowsGrow
  BY <1>3, ToolIsCall DEF ToolOk, CallsInv, RowsGrow, agentVars
<1> QED
  BY <1>2, <1>5 DEF CallsInv

LEMMA AnswersKeepCalls ==
  ASSUME IInv, Base, CallsInv, CardsOk, Answers
  PROVE  CallsInv' /\ RowsGrow
<1>0. AgentTypes /\ RequestTypes /\ PageTypes /\ ViewTypes /\ ToolOk
  BY DEF IInv, Types, CallsInv
<1> SUFFICES ASSUME NEW c \in Calls,
                    \/ PatchCommit(c) \/ PatchResolve(c) \/ PatchAnswered(c) \/ PatchLost(c)
                    \/ \E answer \in Answering : CardClicked(c, answer) \/ OtherAnswers(c, answer)
             PROVE  CallsInv' /\ RowsGrow
  BY DEF Answers, Answering
<1>1. CASE PatchCommit(c)
  <2>1. UNCHANGED <<at, tool, auto, decision, saved>> /\ Stored' = Stored
    BY <1>1 DEF PatchCommit, Stored
  <2>2. \A d \in Calls \ {c} : row'[d] = row[d] /\ patch'[d] = patch[d]
    BY <1>0, <1>1 DEF PatchCommit, AgentTypes, RequestTypes
  <2>3. patch[c].at = "sent" /\ patch[c].answer \in Answering
    BY <1>0, <1>1 DEF PatchCommit, RequestTypes, PatchRecord, Answering
  <2>4. CASE row[c] = "pending"
    <3>1. row'[c] = patch[c].answer /\ patch'[c].at = "committed"
          /\ patch'[c].answer = patch[c].answer
      BY <1>0, <1>1, <2>4 DEF PatchCommit, AgentTypes, RequestTypes, PatchRecord
    <3>2. \A d \in Calls : CallOk(d)'
      BY <2>1, <2>2, <2>3, <2>4, <3>1 DEF CallsInv, CallOk, Answering
    <3>3. RowsGrow
      BY <2>1, <2>2, <2>3, <3>1 DEF RowsGrow, Answering
    <3>4. CASE tool = c
      <4>1. ~((at \in {"executing", "declined"} /\ tool \notin auto)
              \/ (at = "waiting" /\ decision # "none"))
        BY <1>0, <2>4, <3>4 DEF ToolOk
      <4> QED
        BY <1>0, <2>1, <3>2, <3>3, <4>1 DEF CallsInv, ToolOk
    <3>5. CASE tool # c
      <4>1. tool \in Calls => row'[tool] = row[tool] /\ patch'[tool] = patch[tool]
        BY <2>2, <3>5
      <4> QED
        BY <1>0, <2>1, <3>2, <3>3, <4>1, ToolIsCall DEF CallsInv, ToolOk
    <3> QED
      BY <3>4, <3>5
  <2>5. CASE row[c] # "pending"
    <3>1. UNCHANGED row /\ patch'[c].at = "refused"
      BY <1>0, <1>1, <2>5 DEF PatchCommit, AgentTypes, RequestTypes, PatchRecord
    <3>2. \A d \in Calls : CallOk(d)'
      BY <2>1, <2>2, <2>3, <2>5, <3>1 DEF CallsInv, CallOk, Answering
    <3>3. RowsGrow
      BY <2>1, <3>1 DEF RowsGrow
    <3>4. tool \in Calls => (patch'[tool].at = "committed" => patch[tool].at = "committed")
      BY <2>2, <3>1
    <3> QED
      BY <1>0, <2>1, <3>1, <3>2, <3>3, <3>4, ToolIsCall DEF CallsInv, ToolOk
  <2> QED
    BY <2>4, <2>5
<1>2. CASE PatchResolve(c)
  <2>1. UNCHANGED <<at, tool, row, auto, saved>> /\ Stored' = Stored
    BY <1>2 DEF PatchResolve, Stored
  <2>2. patch[c].at = "committed" /\ patch'[c].at = "resolved" /\ patch[c].answer \in Answering
        /\ \A d \in Calls \ {c} : patch'[d] = patch[d]
    BY <1>0, <1>2 DEF PatchResolve, RequestTypes, PatchRecord, Answering
  <2>3. \A d \in Calls : CallOk(d)'
    BY <2>1, <2>2 DEF CallsInv, CallOk, Answering
  <2>4. row[c] # "pending"
    BY <2>2 DEF CallsInv, CallOk, Answering
  <2>5. RowsGrow
    BY <2>1 DEF RowsGrow
  <2>6. decision' = IF at = "waiting" /\ tool = c THEN patch[c].answer ELSE decision
    BY <1>2 DEF PatchResolve, Resolve
  <2>7. CASE tool = c
    BY <1>0, <2>1, <2>2, <2>3, <2>4, <2>5, <2>7 DEF CallsInv, ToolOk
  <2>8. CASE tool # c
    <3>1. tool \in Calls => patch'[tool] = patch[tool]
      BY <2>2, <2>8
    <3> QED
      BY <1>0, <2>1, <2>3, <2>5, <2>6, <2>8, <3>1, ToolIsCall DEF CallsInv, ToolOk
  <2> QED
    BY <2>7, <2>8
<1>3. CASE PatchAnswered(c)
  <2>1. patch' = [patch EXCEPT ![c] = NoPatch] /\ UNCHANGED agentVars /\ NoPatch.at = "none"
    BY <1>3 DEF PatchAnswered, NoPatch
  <2> QED
    BY <1>0, <2>1, PatchReplaced
<1>4. CASE PatchLost(c)
  <2> DEFINE r == [patch[c] EXCEPT !.at = "refused"]
  <2>1. patch' = [patch EXCEPT ![c] = r] /\ UNCHANGED agentVars /\ patch[c].at # "none"
    BY <1>4 DEF PatchLost
  <2>2. r.at = "refused"
    BY <1>0 DEF RequestTypes, PatchRecord
  <2>3. row[c] # "none" /\ c \notin auto
    BY <2>1 DEF CallsInv, CallOk
  <2> HIDE DEF r
  <2> QED
    BY <1>0, <2>1, <2>2, <2>3, PatchReplaced
<1>5. ASSUME NEW answer \in Answering, CardClicked(c, answer)
      PROVE  CallsInv' /\ RowsGrow
  <2> DEFINE r == [at |-> "sent", view |-> open, answer |-> answer]
  <2>1. patch' = [patch EXCEPT ![c] = r] /\ UNCHANGED agentVars
    BY <1>5 DEF CardClicked
  <2>2. PICK i \in DOMAIN view[open].cards :
          view[open].cards[i] = [call |-> c, status |-> "pending"]
    BY <1>5 DEF CardClicked
  <2>3. row[c] # "none" /\ c \notin auto
    <3>1. open \in Views
      BY <1>0, <1>5 DEF CardClicked, Base, ActiveIsOpen, PageTypes
    <3>2. CardOk(view[open].cards[i])
      BY <2>2, <3>1 DEF CardsOk, CardsOf
    <3> QED
      BY <2>2, <3>2 DEF CardOk
  <2>4. r.at = "sent"
    OBVIOUS
  <2> HIDE DEF r
  <2> QED
    BY <1>0, <2>1, <2>3, <2>4, PatchReplaced
<1>6. ASSUME NEW answer \in Answering, OtherAnswers(c, answer)
      PROVE  CallsInv' /\ RowsGrow
  <2>1. UNCHANGED <<at, tool, auto, saved, patch>> /\ Stored' = Stored
    BY <1>6 DEF OtherAnswers, Stored, httpVars
  <2>2. row[c] = "pending" /\ c \notin auto /\ row'[c] = answer
        /\ \A d \in Calls \ {c} : row'[d] = row[d]
    BY <1>0, <1>6 DEF OtherAnswers, AgentTypes
  <2>3. patch[c].at # "committed"
    BY <1>0, <2>2 DEF CallsInv, CallOk, RequestTypes, PatchRecord
  <2>4. \A d \in Calls : CallOk(d)'
    BY <2>1, <2>2, <2>3 DEF CallsInv, CallOk, Answering
  <2>5. RowsGrow
    BY <2>1, <2>2 DEF RowsGrow, Answering
  <2>6. decision' = IF at = "waiting" /\ tool = c THEN answer ELSE decision
    BY <1>6 DEF OtherAnswers, Resolve
  <2>7. CASE tool = c
    BY <1>0, <2>1, <2>2, <2>3, <2>4, <2>5, <2>7 DEF CallsInv, ToolOk, Answering
  <2>8. CASE tool # c
    <3>1. tool \in Calls => row'[tool] = row[tool]
      BY <2>2, <2>8
    <3> QED
      BY <1>0, <2>1, <2>4, <2>5, <2>6, <2>8, <3>1, ToolIsCall DEF CallsInv, ToolOk
  <2> QED
    BY <2>7, <2>8
<1> QED
  BY <1>1, <1>2, <1>3, <1>4, <1>5, <1>6

LEMMA CallsInvKept ==
  ASSUME IInv, Base, CallsInv, CardsOk, [Next]_vars
  PROVE  CallsInv' /\ RowsGrow
<1>0. ToolOk
  BY DEF CallsInv
<1>1. CASE Bus
  <2>1. UNCHANGED <<agentVars, patch>>
    BY <1>1 DEF Bus, Subscribe, Disconnect, Rejected, Deliver, httpVars
  <2> QED
    BY <1>0, <2>1, CallsUntouched, ToolUntouched DEF agentVars
<1>2. CASE UNCHANGED vars
  BY <1>0, <1>2, CallsUntouched, ToolUntouched DEF vars, agentVars, httpVars
<1>3. CASE Replaced
  BY <1>0, <1>3, CallsUntouched, ToolUntouched DEF Replaced, agentVars
<1> QED
  BY <1>1, <1>2, <1>3, AgentKeepsCalls, PageKeepsCalls, AnswersKeepCalls DEF Next

-------------------------------------------------------------------------------
(* What happens to the cards of a view *)

\* updateToolCall and the listeners, for the set of the cards.
SetStatus(K, c, s) ==
  {card \in K : card.call # c} \cup {[call |-> c, status |-> s] : x \in {y \in K : y.call = c}}
Announced(ev) ==
  CASE ev.type = "tool_call_requested" -> IF ev.auto THEN "auto_approved" ELSE "pending"
    [] ev.type = "tool_call_approved" -> "approved"
    [] ev.type = "tool_call_rejected" -> "rejected"
    [] ev.type = "tool_result" -> "executed"
    [] OTHER -> "none"
AfterSet(K, ev) ==
  IF ev.type = "tool_call_requested"
  THEN IF \E card \in K : card.call = ev.call THEN K
       ELSE K \cup {[call |-> ev.call, status |-> Announced(ev)]}
  ELSE IF ev.type \in {"tool_call_approved", "tool_call_rejected", "tool_result"}
  THEN SetStatus(K, ev.call, Announced(ev))
  ELSE K

LEMMA HasIs ==
  ASSUME NEW cards, NEW c
  PROVE  Has(cards, c) <=> \E card \in {cards[i] : i \in DOMAIN cards} : card.call = c
BY DEF Has

LEMMA UpdatedSet ==
  ASSUME NEW cards \in Seq(Card), NEW c, NEW s
  PROVE  {Updated(cards, c, s)[i] : i \in DOMAIN Updated(cards, c, s)}
           = SetStatus({cards[i] : i \in DOMAIN cards}, c, s)
<1> DEFINE new == Updated(cards, c, s)
           K == {cards[i] : i \in DOMAIN cards}
<1>1. DOMAIN new = DOMAIN cards
      /\ \A i \in DOMAIN cards : new[i] = IF cards[i].call = c THEN [call |-> c, status |-> s]
                                          ELSE cards[i]
  BY DEF Updated
<1> HIDE DEF new
<1>2. ASSUME NEW i \in DOMAIN new PROVE new[i] \in SetStatus(K, c, s)
  <2>1. cards[i] \in K
    BY <1>1
  <2> HIDE DEF K
  <2> QED
    BY <1>1, <2>1 DEF SetStatus
<1>3. ASSUME NEW card \in SetStatus(K, c, s) PROVE \E i \in DOMAIN new : new[i] = card
  <2>1. CASE card \in K /\ card.call # c
    BY <1>1, <2>1
  <2>2. CASE card = [call |-> c, status |-> s] /\ \E y \in K : y.call = c
    BY <1>1, <2>2
  <2> HIDE DEF K
  <2> QED
    BY <2>1, <2>2 DEF SetStatus
<1> QED
  BY <1>2, <1>3 DEF new

LEMMA AfterIs ==
  ASSUME NEW cards \in Seq(Card), NEW ev \in Event
  PROVE  {CardsAfter(cards, ev)[i] : i \in DOMAIN CardsAfter(cards, ev)}
           = AfterSet({cards[i] : i \in DOMAIN cards}, ev)
<1> DEFINE K == {cards[i] : i \in DOMAIN cards}
<1>1. CASE ev.type = "tool_call_requested"
  <2>1. CASE Has(cards, ev.call)
    BY <1>1, <2>1, HasIs DEF CardsAfter, AfterSet
  <2>2. CASE ~Has(cards, ev.call)
    <3> DEFINE card == [call |-> ev.call, status |-> Announced(ev)]
    <3>1. CardsAfter(cards, ev) = Append(cards, card)
      BY <1>1, <2>2 DEF CardsAfter, Announced
    <3>2. ~\E x \in K : x.call = ev.call
      BY <2>2, HasIs
    <3>3. AfterSet(K, ev) = K \cup {card}
      BY <1>1, <3>2 DEF AfterSet
    <3> HIDE DEF card
    <3>4. /\ DOMAIN Append(cards, card) = DOMAIN cards \cup {Len(cards) + 1}
          /\ \A i \in DOMAIN cards : Append(cards, card)[i] = cards[i] /\ i # Len(cards) + 1
          /\ Append(cards, card)[Len(cards) + 1] = card
      OBVIOUS
    <3>5. {Append(cards, card)[i] : i \in DOMAIN Append(cards, card)} = K \cup {card}
      BY <3>4
    <3> QED
      BY <3>1, <3>3, <3>5
  <2> QED
    BY <2>1, <2>2
<1>2. CASE ev.type \in {"tool_call_approved", "tool_call_rejected", "tool_result"}
  <2>1. CardsAfter(cards, ev) = Updated(cards, ev.call, Announced(ev))
    BY <1>2 DEF CardsAfter, Announced
  <2>2. AfterSet(K, ev) = SetStatus(K, ev.call, Announced(ev))
    BY <1>2 DEF AfterSet
  <2> DEFINE new == Updated(cards, ev.call, Announced(ev))
  <2>3. {new[i] : i \in DOMAIN new} = SetStatus(K, ev.call, Announced(ev))
    BY UpdatedSet
  <2>4. CardsAfter(cards, ev) = new
    BY <2>1
  <2> HIDE DEF new, K
  <2>5. {CardsAfter(cards, ev)[i] : i \in DOMAIN CardsAfter(cards, ev)} = AfterSet(K, ev)
    BY <2>2, <2>3, <2>4
  <2> QED
    BY <2>5 DEF K
<1>3. CASE ev.type \notin {"tool_call_requested", "tool_call_approved", "tool_call_rejected",
                           "tool_result"}
  <2>1. CardsAfter(cards, ev) = cards /\ AfterSet(K, ev) = K
    BY <1>3 DEF CardsAfter, AfterSet
  <2> QED
    BY <2>1
<1> QED
  BY <1>1, <1>2, <1>3

\* Which steps change the cards of v, and how.
LEMMA DeliverCards ==
  ASSUME IInv, NEW e \in Streams, Deliver(e), NEW v \in Views
  PROVE  /\ events[e] \in Seq(Event) /\ events[e] # <<>> /\ Head(events[e]) \in Event
         /\ CardsOf(v)' = IF v = owner[e] THEN AfterSet(CardsOf(v), Head(events[e])) ELSE CardsOf(v)
<1> DEFINE w == owner[e]
           ev == Head(events[e])
           cards == CardsAfter(view[w].cards, ev)
           r == [view[w] EXCEPT !.cards = cards, !.status = StatusAfter(view[w].status, ev)]
<1>0. BusTypes /\ ViewTypes
  BY DEF IInv, Types
<1>1. events[e] \in Seq(Event) /\ events[e] # <<>>
  BY <1>0 DEF BusTypes, Deliver
<1>2. ev \in Event
  BY <1>1
<1>3. view' = [view EXCEPT ![w] = r]
  BY DEF Deliver
<1>4. w \in Views => r.cards = cards /\ view[w].cards \in Seq(Card)
  BY <1>0 DEF ViewTypes, ViewRecord
<1> HIDE DEF r
<1>5. view'[v].cards = IF v = w THEN cards ELSE view[v].cards
  BY <1>0, <1>3, <1>4 DEF ViewTypes
<1>6. v = w => CardsOf(v)' = AfterSet(CardsOf(v), ev)
  <2> SUFFICES ASSUME v = w PROVE CardsOf(v)' = AfterSet(CardsOf(v), ev)
    OBVIOUS
  <2>1. view'[v].cards = CardsAfter(view[v].cards, ev) /\ view[v].cards \in Seq(Card)
    BY <1>4, <1>5
  <2> HIDE DEF ev
  <2> QED
    BY <1>2, <2>1, AfterIs DEF CardsOf
<1>7. v # w => CardsOf(v)' = CardsOf(v)
  BY <1>5 DEF CardsOf
<1> QED
  BY <1>1, <1>2, <1>6, <1>7

LEMMA HistoryLoadedCards ==
  ASSUME IInv, NEW l \in Loads, HistoryLoaded(l), NEW v \in Views
  PROVE  IF v # load[l].view THEN CardsOf(v)' = CardsOf(v)
         ELSE /\ \A card \in CardsOf(v)' : card.call \in Stored /\ card.status = "executed"
              /\ missed'[v] = (missed[v] \cup {c \in Calls : row[c] # "none"})
                                \ {card.call : card \in CardsOf(v)'}
<1> DEFINE w == load[l].view
           cards == HistoryToMessages(l)
           shown == {cards[i].call : i \in DOMAIN cards}
<1>0. ViewTypes /\ MissedTypes
  BY DEF IInv, Types
<1>1. PICK e \in Streams : view' = [view EXCEPT ![w].cards = cards, ![w].stream = e]
  BY DEF HistoryLoaded
<1> DEFINE r == [view[w] EXCEPT !.cards = cards, !.stream = e]
<1>2. view' = [view EXCEPT ![w] = r]
  BY <1>1
<1>3. w \in Views => r.cards = cards
  BY <1>0 DEF ViewTypes, ViewRecord
<1>4. missed' = [missed EXCEPT ![w] = (@ \cup {c \in Calls : row[c] # "none"}) \ shown]
  BY DEF HistoryLoaded
<1>5. \A i \in DOMAIN cards : cards[i].call \in Stored /\ cards[i].status = "executed"
  <2>1. \A i \in DOMAIN load[l].rows : load[l].rows[i] \in Stored
    BY DEF IInv, Inv, LoadInv
  <2> QED
    BY <2>1 DEF HistoryToMessages
<1> HIDE DEF r, cards
<1>6. view'[v].cards = IF v = w THEN cards ELSE view[v].cards
  BY <1>0, <1>2, <1>3 DEF ViewTypes
<1>7. CASE v # w
  BY <1>6, <1>7 DEF CardsOf
<1>8. CASE v = w
  <2>1. CardsOf(v)' = {cards[i] : i \in DOMAIN cards}
    BY <1>6, <1>8 DEF CardsOf
  <2>2. missed'[v] = (missed[v] \cup {c \in Calls : row[c] # "none"}) \ shown
    BY <1>0, <1>4, <1>8 DEF MissedTypes
  <2>3. shown = {card.call : card \in CardsOf(v)'}
    BY <2>1
  <2> QED
    BY <1>5, <1>8, <2>1, <2>2, <2>3
<1> QED
  BY <1>7, <1>8

LEMMA CardClickedCards ==
  ASSUME IInv, NEW c \in Calls, NEW answer \in Answering, CardClicked(c, answer), NEW v \in Views
  PROVE  CardsOf(v)' = IF v = open THEN SetStatus(CardsOf(v), c, answer) ELSE CardsOf(v)
<1> DEFINE new == Updated(view[open].cards, c, answer)
           r == [view[open] EXCEPT !.cards = new]
<1>0. ViewTypes
  BY DEF IInv, Types
<1>1. view' = [view EXCEPT ![open] = r]
  BY DEF CardClicked
<1>2. open \in Views => r.cards = new /\ view[open].cards \in Seq(Card)
  BY <1>0 DEF ViewTypes, ViewRecord
<1> HIDE DEF r
<1>3. view'[v].cards = IF v = open THEN new ELSE view[v].cards
  BY <1>0, <1>1, <1>2 DEF ViewTypes
<1> QED
  BY <1>2, <1>3, UpdatedSet DEF CardsOf

LEMMA PatchAnsweredCards ==
  ASSUME IInv, NEW c \in Calls, PatchAnswered(c), NEW v \in Views
  PROVE  CardsOf(v)' = IF patch[c].at = "refused" /\ v = patch[c].view
                       THEN SetStatus(CardsOf(v), c, "pending") ELSE CardsOf(v)
<1> DEFINE w == patch[c].view
           new == Updated(view[w].cards, c, "pending")
           r == [view[w] EXCEPT !.cards = new]
<1>0. ViewTypes
  BY DEF IInv, Types
<1>1. CASE patch[c].at = "refused"
  <2>1. view' = [view EXCEPT ![w] = r]
    BY <1>1 DEF PatchAnswered
  <2>2. w \in Views => r.cards = new /\ view[w].cards \in Seq(Card)
    BY <1>0 DEF ViewTypes, ViewRecord
  <2> HIDE DEF r
  <2>3. view'[v].cards = IF v = w THEN new ELSE view[v].cards
    BY <1>0, <2>1, <2>2 DEF ViewTypes
  <2> QED
    BY <1>1, <2>2, <2>3, UpdatedSet DEF CardsOf
<1>2. CASE patch[c].at # "refused"
  <2>1. view' = view
    BY <1>2 DEF PatchAnswered
  <2> QED
    BY <1>2, <2>1 DEF CardsOf
<1> QED
  BY <1>1, <1>2

LEMMA SilentCards ==
  ASSUME IInv, Silent
  PROVE  \/ \A v \in Views : CardsOf(v)' = CardsOf(v)
         \/ \E l \in Loads : HistoryLoaded(l)
         \/ \E c \in Calls : PatchAnswered(c) \/ \E answer \in Answering : CardClicked(c, answer)
<1>0. ViewTypes
  BY DEF IInv, Types
<1>1. CASE \A v \in Views : view'[v].cards = view[v].cards
  BY <1>1 DEF CardsOf
<1>2. CASE BeginTurn \/ TakeMessage \/ Fails \/ EndIsStored \/ UNCHANGED vars
  BY <1>1, <1>2 DEF BeginTurn, TakeMessage, Fails, EndIsStored, AgentOnly, vars
<1>3. CASE \E e \in Streams : Subscribe(e) \/ Disconnect(e) \/ Rejected(e)
  BY <1>1, <1>3 DEF Subscribe, Disconnect, Rejected
<1>4. CASE Page
  <2>1. ASSUME NEW v \in Views, NEW s, OpenChat(v, s)
        PROVE  \A w \in Views : view'[w].cards = view[w].cards
    BY <1>0, <2>1 DEF OpenChat, ViewTypes, ViewRecord
  <2>2. CASE ChatCreated
    BY <1>1, <2>1, <2>2 DEF ChatCreated
  <2>3. CASE ChatSelected
    <3>1. CASE \E v \in Views : OpenChat(v, listed)
      BY <1>1, <2>1, <3>1
    <3>2. CASE ~\E v \in Views : OpenChat(v, listed)
      <4> DEFINE r == [view[open] EXCEPT !.stream = NoStream]
      <4>1. UNCHANGED view \/ view' = [view EXCEPT ![open] = r]
        BY <2>3, <3>2 DEF ChatSelected
      <4>2. open \in Views => r.cards = view[open].cards
        BY <1>0 DEF ViewTypes, ViewRecord
      <4> HIDE DEF r
      <4>3. \A v \in Views : view'[v].cards = view[v].cards
        BY <1>0, <4>1, <4>2 DEF ViewTypes
      <4> QED
        BY <1>1, <4>3
    <3> QED
      BY <3>1, <3>2
  <2>4. CASE ChatClosed \/ PageLeft
    <3> DEFINE r == [view[open] EXCEPT !.at = "closed"]
    <3>1. view' = [view EXCEPT ![open] = r]
      BY <2>4 DEF ChatClosed, PageLeft, CloseTab
    <3>2. open \in Views => r.cards = view[open].cards
      BY <1>0 DEF ViewTypes, ViewRecord
    <3> HIDE DEF r
    <3>3. \A v \in Views : view'[v].cards = view[v].cards
      BY <1>0, <3>1, <3>2 DEF ViewTypes
    <3> QED
      BY <1>1, <3>3
  <2>5. CASE MessageSent
    <3>1. \A v \in Views : view'[v].cards = view[v].cards
      BY <1>0, <2>5 DEF MessageSent, ViewTypes, ViewRecord, busVars
    <3> QED
      BY <1>1, <3>1
  <2>6. CASE AbortAnswered
    <3>1. \A v \in Views : view'[v].cards = view[v].cards
      BY <1>0, <2>6 DEF AbortAnswered, ViewTypes, ViewRecord
    <3> QED
      BY <1>1, <3>1
  <2>7. ASSUME NEW l \in Loads, HistoryFailed(l)
        PROVE  \A v \in Views : view'[v].cards = view[v].cards
    <3> DEFINE w == load[l].view
    <3>1. PICK e \in Streams : view' = [view EXCEPT ![w].stream = e]
      BY <2>7 DEF HistoryFailed
    <3> HIDE DEF w
    <3> QED
      BY <1>0, <3>1 DEF ViewTypes, ViewRecord
  <2>8. CASE \/ BackToList \/ ListLoaded \/ StopClicked \/ AbortChat \/ AbortLost \/ PostMessage
             \/ PostLost \/ \E l \in Loads : HistoryRead(l)
    <3>1. UNCHANGED view
      BY <2>8 DEF BackToList, ListLoaded, StopClicked, AbortChat, AbortLost, PostMessage, PostLost,
         HistoryRead
    <3> QED
      BY <1>1, <3>1
  <2>9. CASE \E l \in Loads : HistoryFailed(l)
    BY <1>1, <2>7, <2>9
  <2> QED
    BY <1>4, <2>2, <2>3, <2>4, <2>5, <2>6, <2>8, <2>9 DEF Page
<1>5. CASE \E c \in Calls : PatchCommit(c) \/ PatchLost(c)
  BY <1>1, <1>5 DEF PatchCommit, PatchLost
<1> QED
  BY <1>2, <1>3, <1>4, <1>5 DEF Silent

\* The page as the steps that publish leave it.
LEMMA SpeaksView ==
  ASSUME Speaks
  PROVE  UNCHANGED <<view, open>>
BY DEF Speaks, AskTechnician, TakeDecision, ToolDone, FinishTurn, Stopped, Failed, AgentEnds,
   Replaced, RequestTool, PatchResolve, OtherAnswers, AgentOnly, pageVars

LEMMA CardSteps ==
  ASSUME IInv, [Next]_vars
  PROVE  \/ \A v \in Views : CardsOf(v)' = CardsOf(v)
         \/ \E e \in Streams : Deliver(e)
         \/ \E l \in Loads : HistoryLoaded(l)
         \/ \E c \in Calls : PatchAnswered(c) \/ \E answer \in Answering : CardClicked(c, answer)
<1>1. Speaks => \A v \in Views : CardsOf(v)' = CardsOf(v)
  BY SpeaksView DEF CardsOf
<1> QED
  BY <1>1, Kinds, SilentCards

\* What a queue holds and a view shows stays right while rows grow.
LEMMA EventStays ==
  ASSUME NEW ev \in Event, EventOk(ev), RowsGrow
  PROVE  EventOk(ev)'
<1>1. Subject(ev) \in Calls => row'[Subject(ev)] # "none"
  BY DEF EventOk, RowsGrow
<1>2. CASE ev.type = "tool_call_requested"
  <2>1. ev.call \in Calls /\ Subject(ev) = ev.call
    BY <1>2, CallEvent
  <2> QED
    BY <1>1, <1>2, <2>1 DEF EventOk, RowsGrow
<1>3. CASE ev.type \in {"tool_call_approved", "tool_call_rejected", "tool_result"}
  <2>1. ev.call \in Calls /\ Subject(ev) = ev.call
    BY <1>3, CallEvent
  <2> QED
    BY <1>1, <1>3, <2>1 DEF EventOk, RowsGrow
<1> QED
  BY <1>1, <1>2, <1>3 DEF EventOk

LEMMA EventsInvKept ==
  ASSUME IInv, Base, CallsInv, EventsInv, RowsGrow, [Next]_vars
  PROVE  EventsInv'
<1> SUFFICES ASSUME NEW e \in Streams, NEW i \in DOMAIN events'[e], NEW new,
                    new = events'[e][i]
             PROVE  EventOk(new)'
  BY DEF EventsInv, EventOk
<1>0. BusTypes /\ events[e] \in Seq(Event)
  BY DEF IInv, Types, BusTypes
<1>1. ASSUME NEW k \in DOMAIN events[e], new = events[e][k]
      PROVE  EventOk(new)'
  <2>1. new \in Event /\ EventOk(new)
    BY <1>0, <1>1 DEF EventsInv
  <2> QED
    BY <2>1, EventStays
<1>2. CASE Silent
  <2>1. events'[e] = events[e] \/ events'[e] = <<>>
    BY <1>2, SilentStreams DEF QueuesFewer
  <2> QED
    BY <1>1, <2>1
<1>3. ASSUME NEW d \in Streams, Deliver(d)
      PROVE  EventOk(new)'
  <2>1. \/ events'[e] = events[e]
        \/ events[e] # <<>> /\ events'[e] = Tail(events[e])
    BY <1>0, <1>3 DEF Deliver, BusTypes
  <2>2. CASE events[e] # <<>> /\ events'[e] = Tail(events[e])
    <3>1. i + 1 \in DOMAIN events[e] /\ events'[e][i] = events[e][i + 1]
      BY <1>0, <2>2
    <3> QED
      BY <1>1, <3>1
  <2> QED
    BY <1>1, <2>1, <2>2
<1>4. CASE Speaks
  <2>1. PICK evs \in Seq(Event) : SpeaksOfCalls(evs)
    BY <1>4, SpeaksOf
  <2>2. events'[e] = events[e] \/ events'[e] = events[e] \o evs
    BY <2>1 DEF SpeaksOfCalls, Publish
  <2>3. ASSUME NEW k \in DOMAIN evs, new = evs[k] PROVE EventOk(new)'
    <3>1. new \in Event
      BY <2>3
    <3>2. CASE \A c \in Calls : Subject(new) # c
      <4>1. new.type \notin {"tool_call_requested", "tool_call_approved", "tool_call_rejected",
                                "tool_result"}
        BY <3>1, <3>2, CallEvent
      <4> QED
        BY <3>2, <4>1 DEF EventOk
    <3>3. ASSUME NEW c \in Calls, Made(c, evs) PROVE EventOk(new)'
      <4>1. PICK a \in BOOLEAN :
              /\ a <=> c \in auto'
              /\ evs = <<[type |-> "tool_call_requested", call |-> c, auto |-> a]>>
        BY <3>3 DEF Made
      <4> DEFINE ev == [type |-> "tool_call_requested", call |-> c, auto |-> a]
      <4>2. new = ev /\ Subject(ev) = c
        BY <2>3, <4>1, RequestEvent
      <4>3. ev.type = "tool_call_requested" /\ ev.call = c /\ ev.auto = a
        OBVIOUS
      <4> HIDE DEF ev
      <4>4. row'[c] # "none"
        BY <3>3 DEF Made
      <4> QED
        BY <4>1, <4>2, <4>3, <4>4 DEF EventOk
    <3>4. ASSUME NEW c \in Calls, Settles(c, evs) PROVE EventOk(new)'
      <4>1. PICK t \in {"tool_call_approved", "tool_call_rejected", "tool_result"} :
              evs = <<[type |-> t, call |-> c]>>
        BY <3>4 DEF Settles
      <4> DEFINE ev == [type |-> t, call |-> c]
      <4>2. new = ev /\ Subject(ev) = c
        BY <2>3, <4>1, OneEvent
      <4>3. ev.type = t /\ ev.call = c /\ t # "tool_call_requested"
        OBVIOUS
      <4> HIDE DEF ev
      <4>4. row'[c] \notin {"none", "pending"}
        BY <3>4 DEF Settles
      <4> QED
        BY <4>2, <4>3, <4>4 DEF EventOk
    <3> QED
      BY <2>1, <2>3, <3>2, <3>3, <3>4 DEF SpeaksOfCalls
  <2>4. CASE i \in DOMAIN events[e] /\ events'[e][i] = events[e][i]
    BY <1>1, <2>4
  <2>5. CASE ~(i \in DOMAIN events[e] /\ events'[e][i] = events[e][i])
    <3>1. events'[e] = events[e] \o evs
      BY <2>2, <2>5
    <3>2. i - Len(events[e]) \in DOMAIN evs /\ events'[e][i] = evs[i - Len(events[e])]
      BY <1>0, <2>5, <3>1
    <3> QED
      BY <2>3, <3>2
  <2> QED
    BY <2>4, <2>5
<1> QED
  BY <1>2, <1>3, <1>4, Kinds

LEMMA CardStays ==
  ASSUME NEW card, card.call \in Calls, CardOk(card), RowsGrow
  PROVE  CardOk(card)'
BY DEF CardOk, RowsGrow

\* The cards of a view are of calls.
LEMMA CardsAreOfCalls ==
  ASSUME IInv, NEW v \in Views, NEW card \in CardsOf(v)
  PROVE  card \in Card /\ card.call \in Calls
<1>1. view[v].cards \in Seq(Card)
  BY DEF IInv, Types, ViewTypes, ViewRecord
<1>2. card \in Card
  BY <1>1 DEF CardsOf
<1> QED
  BY <1>2 DEF Card

LEMMA CardsOkKept ==
  ASSUME IInv, IInv', Base, CallsInv, EventsInv, CardsOk, RowsGrow, [Next]_vars
  PROVE  CardsOk'
<1> SUFFICES ASSUME NEW v \in Views, NEW card \in CardsOf(v)'
             PROVE  CardOk(card)'
  BY DEF CardsOk, CardOk
<1>1. CASE card \in CardsOf(v)
  BY <1>1, CardStays, CardsAreOfCalls DEF CardsOk
<1>2. ASSUME NEW e \in Streams, Deliver(e)
      PROVE  CardOk(card)'
  <2> DEFINE ev == Head(events[e])
  <2>1. UNCHANGED <<row, auto>>
    BY <1>2 DEF Deliver, agentVars
  <2>2. ev \in Event /\ EventOk(ev)
    <3>1. events[e] \in Seq(Event) /\ events[e] # <<>>
      BY <1>2, DeliverCards
    <3>2. ev = events[e][1] /\ 1 \in DOMAIN events[e]
      BY <3>1
    <3> QED
      BY <3>1, <3>2 DEF EventsInv
  <2>3. card \in CardsOf(v) \/ card \in AfterSet(CardsOf(v), ev)
    BY <1>2, DeliverCards
  <2> HIDE DEF ev
  <2>4. CASE card \notin CardsOf(v)
    <3>1. card = [call |-> ev.call, status |-> Announced(ev)]
          /\ ev.type \in {"tool_call_requested", "tool_call_approved", "tool_call_rejected",
                          "tool_result"}
      BY <2>3, <2>4 DEF AfterSet, SetStatus
    <3>2. ev.call \in Calls /\ Subject(ev) = ev.call
      BY <2>2, <3>1, CallEvent
    <3>3. row[ev.call] # "none"
      BY <2>2, <3>2 DEF EventOk
    <3>4. Announced(ev) = "pending" => ev.call \notin auto
      BY <2>2, <3>1 DEF Announced, EventOk
    <3> QED
      BY <2>1, <3>1, <3>3, <3>4 DEF CardOk
  <2> QED
    BY <1>1, <2>4
<1>3. ASSUME NEW l \in Loads, HistoryLoaded(l)
      PROVE  CardOk(card)'
  <2>1. card \in CardsOf(v) \/ (card.call \in Stored /\ card.status = "executed")
    BY <1>3, HistoryLoadedCards
  <2>2. CASE card.call \in Stored /\ card.status = "executed"
    <3>1. row' = row
      BY <1>3 DEF HistoryLoaded, agentVars
    <3>2. \A c \in Stored : row[c] # "none"
      BY DEF IInv, Inv, ToolInv
    <3> QED
      BY <2>2, <3>1, <3>2 DEF CardOk
  <2> QED
    BY <1>1, <2>1, <2>2
<1>4. ASSUME NEW c \in Calls, NEW answer \in Answering, CardClicked(c, answer)
      PROVE  CardOk(card)'
  <2>1. card \in CardsOf(v) \/ (card \in SetStatus(CardsOf(v), c, answer))
    BY <1>4, CardClickedCards
  <2>2. CASE card \notin CardsOf(v)
    <3>1. card = [call |-> c, status |-> answer] /\ \E y \in CardsOf(v) : y.call = c
      BY <2>1, <2>2 DEF SetStatus
    <3>2. row[c] # "none" /\ row' = row
      BY <1>4, <3>1 DEF CardClicked, agentVars, CardsOk, CardOk
    <3> QED
      BY <3>1, <3>2 DEF CardOk, Answering
  <2> QED
    BY <1>1, <2>2
<1>5. ASSUME NEW c \in Calls, PatchAnswered(c)
      PROVE  CardOk(card)'
  <2>1. card \in CardsOf(v) \/ (card \in SetStatus(CardsOf(v), c, "pending"))
    BY <1>5, PatchAnsweredCards
  <2>2. CASE card \notin CardsOf(v)
    <3>1. card = [call |-> c, status |-> "pending"]
      BY <2>1, <2>2 DEF SetStatus
    <3>2. row[c] # "none" /\ c \notin auto /\ UNCHANGED <<row, auto>>
      BY <1>5 DEF PatchAnswered, agentVars, CallsInv, CallOk
    <3> QED
      BY <3>1, <3>2 DEF CardOk
  <2> QED
    BY <1>1, <2>2
<1> QED
  BY <1>1, <1>2, <1>3, <1>4, <1>5, CardSteps

CallsAndCards == CallsInv /\ EventsInv /\ CardsOk

LEMMA CallsAndCardsKept ==
  ASSUME IInv, IInv', Base, CallsAndCards, [Next]_vars
  PROVE  CallsAndCards' /\ RowsGrow
BY CallsInvKept, EventsInvKept, CardsOkKept DEF CallsAndCards

LEMMA CallsAndCardsInitially == Init => CallsAndCards
<1> SUFFICES ASSUME Init PROVE CallsAndCards
  OBVIOUS
<1>1. Stored = {}
  BY DEF Init, Stored
<1>2. CallsInv
  BY <1>1 DEF Init, CallsInv, CallOk, ToolOk, NoPatch
<1>3. EventsInv /\ CardsOk
  BY DEF Init, EventsInv, CardsOk, CardsOf
<1> QED
  BY <1>2, <1>3 DEF CallsAndCards
-------------------------------------------------------------------------------
(* The last event about a call tells its row *)

Tells(c, t) ==
  /\ t = "tool_call_requested" =>
       c \notin Stored /\ (row[c] = "pending" \/ patch[c].at = "committed")
  /\ t = "tool_call_approved" => c \notin Stored /\ row[c] = "approved"
  /\ t = "tool_call_rejected" => c \notin Stored /\ row[c] = "rejected"
  /\ t = "tool_result" => c \in Stored
LastTold ==
  \A c \in Calls, e \in Streams : \A i \in DOMAIN events[e] :
    LastAbout(events[e], c, i) => Tells(c, events[e][i].type)

\* What a step that does not publish does to a call.
QuietCall(c) ==
  \/ SameCall(c)
  \/ PatchCommit(c) \/ PatchAnswered(c) \/ PatchLost(c)
  \/ \E answer \in Answering : CardClicked(c, answer)

LEMMA QuietCalls ==
  ASSUME IInv, Silent \/ \E e \in Streams : Deliver(e), NEW c \in Calls
  PROVE  QuietCall(c)
<1>0. RequestTypes /\ AgentTypes
  BY DEF IInv, Types
<1>1. CASE UNCHANGED <<row, auto, saved, patch>>
  BY <1>1 DEF QuietCall, SameCall, Stored
<1>2. CASE BeginTurn \/ TakeMessage \/ Fails \/ EndIsStored \/ UNCHANGED vars
  BY <1>1, <1>2 DEF BeginTurn, TakeMessage, Fails, EndIsStored, AgentOnly, httpVars, vars, agentVars
<1>3. CASE \E e \in Streams : Subscribe(e) \/ Disconnect(e) \/ Rejected(e) \/ Deliver(e)
  BY <1>1, <1>3 DEF Subscribe, Disconnect, Rejected, Deliver, httpVars, agentVars
<1>4. CASE Page
  <2>1. CASE AbortChat \/ PostMessage
    BY <1>1, <2>1 DEF AbortChat, PostMessage
  <2>2. CASE MessageSent
    BY <1>1, <2>2 DEF MessageSent, agentVars
  <2>3. CASE ~(AbortChat \/ PostMessage \/ MessageSent)
    BY <1>1, <1>4, <2>3 DEF Page, ChatCreated, ChatSelected, OpenChat, BackToList, ChatClosed,
       PageLeft, CloseTab, ListLoaded, StopClicked, AbortAnswered, AbortLost, PostLost,
       HistoryRead, HistoryLoaded, HistoryFailed, httpVars, agentVars
  <2> QED
    BY <2>1, <2>2, <2>3
<1>5. CASE \E d \in Calls : \/ PatchCommit(d) \/ PatchAnswered(d) \/ PatchLost(d)
                            \/ \E answer \in Answering : CardClicked(d, answer)
  <2>1. PICK d \in Calls : \/ PatchCommit(d) \/ PatchAnswered(d) \/ PatchLost(d)
                           \/ \E answer \in Answering : CardClicked(d, answer)
    BY <1>5
  <2>2. UNCHANGED <<auto, saved>>
    BY <2>1 DEF PatchCommit, PatchAnswered, PatchLost, CardClicked, agentVars
  <2>3. c # d => row'[c] = row[c] /\ patch'[c] = patch[c]
    BY <1>0, <2>1 DEF PatchCommit, PatchAnswered, PatchLost, CardClicked, agentVars,
       RequestTypes, AgentTypes
  <2> QED
    BY <2>1, <2>2, <2>3 DEF QuietCall, SameCall, Stored
<1> QED
  BY <1>2, <1>3, <1>4, <1>5 DEF Silent

\* An answer is committed for a pending call, and stays so until it is published.
LEMMA QuietAnswer ==
  ASSUME IInv, NEW c \in Calls, QuietCall(c)
  PROVE  /\ c \in Stored' <=> c \in Stored
         /\ c \in auto' <=> c \in auto
         /\ patch[c].at = "committed" => patch'[c].at = "committed"
         /\ \/ row'[c] = row[c]
            \/ row[c] = "pending" /\ patch'[c].at = "committed"
<1>0. RequestTypes /\ AgentTypes
  BY DEF IInv, Types
<1>1. CASE PatchCommit(c)
  <2>1. UNCHANGED <<auto, saved>> /\ patch[c].at = "sent"
    BY <1>1 DEF PatchCommit
  <2>2. CASE row[c] = "pending"
    <3>1. patch' = [patch EXCEPT ![c].at = "committed"]
      BY <1>1, <2>2 DEF PatchCommit
    <3>2. patch'[c].at = "committed"
      BY <1>0, <3>1 DEF RequestTypes, PatchRecord
    <3> QED
      BY <2>1, <2>2, <3>2 DEF Stored
  <2> QED
    BY <1>1, <2>1, <2>2 DEF PatchCommit, Stored
<1>2. CASE PatchAnswered(c) \/ PatchLost(c) \/ \E answer \in Answering : CardClicked(c, answer)
  BY <1>2 DEF PatchAnswered, PatchLost, CardClicked, agentVars, Stored
<1>3. CASE SameCall(c)
  BY <1>3 DEF SameCall
<1> QED
  BY <1>1, <1>2, <1>3 DEF QuietCall

LEMMA QuietTells ==
  ASSUME IInv, NEW c \in Calls, QuietCall(c), NEW t, Tells(c, t)
  PROVE  Tells(c, t)'
BY QuietAnswer DEF Tells

\* Whoever makes, answers or ends a call says so.
LEMMA SpeaksOnly ==
  ASSUME NEW c \in Calls, NEW evs, Made(c, evs) \/ Settles(c, evs)
  PROVE  1 \in DOMAIN evs /\ \A k \in DOMAIN evs : Subject(evs[k]) = c
<1>1. CASE Made(c, evs)
  <2>1. PICK a \in BOOLEAN : evs = <<[type |-> "tool_call_requested", call |-> c, auto |-> a]>>
    BY <1>1 DEF Made
  <2> DEFINE ev == [type |-> "tool_call_requested", call |-> c, auto |-> a]
  <2>2. Subject(ev) = c /\ evs = <<ev>>
    BY <2>1, RequestEvent
  <2> HIDE DEF ev
  <2> QED
    BY <2>2
<1>2. CASE Settles(c, evs)
  <2>1. PICK t \in {"tool_call_approved", "tool_call_rejected", "tool_result"} :
          evs = <<[type |-> t, call |-> c]>>
    BY <1>2 DEF Settles
  <2> DEFINE ev == [type |-> t, call |-> c]
  <2>2. Subject(ev) = c /\ evs = <<ev>>
    BY <2>1, OneEvent
  <2> HIDE DEF ev
  <2> QED
    BY <2>2
<1> QED
  BY <1>1, <1>2

LEMMA SpokenTells ==
  ASSUME NEW c \in Calls, NEW evs, Made(c, evs) \/ Settles(c, evs), NEW k \in DOMAIN evs,
         NEW t, t = evs[k].type
  PROVE  Tells(c, t)'
<1>1. CASE Made(c, evs)
  <2>1. PICK a \in BOOLEAN : evs = <<[type |-> "tool_call_requested", call |-> c, auto |-> a]>>
    BY <1>1 DEF Made
  <2>2. t = "tool_call_requested"
    BY <2>1, RequestEvent
  <2> QED
    BY <1>1, <2>2 DEF Made, Tells
<1>2. CASE Settles(c, evs)
  <2>1. PICK u \in {"tool_call_approved", "tool_call_rejected", "tool_result"} :
          /\ evs = <<[type |-> u, call |-> c]>>
          /\ u = "tool_call_approved" => row'[c] = "approved" /\ c \notin Stored'
          /\ u = "tool_call_rejected" => row'[c] = "rejected" /\ c \notin Stored'
          /\ u = "tool_result" => c \in Stored'
    BY <1>2 DEF Settles
  <2>2. t = u
    BY <2>1, OneEvent
  <2> QED
    BY <2>1, <2>2 DEF Tells
<1> QED
  BY <1>1, <1>2

LEMMA LastToldKept ==
  ASSUME IInv, Base, CallsInv, LastTold, [Next]_vars
  PROVE  LastTold'
<1>0. BusTypes
  BY DEF IInv, Types
<1> SUFFICES ASSUME NEW c \in Calls, NEW e \in Streams, NEW i \in DOMAIN events'[e],
                    LastAbout(events'[e], c, i), NEW t, t = events'[e][i].type
             PROVE  Tells(c, t)'
  BY DEF LastTold, LastAbout, Tells
<1>1. events[e] \in Seq(Event)
  BY <1>0 DEF BusTypes
<1>2. CASE Silent \/ \E d \in Streams : Deliver(d)
  <2> DEFINE q == events[e]
             r == events'[e]
  <2>1. \/ events'[e] = events[e] \/ events'[e] = <<>>
        \/ events[e] # <<>> /\ events'[e] = Tail(events[e])
    BY <1>0, <1>2, SilentStreams DEF QueuesFewer, Deliver, BusTypes
  <2>2. q \in Seq(Event) /\ (r = q \/ r = <<>> \/ (q # <<>> /\ r = Tail(q)))
        /\ LastAbout(r, c, i)
    BY <1>1, <2>1
  <2> HIDE DEF q, r
  <2>3. \E k \in DOMAIN q : LastAbout(q, c, k) /\ q[k] = r[i]
    BY <2>2, LastOfFewer
  <2>4. PICK k \in DOMAIN events[e] : LastAbout(events[e], c, k)
                                      /\ events[e][k] = events'[e][i]
    BY <2>3 DEF q, r
  <2>5. Tells(c, t)
    BY <2>4 DEF LastTold
  <2> QED
    BY <1>2, <2>5, QuietCalls, QuietTells
<1>3. CASE Speaks
  <2>1. PICK evs \in Seq(Event) : SpeaksOfCalls(evs)
    BY <1>3, SpeaksOf
  <2>2. events'[e] = IF es[e] = "open" THEN events[e] \o evs ELSE events[e]
    BY <2>1 DEF SpeaksOfCalls, Publish
  <2>3. CASE es[e] # "open"
    <3>1. events[e] = <<>>
      BY <2>3 DEF Base, NoQueueUnsubscribed
    <3> QED
      BY <2>2, <2>3, <3>1 DEF LastAbout
  <2>4. CASE es[e] = "open"
    <3>1. events'[e] = events[e] \o evs
      BY <2>2, <2>4
    <3>3. \/ OldIsLast(events[e], evs, events'[e], c, i)
          \/ NewIsLast(evs, events'[e], c, i)
      BY <1>1, <3>1, LastOfMore
    <3>4. ASSUME NEW d \in Calls, Made(d, evs) \/ Settles(d, evs)
          PROVE  1 \in DOMAIN evs /\ \A k \in DOMAIN evs : Subject(evs[k]) = d
      BY <3>4, SpeaksOnly
    <3>5. CASE OldIsLast(events[e], evs, events'[e], c, i)
      <4>1. SameCall(c)
        BY <2>1, <3>4, <3>5 DEF SpeaksOfCalls, OldIsLast
      <4>2. Tells(c, t)
        BY <3>5 DEF OldIsLast, LastTold
      <4> QED
        BY <4>1, <4>2 DEF SameCall, Tells
    <3>6. ASSUME NEW k \in DOMAIN evs, LastAbout(evs, c, k), events'[e][i] = evs[k]
          PROVE  Tells(c, t)'
      <4>1. Made(c, evs) \/ Settles(c, evs)
        BY <2>1, <3>4, <3>6 DEF SpeaksOfCalls, LastAbout
      <4> QED
        BY <3>6, <4>1, SpokenTells
    <3> QED
      BY <3>3, <3>5, <3>6 DEF NewIsLast
  <2> QED
    BY <2>3, <2>4
<1> QED
  BY <1>2, <1>3, Kinds

-------------------------------------------------------------------------------
(* The card of a pending call *)

Asks(c) == IF c \in auto THEN "auto_approved" ELSE "pending"
UnderWay(c, v) == patch[c].at # "none" /\ patch[c].view = v

\* A view whose technician has not answered shows a pending call as it is, if at all.
PendingShown ==
  \A c \in Calls, v \in Views : row[c] = "pending" /\ ~UnderWay(c, v) =>
    \A card \in CardsOf(v) : card.call = c => card.status = Asks(c)

LEMMA PendingCall ==
  ASSUME IInv, CallsInv, [Next]_vars, NEW c \in Calls, row[c] = "pending", row'[c] = "pending"
  PROVE  SameCall(c) \/ PatchAnswered(c) \/ PatchLost(c)
                     \/ \E answer \in Answering : CardClicked(c, answer)
<1>1. CASE Silent \/ \E e \in Streams : Deliver(e)
  <2>1. QuietCall(c)
    BY <1>1, QuietCalls
  <2>2. ~PatchCommit(c)
    <3>1. patch[c].answer # "pending"
      BY DEF IInv, Types, RequestTypes, PatchRecord
    <3>2. PatchCommit(c) => row' = [row EXCEPT ![c] = patch[c].answer]
      BY DEF PatchCommit
    <3> QED
      BY <3>1, <3>2 DEF IInv, Types, AgentTypes
  <2> QED
    BY <2>1, <2>2 DEF QuietCall
<1>2. CASE Speaks
  <2>1. PICK evs \in Seq(Event) : SpeaksOfCalls(evs)
    BY <1>2, SpeaksOf
  <2>2. ~Made(c, evs) /\ ~Settles(c, evs)
    BY DEF Made, Settles
  <2> QED
    BY <2>1, <2>2 DEF SpeaksOfCalls
<1> QED
  BY <1>1, <1>2, Kinds

\* An answer to a pending call is over with its request.
LEMMA AnswerOver ==
  ASSUME IInv, CallsInv, [Next]_vars, NEW c \in Calls, NEW v \in Views,
         row[c] = "pending", row'[c] = "pending", UnderWay(c, v), ~UnderWay(c, v)'
  PROVE  PatchAnswered(c) /\ patch[c].at = "refused" /\ patch[c].view = v
<1>0. RequestTypes
  BY DEF IInv, Types
<1>1. ~SameCall(c)
  BY DEF SameCall, UnderWay
<1>2. ~PatchLost(c)
  <2> SUFFICES ASSUME PatchLost(c) PROVE FALSE
    OBVIOUS
  <2>1. patch' = [patch EXCEPT ![c].at = "refused"]
    BY DEF PatchLost
  <2>2. patch'[c].at = "refused" /\ patch'[c].view = patch[c].view
    BY <1>0, <2>1 DEF RequestTypes, PatchRecord
  <2> QED
    BY <2>2 DEF UnderWay
<1>3. \A answer \in Answering : ~CardClicked(c, answer)
  BY DEF CardClicked, UnderWay
<1>4. patch[c].at # "resolved"
  BY DEF CallsInv, CallOk
<1> QED
  BY <1>1, <1>2, <1>3, <1>4, PendingCall DEF PatchAnswered, UnderWay

LEMMA PendingShownKept ==
  ASSUME IInv, CallsAndCards, RowsGrow, PendingShown, [Next]_vars
  PROVE  PendingShown'
<1> SUFFICES ASSUME NEW c \in Calls, NEW v \in Views, row'[c] = "pending", ~UnderWay(c, v)',
                    NEW card \in CardsOf(v)', card.call = c
             PROVE  card.status = Asks(c)'
  BY DEF PendingShown, UnderWay, Asks
<1>0. RequestTypes /\ AgentTypes /\ CallsInv /\ EventsInv /\ CardsOk
  BY DEF IInv, Types, CallsAndCards
<1>1. row[c] # "none" => row[c] = "pending" /\ (c \in auto' <=> c \in auto)
  BY DEF RowsGrow
<1>2. CASE card \in CardsOf(v)
  <2>1. row[c] = "pending" /\ (c \in auto' <=> c \in auto)
    BY <1>0, <1>1, <1>2 DEF CardsOk, CardOk
  <2>2. CASE ~UnderWay(c, v)
    BY <1>2, <2>1, <2>2 DEF PendingShown, Asks
  <2>3. CASE UnderWay(c, v)
    <3>1. PatchAnswered(c) /\ patch[c].at = "refused" /\ patch[c].view = v
      BY <1>0, <2>1, <2>3, AnswerOver
    <3>2. card \in SetStatus(CardsOf(v), c, "pending")
      BY <3>1, PatchAnsweredCards
    <3>3. card.status = "pending"
      BY <3>2 DEF SetStatus
    <3>4. c \notin auto
      BY <1>0, <3>1 DEF CallsInv, CallOk
    <3> QED
      BY <2>1, <3>3, <3>4 DEF Asks
  <2> QED
    BY <2>2, <2>3
<1>3. ASSUME NEW e \in Streams, Deliver(e), card \notin CardsOf(v)
      PROVE  card.status = Asks(c)'
  <2> DEFINE ev == Head(events[e])
  <2>1. UNCHANGED <<row, auto>>
    BY <1>3 DEF Deliver, agentVars
  <2>2. ev \in Event /\ EventOk(ev)
    <3>1. events[e] \in Seq(Event) /\ events[e] # <<>>
      BY <1>3, DeliverCards
    <3>2. ev = events[e][1] /\ 1 \in DOMAIN events[e]
      BY <3>1
    <3> QED
      BY <1>0, <3>1, <3>2 DEF EventsInv
  <2>3. card \in AfterSet(CardsOf(v), ev)
    BY <1>3, DeliverCards
  <2> HIDE DEF ev
  <2>4. card = [call |-> ev.call, status |-> Announced(ev)]
        /\ ev.type \in {"tool_call_requested", "tool_call_approved", "tool_call_rejected",
                        "tool_result"}
    BY <1>3, <2>3 DEF AfterSet, SetStatus
  <2>5. ev.call = c /\ card.status = Announced(ev)
    BY <2>4
  <2>6. ev.type = "tool_call_requested" /\ (ev.auto <=> c \in auto)
    BY <2>1, <2>2, <2>4, <2>5 DEF EventOk
  <2> QED
    BY <2>1, <2>5, <2>6 DEF Announced, Asks
<1>4. ASSUME NEW l \in Loads, HistoryLoaded(l), card \notin CardsOf(v)
      PROVE  card.status = Asks(c)'
  <2>1. c \in Stored
    BY <1>4, HistoryLoadedCards
  <2>2. row[c] # "pending" /\ row' = row
    BY <1>0, <1>4, <2>1 DEF HistoryLoaded, agentVars, CallsInv, CallOk
  <2> QED
    BY <2>2
<1>5. ASSUME NEW d \in Calls, NEW answer \in Answering, CardClicked(d, answer), card \notin CardsOf(v)
      PROVE  card.status = Asks(c)'
  <2>1. v = open /\ card \in SetStatus(CardsOf(v), d, answer)
    BY <1>5, CardClickedCards
  <2>2. c = d
    BY <1>5, <2>1 DEF SetStatus
  <2>3. patch' = [patch EXCEPT ![d] = [at |-> "sent", view |-> open, answer |-> answer]]
    BY <1>5 DEF CardClicked
  <2>4. patch'[c] = [at |-> "sent", view |-> open, answer |-> answer]
    BY <1>0, <2>2, <2>3 DEF RequestTypes
  <2> QED
    BY <2>1, <2>4 DEF UnderWay
<1>6. ASSUME NEW d \in Calls, PatchAnswered(d), card \notin CardsOf(v)
      PROVE  card.status = Asks(c)'
  <2>1. card \in SetStatus(CardsOf(v), d, "pending")
    BY <1>6, PatchAnsweredCards
  <2>2. c = d /\ card.status = "pending"
    BY <1>6, <2>1 DEF SetStatus
  <2>3. c \notin auto /\ UNCHANGED auto
    BY <1>0, <1>6, <2>2 DEF PatchAnswered, agentVars, CallsInv, CallOk
  <2> QED
    BY <2>2, <2>3 DEF Asks
<1> QED
  BY <1>2, <1>3, <1>4, <1>5, <1>6, CardSteps

-------------------------------------------------------------------------------
(* What the open view has still to learn of a call *)

Requests(c) == {ev \in Event : Subject(ev) = c /\ ev.type = "tool_call_requested"}
News(c) == {ev \in Event : Subject(ev) = c}
HasCard(v, c) == \E card \in CardsOf(v) : card.call = c

\* A call the view has no card of, and has not missed: its request is under way.
RequestUnderWay ==
  \A c \in Calls, v \in Views :
    v = open /\ c \notin missed[v] /\ row[c] # "none" /\ ~HasCard(v, c) => Awaits(v, Requests(c))

\* A view that has not missed a call that was answered or has ended shows that, or
\* an event of the call is under way.
RightCard(c) == [call |-> c, status |-> IF c \in Stored THEN "executed" ELSE row[c]]
AnswerShown ==
  \A c \in Calls, v \in Views :
    v = open /\ c \notin missed[v] /\ row[c] \notin {"none", "pending"}
        /\ patch[c].at # "committed" =>
      RightCard(c) \in CardsOf(v) \/ Awaits(v, News(c))

\* Cards come and change, and go only when a history is loaded.
LEMMA CardsRemain ==
  ASSUME IInv, [Next]_vars, NEW v \in Views, NEW c \in Calls, HasCard(v, c), ~HasCard(v, c)'
  PROVE  \E l \in Loads : HistoryLoaded(l) /\ v = load[l].view
<1>1. \A d, s : (\E card \in SetStatus(CardsOf(v), d, s) : card.call = c)
  <2> TAKE d, s
  <2>1. PICK card \in CardsOf(v) : card.call = c
    BY DEF HasCard
  <2>2. CASE d # c
    BY <2>1, <2>2 DEF SetStatus
  <2>3. CASE d = c
    <3> DEFINE new == [call |-> c, status |-> s]
    <3>1. new \in SetStatus(CardsOf(v), d, s)
      BY <2>1, <2>3 DEF SetStatus
    <3>2. new.call = c
      OBVIOUS
    <3> QED
      BY <3>1, <3>2
  <2> QED
    BY <2>2, <2>3
<1>2. \A ev : (\E card \in AfterSet(CardsOf(v), ev) : card.call = c)
  BY <1>1 DEF HasCard, AfterSet
<1>3. ASSUME NEW e \in Streams, Deliver(e) PROVE FALSE
  BY <1>2, <1>3, DeliverCards DEF HasCard
<1>4. ASSUME NEW d \in Calls, NEW answer \in Answering, CardClicked(d, answer) PROVE FALSE
  BY <1>1, <1>4, CardClickedCards DEF HasCard
<1>5. ASSUME NEW d \in Calls, PatchAnswered(d) PROVE FALSE
  BY <1>1, <1>5, PatchAnsweredCards DEF HasCard
<1>6. ASSUME NEW l \in Loads, HistoryLoaded(l) PROVE v = load[l].view
  BY <1>6, HistoryLoadedCards DEF HasCard
<1> QED
  BY <1>3, <1>4, <1>5, <1>6, CardSteps DEF HasCard

\* A delivery makes up for what was missed only if a card is there to tell it.
LEMMA DeliverMissed ==
  ASSUME IInv, NEW e \in Streams, Deliver(e), NEW v \in Views, NEW c \in Calls,
         c \notin missed'[v]
  PROVE  \/ c \notin missed[v]
         \/ owner[e] = v /\ Subject(Head(events[e])) = c /\ HasCard(v, c)'
<1> DEFINE w == owner[e]
           ev == Head(events[e])
           cards == CardsAfter(view[w].cards, ev)
           r == [view[w] EXCEPT !.cards = cards, !.status = StatusAfter(view[w].status, ev)]
<1>0. ViewTypes /\ MissedTypes
  BY DEF IInv, Types
<1>1. view' = [view EXCEPT ![w] = r]
  BY DEF Deliver
<1>2. w \in Views => r.cards = cards
  BY <1>0 DEF ViewTypes, ViewRecord
<1> HIDE DEF r
<1>3. v = w => view'[v].cards = cards
  BY <1>0, <1>1, <1>2 DEF ViewTypes
<1>4. missed' = [missed EXCEPT ![w] =
        IF Subject(ev) = "status" \/ Has(cards, Subject(ev)) THEN @ \ {Subject(ev)} ELSE @]
  BY DEF Deliver
<1> HIDE DEF cards, ev
<1>5. CASE v = w /\ c \in missed[v]
  <2>1. Subject(ev) = c /\ (Subject(ev) = "status" \/ Has(cards, Subject(ev)))
    BY <1>0, <1>4, <1>5 DEF MissedTypes
  <2>2. Has(view'[v].cards, c)
    BY <1>3, <1>5, <2>1, StatusIsNoCall
  <2>3. HasCard(v, c)'
    BY <2>2, HasIs DEF HasCard, CardsOf
  <2> QED
    BY <1>5, <2>1, <2>3 DEF ev
<1> QED
  BY <1>0, <1>4, <1>5 DEF MissedTypes

LEMMA RequestUnderWayKept ==
  ASSUME IInv, Base, CallsAndCards, RequestUnderWay, [Next]_vars
  PROVE  RequestUnderWay'
<1> SUFFICES ASSUME NEW c \in Calls, NEW v \in Views, v = open', c \notin missed'[v],
                    row'[c] # "none", ~HasCard(v, c)'
             PROVE  Awaits(v, Requests(c))'
  BY DEF RequestUnderWay
<1>0. BusTypes /\ MissedTypes /\ CallsInv
  BY DEF IInv, Types, CallsAndCards
<1>1. CASE Silent
  <2>1. ASSUME NEW l \in Loads, HistoryLoaded(l), v = load[l].view PROVE FALSE
    <3>1. row' = row
      BY <2>1 DEF HistoryLoaded, agentVars
    <3>2. missed'[v] = (missed[v] \cup {d \in Calls : row[d] # "none"})
                         \ {card.call : card \in CardsOf(v)'}
      BY <2>1, HistoryLoadedCards
    <3> QED
      BY <3>1, <3>2 DEF HasCard
  <2>2. v = open /\ c \notin missed[v]
    BY <1>1, <2>1, SilentMissed
  <2>3. row[c] # "none"
    BY <1>1, QuietCalls, QuietAnswer
  <2>4. ~HasCard(v, c)
    BY <2>1, CardsRemain
  <2>5. Awaits(v, Requests(c))
    BY <2>2, <2>3, <2>4 DEF RequestUnderWay
  <2>6. StreamsKept(v)
    BY <1>1, SilentStreams
  <2>7. \A ev \in Requests(c) : Subject(ev) = c
    BY DEF Requests
  <2> QED
    BY <2>5, <2>6, <2>7, AwaitsKept
<1>2. ASSUME NEW e \in Streams, Deliver(e)
      PROVE  Awaits(v, Requests(c))'
  <2>1. v = open /\ row' = row
    BY <1>2 DEF Deliver, pageVars, agentVars
  <2>2. c \notin missed[v]
    BY <1>2, DeliverMissed
  <2>3. ~HasCard(v, c)
    <3>1. ~\E l \in Loads : HistoryLoaded(l)
      <4>1. ASSUME NEW l \in Loads, HistoryLoaded(l) PROVE FALSE
        BY <1>0, <1>2, <4>1 DEF Deliver, HistoryLoaded, OpenStream, FreeStreams, BusTypes
      <4> QED
        BY <4>1
    <3> QED
      BY <3>1, CardsRemain
  <2>4. Awaits(v, Requests(c))
    BY <2>1, <2>2, <2>3 DEF RequestUnderWay
  <2>5. owner[e] = v => Head(events[e]) \notin Requests(c)
    <3> SUFFICES ASSUME owner[e] = v, Head(events[e]) \in Requests(c) PROVE FALSE
      OBVIOUS
    <3> DEFINE ev == Head(events[e])
    <3>1. ev \in Event /\ CardsOf(v)' = AfterSet(CardsOf(v), ev)
      BY <1>2, DeliverCards
    <3>2. ev.type = "tool_call_requested" /\ Subject(ev) = c
      BY DEF Requests
    <3> HIDE DEF ev
    <3>3. ev.call = c
      BY <3>1, <3>2, CallEvent
    <3> DEFINE new == [call |-> c, status |-> Announced(ev)]
    <3>4. new \in CardsOf(v)'
      BY <2>3, <3>1, <3>2, <3>3 DEF AfterSet, HasCard
    <3>5. new.call = c
      OBVIOUS
    <3> QED
      BY <3>4, <3>5 DEF HasCard
  <2> QED
    BY <1>0, <1>2, <2>4, <2>5, AwaitsDelivered
<1>3. CASE Speaks
  <2>1. UNCHANGED <<view, open>>
    BY <1>3, SpeaksView
  <2>2. PICK evs \in Seq(Event) : SpeaksOfCalls(evs)
    BY <1>0, <1>3, SpeaksOf
  <2>3. Publish(evs) /\ c \notin missed[v]
    BY <1>0, <2>2, CallPublished DEF SpeaksOfCalls
  <2>4. CASE row[c] # "none"
    <3>1. Awaits(v, Requests(c))
      BY <2>1, <2>3, <2>4 DEF RequestUnderWay, HasCard, CardsOf
    <3> QED
      BY <1>0, <2>3, <3>1, AwaitsPublished
  <2>5. CASE row[c] = "none"
    <3>1. Made(c, evs)
      BY <2>2, <2>5 DEF SpeaksOfCalls, SameCall, Settles
    <3>2. PICK a \in BOOLEAN : evs = <<[type |-> "tool_call_requested", call |-> c, auto |-> a]>>
      BY <3>1 DEF Made
    <3> DEFINE ev == [type |-> "tool_call_requested", call |-> c, auto |-> a]
    <3>3. ev \in Requests(c) /\ Subject(ev) = c /\ evs = <<ev>>
      BY <3>2, RequestEvent DEF Requests
    <3> HIDE DEF ev
    <3>4. 1 \in DOMAIN evs /\ evs[1] \in Requests(c) /\ Subject(evs[1]) = c
      BY <3>3
    <3>5. view[v].at = "open"
      BY <2>1 DEF Base, OpenIsOpen
    <3> QED
      BY <1>0, <2>3, <3>4, <3>5, PublishedAwaited
  <2> QED
    BY <2>4, <2>5
<1> QED
  BY <1>1, <1>2, <1>3, Kinds

\* Cards of other calls are left alone.
LEMMA SetStatusElse ==
  ASSUME NEW K, NEW c, NEW s, NEW card \in K, card.call # c
  PROVE  card \in SetStatus(K, c, s)
BY DEF SetStatus

LEMMA SetStatusHas ==
  ASSUME NEW K, NEW c, NEW s, NEW card \in K, card.call = c
  PROVE  [call |-> c, status |-> s] \in SetStatus(K, c, s)
<1>1. card \in {y \in K : y.call = c}
  OBVIOUS
<1> QED
  BY <1>1 DEF SetStatus

\* A card that says how a call was answered was not clicked, and is made pending
\* again only by a refused answer, which the view is then known to have missed.
LEMMA SilentAnswerShown ==
  ASSUME IInv, Base, CallsInv, AnswerShown, Silent,
         NEW c \in Calls, NEW v \in Views, v = open', c \notin missed'[v],
         row'[c] \notin {"none", "pending"}, patch'[c].at # "committed"
  PROVE  RightCard(c)' \in CardsOf(v)' \/ Awaits(v, News(c))'
<1>0. BusTypes /\ MissedTypes /\ RequestTypes /\ AgentTypes
  BY DEF IInv, Types
<1>1. row'[c] = row[c] /\ (c \in Stored' <=> c \in Stored) /\ patch[c].at # "committed"
  BY QuietCalls, QuietAnswer
<1>2. RightCard(c)' = RightCard(c)
  BY <1>1 DEF RightCard
<1>3. CASE \E l \in Loads : HistoryLoaded(l) /\ v = load[l].view
  <2>1. PICK l \in Loads : HistoryLoaded(l) /\ v = load[l].view
    BY <1>3
  <2>2. /\ \A card \in CardsOf(v)' : card.call \in Stored /\ card.status = "executed"
        /\ missed'[v] = (missed[v] \cup {d \in Calls : row[d] # "none"})
                          \ {card.call : card \in CardsOf(v)'}
    BY <2>1, HistoryLoadedCards
  <2>3. PICK card \in CardsOf(v)' : card.call = c
    BY <1>1, <2>2
  <2>4. view'[v].cards \in Seq(Card)
    <3>1. ViewTypes'
      BY <2>1, HistoryLoadedKeeps DEF IInv, Types
    <3> QED
      BY <3>1 DEF ViewTypes, ViewRecord
  <2>5. card \in Card
    BY <2>4 DEF CardsOf
  <2>6. card = [call |-> c, status |-> "executed"] /\ c \in Stored
    BY <2>2, <2>3, <2>5 DEF Card
  <2>7. RightCard(c) = card
    BY <2>6 DEF RightCard
  <2> QED
    BY <1>2, <2>7
<1>4. CASE ~\E l \in Loads : HistoryLoaded(l) /\ v = load[l].view
  <2>1. v = open /\ c \notin missed[v]
    BY <1>1, <1>4, SilentMissed
  <2>2. RightCard(c) \in CardsOf(v) \/ Awaits(v, News(c))
    BY <1>1, <2>1 DEF AnswerShown
  <2>3. Awaits(v, News(c)) => Awaits(v, News(c))'
    <3>1. StreamsKept(v)
      BY SilentStreams
    <3>2. \A ev \in News(c) : Subject(ev) = c
      BY DEF News
    <3> QED
      BY <3>1, <3>2, AwaitsKept
  <2>4. ASSUME RightCard(c) \in CardsOf(v), RightCard(c) \notin CardsOf(v)'
        PROVE  FALSE
    <3>0. RightCard(c).call = c /\ RightCard(c).status # "pending"
      BY <1>0, <1>1 DEF RightCard, AgentTypes
    <3>1. ASSUME NEW d \in Calls, NEW answer \in Answering, CardClicked(d, answer)
          PROVE  FALSE
      <4>1. CardsOf(v)' = SetStatus(CardsOf(v), d, answer)
        BY <2>1, <3>1, CardClickedCards
      <4>2. d = c
        BY <2>4, <3>0, <4>1, SetStatusElse
      <4>3. PICK i \in DOMAIN view[v].cards :
              view[v].cards[i] = [call |-> c, status |-> "pending"]
        BY <2>1, <3>1, <4>2 DEF CardClicked
      <4>4. PICK j \in DOMAIN view[v].cards : view[v].cards[j] = RightCard(c)
        BY <2>4 DEF CardsOf
      <4>5. view[v].cards[i].call = c /\ view[v].cards[i].status = "pending"
        BY <4>3
      <4>6. i = j
        BY <3>0, <4>4, <4>5, ViewInvIs DEF IInv, Inv, OneCardPerCall
      <4> QED
        BY <3>0, <4>4, <4>5, <4>6
    <3>2. ASSUME NEW d \in Calls, PatchAnswered(d)
          PROVE  FALSE
      <4>1. patch[d].at = "refused" /\ v = patch[d].view
            /\ CardsOf(v)' = SetStatus(CardsOf(v), d, "pending")
        BY <2>4, <3>2, PatchAnsweredCards
      <4>2. d = c
        BY <2>4, <3>0, <4>1, SetStatusElse
      <4>3. missed' = [missed EXCEPT ![v] = @ \cup {c}]
        BY <1>1, <3>2, <4>1, <4>2 DEF PatchAnswered
      <4> QED
        BY <1>0, <4>3 DEF MissedTypes
    <3>3. ASSUME NEW l \in Loads, HistoryLoaded(l) PROVE FALSE
      BY <1>4, <2>4, <3>3, HistoryLoadedCards
    <3> QED
      BY <2>4, <3>1, <3>2, <3>3, SilentCards
  <2> QED
    BY <1>2, <2>2, <2>3, <2>4
<1> QED
  BY <1>3, <1>4

\* The last event about a call makes its card right; an earlier one is followed by
\* another; any other leaves the card and what is under way alone.
LEMMA DeliverAnswerShown ==
  ASSUME IInv, Base, CallsInv, LastTold, RequestUnderWay, AnswerShown,
         NEW e \in Streams, Deliver(e),
         NEW c \in Calls, NEW v \in Views, v = open', c \notin missed'[v],
         row'[c] \notin {"none", "pending"}, patch'[c].at # "committed"
  PROVE  RightCard(c)' \in CardsOf(v)' \/ Awaits(v, News(c))'
<1> DEFINE ev == Head(events[e])
<1>0. BusTypes
  BY DEF IInv, Types
<1>1. v = open /\ row' = row /\ patch' = patch /\ Stored' = Stored /\ RightCard(c)' = RightCard(c)
  BY DEF Deliver, agentVars, pageVars, httpVars, Stored, RightCard
<1>2. /\ events[e] \in Seq(Event) /\ events[e] # <<>> /\ ev \in Event
      /\ CardsOf(v)' = IF v = owner[e] THEN AfterSet(CardsOf(v), ev) ELSE CardsOf(v)
  BY DeliverCards
<1>3. 1 \in DOMAIN events[e] /\ ev = events[e][1]
  BY <1>2
<1>4. (v = owner[e] => e \in Subscribed(v)') /\ events'[e] = Tail(events[e])
  BY <1>0 DEF Deliver, Subscribed, BusTypes
<1> HIDE DEF ev
<1>5. CASE v = owner[e] /\ Subject(ev) = c
  <2>1. CASE ~LastAbout(events[e], c, 1)
    <3>1. PICK j \in DOMAIN events[e] : j > 1 /\ Subject(events[e][j]) = c
      BY <1>3, <1>5, <2>1 DEF LastAbout
    <3>2. j - 1 \in DOMAIN events'[e] /\ events'[e][j - 1] = events[e][j]
      BY <1>2, <1>4, <3>1
    <3>3. events[e][j] \in News(c)
      BY <1>2, <3>1 DEF News
    <3> QED
      BY <1>4, <1>5, <3>2, <3>3 DEF Awaits
  <2>2. CASE LastAbout(events[e], c, 1)
    <3>1. Tells(c, ev.type)
      BY <1>3, <2>2 DEF LastTold
    <3>2. ev.type \in {"tool_call_approved", "tool_call_rejected", "tool_result"} /\ ev.call = c
      BY <1>1, <1>2, <1>5, <3>1, SubjectCall DEF Tells
    <3>3. [call |-> c, status |-> Announced(ev)] = RightCard(c)
      BY <3>1, <3>2 DEF Announced, RightCard, Tells
    <3>4. CASE HasCard(v, c)
      <4>1. CardsOf(v)' = SetStatus(CardsOf(v), c, Announced(ev))
        BY <1>2, <1>5, <3>2 DEF AfterSet
      <4>2. [call |-> c, status |-> Announced(ev)] \in CardsOf(v)'
        BY <3>4, <4>1, SetStatusHas DEF HasCard
      <4> QED
        BY <1>1, <3>3, <4>2
    <3>5. CASE ~HasCard(v, c)
      <4>1. CardsOf(v)' = SetStatus(CardsOf(v), c, Announced(ev))
        BY <1>2, <1>5, <3>2 DEF AfterSet
      <4>2. ~HasCard(v, c)'
        BY <3>5, <4>1 DEF HasCard, SetStatus
      <4>3. c \notin missed[v]
        BY <4>2, DeliverMissed
      <4>4. Awaits(v, Requests(c))
        BY <1>1, <3>5, <4>3 DEF RequestUnderWay
      <4>5. Head(events[e]) \notin Requests(c)
        BY <3>2 DEF ev, Requests
      <4>6. Awaits(v, Requests(c))'
        BY <1>0, <4>4, <4>5, AwaitsDelivered
      <4>7. Requests(c) \subseteq News(c)
        BY DEF Requests, News
      <4> QED
        BY <4>6, <4>7 DEF Awaits
    <3> QED
      BY <3>4, <3>5
  <2> QED
    BY <2>1, <2>2
<1>6. CASE ~(v = owner[e] /\ Subject(ev) = c)
  <2>1. c \notin missed[v]
    BY <1>6, DeliverMissed DEF ev
  <2>2. RightCard(c) \in CardsOf(v) \/ Awaits(v, News(c))
    BY <1>1, <2>1 DEF AnswerShown
  <2>3. owner[e] = v => Head(events[e]) \notin News(c)
    BY <1>6 DEF ev, News
  <2>4. Awaits(v, News(c)) => Awaits(v, News(c))'
    BY <1>0, <2>3, AwaitsDelivered
  <2>5. RightCard(c) \in CardsOf(v) => RightCard(c) \in CardsOf(v)'
    <3>1. RightCard(c).call = c
      BY DEF RightCard
    <3>2. v = owner[e] /\ ev.type \in {"tool_call_requested", "tool_call_approved",
                                       "tool_call_rejected", "tool_result"} => ev.call # c
      BY <1>2, <1>6, CallEvent
    <3> HIDE DEF ev
    <3> QED
      BY <1>2, <3>1, <3>2, SetStatusElse DEF AfterSet
  <2> QED
    BY <1>1, <2>2, <2>4, <2>5
<1> QED
  BY <1>5, <1>6

LEMMA SpeaksAnswerShown ==
  ASSUME IInv, Base, CallsInv, AnswerShown, Speaks,
         NEW c \in Calls, NEW v \in Views, v = open', c \notin missed'[v],
         row'[c] \notin {"none", "pending"}, patch'[c].at # "committed"
  PROVE  RightCard(c)' \in CardsOf(v)' \/ Awaits(v, News(c))'
<1>0. BusTypes /\ MissedTypes
  BY DEF IInv, Types
<1>1. UNCHANGED <<view, open>> /\ CardsOf(v)' = CardsOf(v)
  BY SpeaksView DEF CardsOf
<1>2. PICK evs \in Seq(Event) : SpeaksOfCalls(evs)
  BY SpeaksOf
<1>3. Publish(evs) /\ c \notin missed[v]
  BY <1>0, <1>2, CallPublished DEF SpeaksOfCalls
<1>4. CASE SameCall(c)
  <2>1. RightCard(c)' = RightCard(c)
    BY <1>4 DEF SameCall, RightCard
  <2>2. RightCard(c) \in CardsOf(v) \/ Awaits(v, News(c))
    BY <1>1, <1>3, <1>4 DEF SameCall, AnswerShown
  <2> QED
    BY <1>0, <1>1, <1>3, <2>1, <2>2, AwaitsPublished
<1>5. CASE ~SameCall(c)
  <2>1. Settles(c, evs)
    BY <1>2, <1>5 DEF SpeaksOfCalls, Made
  <2>2. 1 \in DOMAIN evs /\ Subject(evs[1]) = c
    BY <2>1, SpeaksOnly
  <2>3. evs[1] \in News(c)
    BY <2>2 DEF News
  <2>4. view[v].at = "open"
    BY <1>1 DEF Base, OpenIsOpen
  <2> QED
    BY <1>0, <1>3, <2>2, <2>3, <2>4, PublishedAwaited
<1> QED
  BY <1>4, <1>5

LEMMA AnswerShownKept ==
  ASSUME IInv, Base, CallsInv, LastTold, RequestUnderWay, AnswerShown, [Next]_vars
  PROVE  AnswerShown'
<1> SUFFICES ASSUME NEW c \in Calls, NEW v \in Views, v = open', c \notin missed'[v],
                    row'[c] \notin {"none", "pending"}, patch'[c].at # "committed"
             PROVE  RightCard(c)' \in CardsOf(v)' \/ Awaits(v, News(c))'
  BY DEF AnswerShown
<1> QED
  BY Kinds, SilentAnswerShown, DeliverAnswerShown, SpeaksAnswerShown

-------------------------------------------------------------------------------
\* What CardTellsRow asks a card to say.
Told(c) == CASE row[c] = "pending" -> Asks(c)
             [] c \in Stored -> "executed"
             [] OTHER -> row[c]

ToldInv == CallsAndCards /\ LastTold /\ PendingShown /\ RequestUnderWay /\ AnswerShown

LEMMA ToldAlways == Spec => []ToldInv
<1>1. Init => ToldInv
  <2> SUFFICES ASSUME Init PROVE ToldInv
    OBVIOUS
  <2>1. LastTold
    BY DEF Init, LastTold
  <2>2. PendingShown /\ RequestUnderWay /\ AnswerShown
    BY DEF Init, PendingShown, RequestUnderWay, AnswerShown
  <2> QED
    BY <2>1, <2>2, CallsAndCardsInitially DEF ToldInv
<1>2. IInv /\ IInv' /\ Base /\ ToldInv /\ [Next]_vars => ToldInv'
  <2> SUFFICES ASSUME IInv, IInv', Base, ToldInv, [Next]_vars PROVE ToldInv'
    OBVIOUS
  <2> USE DEF ToldInv
  <2>1. CallsAndCards' /\ RowsGrow /\ CallsInv
    BY CallsAndCardsKept DEF CallsAndCards
  <2>2. LastTold'
    BY <2>1, LastToldKept
  <2>3. PendingShown'
    BY <2>1, PendingShownKept
  <2>4. RequestUnderWay'
    BY RequestUnderWayKept
  <2>5. AnswerShown'
    BY <2>1, AnswerShownKept
  <2> QED
    BY <2>1, <2>2, <2>3, <2>4, <2>5
<1> QED
  BY <1>1, <1>2, Inductive, BaseAlways, PTL DEF Spec

\* A card tells the state of its call in the database: pending or auto-approved,
\* answered, executed.  It does in every view that has caught up, of every call it
\* missed nothing of and no answer to which is under way, whatever clicks, refused
\* answers, broken connections and reloads came before.
THEOREM CardsTell == Spec => []CardTellsRow
<1>1. IInv /\ ToldInv => CardTellsRow
  <2> SUFFICES ASSUME IInv, ToldInv, NEW c \in Calls, open # NoView, CaughtUp(open),
                      patch[c].at = "none", c \notin missed[open], row[c] # "none"
               PROVE  Shows(open, c, Told(c))
    BY DEF CardTellsRow, Told, Asks, Stored
  <2>0. open \in Views /\ CallsInv
    BY DEF IInv, Types, PageTypes, ToldInv, CallsAndCards
  <2>1. \A S : ~Awaits(open, S)
    BY DEF CaughtUp, Awaits
  <2>2. \A s : Shows(open, c, s) <=> [call |-> c, status |-> s] \in CardsOf(open)
    BY DEF Shows, CardsOf
  <2>3. CASE row[c] = "pending"
    <3>1. HasCard(open, c)
      BY <2>0, <2>1, <2>3 DEF ToldInv, RequestUnderWay
    <3>2. PICK card \in CardsOf(open) : card.call = c
      BY <3>1 DEF HasCard
    <3>3. card.status = Asks(c)
      BY <2>0, <2>3, <3>2 DEF ToldInv, PendingShown, UnderWay
    <3>4. card \in Card
      BY <2>0, CardsAreOfCalls
    <3> DEFINE s == Asks(c)
    <3>a. card.status = s
      BY <3>3
    <3> HIDE DEF s
    <3>5. card = [call |-> c, status |-> s]
      BY <3>2, <3>a, <3>4 DEF Card
    <3>6. c \notin Stored
      BY <2>0, <2>3 DEF CallsInv, CallOk
    <3>7. Told(c) = s
      BY <2>3, <3>6 DEF s, Told
    <3> QED
      BY <2>2, <3>2, <3>5, <3>7
  <2>4. CASE row[c] # "pending"
    <3>1. RightCard(c) \in CardsOf(open)
      BY <2>0, <2>1, <2>4 DEF ToldInv, AnswerShown
    <3> QED
      BY <2>2, <2>4, <3>1 DEF RightCard, Told
  <2> QED
    BY <2>3, <2>4
<1> QED
  BY <1>1, Inductive, ToldAlways, PTL
===============================================================================
