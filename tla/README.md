# Verification of the AI Service Desk Autopilot

The program lets an LLM agent repair customers' machines over SSH while a
technician watches, approves or rejects its commands, stops it and talks to it.
A FastAPI process holds everything that runs: one asyncio event loop, worker
threads for SSH, a PostgreSQL database for what must last, and an Angular
frontend that follows each chat over server-sent events. This directory holds
TLA+ models of its concurrent core, the TLC runs that check them and the proofs
that hold for every size.

## Inventory

| Component (`backend/app/...`) | State it keeps | Operations | Talks to |
|---|---|---|---|
| `agent/agent.py` `run_ssh_command` | the coroutine's await; `ssh_lock` of the session | screen, store, announce, lock, ask, execute, record | gate, caches, database, runner, event bus |
| `agent/approval_gate.py` | `_events`, `_decisions`, `_chat_to_tool_calls` | `request_approval`, `resolve`, `cancel_all_for_chat` | called by the tool, by PATCH and by abort |
| `agent/orchestrator.py` | `_agent_tasks`, `_message_queues`; one loop task per start | `start_agent`, `_run_agent_loop`, `abort_agent`, `send_message_to_agent` | ERP, runner, model, database, event bus |
| `api/chats/router.py` | none | start, stream, status, PATCH tool-calls, abort, messages | orchestrator, gate, database |
| `agent/command_rules_cache.py` | two lists, each loaded or `None` | load, invalidate | database |
| `api/command_rules/router.py` | none | list, create, delete | database, cache |
| `agent/event_bus.py` | subscriber queues per chat | subscribe, publish, unsubscribe | SSE stream |
| `agent/persistence.py`, `db/` | rows of Chat, ChatMessage (numbered by counting), ToolCall, AuditLog, CommandRule | save and update helpers; startup seeding | all of the above |
| `ssh/runner.py`, `ssh/resolver.py` | `_conn`, one connection per session; worker threads | open, run, close | customer machine |
| `erp/client.py` | none | tickets, activities, status | external ERP |
| `api/tickets`, `customers`, `audit_logs` | none | thin reads and forwards | ERP, database |
| frontend `ticket-detailview` | messages and cards, status, EventSource, text bubbles and the reveal timer | load history, subscribe, show text, answer, stop, send | chat endpoints |
| frontend `kanban-board` | columns | optimistic move, revert | ticket endpoints |
| other frontend, deployment, scripts | presentation | | |

What makes it hard: everything awaits, so any two handlers interleave at every
`await`; a task can be cancelled at any of them, also inside its own handlers;
SSH commands run in threads that cancellation does not reach; the same chat
status is written from separate database sessions; the registries live in memory
and the status in the database, so a restart of the process separates them; and
nothing in the tests, which exercise the routers with mocks, runs two of these
things at once.

What makes each part correct:

* tool calls: nothing reaches SSH without the whitelist or a technician; one at a
  time; the audit log is true; a waiting tool can be released; stop works;
* orchestrator: loops are replaced only when over; their ends are noticed; a
  message is answered once; an idle chat has been reported;
* command rules: the cached lists are the table's; no rule is stored twice; a command
  is judged by the rules that were in force when it was looked up;
* connections: awaited calls share the session's; all are closed in the end;
* stored messages: listed in the order in which they were stored;
* ticket detail view: one card per tool call, which tells the call's state and is
  there when an answer is needed; the input is offered when the chat takes messages;
* transcript: what the agent said appears completely, once and in order, whatever
  ends a text bubble; what the technician wrote stays;
* kanban board: a ticket is shown in the column it has in the ERP.

`PROJECT.json` lists the hazards line by line, with the property that would catch
each.

## Modules

| Module | Models | Checked by | Proved in |
|---|---|---|---|
| `HumanInTheLoop` | abstract: allow, send once, one at a time, not while closed | property of `ToolCallsSession` | |
| `ToolCalls` | tool calls of one chat, gate, PATCH, abort, worker threads | `MCToolCalls` | `ToolCallsProofs` |
| `ChatDelivery` | abstract: an accepted input is heard once or lost | property of `OrchestratorSafety` | |
| `Orchestrator` | one chat's dispatchers, loops, registries, messages, aborts, crashes | `MCOrchestrator` | `OrchestratorProofs` |
| `CommandRules` | rule table, caches, requests, startup | through `ScreenedCommands` | `ScreenedCommandsProofs` |
| `ScreenedCommands` | extends `CommandRules`: the tool calls that read the caches | `MCScreenedCommands` | `ScreenedCommandsProofs` |
| `SshSession` | the connections of one session: opener, commands, closer, each in a thread | `MCSshSession` | `SshSessionProofs` |
| `ChatMessages` | numbering of the stored messages by loops and tools | `MCChatMessages` | `ChatMessagesProofs` |
| `TicketDetailView` | one chat in the browser: views, EventSources, event bus, history, cards, answers, stop, send | `MCTicketDetailView` | `TicketDetailViewProofs` |
| `ChatTranscript` | the text of that chat: bubbles, reveal timer, cards' thoughts, notices, the technician's messages | `MCChatTranscript` | `ChatTranscriptProofs` |
| `KanbanBoard` | board and ERP: load, drag, optimistic move, revert | `MCKanbanBoard` | `KanbanBoardProofs` |
| `ArrayFilter` | `Array.prototype.filter`, which both pages use | `MCKanbanBoard` | with its users |

### How code becomes actions

An action is the code **from one `await` to the next**. A state names the await a
coroutine is suspended in; the action is the effect of that await (a database
commit, a wake-up) and all the synchronous code up to the next one, which nothing
can interrupt on an event loop. Worker threads move on their own.

* `publish` never suspends (the subscriber queues are unbounded), so events are
  part of the action that sends them and only appear where a property needs them.
* `task.cancel()` raises `CancelledError` at the await the task is in. A commit
  under way at that moment may or may not reach the database; the action followed
  by a cancellation, and the cancellation alone, cover the two.
* Several database statements of one transaction are one action: nobody else sees
  them before the commit. A failing one rolls back and raises.
* A mutant is an operator named after the definition it alters (`...Unguarded`,
  `...AtOnce`); nothing uses it, `PROJECT.json` says which property detects it.

**ToolCalls.** `pc[c]` is the await of call `c`; the constants `LockPcs` and
`EarlyPcs` tell those inside `async with deps.ssh_lock` from those before.
`Screen` to `RecordConnectionError` follow `run_ssh_command` from top to bottom;
`Wake` is the end of `request_approval`; `Raises` is any exception that leaves the
tool, and `Cancelled` its cancellation. `thread[c]` is the worker thread of
`FabricSSHRunner.run`: submitted, on the machine, then result read (`ok`),
connection never made (`unreachable`) or `lost`, or another exception (`broke`, for
instance a command timeout). `PatchRead`, `PatchCommit`, `PatchResolve` are the
three segments of `resolve_tool_call`. `AbortChat` is `abort_agent`.
`SessionStops` and `Restart` stand for what `Orchestrator` details: the loop that
owns the calls ends, its commit of "stopped" included or lost, and a new one of a
stopped chat (with a new `TicketContext`, hence a new `ssh_lock`) begins. The model is of one chat: calls of different chats share only
the gate's dictionaries, keyed by call. `past`, `approvals` and `rejections` are
history variables.

The agent framework (pydantic-ai) is external. It is assumed to run each tool call
in a task that belongs to the turn: if one raises, or the turn is cancelled, the
others are cancelled. asyncio.Lock is granted to any waiter, which covers its FIFO
order.

**Orchestrator.** A start is named by what causes it: `First` for POST /chats, or
the message that restarts the chat. Each start has a dispatcher `disp`
(`start_agent`) and a loop (`_run_agent_loop`). `_agent_tasks` and
`_message_queues` are always set and popped together, so one variable
`registered` says whose entries they hold. `Dispatch` is lines 82-94; `TaskDone` is
what the completion of a task triggers: its own dispatcher's `finally` and, right
after it in the same pass of the event loop, the dispatcher that waited to replace
it. `Goes` is the common shape of a loop's step; the tool calls of a turn are
reduced to `AskApproval` and `Answered`. `Fail`, `Handled`, `Cleanup` are the
exception handlers and `finally`; `Cancelled` distinguishes the awaits before the
try block, inside it, inside a handler and in `finally`. A rollback in a handler
leaves the status as it was, hence `status' \in {"stopped", status}`. `cached` tells
the loops whose session has a copy of the chat that says running when their turn
begins: SQLAlchemy (`expire_on_commit=False`) writes a status only if it differs from
the copy, which matters to loops that overlap. `Crash` forgets the process and keeps
the database and the ERP.

**CommandRules.** A loader is a tool call that finds a cache empty: it opens a
session, reads, stores. A writer is a POST or a DELETE: check or find, commit,
invalidate. `Restart` empties the memory and seeds an empty table. `raced`,
`overtaken` and `suspect` are history: they mark exactly the overlaps that the
properties except. A list is the set of its patterns; compiling is data.

**ScreenedCommands.** Every loader of `CommandRules` is a tool call with a command,
the set of the patterns that `search` finds in it. `BeginHit` or `BeginMiss` followed by
`Screen` is the look-up in the blacklist, `ListHit` or `ListMiss` followed by `List` that
in the whitelist, where `match` finds only some of the patterns. A writer's step and the
restart are those of `CommandRules` with their effect on the calls. `heed` is history:
the banned patterns that were there during the whole look-up, or the listed ones that
were there at some moment of it.

**SshSession.** `open_connection`, every `run` and `close_connection` is a thread; its
actions are what it does between two accesses to `_conn` or to the network (`Connect`,
`Hold`; `Look`, `Bind`, `RunOnHeld`, `RunOnOwn`, `EndRun`; `FindHeld`, `CloseHeld`,
`Forget`). `loop` is the await of the agent loop. A cancellation (`Stop`, a second one
in `Finish`) leaves the awaited threads behind as `orphans`, or drops them if the
executor has not started them (`Abandon`). `open` is what is open on the network.

**ChatMessages.** `Count` is the `SELECT count(*)` of `save_message`, the commit is its
caller's. A loop counts and commits its own messages one at a time; during a turn its
tool calls do so under `ssh_lock`. Any two loops may be alive together (`Orchestrator`
shows when): `met` remembers which were. `End` is an abort, an error or a crash, with a
commit under way that arrives or not.

**ChatDelivery.** `accepted`, `waiting` and `heard` of the inputs of a chat.
`Orchestrator` defines the refinement: an input waits in a dispatcher, in the
arguments of a loop that has not begun, or in a queue of a loop that has not ended.

**TicketDetailView.** An `OpenChat` object is a view; one is made each time the chat
is opened in a tab, so that a late answer can reach a view that was closed. An
EventSource `es[e]` is closed, connecting or open (the server has subscribed), and
`events[e]` holds what is in its subscriber queue or under way. The agent is the
sequential reading of `ToolCalls` and `Orchestrator`: one loop, one tool call at a
time, each event in the action that publishes it. A handler is the await of its commit,
which takes effect (`EndIsStored`) or is rolled back, and then its event (`Stopped`,
`Failed`); a cancellation may come in between. An abort finds the loop in its try block (`Cancelled`), before
it or in a handler that was entered (`CancelledUnheard`: nothing is published), or has
no effect (`NotCancelled`). A message is `Queued`, starts the agent again
(`Restarted`), replaces a loop that says so (`Replaced`) or is `Refused`. PATCH is
read and commit in one, its races are in `ToolCalls`. The handlers of
`openStreamConnection` are `CardsAfter` and `StatusAfter`, applied by `Deliver`.
`missed` is history: the calls (and `"status"`) about which something was published
while an open view had no subscription, or was lost with a connection, or was
overwritten by a failed request; a later event about the same call clears it.
`"end"` in it marks an end of the agent that nobody was told of, until the next event
about the status. The text is in `ChatTranscript`. The loading indicator is presentation and left out; so
is the error handler for an open stream, which no EventSource reaches. One bound,
`Budget`, limits everything the technician may do at will and what may fail, in the
network or in the agent (`Spend`).

**ChatTranscript.** `messages` is `chat.messages`; a message is a bubble of text, what
the technician sent, a notice or a card. Text is a sequence of numbered pieces, which
is all that "complete, once, in order" needs. `bubble[s]` holds the variables that
the listeners of one EventSource close over (`currentMessageId`, `targetText`,
`revealedText`); `timer` is `chat.revealTimer`, which all of them share, as the stream
whose `revealStep` it runs. Each listener is an action under its event's name;
`EndBubble` and `Flushed` are `endBubble` and `flushReveal`. A `Tick` reveals one or
more pieces, as `revealStep` reveals one or more words. `OpenStream` picks a stream
that is closed and whose timer does not run: an object that nothing refers to stands
for any new one. The agent only publishes and stores; its ends are those of
`TicketDetailView`, with the commit and the event in one action, as nothing is shown
between them. A stop may come at any moment, also in the start-up or in a handler,
where it ends the agent without an event (`StopClicked`). A loop that a second message
replaces in its start-up is read as one that failed, whose notice is shown like that of
a stop. `got`, `cut`, `wiped` and
`overlap` are history: the text handed to a listener, what a stop or a history took
away, the messages a history did not have, and whether two streams of the chat, or a
stream and the running timer of another, were ever at work together. `overlap` and
`cut` are exceptions of the properties because the code has them (see "Other
divergences"); without any of the three the properties fail.

**KanbanBoard.** `allTickets` is split into its order and the status of each ticket.
A move is a PATCH: sent, then stored or failed in the ERP, then answered; its answer
may be lost. `Reenter` makes a new board, to which older moves no longer report
(`ours`). `contested` is history: tickets that the agent set, that two overlapping
moves concern, that were dragged from a column they had left, or whose answer was
lost. A load that fails shows no board. Filters only decide which indices a drop can
have.

**ArrayFilter.** `Kept(s, S)` is the sequence of the elements of `s` that are in `S`,
by the places they have in `s`. It is the library's `SelectSeq` without its recursion,
so that lemmas about it can be proved; `MCKanbanBoard` has TLC compare the two.

## Runs

Deadlock is checked in `KanbanBoardSafety` only: elsewhere, with every request made
and every loop over, the system really stops.

| Run | Bounds | Question | Result |
|---|---|---|---|
| `ToolCallsSession` | 2 calls, 1 answer, any number of aborts and restarts | `OnlyAllowedRun`, `OneAtATime`, `AuditIsTrue`, `GateReleases`, `StatusMatchesGate`, the refinement `Implements`; `SessionEnds`, `CallsEnd` | holds (67,085 states) |
| `OrchestratorSafety` | 2 messages, 1 abort, 1 crash; symmetry | `ReplacedLoopIsOver`, `LoopsAreAwaited`, `HandoverIsPrivate`, `IdleIsReported`, the refinement `Delivers` | holds (160,251 states) |
| `OrchestratorLiveness` | 1 message, 2 aborts, no crash | `HandoverCompletes`, `CancelEnds`, `AcceptedIsHeard` | holds |
| `ScreenedCommandsSafety` | 2 patterns, 3 ids, 2 loaders, 2 writers, one default rule; symmetry | `StaleOnlyByOverlap`, `DuplicateOnlyByOverlap`, `PassedIsUnbanned`, `AutoIsListed` | holds (354,460 states) |
| `SshSessionConnections` | 3 calls | `LiveCallsShare`, `OneExtraConnection`, `CleanEndCloses`; `StopReleases`, `OwnIsReleased` | holds (1,807 states) |
| `ChatMessagesOrder` | 3 loops, 2 tools, 4 messages; symmetry | `HistoryInOrder`, `NoGaps` | holds (168,690 states) |
| `TicketDetailViewSafety` | 1 call, 2 views, 2 streams, 2 loads, budget 2; symmetry | `OneCardPerCall`, `ExecutedIsStored`, `CardTellsRow`, `AcceptingIsOffered` | holds (611,673 states) |
| `ChatTranscriptText` | 2 streams, 2 pieces of text, 1 call, 1 message sent, 1 event under way, budget 1 | `TextIsKept`, `TranscriptInOrder`, `UserTextKept`; `TextAppears` | holds (593,497 states) |
| `KanbanBoardSafety` | 2 tickets, 2 moves; symmetry | `BoardMatchesErp`, `NoCardLost` | holds (441,989 states) |
| `TicketDetailViewReopened` | as `TicketDetailViewSafety`, budget 1 | `WaitingIsShown` | violated |
| `ToolCallsLostWakeup` | 1 call, 1 answer | `AnswerUnblocks` | violated |
| `OrchestratorTwoLoops` | 2 messages, 1 abort | `OneLoop` | violated |

Each module has one type invariant. `TicketDetailView`, `ChatTranscript` and
`KanbanBoard` check theirs in their run; those of `ToolCalls`, `Orchestrator`,
`ScreenedCommands`, `SshSession` and `ChatMessages` are proved, for every size, and not
run again.

Why the bounds are enough. Two calls make every race for `ssh_lock` and leave an
orphan beside a successor; a second answer, stale while the first is effective, is
covered by the proofs (and an instance with two, of 301,325 states up to symmetry,
holds for the safety properties). In the orchestrator the first start and two messages are the three
dispatchers a handover needs to go wrong (one replaced, one waiting, one that
arrives meanwhile); a second abort is what hits a loop inside its own handler. Two
writers and two loaders make each overlap of the caches, and of two calls one
can look at a list that the other loads. Three commands are an orphan, the command that
finds the lock, and one more after it. Three loops are what a failed handover leaves;
four rows let two of them overlap twice. Two views and two streams
let an answer, a history or an event of a closed view meet a new one, and a budget of
two pairs any two faults or clicks (one view with a budget of three, 13 million
states, holds as well). Cards of different calls do not interact, so one call is
enough. In the transcript two pieces of text are the least that can be in the wrong
order, be split between a bubble and a card, or be said in two turns; two streams are
the least that can overlap. There the safety properties also hold with three pieces of
text (2,245,962 states) and with a budget of two (8,100,674 states). Two messages and
one abort keep `OrchestratorLiveness` true as well (243,935 states). Two moves overlap
on one ticket. The bounds in guards are `MaxCrashes` (`Orchestrator`), `MaxMessages`
(`ChatMessages`), `Budget` (`TicketDetailView`, `ChatTranscript`), and `MaxText`,
`MaxCalls`, `MaxSends`, `MaxLag` (`ChatTranscript`). `MaxLag` makes a publisher wait
for a listener that is behind, which a real one never does; a listener that is further
behind receives the same events later. The proofs remove the bounds for the properties
they name.

`CHECK_DEADLOCK FALSE` apart, no configuration has a constraint; the state spaces
are finite because every call, answer, message and abort happens once.

### Fairness

`ToolCalls`: weak fairness of each call's own steps (the event loop runs every
ready coroutine and the database answers or fails), of its thread (a command ends
by itself or by `ssh_command_timeout`), of an answer once it has been read, and of
the end of an aborted session. Nobody has to make a call, answer, abort or restart.
`Orchestrator`: weak fairness of dispatchers, of completions, of each loop and of
requests that were entered. An idle loop without a message, a turn that keeps
asking, and new requests are not forced. `AcceptedIsHeard` therefore has the turn that
asks for ever for approvals as its premise.
`SshSession`: weak fairness of each thread (the executor has a worker for it; connecting
ends by `ssh_connect_timeout`, a command by `ssh_command_timeout`) and of `Cleanup`, the
`finally` of a loop that stops. The loop need not call, stop, or wait for the closing.
`ChatTranscript`: weak fairness of `Tick`; the browser calls an interval that is set.
Nothing else has to happen, so `TextAppears` says that text appears without a further
event.

## What the checks found

Each is a run that TLC must find violated, with the quoted line in `PROJECT.json`.

* **An early answer is lost** (`ToolCallsLostWakeup`, `approval_gate.py:29`). The
  row is pending and announced before the tool holds `ssh_lock`. An answer that
  comes before `request_approval` is stored without an event to set; the tool then
  waits on a fresh event, and a second PATCH is refused with 409. Only a stop ends
  it.
* **Two loops for one chat** (`OrchestratorTwoLoops`, `orchestrator.py:82`). During
  a handover the registries are empty; a further start takes this for "no task".
* **A waiting request is not shown** (`TicketDetailViewReopened`,
  `ticket-detailview.component.ts:396`). A chat opened while it is live leaves its
  tool calls to the stream, and the stream has no replay: the card with the buttons
  never appears in that view.

### Other divergences

Seen while modelling, with no run of their own:

* `router.py:193`: PATCH commits the answer over whatever the row became since it was
  read; for an auto-approved call an executed row can move back to approved or
  rejected, against `agent-and-streaming.md:164`.
* `orchestrator.py:254`: a second cancel during the handler's commit raises there
  and skips `agent_stopped`, which `ticket-detailview.component.ts:854` relies on. A
  view whose own abort is not answered then stays running, with its input disabled,
  although the chat takes messages; without this exception (`"end"` in `missed`)
  `AcceptingIsOffered` fails.
* `orchestrator.py:128`: a stop before the try block ends the loop without a handler.
  A new chat stays `running` without a task, while the view that stopped it says stopped
  and offers an input whose messages are refused with 409. The same follows, with an
  event, where the handler's commit is rolled back (`:256`).
* `agent.py:319` against `:189` ("Commands run sequentially"): cancelling
  `to_thread` does not stop the thread, and the restarted session has its own lock, so
  an orphan command runs beside its successor. `OneAtATime` excludes every other way.
* `orchestrator.py:85`, against `router.py:256` (`accepted`): until its prompt is saved,
  a restart's message lives only in the loop's arguments; a second restart cancels that
  loop. `AcceptedIsHeard` and `Delivers` name the end of its loop as the only loss.
* `runner.py:124` promises a connection for the lifetime of the session. It outlives the
  session when an abort comes during `open_connection` (`orchestrator.py:149`), when a
  second one comes during the closing (`:278`), or when an orphan's `run` finds a closed
  `Connection` and opens it again. `CleanEndCloses` shows that only these do.
  `backend/memories/infrastructure-setup.md:43` still describes a fresh connection for
  every call, which only an orphan gets.
* `agent.py:214`: a rule that is added while a call waits for approval does not stop it,
  although `api/command_rules/router.py:90` says that changes take effect immediately.
* `api/command_rules/router.py:88`: if the `refresh` after the commit fails, the rule is
  stored and the caches are not invalidated.
* `persistence.py:20`: two loops of a chat that overlap can give two messages the same
  number. `HistoryInOrder` shows that it takes two loops.
* `command_rules_cache.py:46`: a list read before a commit is assigned after the
  invalidation and stays, against `api/command_rules/router.py:90` ("changes take
  effect immediately"). `StaleOnlyByOverlap` shows that this is the only way.
* `ticket-detailview.component.ts:38` says the status reflects the backend's; the
  next turn of an idle chat is not announced (`orchestrator.py:241-244`), so its view
  stays idle, without a Stop button, until a tool asks for approval.
* `ticket-detailview.component.ts:412`: a history that arrives after its tab was
  closed or the page left opens an EventSource that nothing closes, the leak that the
  comment at `:93` wants to prevent.
* `ticket-detailview.component.ts:669`: the card of a rejected call becomes executed
  when its result comes.
* `ticket-detailview.component.ts:856`: the late answer to a stop overwrites the
  status of a chat that was restarted meanwhile; `:891`: after a send that fails the
  view of a stopped chat goes on saying running.
* `ticket-detailview.component.ts:618`: a card takes the last message as its "thinking",
  which the comment at `:613` says is the assistant's text; it may be what the technician
  wrote, the ticket's prompt or a notice.
* `:697`: `agent_stopped` resets `currentMessageId` without `flushReveal`, which `:565`
  says is "used at boundaries / on finish": text still dripping is cut off for good.
* Two streams of a chat (a message sent, or the chat selected again, while its history is
  loading; a restart while the old stream's timer runs) show text twice and share
  `revealTimer`: the step of the stream that set it runs, and new text of the other one
  may stay hidden until the next event.
* `:409`: a history that was asked for before a message was sent removes that message
  from the view, what the comment at `:875` wants to avoid for a restart.
* `:517`: opening a stream starts the loading indicator for an idle chat as well, against
  `chat-detail-view.component.ts:171` ("not waiting for input / not done").
* `kanban-board.component.ts:245`: the revert of a failed move undoes a later move of
  the same ticket on the board. `BoardMatchesErp` shows that a ticket no two moves
  (nor the agent, nor a lost answer) touched at once is not affected.
* `agent.py:218` and `:226` return before any audit row is written, while
  `docs/preliminary-scoring.md:87` says that blocked commands are audited.
* `agent.py:320-335` stores a call as executed without an audit row after a
  connection error, while `backend/memories/agent-and-streaming.md:165` promises
  one per executed command. `AuditIsTrue` shows these are the only calls that
  return without one.
* After an abort the row of a pending call stays pending, while
  `docs/preliminary-scoring.md:120` says that abort rejects pending approvals: the
  task is cancelled before the tool can store the rejection.
* The row of an auto-approved call can be rejected while it waits for the lock; it
  runs all the same (`agent.py:254`, against `agent-and-streaming.md:156`).
* The `finally` at `orchestrator.py:99-101` removes the registration of whichever
  loop is registered; after `OrchestratorTwoLoops` that may be a live one that no
  abort reaches any more.
* `agent-and-streaming.md:45-46` and `:162` say that a chat becomes `completed` or
  `failed` and that the bus is closed. The code sets `idle` after a turn and `stopped`
  after a failure (`orchestrator.py:229`, `:265`), sets neither of the two words
  anywhere and never closes the bus; `router.py:254` still tests for `failed`.
* `orchestrator.py:189`: the status is written only if it differs from the copy the loop
  loaded, so a loop that overlaps another may work in a chat that the other set to idle
  or stopped.
* A server that dies in a turn leaves the chat `running`: messages are refused with
  409 (`router.py:258`), an abort answers 200 without effect. Only the idle case is
  handled (`router.py:250`).
* `db/models.py:104` announces a uniqueness constraint that is not there;
  `DuplicateOnlyByOverlap` shows that overlapping requests are the only way to a
  duplicate.

## Proofs

Each proof module extends its component and shows the named invariant inductive:
`Init => IInv`, `IInv /\ [Next]_vars => IInv'`, then one theorem per property.

* `ToolCallsProofs`. The properties alone are not inductive. `LockInv`: a call at an
  await inside the lock is its holder, while the session lives. `PatchInv`: a
  committed answer is in the history of approvals or rejections it came from.
  `DecisionInv`: a stored decision "yes" comes from an approval, "no" from a
  rejection or an abort. `GateInv`: the gate's sets agree with who waits. `RunInv`:
  a thread exists only for a call that went through the lock and was allowed. From
  these `OnlyAllowedRun`, `OneAtATime`, `AuditIsTrue`, `GateReleases`,
  `StatusMatchesGate`, and `Refinement`: every step of `ToolCalls` is a step of
  `HumanInTheLoop` or a stutter.
* `OrchestratorProofs`. `DispInv` ties a dispatcher's place to its loop and to the
  one it waits for; with `LoopsAreAwaited` and `HandoverIsPrivate` it gives
  `ReplacedLoopIsOver`. `LoopFrame` says once what every step of a loop leaves
  alone. `ReportInv` follows the report from `CreateActivity` to `GoIdle`.
  `DeliveryInv` follows a message: it is nowhere before it is accepted, in at most one
  place of one queue, heard by the loop that took it, and while it waits nobody has heard
  it. With it `ChatIsDelivery`: every step is a step of `ChatDelivery` or a stutter.
* `ScreenedCommandsProofs`, the rules. Every loader that has read the old list is in
  `overtaken` and every unsuspected cache is fresh or about to be invalidated (`CacheTruth`);
  of two equal rules one was checked while the other was being added
  (`DuplicateTruth`).
* `ScreenedCommandsProofs`, the calls. `ScreeningIsReading`: every step of
  `ScreenedCommands` is a step of `CommandRules` or a stutter, so what is proved of the
  caches holds with the calls. `ScreenInv` ties what a call must or may heed to the list it is
  about to read; `PassedIsUnbanned` and `AutoIsListed` follow.
* `SshSessionProofs`. `LoopInv` (which threads can be at work at each await of the loop),
  `ConnInv` (`_conn` is set between the opener's end and the closer's), `LockInv` (one
  command at a time) and `OpenInv` (who opened what is open) give `LiveCallsShare`,
  `OneExtraConnection` and `CleanEndCloses`.
* `ChatMessagesProofs`. `SaveInv` (a loop saves while it is alive, one message at a time),
  `MetInv` (loops that are alive together have met) and `NumberInv` (rows committed after
  a number was counted come from loops met by its own) give `HistoryInOrder` and, without
  overlap, `NoGaps`.
* `TicketDetailViewProofs`. `ToolInv`: a stored result belongs to a call that has a row,
  the call being executed has none yet, hence results are stored once. `LoadInv`: a history
  holds distinct stored results. `EventInv`: an announced result is stored. So every
  change of a view's cards keeps both `OneCardPerCall` and `ExecutedIsStored` (`CardsInv`).
  `AcceptingOffered` and `CardsTell` are about what is under way: whatever the agent or an
  answer changes is published after it is stored, so an open view either shows it already,
  or awaits an event about it, or has it in `missed`.
  `RestAnnounced` and `InputOffered` say this of the status: an agent at rest has
  announced it last, with an event that enables the input, or its end is marked in
  `missed`, for every open view, since the last event about the status. `ToldInv` says it of the calls:
  the last event under way about a call tells its row (`LastTold`), a pending call is
  shown as pending, if at all (`PendingShown`), one that has no card is about to be
  announced (`RequestUnderWay`), and one that was answered or has ended has its right
  card or an event on its way (`AnswerShown`).
* `KanbanBoardProofs`. `Settled`: an uncontested ticket has at most one request under
  way, which belongs to this board; the board shows its target and the ERP what it
  has stored, the origin before that and after a failure. Without a request the two
  agree (`BoardTruth`). `OrderInv`: a board that is shown lists every ticket once.
  A list filtered by a set and by its complement is a list of the two parts, inserting
  and removing a ticket keeps lists lists, so every drop and revert does (`CardsKept`),
  and the order, which has no duplicate, is never longer than there are tickets
  (`Types`).
* `ChatTranscriptProofs`. The text under way to a listener is in the order in which it
  was said and later than what its bubble has (`LineOK`); so a bubble is increasing,
  hence not longer than the text there is (`TranscriptTypes`). `UserInv` follows a
  message of the technician from the click over the POST and the queue to the rows:
  it is in one of these places only, and a history has it at most once (`SentIsKept`;
  streams that overlap change nothing about it). For the text the invariant is
  `StoredInv` (rows are in order; what the current turn says is not among them yet),
  `BubblesInv` (a bubble's id is earlier than what is under way, so a new bubble takes no
  used id) and `StreamInv`: while no two streams write together, what is shown is
  earlier than what comes, the revealed part of the open bubble is the last text on the
  screen, and a bubble that was left behind with its timer running has been given up.
  Every step is a tick, an event that begins, ends or leaves a bubble, an opened stream,
  or adds nothing but messages without text (`ScreenSteps`); each keeps `StreamInv`,
  which gives `TextStays` and `TextInOrder`.

Assumptions: the named ones of the modules, all of them about constants that stand
for "nobody" or "nothing" being different from real values (`StatusIsNoCall`: the mark
for the chat's status in `missed` is not a tool call), bounds being numbers, the
tickets of a board being finitely many (`TicketsAreFinite`: it is a JSON array), and
default rules being rules.

Only model-checked: the liveness properties, because fairness and ENABLED are beyond the
prover (`SessionEnds`, `CallsEnd`, `HandoverCompletes`, `CancelEnds`, `AcceptedIsHeard`,
`StopReleases`, `OwnIsReleased`, `TextAppears`); that `Kept` is `SelectSeq`, which is
recursive (induction over data); and all violations. Every safety property of a passing
run is a theorem.

## Not modelled, and why

* In the ticket detail view: the loading indicator, tabs of several chats (they share
  nothing but the page), the customer panel. Other frontend components: one request and
  its answer each.
* Regular expressions, prompts, the activity text, formatting: data.
* ERP endpoints, tickets, customers, audit-log list: one call each, no state.
* More than one server process: the deployment runs one uvicorn worker.

## Plan

Done: the components above with their runs; the two abstract specifications and their
refinements, checked and proved; proofs of every safety property the runs check.

Left: `ChatLifecycle`, an abstract specification of a chat's status that `Orchestrator`
and `TicketDetailView` implement, with the refinements proved.
