----------------------------- MODULE Orchestrator -----------------------------
(***************************************************************************)
(* The life of one chat in agent/orchestrator.py: the dispatchers          *)
(* (start_agent, a background task per request), the agent loops they      *)
(* create (_run_agent_loop), the registry that lets the HTTP handlers find *)
(* the loop (_agent_tasks and _message_queues, always set and popped       *)
(* together), and the handlers POST messages and POST abort of             *)
(* api/chats/router.py.                                                    *)
(*                                                                         *)
(* A state of a loop names the await it is suspended in; an action is what *)
(* that await does and the code up to the next one.  task.cancel() raises  *)
(* CancelledError at that await.                                           *)
(***************************************************************************)
EXTENDS Naturals, Sequences, FiniteSets

CONSTANTS
  First,      \* the start made by POST /chats
  Messages,   \* POST .../messages requests; a restart is named by its message
  Aborts,     \* POST .../abort requests
  NoStart,    \* nobody
  MaxCrashes  \* bound on restarts of the server

ASSUME FirstIsNoMessage == First \notin Messages
ASSUME NoStartIsNobody == NoStart \notin Messages \cup {First}
ASSUME CrashBound == MaxCrashes \in Nat

Starts == Messages \cup {First}

VARIABLES
  status,      \* Chat.status in the database
  cached,      \* loops that begin their turn with a copy of it that says running
  registered,  \* the start whose task and queue are in the registries
  disp,        \* the dispatcher of each start
  old,         \* the start whose task a dispatcher awaited before its own
  loop,        \* the await each agent loop is suspended in
  cancelReq,   \* loops that will get CancelledError at that await
  queue,       \* each loop's message queue
  current,     \* the input of each loop's turn
  post,        \* the messages requests: where they are, the status they read
  abort,       \* the abort requests
  heard,       \* history: inputs saved as user messages
  reported,    \* an activity was created in the ERP
  ticket,      \* the ERP ticket's status
  crashes

chatVars == <<cached, heard, reported, ticket>>
httpVars == <<post, abort>>
loopVars == <<loop, cancelReq, queue, current>>
dispVars == <<registered, disp, old>>
vars == <<status, dispVars, loopVars, httpVars, chatVars, crashes>>

\* Awaits inside the try block of _run_agent_loop that a database, network, SSH
\* or model error can leave.
Fallible == {"starting", "prompting", "beginning", "turn", "asking", "reporting",
             "closing", "finishing", "resuming"}
InTry == Fallible \cup {"idle"}
LoopStates == {"none", "created", "stopping", "failing", "cleanup", "done"} \cup InTry
Alive(s) == loop[s] \notin {"none", "done"}
\* The registry holds a task that is not done (is_agent_running).
Running == registered # NoStart /\ Alive(registered)

TypeOK ==
  /\ status \in {"running", "waiting_on_approval", "idle", "stopped"}
  /\ registered \in Starts \cup {NoStart}
  /\ disp \in [Starts -> {"none", "scheduled", "handover", "serving", "done"}]
  /\ old \in [Starts -> Starts \cup {NoStart}]
  /\ loop \in [Starts -> LoopStates]
  /\ cancelReq \in [Starts -> BOOLEAN]
  /\ queue \in [Starts -> Seq(Messages)]
  /\ current \in [Starts -> Starts]
  /\ post \in [Messages -> [at : {"new", "read", "queued", "restarted", "refused", "lost"},
                            seen : {"none", "idle", "stopped", "busy"}]]
  /\ abort \in [Aborts -> {"new", "read", "hit", "missed", "refused", "lost"}]
  /\ cached \subseteq Starts
  /\ heard \subseteq Starts
  /\ reported \in BOOLEAN
  /\ ticket \in {"pending", "done"}
  /\ crashes \in 0..MaxCrashes

\* POST /chats has committed the row, set the ticket PENDING and scheduled
\* start_agent.
Init ==
  /\ status = "running"
  /\ registered = NoStart
  /\ disp = [s \in Starts |-> IF s = First THEN "scheduled" ELSE "none"]
  /\ old = [s \in Starts |-> NoStart]
  /\ loop = [s \in Starts |-> "none"]
  /\ cancelReq = [s \in Starts |-> FALSE]
  /\ queue = [s \in Starts |-> <<>>]
  /\ current = [s \in Starts |-> s]
  /\ post = [m \in Messages |-> [at |-> "new", seen |-> "none"]]
  /\ abort = [a \in Aborts |-> "new"]
  /\ cached = {}
  /\ heard = {}
  /\ reported = FALSE
  /\ ticket = "pending"
  /\ crashes = 0

-------------------------------------------------------------------------------
(* start_agent *)

\* Mutant: the old task is cancelled but not awaited.
DispatchAtOnce(s) ==
  /\ disp[s] = "scheduled"
  /\ disp' = [disp EXCEPT ![s] = "serving"]
  /\ old' = [old EXCEPT ![s] = registered]
  /\ cancelReq' = IF Running THEN [cancelReq EXCEPT ![registered] = TRUE] ELSE cancelReq
  /\ loop' = [loop EXCEPT ![s] = "created"]
  /\ registered' = s
  /\ UNCHANGED <<status, queue, current, httpVars, chatVars, crashes>>

\* Mutant: the old task is looked up, not popped.
DispatchUnpopped(s) ==
  /\ disp[s] = "scheduled"
  /\ disp' = [disp EXCEPT ![s] = IF Running THEN "handover" ELSE "serving"]
  /\ old' = [old EXCEPT ![s] = IF Running THEN registered ELSE @]
  /\ loop' = [loop EXCEPT ![s] = IF Running THEN @ ELSE "created"]
  /\ cancelReq' = IF Running THEN [cancelReq EXCEPT ![registered] = TRUE] ELSE cancelReq
  /\ registered' = IF Running THEN registered ELSE s
  /\ UNCHANGED <<status, queue, current, httpVars, chatVars, crashes>>

\* The registries are popped; a task that is not done is cancelled and awaited,
\* otherwise the new loop is created and registered at once.
Dispatch(s) ==
  /\ disp[s] = "scheduled"
  /\ \/ /\ Running
        /\ disp' = [disp EXCEPT ![s] = "handover"]
        /\ old' = [old EXCEPT ![s] = registered]
        /\ cancelReq' = [cancelReq EXCEPT ![registered] = TRUE]
        /\ registered' = NoStart
        /\ UNCHANGED loop
     \/ /\ ~Running
        /\ disp' = [disp EXCEPT ![s] = "serving"]
        /\ loop' = [loop EXCEPT ![s] = "created"]
        /\ registered' = s
        /\ UNCHANGED <<old, cancelReq>>
  /\ UNCHANGED <<status, queue, current, httpVars, chatVars, crashes>>

\* Mutant: the end of the task wakes only its own dispatcher, which does not pop
\* the registries.
TaskDoneUnnoticed(s) ==
  /\ disp[s] = "serving"
  /\ loop[s] = "done"
  /\ disp' = [disp EXCEPT ![s] = "done"]
  /\ UNCHANGED <<status, registered, old, loopVars, httpVars, chatVars, crashes>>

\* A task that is done wakes, one right after the other, its own dispatcher,
\* whose `finally` pops the registries whoever is in them, and the dispatcher
\* that waited to replace it.
TaskDone(s) ==
  LET next == {w \in Starts : disp[w] = "handover" /\ old[w] = s}
  IN /\ disp[s] = "serving"
     /\ loop[s] = "done"
     /\ disp' = [w \in Starts |-> IF w = s THEN "done"
                                  ELSE IF w \in next THEN "serving" ELSE disp[w]]
     /\ loop' = [w \in Starts |-> IF w \in next THEN "created" ELSE loop[w]]
     /\ registered' = IF next = {} THEN NoStart ELSE CHOOSE w \in next : TRUE
     /\ UNCHANGED <<status, old, cancelReq, queue, current, httpVars,
                    chatVars, crashes>>

-------------------------------------------------------------------------------
(* _run_agent_loop *)

\* The loop leaves the await `from` normally and is next suspended at `to`.
Goes(s, from, to) ==
  /\ loop[s] = from
  /\ ~cancelReq[s]
  /\ loop' = [loop EXCEPT ![s] = to]
  /\ UNCHANGED <<dispVars, cancelReq, httpVars, crashes>>

\* The chat row is loaded, outside the try block; the session keeps that copy.
LoadChat(s) ==
  /\ Goes(s, "created", "starting")
  /\ cached' = IF status = "running" THEN cached \cup {s} ELSE cached
  /\ UNCHANGED <<status, queue, current, heard, reported, ticket>>

\* Ticket and system are fetched from the ERP, the SSH connection is open.
Connect(s) ==
  /\ Goes(s, "starting", "prompting")
  /\ UNCHANGED <<status, queue, current, chatVars>>

SavePrompt(s) ==
  /\ Goes(s, "prompting", "beginning")
  /\ heard' = heard \cup {current[s]}
  /\ UNCHANGED <<status, cached, queue, current, reported, ticket>>

\* Only a status that differs from the session's copy is written.
BeginTurn(s) ==
  /\ Goes(s, "beginning", "turn")
  /\ status' = IF s \in cached THEN status ELSE "running"
  /\ cached' = cached \cup {s}
  /\ UNCHANGED <<queue, current, heard, reported, ticket>>

\* A tool call of the turn waits at the approval gate, and is answered.
AskApproval(s) ==
  /\ Goes(s, "turn", "asking")
  /\ status' = "waiting_on_approval"
  /\ UNCHANGED <<queue, current, chatVars>>

Answered(s) ==
  /\ Goes(s, "asking", "turn")
  /\ status' = "running"
  /\ UNCHANGED <<queue, current, chatVars>>

\* Mutant: the chat goes idle without an activity report.
FinishStreamUnreported(s) ==
  /\ Goes(s, "turn", "finishing")
  /\ UNCHANGED <<status, queue, current, chatVars>>

\* The stream ends; the answer is saved and the activity report extracted.
FinishStream(s) ==
  /\ Goes(s, "turn", "reporting")
  /\ UNCHANGED <<status, queue, current, chatVars>>

CreateActivity(s) ==
  /\ Goes(s, "reporting", "closing")
  /\ reported' = TRUE
  /\ UNCHANGED <<status, cached, queue, current, heard, ticket>>

SetDone(s) ==
  /\ Goes(s, "closing", "finishing")
  /\ ticket' = "done"
  /\ UNCHANGED <<status, cached, queue, current, heard, reported>>

GoIdle(s) ==
  /\ Goes(s, "finishing", "idle")
  /\ status' = "idle"
  /\ UNCHANGED <<queue, current, chatVars>>

\* Mutant: the message is peeked at.
TakeMessagePeeks(s) ==
  /\ queue[s] # <<>>
  /\ Goes(s, "idle", "resuming")
  /\ current' = [current EXCEPT ![s] = Head(queue[s])]
  /\ UNCHANGED <<status, queue, chatVars>>

TakeMessage(s) ==
  /\ queue[s] # <<>>
  /\ Goes(s, "idle", "resuming")
  /\ current' = [current EXCEPT ![s] = Head(queue[s])]
  /\ queue' = [queue EXCEPT ![s] = Tail(@)]
  /\ UNCHANGED <<status, chatVars>>

Resume(s) ==
  /\ Goes(s, "resuming", "prompting")
  /\ status' = "running"
  /\ UNCHANGED <<queue, current, chatVars>>

\* An error: in the try block it goes to `except Exception`, before it the task
\* just ends.
Fail(s) ==
  /\ \/ \E f \in Fallible : Goes(s, f, "failing")
     \/ Goes(s, "created", "done")
  /\ UNCHANGED <<status, queue, current, chatVars>>

\* Both handlers commit "stopped" (or roll back); their events are in
\* TicketDetailView.
Handled(s, from) ==
  /\ Goes(s, from, "cleanup")
  /\ status' \in {"stopped", status}
  /\ UNCHANGED <<queue, current, chatVars>>

\* Mutant: a cancelled turn only ends the turn.
StopTurn(s) ==
  /\ Goes(s, "stopping", "idle")
  /\ UNCHANGED <<status, queue, current, chatVars>>

Stop(s) == Handled(s, "stopping")
ReportFailure(s) == Handled(s, "failing")

\* `finally`: the SSH connection is closed in a thread (a loop that failed before
\* it had a runner has nothing to close and passes here unobserved).
Cleanup(s) ==
  /\ Goes(s, "cleanup", "done")
  /\ UNCHANGED <<status, queue, current, chatVars>>

\* CancelledError at the current await.  Before the try block and in `finally`
\* it ends the task; in a handler it skips the event, the commit may or may not
\* have reached the database.
Cancelled(s) ==
  /\ cancelReq[s]
  /\ cancelReq' = [cancelReq EXCEPT ![s] = FALSE]
  /\ \/ /\ loop[s] \in {"created", "cleanup"}
        /\ loop' = [loop EXCEPT ![s] = "done"]
        /\ UNCHANGED status
     \/ /\ loop[s] \in InTry
        /\ loop' = [loop EXCEPT ![s] = "stopping"]
        /\ UNCHANGED status
     \/ /\ loop[s] \in {"stopping", "failing"}
        /\ loop' = [loop EXCEPT ![s] = "cleanup"]
        /\ status' \in {"stopped", status}
  /\ UNCHANGED <<dispVars, queue, current, httpVars, chatVars, crashes>>

-------------------------------------------------------------------------------
(* POST /chats/{chat_id}/messages *)

PostRead(m) ==
  /\ post[m].at = "new"
  /\ post' = [post EXCEPT ![m] =
       [at |-> "read", seen |-> IF status \in {"idle", "stopped"} THEN status ELSE "busy"]]
  /\ UNCHANGED <<status, dispVars, loopVars, abort, chatVars, crashes>>

\* Mutant: an idle chat's message is accepted whether or not there is a queue.
PostActUnchecked(m) ==
  LET idle == post[m].seen = "idle"
      to == IF idle THEN "queued" ELSE IF post[m].seen = "busy" THEN "refused" ELSE "restarted"
  IN /\ post[m].at = "read"
     /\ post' = [post EXCEPT ![m].at = to]
     /\ queue' = [s \in Starts |-> IF idle /\ s = registered THEN Append(queue[s], m) ELSE queue[s]]
     /\ disp' = [disp EXCEPT ![m] = IF to = "restarted" THEN "scheduled" ELSE @]
     /\ UNCHANGED <<status, registered, old, loop, cancelReq, current,
                    abort, chatVars, crashes>>

\* An idle chat's message goes to the registered queue; without one, and for a
\* stopped chat, start_agent is scheduled with it.
PostAct(m) ==
  LET queued == post[m].seen = "idle" /\ registered # NoStart
      refused == post[m].seen = "busy"
  IN /\ post[m].at = "read"
     /\ \/ /\ refused
           /\ post' = [post EXCEPT ![m].at = "refused"]
           /\ UNCHANGED <<queue, disp>>
        \/ /\ queued
           /\ post' = [post EXCEPT ![m].at = "queued"]
           /\ queue' = [queue EXCEPT ![registered] = Append(@, m)]
           /\ UNCHANGED disp
        \/ /\ ~queued /\ ~refused
           /\ post' = [post EXCEPT ![m].at = "restarted"]
           /\ disp' = [disp EXCEPT ![m] = "scheduled"]
           /\ UNCHANGED queue
     /\ UNCHANGED <<status, registered, old, loop, cancelReq, current,
                    abort, chatVars, crashes>>

(* POST /chats/{chat_id}/abort *)

AbortRead(a) ==
  /\ abort[a] = "new"
  /\ abort' = [abort EXCEPT ![a] = IF status = "stopped" THEN "refused" ELSE "read"]
  /\ UNCHANGED <<status, dispVars, loopVars, post, chatVars, crashes>>

AbortAct(a) ==
  /\ abort[a] = "read"
  /\ \/ /\ Running
        /\ cancelReq' = [cancelReq EXCEPT ![registered] = TRUE]
        /\ abort' = [abort EXCEPT ![a] = "hit"]
     \/ /\ ~Running
        /\ abort' = [abort EXCEPT ![a] = "missed"]
        /\ UNCHANGED cancelReq
  /\ UNCHANGED <<status, dispVars, loop, queue, current, post,
                 chatVars, crashes>>

\* The server process dies and starts again: only the database and the ERP
\* remember.
Crash ==
  /\ crashes < MaxCrashes
  /\ crashes' = crashes + 1
  /\ registered' = NoStart
  /\ disp' = [s \in Starts |-> IF disp[s] = "none" THEN "none" ELSE "done"]
  /\ loop' = [s \in Starts |-> IF loop[s] = "none" THEN "none" ELSE "done"]
  /\ cancelReq' = [s \in Starts |-> FALSE]
  /\ queue' = [s \in Starts |-> <<>>]
  /\ post' = [m \in Messages |->
       IF post[m].at = "read" THEN [post[m] EXCEPT !.at = "lost"] ELSE post[m]]
  /\ abort' = [a \in Aborts |-> IF abort[a] = "read" THEN "lost" ELSE abort[a]]
  /\ UNCHANGED <<status, old, current, chatVars>>

-------------------------------------------------------------------------------
LoopStep(s) ==
  \/ LoadChat(s) \/ Connect(s) \/ SavePrompt(s) \/ BeginTurn(s) \/ AskApproval(s)
  \/ Answered(s) \/ FinishStream(s) \/ CreateActivity(s) \/ SetDone(s) \/ GoIdle(s)
  \/ TakeMessage(s) \/ Resume(s) \/ Fail(s) \/ Stop(s) \/ ReportFailure(s)
  \/ Cleanup(s) \/ Cancelled(s)

Next ==
  \/ \E s \in Starts : Dispatch(s) \/ TaskDone(s) \/ LoopStep(s)
  \/ \E m \in Messages : PostRead(m) \/ PostAct(m)
  \/ \E a \in Aborts : AbortRead(a) \/ AbortAct(a)
  \/ Crash

Spec == Init /\ [][Next]_vars

\* The event loop runs whatever is ready: dispatchers, done-callbacks, pending
\* CancelledErrors, handlers that were entered.  Calls to the ERP, to the
\* machine, to the database and to the model return or fail.
Fairness ==
  /\ \A s \in Starts : WF_vars(Dispatch(s)) /\ WF_vars(TaskDone(s)) /\ WF_vars(LoopStep(s))
  /\ \A m \in Messages : WF_vars(PostAct(m))
  /\ \A a \in Aborts : WF_vars(AbortAct(a))

FairSpec == Spec /\ Fairness

-------------------------------------------------------------------------------
(* Safety *)

\* orchestrator.py:79-90: a loop that replaces another is created only when the
\* one it waited for is over, cleanup included.
ReplacedLoopIsOver ==
  \A s \in Starts : disp[s] \in {"serving", "done"} /\ old[s] # NoStart
                      => loop[old[s]] = "done"

\* Every live loop is awaited by its own dispatcher, so that its end is noticed
\* and its registration removed; a registered task has not been given up.
LoopsAreAwaited ==
  /\ \A s \in Starts : Alive(s) => disp[s] = "serving"
  /\ registered # NoStart => disp[registered] = "serving"

\* Two dispatchers never wait to replace the same loop, and nobody finds in the
\* registry a loop that another dispatcher is replacing.
HandoverIsPrivate ==
  \A v, w \in Starts : disp[v] = "handover" =>
    /\ old[v] # registered
    /\ disp[w] = "handover" /\ old[w] = old[v] => v = w

\* The inputs a loop has before it and, as long as it stays, will hear.
Elements(q) == {q[i] : i \in DOMAIN q}
Ahead == {"created", "starting", "prompting", "resuming"}
Listening == InTry \cup {"created"}
Pending(s) ==
  {m \in Starts : \/ loop[s] \in Ahead /\ m = current[s]
                  \/ loop[s] \in Listening /\ m \in Elements(queue[s])}

Accepted == {First} \cup {m \in Messages : post[m].at \in {"queued", "restarted"}}
Waiting ==
  {s \in Starts : disp[s] \in {"scheduled", "handover"}} \cup UNION {Pending(s) : s \in Starts}

Delivery == INSTANCE ChatDelivery WITH
  Inputs <- Starts, Opening <- {First}, accepted <- Accepted, waiting <- Waiting

\* Queued or given to a restart, through aborts, replacements and restarts of the
\* server: the chat is the delivery that ChatDelivery promises.  A message is
\* heard once at most, and not after the loop or the server that had it has ended.
Delivers == Delivery!Spec

\* A chat is idle only after its work was reported to the ERP and the ticket
\* closed, in that order.
IdleIsReported ==
  /\ status = "idle" => ticket = "done"
  /\ ticket = "done" => reported

-------------------------------------------------------------------------------
(* Liveness *)

\* Nothing holds up a restart: the loop it cancels ends, wherever it was and
\* however often it is cancelled, and the new one is created.
HandoverCompletes == \A s \in Starts : disp[s] = "handover" ~> disp[s] # "handover"

\* A cancelled loop ends.
CancelEnds == \A s \in Starts : cancelReq[s] ~> loop[s] = "done"

\* The loop answers the message or has it in its queue.
Holds(s, m) == m = current[s] \/ m \in Elements(queue[s])

\* router.py:246-256: a message that was accepted is heard, unless the loop that has
\* it ends first (stopped, failed or replaced), or keeps asking for approvals.
AcceptedIsHeard ==
  (\A s \in Starts : <>[](loop[s] # "asking")) =>
    \A m \in Messages : post[m].at \in {"queued", "restarted"} ~>
      m \in heard \/ \E s \in Starts : Holds(s, m) /\ loop[s] = "done"

-------------------------------------------------------------------------------
(* What the repository says and the code does not do *)

\* orchestrator.py:79: a new loop is set up only when the old one is over.
OneLoop == \A v, w \in Starts : Alive(v) /\ Alive(w) => v = w
===============================================================================
