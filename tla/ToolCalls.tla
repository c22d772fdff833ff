------------------------------- MODULE ToolCalls -------------------------------
(***************************************************************************)
(* The path of a shell command from the agent to the customer's machine:   *)
(* run_ssh_command (agent/agent.py), the ApprovalGate it waits at          *)
(* (agent/approval_gate.py), the PATCH handler that answers it and the     *)
(* abort that cancels it (api/chats/router.py, agent/orchestrator.py), and *)
(* the worker thread that runs the command (ssh/runner.py).                *)
(*                                                                         *)
(* An action is the code from one await to the next: the awaited database  *)
(* commit takes effect, then everything up to the next await runs without  *)
(* interruption, as it does on the event loop.  Worker threads and other   *)
(* coroutines run in between.                                              *)
(***************************************************************************)
EXTENDS FiniteSets

CONSTANTS
  Calls,     \* invocations of run_ssh_command in one chat
  Patches,   \* PATCH .../tool-calls/{id} requests
  NoCall     \* ssh_lock is free

ASSUME NoCallIsNoCall == NoCall \notin Calls

VARIABLES
  pc,          \* the await each invocation is at
  auto,        \* auto_approved: the command matches the whitelist
  holder,      \* who holds deps.ssh_lock
  row,         \* ToolCall.status in the database
  audit,       \* the call's AuditLog row
  chatStatus,  \* Chat.status
  events,      \* approval_gate._events
  fired,       \* events that were set
  decisions,   \* approval_gate._decisions
  chatCalls,   \* approval_gate._chat_to_tool_calls of this chat
  thread,      \* the call's worker thread in FabricSSHRunner.run
  patch,       \* the PATCH requests
  session,     \* the agent loop the calls belong to
  past,        \* history: calls made before the current session
  approvals,   \* history: calls some technician approved (committed)
  rejections   \* history: calls some technician rejected (committed)

gateVars == <<events, fired, decisions, chatCalls>>
humanVars == <<patch, approvals, rejections>>
sessionVars == <<session, past>>
vars == <<pc, auto, holder, row, audit, chatStatus, gateVars, thread,
          humanVars, sessionVars>>

\* Awaits inside `async with deps.ssh_lock`, and those before it.
LockPcs == {"marking", "waiting", "granted", "refused", "rejecting", "executing"}
EarlyPcs == {"saving", "announcing", "locking"}
FinalPcs == {"blocked", "returned", "raised"}
ThreadStates == {"none", "submitted", "onVM", "ok", "unreachable", "lost",
                 "broke", "dropped"}
InFlight(c) == pc[c] \in EarlyPcs \cup LockPcs

\* The thread is in the runner, or the command is on the machine.
Busy(c) == thread[c] \in {"submitted", "onVM"}
Live == session = "live"

TypeOK ==
  /\ pc \in [Calls -> {"new"} \cup EarlyPcs \cup LockPcs \cup FinalPcs]
  /\ auto \in [Calls -> BOOLEAN]
  /\ holder \in Calls \cup {NoCall}
  /\ row \in [Calls -> {"none", "pending", "approved", "rejected", "executed"}]
  /\ audit \in [Calls -> {"none", "accepted", "rejected"}]
  /\ chatStatus \in {"running", "waiting_on_approval", "stopped"}
  /\ events \subseteq Calls
  /\ fired \subseteq Calls
  /\ decisions \in [Calls -> {"none", "yes", "no"}]
  /\ chatCalls \subseteq Calls
  /\ thread \in [Calls -> ThreadStates]
  /\ patch \in [Patches -> [at : {"idle", "read", "committed", "done"},
                            call : Calls \cup {NoCall}, approve : BOOLEAN]]
  /\ session \in {"live", "aborted", "failed", "over"}
  /\ past \subseteq Calls
  /\ approvals \subseteq Calls
  /\ rejections \subseteq Calls

Init ==
  /\ pc = [c \in Calls |-> "new"]
  /\ auto = [c \in Calls |-> FALSE]
  /\ holder = NoCall
  /\ row = [c \in Calls |-> "none"]
  /\ audit = [c \in Calls |-> "none"]
  /\ chatStatus = "running"
  /\ events = {}
  /\ fired = {}
  /\ decisions = [c \in Calls |-> "none"]
  /\ chatCalls = {}
  /\ thread = [c \in Calls |-> "none"]
  /\ patch = [p \in Patches |-> [at |-> "idle", call |-> NoCall, approve |-> FALSE]]
  /\ session = "live"
  /\ past = {}
  /\ approvals = {}
  /\ rejections = {}

\* Every step of a tool needs a live session: cancellation reaches the
\* coroutine at the await it is suspended in.
At(c, p) == Live /\ pc[c] = p
Goto(c, p) == pc' = [pc EXCEPT ![c] = p]
Submit(c) == thread' = [thread EXCEPT ![c] = "submitted"]
ReleaseIfHeld(c) == holder' = IF holder = c THEN NoCall ELSE holder

-------------------------------------------------------------------------------
(* run_ssh_command *)

\* Blacklist and built-in guard: a blocked command returns at once.
Screen(c) ==
  /\ At(c, "new")
  /\ \E p \in {"blocked", "saving"} : Goto(c, p)
  /\ UNCHANGED <<auto, holder, row, audit, chatStatus, gateVars, thread,
                 humanVars, sessionVars>>

SaveToolCall(c) ==
  /\ At(c, "saving")
  /\ row' = [row EXCEPT ![c] = "pending"]
  /\ Goto(c, "announcing")
  /\ UNCHANGED <<auto, holder, audit, chatStatus, gateVars, thread, humanVars,
                 sessionVars>>

\* The whitelist answers; tool_call_requested goes out.
Announce(c) ==
  /\ At(c, "announcing")
  /\ \E b \in BOOLEAN : auto' = [auto EXCEPT ![c] = b]
  /\ Goto(c, "locking")
  /\ UNCHANGED <<holder, row, audit, chatStatus, gateVars, thread, humanVars,
                 sessionVars>>

\* Mutant: the lock is not waited for.
AcquireLockUnguarded(c) ==
  /\ At(c, "locking")
  /\ holder' = c
  /\ \/ auto[c] /\ Goto(c, "executing") /\ Submit(c)
     \/ ~auto[c] /\ Goto(c, "marking") /\ UNCHANGED thread
  /\ UNCHANGED <<auto, row, audit, chatStatus, gateVars, humanVars, sessionVars>>

\* asyncio.Lock is granted to some waiter; an auto-approved call goes straight
\* to its worker thread.
AcquireLock(c) ==
  /\ At(c, "locking")
  /\ holder = NoCall
  /\ holder' = c
  /\ \/ auto[c] /\ Goto(c, "executing") /\ Submit(c)
     \/ ~auto[c] /\ Goto(c, "marking") /\ UNCHANGED thread
  /\ UNCHANGED <<auto, row, audit, chatStatus, gateVars, humanVars, sessionVars>>

\* Mutant: the call is not added to _chat_to_tool_calls.
RequestApprovalUnlisted(c) ==
  /\ At(c, "marking")
  /\ chatStatus' = "waiting_on_approval"
  /\ events' = events \cup {c}
  /\ Goto(c, "waiting")
  /\ UNCHANGED <<auto, holder, row, audit, fired, decisions, chatCalls, thread,
                 humanVars, sessionVars>>

\* Chat.status is committed, then request_approval registers the event.
RequestApproval(c) ==
  /\ At(c, "marking")
  /\ chatStatus' = "waiting_on_approval"
  /\ events' = events \cup {c}
  /\ chatCalls' = chatCalls \cup {c}
  /\ Goto(c, "waiting")
  /\ UNCHANGED <<auto, holder, row, audit, fired, decisions, thread, humanVars,
                 sessionVars>>

\* event.wait() returns; the decision is popped, False when there is none.
Wake(c) ==
  /\ At(c, "waiting")
  /\ c \in fired
  /\ chatCalls' = chatCalls \ {c}
  /\ decisions' = [decisions EXCEPT ![c] = "none"]
  /\ Goto(c, IF decisions[c] = "yes" THEN "granted" ELSE "refused")
  /\ UNCHANGED <<auto, holder, row, audit, chatStatus, events, fired, thread,
                 humanVars, sessionVars>>

\* Mutant: `if not approved` is missing.
ResumeUnasked(c) ==
  /\ chatStatus' = "running"
  /\ At(c, "granted") \/ At(c, "refused")
  /\ Goto(c, "executing")
  /\ Submit(c)
  /\ UNCHANGED <<auto, holder, row, audit, gateVars, humanVars, sessionVars>>

\* Mutant: the chat is not set back to running.
ResumeSilently(c) ==
  /\ \/ At(c, "granted") /\ Goto(c, "executing") /\ Submit(c)
     \/ At(c, "refused") /\ Goto(c, "rejecting") /\ UNCHANGED thread
  /\ UNCHANGED <<auto, holder, row, audit, chatStatus, gateVars, humanVars, sessionVars>>

\* Mutant: CancelledError is swallowed at this await.
ResumeCancelled(c) ==
  /\ chatStatus' = "running"
  /\ \/ pc[c] = "granted" /\ Goto(c, "executing") /\ Submit(c)
     \/ At(c, "refused") /\ Goto(c, "rejecting") /\ UNCHANGED thread
  /\ UNCHANGED <<auto, holder, row, audit, gateVars, humanVars, sessionVars>>

\* Chat.status is back to running; the command goes to a thread or is refused.
Resume(c) ==
  /\ chatStatus' = "running"
  /\ \/ At(c, "granted") /\ Goto(c, "executing") /\ Submit(c)
     \/ At(c, "refused") /\ Goto(c, "rejecting") /\ UNCHANGED thread
  /\ UNCHANGED <<auto, holder, row, audit, gateVars, humanVars, sessionVars>>

\* Mutant: the tool returns without leaving `async with deps.ssh_lock`.
RecordHolding(c, s, a) ==
  /\ row' = [row EXCEPT ![c] = s]
  /\ audit' = [audit EXCEPT ![c] = a]
  /\ Goto(c, "returned")
  /\ UNCHANGED <<auto, holder, chatStatus, gateVars, thread, humanVars, sessionVars>>

Record(c, s, a) ==
  /\ row' = [row EXCEPT ![c] = s]
  /\ audit' = [audit EXCEPT ![c] = a]
  /\ holder' = NoCall
  /\ Goto(c, "returned")
  /\ UNCHANGED <<auto, chatStatus, gateVars, thread, humanVars, sessionVars>>

RecordRejection(c) == At(c, "rejecting") /\ Record(c, "rejected", "rejected")

RecordResult(c) ==
  /\ At(c, "executing")
  /\ thread[c] = "ok"
  /\ Record(c, "executed", "accepted")

\* Mutant: a connection error is audited like a result.
RecordConnectionErrorAudited(c) ==
  /\ At(c, "executing")
  /\ thread[c] \in {"unreachable", "lost"}
  /\ Record(c, "executed", "accepted")

\* SSHConnectionError, before or after the command reached the machine: the
\* row says executed and no audit row is written.
RecordConnectionError(c) ==
  /\ At(c, "executing")
  /\ thread[c] \in {"unreachable", "lost"}
  /\ Record(c, "executed", audit[c])

\* An exception leaves the tool: a database error at any awaited statement, the
\* loading of the blacklist included, or one the SSH clause does not catch
\* (CommandTimedOut).  It ends the session.
MayRaise(c) ==
  \/ pc[c] \in {"new", "saving", "announcing", "marking", "granted", "refused",
                "rejecting"}
  \/ pc[c] = "executing" /\ thread[c] \in {"ok", "unreachable", "lost", "broke"}

Raises(c) ==
  /\ Live
  /\ MayRaise(c)
  /\ Goto(c, "raised")
  /\ session' = "failed"
  /\ ReleaseIfHeld(c)
  /\ UNCHANGED <<auto, row, audit, chatStatus, gateVars, thread, humanVars, past>>

\* CancelledError at the current await: `finally` discards the call from the
\* gate's set and the lock is released; the thread goes on, unless the
\* executor had not started it yet.
Cancelled(c) ==
  /\ session \in {"aborted", "failed"}
  /\ InFlight(c)
  /\ Goto(c, "raised")
  /\ ReleaseIfHeld(c)
  /\ chatCalls' = chatCalls \ {c}
  /\ \/ UNCHANGED thread
     \/ /\ thread[c] = "submitted"
        /\ thread' = [thread EXCEPT ![c] = "dropped"]
  /\ UNCHANGED <<auto, row, audit, chatStatus, events, fired, decisions,
                 humanVars, sessionVars>>

-------------------------------------------------------------------------------
(* FabricSSHRunner.run, in a worker thread: it also runs on after the
   coroutine that awaited it was cancelled. *)

ThreadStep(c, from, to) ==
  /\ thread[c] = from
  /\ \E t \in to : thread' = [thread EXCEPT ![c] = t]
  /\ UNCHANGED <<pc, auto, holder, row, audit, chatStatus, gateVars, humanVars,
                 sessionVars>>

Transmit(c) == ThreadStep(c, "submitted", {"onVM", "unreachable"})

\* The result is read, the connection is lost (SSHException, OSError) or
\* another exception is raised (CommandTimedOut).
Finish(c) == ThreadStep(c, "onVM", {"ok", "lost", "broke"})

-------------------------------------------------------------------------------
(* PATCH /chats/{chat_id}/tool-calls/{id}: read and check, commit, resolve. *)

PatchRead(p, c, b) ==
  /\ patch[p].at = "idle"
  /\ row[c] = "pending"
  /\ patch' = [patch EXCEPT ![p] = [at |-> "read", call |-> c, approve |-> b]]
  /\ UNCHANGED <<pc, auto, holder, row, audit, chatStatus, gateVars, thread,
                 sessionVars, approvals, rejections>>

\* The row is overwritten whatever it has become since it was read.
PatchCommit(p) ==
  LET c == patch[p].call
      yes == patch[p].approve
  IN /\ patch[p].at = "read"
     /\ patch' = [patch EXCEPT ![p].at = "committed"]
     /\ row' = [row EXCEPT ![c] = IF yes THEN "approved" ELSE "rejected"]
     /\ approvals' = IF yes THEN approvals \cup {c} ELSE approvals
     /\ rejections' = IF yes THEN rejections ELSE rejections \cup {c}
     /\ UNCHANGED <<pc, auto, holder, audit, chatStatus, gateVars, thread,
                    sessionVars>>

\* approval_gate.resolve: the decision is stored even when nobody waits yet.
PatchResolve(p) ==
  LET c == patch[p].call
  IN /\ patch[p].at = "committed"
     /\ patch' = [patch EXCEPT ![p].at = "done"]
     /\ decisions' = [decisions EXCEPT ![c] = IF patch[p].approve THEN "yes" ELSE "no"]
     /\ events' = events \ {c}
     /\ fired' = fired \cup (events \cap {c})
     /\ UNCHANGED <<pc, auto, holder, row, audit, chatStatus, chatCalls, thread,
                    sessionVars, approvals, rejections>>

-------------------------------------------------------------------------------
(* POST /chats/{chat_id}/abort and the sessions. *)

\* abort_agent: cancel_all_for_chat resolves every registered call with False,
\* then the loop's task is cancelled.
AbortChat ==
  /\ chatStatus \in {"running", "waiting_on_approval"}
  /\ decisions' = [c \in Calls |-> IF c \in chatCalls THEN "no" ELSE decisions[c]]
  /\ fired' = fired \cup (events \cap chatCalls)
  /\ events' = events \ chatCalls
  /\ chatCalls' = {}
  /\ session' = IF Live THEN "aborted" ELSE session
  /\ UNCHANGED <<pc, auto, holder, row, audit, chatStatus, thread, humanVars, past>>

\* Mutant: only a running chat is set to stopped.
SessionStopsRunning ==
  /\ session \in {"aborted", "failed"}
  /\ chatStatus = "running"
  /\ \A c \in Calls : ~InFlight(c)
  /\ session' = "over"
  /\ chatStatus' = "stopped"
  /\ UNCHANGED <<pc, auto, holder, row, audit, gateVars, thread, humanVars, past>>

\* The loop's handler commits "stopped" once its tools have unwound, unless the
\* commit fails or another abort interrupts it.
SessionStops ==
  /\ session \in {"aborted", "failed"}
  /\ \A c \in Calls : ~InFlight(c)
  /\ session' = "over"
  /\ chatStatus' \in {"stopped", chatStatus}
  /\ UNCHANGED <<pc, auto, holder, row, audit, gateVars, thread, humanVars, past>>

\* A message to a stopped chat starts a new loop with a new TicketContext.
Restart ==
  /\ session = "over"
  /\ chatStatus = "stopped"
  /\ session' = "live"
  /\ chatStatus' = "running"
  /\ holder' = NoCall
  /\ past' = {c \in Calls : pc[c] # "new"}
  /\ UNCHANGED <<pc, auto, row, audit, gateVars, thread, humanVars>>

-------------------------------------------------------------------------------
ToolStep(c) ==
  \/ SaveToolCall(c) \/ Announce(c) \/ AcquireLock(c) \/ RequestApproval(c)
  \/ Wake(c) \/ Resume(c) \/ RecordRejection(c) \/ RecordResult(c)
  \/ RecordConnectionError(c) \/ Raises(c) \/ Cancelled(c)

Next ==
  \/ \E c \in Calls : Screen(c) \/ ToolStep(c) \/ Transmit(c) \/ Finish(c)
  \/ \E p \in Patches :
       \/ \E c \in Calls, b \in BOOLEAN : PatchRead(p, c, b)
       \/ PatchCommit(p)
       \/ PatchResolve(p)
  \/ AbortChat
  \/ SessionStops
  \/ Restart

Spec == Init /\ [][Next]_vars

\* The event loop runs every ready coroutine, the database answers, and a
\* command ends by itself or by ssh_command_timeout.  Nobody is obliged to call
\* a tool, to answer a request, to abort or to restart.
Fairness ==
  /\ \A c \in Calls :
       WF_vars(InFlight(c) /\ ToolStep(c)) /\ WF_vars(Transmit(c) \/ Finish(c))
  /\ \A p \in Patches : WF_vars(PatchCommit(p) \/ PatchResolve(p))
  /\ WF_vars(SessionStops)

FairSpec == Spec /\ Fairness

-------------------------------------------------------------------------------
(* Safety *)

\* A command of run_ssh_command is handed to SSH only if the whitelist
\* auto-approved it or some technician's approval of that very call was committed
\* before, whatever rejections, aborts and restarts raced with it.
OnlyAllowedRun == \A c \in Calls : thread[c] # "none" => auto[c] \/ c \in approvals

\* ssh_lock: among the commands of the current session at most one is in the
\* runner or on the machine, those of cancelled coroutines included.
OneAtATime ==
  \A c, d \in Calls \ past : Busy(c) /\ Busy(d) => c = d

\* The audit trail tells the truth: an accepted row means the command's result
\* was read; a rejected row means the command never reached the runner and a
\* technician did reject it (an abort is not recorded as a rejection); both
\* are final, written for calls that are over.  Of the calls that returned to the
\* model none is missing but those that ended in a connection error.
AuditIsTrue ==
  \A c \in Calls :
    /\ audit[c] = "accepted" => thread[c] = "ok"
    /\ audit[c] = "rejected" => thread[c] = "none" /\ c \in rejections
    /\ audit[c] # "none" => pc[c] = "returned"
    /\ pc[c] = "returned" => audit[c] # "none" \/ thread[c] \in {"unreachable", "lost"}

\* Whoever waits at the gate can be released: while its session is live the call
\* is registered for abort, and either its event can still be set or it is set
\* together with a decision, so request_approval never falls back to its default.
GateReleases ==
  \A c \in Calls : At(c, "waiting") =>
    /\ c \in chatCalls
    /\ c \in events \/ (c \in fired /\ decisions[c] # "none")

\* While the session lives, Chat.status says waiting_on_approval exactly while the
\* holder of ssh_lock is at the gate.
StatusMatchesGate ==
  Live => (chatStatus = "waiting_on_approval"
             <=> \E c \in Calls : pc[c] \in {"waiting", "granted", "refused"})

\* run_ssh_command promises what HumanInTheLoop states.
Promise == INSTANCE HumanInTheLoop WITH
  allowed <- {c \in Calls : auto[c]} \cup approvals,
  sent    <- {c \in Calls : thread[c] # "none"},
  running <- {c \in Calls \ past : Busy(c)},
  open    <- Live

Implements == Promise!Spec

-------------------------------------------------------------------------------
(* Liveness *)

\* The stop button works: an aborted or failed session unwinds every call it has
\* in flight, the one that holds ssh_lock included, and stops.
SessionEnds == session \in {"aborted", "failed"} ~> session = "over"

\* Only the gate can keep a call waiting: every call that got past the screen
\* ends, or ssh_lock is held by a call whose event has not been set.
CallsEnd ==
  \A c \in Calls :
    InFlight(c) ~> (~InFlight(c) \/ \E d \in events : pc[d] = "waiting")

-------------------------------------------------------------------------------
(* What the repository says and the code does not do *)

\* approval_gate.py:16 and :27, agent-and-streaming.md:152: an answer to a
\* request unblocks the tool that asks.
AnswerUnblocks ==
  \A c \in Calls : c \in approvals \cup rejections ~> ~InFlight(c)
===============================================================================
