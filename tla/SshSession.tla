------------------------------ MODULE SshSession ------------------------------
(***************************************************************************)
(* The SSH connections of one agent session: the FabricSSHRunner of        *)
(* ssh/runner.py, whose open_connection, run and close_connection each run *)
(* in a worker thread, the agent loop that awaits the first and the last   *)
(* (agent/orchestrator.py) and the tool that awaits `run` under ssh_lock   *)
(* (agent/agent.py).  Cancelling the coroutine that awaits a thread does   *)
(* not stop the thread: it becomes an orphan.  A step of a thread is what  *)
(* it does between two accesses to _conn or to the network.                *)
(***************************************************************************)
CONSTANTS
  Calls,  \* commands handed to a thread
  Held    \* the Connection that open_connection makes

ASSUME HeldIsNoCall == Held \notin Calls
ASSUME CallsAreCalls == {"opener", "closer"} \cap Calls = {}

VARIABLES
  loop,     \* the await the agent loop is at
  thread,   \* how far the thread of open_connection, close_connection or a call is
  orphans,  \* threads whose awaiting coroutine was cancelled before they ended
  conn,     \* _conn is not None
  open      \* Connections open on the network; a call's own is named by the call

vars == <<loop, thread, orphans, conn, open>>

Threads == Calls \cup {"opener", "closer"}
OpenerStates == {"queued", "connected", "ended", "dropped", "broke"}
CloserStates == {"none", "queued", "found", "closed", "ended", "dropped"}
OnOwn == {"own", "onOwn"}
Past == {"ended", "dropped", "broke"}
RunStates == {"none", "queued", "seen", "bound", "onHeld"} \cup OnOwn \cup Past
Unfinished == {t \in Threads : thread[t] \notin Past \cup {"none"}}

TypeOK ==
  /\ loop \in {"opening", "working", "stopping", "closing", "over"}
  /\ thread \in [Threads -> OpenerStates \cup CloserStates \cup RunStates]
  /\ thread["opener"] \in OpenerStates /\ thread["closer"] \in CloserStates
  /\ \A c \in Calls : thread[c] \in RunStates
  /\ orphans \subseteq Threads
  /\ conn \in BOOLEAN
  /\ open \subseteq Calls \cup {Held}

\* The loop has handed open_connection to a thread.
Init ==
  /\ loop = "opening"
  /\ thread = [t \in Threads |-> IF t = "opener" THEN "queued" ELSE "none"]
  /\ orphans = {}
  /\ conn = FALSE
  /\ open = {}

Step(t, from, to) == thread[t] = from /\ thread' = [thread EXCEPT ![t] = to]
LoopGoes(from, to) == loop = from /\ loop' = to

-------------------------------------------------------------------------------
(* open_connection *)

\* conn.open() connects, or raises.
Connect ==
  /\ \/ Step("opener", "queued", "connected") /\ open' = open \cup {Held}
     \/ Step("opener", "queued", "broke") /\ UNCHANGED open
  /\ UNCHANGED <<loop, orphans, conn>>

Hold ==
  /\ Step("opener", "connected", "ended")
  /\ conn' = TRUE
  /\ UNCHANGED <<loop, orphans, open>>

(* close_connection *)

FindHeld ==
  /\ Step("closer", "queued", IF conn THEN "found" ELSE "ended")
  /\ UNCHANGED <<loop, orphans, conn, open>>

\* Mutant: the reference is given up, the connection is not closed.
CloseHeldUnclosed ==
  /\ Step("closer", "found", "closed")
  /\ UNCHANGED <<loop, orphans, conn, open>>

CloseHeld ==
  /\ Step("closer", "found", "closed")
  /\ open' = open \ {Held}
  /\ UNCHANGED <<loop, orphans, conn>>

Forget ==
  /\ Step("closer", "closed", "ended")
  /\ conn' = FALSE
  /\ UNCHANGED <<loop, orphans, open>>

(* run *)

Look(c) ==
  /\ Step(c, "queued", IF conn THEN "seen" ELSE "own")
  /\ UNCHANGED <<loop, orphans, conn, open>>

\* _conn is read again for the call; None has no `run` (AttributeError).
Bind(c) ==
  /\ Step(c, "seen", IF conn THEN "bound" ELSE "broke")
  /\ UNCHANGED <<loop, orphans, conn, open>>

\* Connection.run opens a Connection that is not open, or fails.
RunOnHeld(c) ==
  /\ \/ Step(c, "bound", "onHeld") /\ open' = open \cup {Held}
     \/ Step(c, "bound", "ended") /\ UNCHANGED open
  /\ UNCHANGED <<loop, orphans, conn>>

RunOnOwn(c) ==
  /\ \/ Step(c, "own", "onOwn") /\ open' = open \cup {c}
     \/ Step(c, "own", "ended") /\ UNCHANGED open
  /\ UNCHANGED <<loop, orphans, conn>>

\* Mutant: the own connection is not opened in a `with`.
EndRunUnclosed(c) ==
  /\ Step(c, "onHeld", "ended") \/ Step(c, "onOwn", "ended")
  /\ UNCHANGED <<loop, orphans, conn, open>>

\* The command ends, by itself, by ssh_command_timeout or with its connection;
\* leaving `with` closes an own connection.
EndRun(c) ==
  /\ Step(c, "onHeld", "ended") \/ Step(c, "onOwn", "ended")
  /\ open' = open \ {c}
  /\ UNCHANGED <<loop, orphans, conn>>

\* The network drops a connection.
Lose(x) ==
  /\ x \in open
  /\ open' = open \ {x}
  /\ UNCHANGED <<loop, thread, orphans, conn>>

-------------------------------------------------------------------------------
(* The agent loop and its tools *)

\* Mutant: open_connection is not awaited.
OpenedUnawaited ==
  /\ LoopGoes("opening", "working")
  /\ UNCHANGED <<thread, orphans, conn, open>>

Opened ==
  /\ LoopGoes("opening", "working")
  /\ thread["opener"] = "ended"
  /\ UNCHANGED <<thread, orphans, conn, open>>

\* Mutant: the command does not wait for ssh_lock.
SubmitUnlocked(c) ==
  /\ loop = "working"
  /\ Step(c, "none", "queued")
  /\ UNCHANGED <<loop, orphans, conn, open>>

\* A tool call, alone under ssh_lock, hands its command to a thread.
Submit(c) ==
  /\ loop = "working"
  /\ Unfinished = {}
  /\ Step(c, "none", "queued")
  /\ UNCHANGED <<loop, orphans, conn, open>>

\* Awaited threads that have not ended are left to themselves; the executor
\* drops those it has not started.
Abandon ==
  \E drop \in SUBSET {t \in Unfinished \ orphans : thread[t] = "queued"} :
    /\ thread' = [t \in Threads |-> IF t \in drop THEN "dropped" ELSE thread[t]]
    /\ orphans' = orphans \cup (Unfinished \ drop)

\* An abort or an error ends the session at either await of the try block.
Stop ==
  /\ LoopGoes("opening", "stopping") \/ LoopGoes("working", "stopping")
  /\ Abandon
  /\ UNCHANGED <<conn, open>>

\* Mutant: `finally` is missing.
CleanupMissing ==
  /\ LoopGoes("stopping", "over")
  /\ UNCHANGED <<thread, orphans, conn, open>>

\* `finally`
Cleanup ==
  /\ LoopGoes("stopping", "closing")
  /\ thread' = [thread EXCEPT !["closer"] = "queued"]
  /\ UNCHANGED <<orphans, conn, open>>

\* close_connection has returned, or a second cancellation hits `finally`.
Finish ==
  /\ LoopGoes("closing", "over")
  /\ \/ thread["closer"] = "ended" /\ UNCHANGED <<thread, orphans>>
     \/ thread["closer"] # "ended" /\ Abandon
  /\ UNCHANGED <<conn, open>>

-------------------------------------------------------------------------------
ThreadStep(c) == Look(c) \/ Bind(c) \/ RunOnHeld(c) \/ RunOnOwn(c) \/ EndRun(c)

Next ==
  \/ Connect \/ Hold \/ FindHeld \/ CloseHeld \/ Forget
  \/ \E c \in Calls : ThreadStep(c) \/ Submit(c)
  \/ \E x \in Calls \cup {Held} : Lose(x)
  \/ Opened \/ Stop \/ Cleanup \/ Finish

Spec == Init /\ [][Next]_vars

\* A started thread goes on: connecting ends by ssh_connect_timeout, a command by
\* ssh_command_timeout; the loop that was told to stop does.
Fairness ==
  /\ WF_vars(Connect \/ Hold) /\ WF_vars(FindHeld \/ CloseHeld \/ Forget)
  /\ \A c \in Calls : WF_vars(ThreadStep(c))
  /\ WF_vars(Cleanup)

FairSpec == Spec /\ Fairness

-------------------------------------------------------------------------------
(* Safety *)

\* agent.py:187: a command whose tool call is still awaited goes over the
\* session's connection and never finds _conn taken away between runner.py:157
\* and :158; only an orphan does, or opens a connection of its own.
LiveCallsShare ==
  \A c \in Calls : thread[c] \in OnOwn \cup {"broke"} => c \in orphans

\* Besides its held connection a session has at most one open, an orphan's.
OneExtraConnection ==
  \A c \in open \cap Calls : c \in orphans /\ \A d \in open \cap Calls : c = d

\* No thread was at work when its coroutine was cancelled, nor was `finally`
\* cancelled before its thread began.
Undisturbed == orphans = {} /\ thread["closer"] # "dropped"

\* runner.py:124: the connection is held for the lifetime of the session.  It
\* outlives the session only if a cancellation hit one of its threads at work (an
\* abort during open_connection or run) or the cleanup itself (a second one).
CleanEndCloses == loop = "over" /\ Undisturbed => open = {}

(* Liveness *)

\* A session that stops between two commands gives its connection back, unless a
\* second cancellation interrupts the cleanup.
StopReleases == loop = "stopping" /\ Undisturbed ~> open = {} \/ ~Undisturbed

\* An orphan's own connection does not stay open.
OwnIsReleased == \A c \in Calls : c \in open ~> c \notin open
===============================================================================
