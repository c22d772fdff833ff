--------------------------- MODULE SshSessionProofs ---------------------------
(* Proofs of the safety properties of SshSession, for any number of calls. *)
EXTENDS SshSession, TLAPS

\* Where the threads are while the loop is at each of its awaits: who is not yet
\* started, and who is at work although nobody awaits it.
LoopInv ==
  /\ loop \in {"opening", "working", "stopping"} <=> thread["closer"] = "none"
  /\ loop = "opening" => \A c \in Calls : thread[c] = "none"
  /\ loop = "working" => thread["opener"] = "ended"
  /\ loop \in {"stopping", "closing", "over"} =>
       \A t \in Unfinished : t \in orphans \/ (t = "closer" /\ loop = "closing")
  /\ loop \in {"opening", "working"} => orphans = {}

\* _conn is set from the end of open_connection to that of close_connection.
ConnInv ==
  /\ conn => thread["opener"] = "ended"
  /\ thread["opener"] = "ended" /\ thread["closer"] \notin {"ended", "dropped"} => conn

\* ssh_lock: at most one command is in a thread.
LockInv == \A c, d \in Calls \cap Unfinished : c = d

\* Who may have opened what is open, and what is closed for good.
OpenInv ==
  /\ \A c \in Calls \cap open : thread[c] = "onOwn"
  /\ Held \in open => thread["opener"] \in {"connected", "ended"}
  /\ \A c \in Calls : thread[c] \in {"seen", "bound", "onHeld"} => thread["opener"] = "ended"
  /\ orphans = {} /\ thread["closer"] \in {"closed", "ended"} => Held \notin open

IInv == TypeOK /\ LoopInv /\ ConnInv /\ LockInv /\ OpenInv /\ LiveCallsShare

-------------------------------------------------------------------------------
USE HeldIsNoCall, CallsAreCalls

LEMMA InitInv == Init => IInv
BY DEF Init, IInv, TypeOK, LoopInv, ConnInv, LockInv, OpenInv, LiveCallsShare,
       Threads, OpenerStates, CloserStates, RunStates, OnOwn, Past, Unfinished

LEMMA NextInv == IInv /\ [Next]_vars => IInv'
<1> SUFFICES ASSUME IInv, [Next]_vars PROVE IInv'
  OBVIOUS
<1> USE DEF IInv, TypeOK, LoopInv, ConnInv, LockInv, OpenInv, LiveCallsShare,
       Threads, OpenerStates, CloserStates, RunStates, OnOwn, Past, Unfinished
<1>1. CASE Connect
  BY <1>1 DEF Connect, Step
<1>2. CASE Hold
  BY <1>2 DEF Hold, Step
<1>3. CASE FindHeld
  <2>1. thread["closer"] = "queued" /\ thread' = [thread EXCEPT !["closer"] =
          IF conn THEN "found" ELSE "ended"]
    BY <1>3 DEF FindHeld, Step
  \* Without _conn and without orphans open_connection failed or never ran.
  <2>2. ~conn /\ orphans = {} => Held \notin open
    BY <2>1
  <2>3. QED
    BY <1>3, <2>1, <2>2 DEF FindHeld
<1>4. CASE CloseHeld
  BY <1>4 DEF CloseHeld, Step
<1>5. CASE Forget
  BY <1>5 DEF Forget, Step
\* A call at work that is no orphan belongs to a working loop, so _conn is set.
<1>a. ASSUME NEW c \in Calls \cap Unfinished, c \notin orphans
      PROVE  loop = "working" /\ conn /\ thread["closer"] = "none"
  BY <1>a
<1>6. ASSUME NEW c \in Calls, Look(c) PROVE IInv'
  <2>1. ~conn => c \in orphans
    BY <1>6, <1>a DEF Look, Step
  <2>2. QED
    BY <1>6, <2>1 DEF Look, Step
<1>7. ASSUME NEW c \in Calls, Bind(c) PROVE IInv'
  <2>1. ~conn => c \in orphans
    BY <1>7, <1>a DEF Bind, Step
  <2>2. QED
    BY <1>7, <2>1 DEF Bind, Step
<1>8. ASSUME NEW c \in Calls, RunOnHeld(c) PROVE IInv'
  <2>1. orphans = {} => thread["closer"] = "none"
    BY <1>8, <1>a DEF RunOnHeld, Step
  <2>2. QED
    BY <1>8, <2>1 DEF RunOnHeld, Step
<1>9. ASSUME NEW c \in Calls, RunOnOwn(c) PROVE IInv'
  BY <1>9 DEF RunOnOwn, Step
<1>10. ASSUME NEW c \in Calls, EndRun(c) PROVE IInv'
  BY <1>10 DEF EndRun, Step
<1>11. ASSUME NEW c \in Calls, Submit(c) PROVE IInv'
  BY <1>11 DEF Submit, Step
<1>12. ASSUME NEW x \in Calls \cup {Held}, Lose(x) PROVE IInv'
  BY <1>12 DEF Lose
<1>13. CASE Opened
  BY <1>13 DEF Opened, LoopGoes
<1>14. CASE Stop
  BY <1>14 DEF Stop, LoopGoes, Abandon
<1>15. CASE Cleanup
  BY <1>15 DEF Cleanup, LoopGoes
<1>16. CASE Finish
  <2>1. CASE thread["closer"] = "ended" /\ UNCHANGED <<thread, orphans>>
    BY <1>16, <2>1 DEF Finish, LoopGoes
  <2>2. CASE thread["closer"] # "ended" /\ Abandon
    BY <1>16, <2>2 DEF Finish, LoopGoes, Abandon
  <2>3. QED
    BY <1>16, <2>1, <2>2 DEF Finish
<1>17. CASE UNCHANGED vars
  BY <1>17 DEF vars
<1>18. QED
  BY <1>1, <1>2, <1>3, <1>4, <1>5, <1>6, <1>7, <1>8, <1>9, <1>10, <1>11, <1>12,
     <1>13, <1>14, <1>15, <1>16, <1>17 DEF Next, ThreadStep

LEMMA Inductive == Spec => []IInv
BY InitInv, NextInv, PTL DEF Spec

-------------------------------------------------------------------------------
\* Every variable keeps its type.
THEOREM TypeCorrect == Spec => []TypeOK
BY Inductive, PTL DEF IInv

\* agent.py:187: a command that is still awaited uses the session's connection.
THEOREM CallsShare == Spec => []LiveCallsShare
BY Inductive, PTL DEF IInv

\* A session has at most one connection besides the one it holds.
THEOREM ExtraConnection == Spec => []OneExtraConnection
<1>1. IInv => OneExtraConnection
  <2> SUFFICES ASSUME IInv, NEW c \in open \cap Calls
               PROVE  c \in orphans /\ \A d \in open \cap Calls : c = d
    BY DEF OneExtraConnection
  <2>1. \A d \in open \cap Calls : thread[d] = "onOwn" /\ d \in Unfinished
    BY DEF IInv, OpenInv, Unfinished, Threads, Past
  <2>2. c \in orphans
    BY <2>1 DEF IInv, LiveCallsShare, OnOwn
  <2>3. QED
    BY <2>1, <2>2 DEF IInv, LockInv
<1>2. QED
  BY Inductive, <1>1, PTL

\* runner.py:124: only a session that was cancelled at work, or in its cleanup,
\* leaves a connection open.
THEOREM ConnectionsEnd == Spec => []CleanEndCloses
<1>1. IInv => CleanEndCloses
  <2> SUFFICES ASSUME IInv, loop = "over", Undisturbed PROVE open = {}
    BY DEF CleanEndCloses
  <2>1. Unfinished = {}
    BY DEF IInv, LoopInv, Undisturbed
  <2>2. open \cap Calls = {}
    BY <2>1 DEF IInv, OpenInv, Unfinished, Threads, Past
  <2>3. thread["closer"] = "ended"
    BY <2>1 DEF IInv, LoopInv, TypeOK, Undisturbed, Unfinished, Threads, Past, CloserStates
  <2>4. Held \notin open
    BY <2>3 DEF IInv, OpenInv, Undisturbed
  <2>5. QED
    BY <2>2, <2>4 DEF IInv, TypeOK
<1>2. QED
  BY Inductive, <1>1, PTL
===============================================================================
