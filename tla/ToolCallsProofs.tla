---------------------------- MODULE ToolCallsProofs ----------------------------
(***************************************************************************)
(* The safety properties of ToolCalls for every set of calls and requests. *)
(* IInv strengthens them to an inductive invariant: who holds ssh_lock,    *)
(* what a stored decision and a PATCH in progress stand for, where in its  *)
(* life a call can be when its thread, its event or its audit row exist.   *)
(***************************************************************************)
EXTENDS ToolCalls, TLAPS

\* Nobody has reached the runner at these awaits.
BeforeRun == {"new", "saving", "announcing", "locking", "marking", "waiting",
              "granted", "refused", "rejecting"}
\* Nobody has registered at the gate at these.
BeforeGate == {"new", "saving", "announcing", "locking", "marking"}

LockInv ==
  /\ \A c \in Calls : pc[c] \in LockPcs => holder = c
  /\ session = "over" => \A c \in Calls : ~InFlight(c)
  /\ \A c \in past : pc[c] \in FinalPcs

PatchInv ==
  \A p \in Patches :
    /\ patch[p].at \in {"read", "committed"} => patch[p].call \in Calls
    /\ patch[p].at = "committed" =>
         patch[p].call \in IF patch[p].approve THEN approvals ELSE rejections

DecisionInv ==
  \A c \in Calls :
    /\ decisions[c] = "yes" => c \in approvals
    /\ decisions[c] = "no" =>
         \/ c \in rejections
         \/ pc[c] \in FinalPcs
         \/ session \in {"aborted", "failed"} /\ pc[c] = "waiting"
    /\ pc[c] = "granted" => c \in approvals
    /\ pc[c] \in {"refused", "rejecting"} => c \in rejections

GateInv ==
  /\ \A c \in chatCalls : pc[c] = "waiting"
  /\ \A c \in events \cup fired : pc[c] \notin BeforeGate
  /\ \A c \in Calls : pc[c] = "waiting" =>
       /\ c \in events \cup fired
       /\ c \in fired => decisions[c] # "none"
       /\ Live => c \in chatCalls

RunInv ==
  /\ \A c \in Calls :
       /\ pc[c] \in {"new", "saving", "announcing"} => ~auto[c]
       /\ pc[c] \in BeforeRun => thread[c] = "none"
       /\ Live /\ Busy(c) /\ c \notin past => pc[c] = "executing"
  /\ OneAtATime
  /\ OnlyAllowedRun

StatusInv == StatusMatchesGate

IInv ==
  /\ TypeOK
  /\ LockInv
  /\ PatchInv
  /\ DecisionInv
  /\ GateInv
  /\ RunInv
  /\ AuditIsTrue
  /\ StatusInv
-------------------------------------------------------------------------------
\* Every step of the tool, the gate, the handlers and the threads keeps the types.
LEMMA TypeStep == IInv /\ [Next]_vars => TypeOK'
<1> SUFFICES ASSUME IInv, [Next]_vars PROVE TypeOK'
  OBVIOUS
<1> USE DEF IInv, TypeOK, PatchInv, ThreadStates, Goto, Submit, ReleaseIfHeld, At, Live, gateVars, humanVars, sessionVars, LockPcs, EarlyPcs, FinalPcs
<1>1. ASSUME NEW c \in Calls, Screen(c) PROVE TypeOK'
  BY <1>1 DEF Screen
<1>2. ASSUME NEW c \in Calls, SaveToolCall(c) PROVE TypeOK'
  BY <1>2 DEF SaveToolCall
<1>3. ASSUME NEW c \in Calls, Announce(c) PROVE TypeOK'
  BY <1>3 DEF Announce
<1>4. ASSUME NEW c \in Calls, AcquireLock(c) PROVE TypeOK'
  BY <1>4 DEF AcquireLock
<1>5. ASSUME NEW c \in Calls, RequestApproval(c) PROVE TypeOK'
  BY <1>5 DEF RequestApproval
<1>6. ASSUME NEW c \in Calls, Wake(c) PROVE TypeOK'
  BY <1>6 DEF Wake
<1>7. ASSUME NEW c \in Calls, Resume(c) PROVE TypeOK'
  BY <1>7 DEF Resume
<1>8. ASSUME NEW c \in Calls, RecordRejection(c) PROVE TypeOK'
  BY <1>8 DEF RecordRejection, Record
<1>9. ASSUME NEW c \in Calls, RecordResult(c) PROVE TypeOK'
  BY <1>9 DEF RecordResult, Record
<1>10. ASSUME NEW c \in Calls, RecordConnectionError(c) PROVE TypeOK'
  BY <1>10 DEF RecordConnectionError, Record
<1>11. ASSUME NEW c \in Calls, Raises(c) PROVE TypeOK'
  BY <1>11 DEF Raises, MayRaise
<1>12. ASSUME NEW c \in Calls, Cancelled(c) PROVE TypeOK'
  BY <1>12 DEF Cancelled
<1>13. ASSUME NEW c \in Calls, Transmit(c) PROVE TypeOK'
  BY <1>13 DEF Transmit, ThreadStep
<1>14. ASSUME NEW c \in Calls, Finish(c) PROVE TypeOK'
  BY <1>14 DEF Finish, ThreadStep
<1>15. ASSUME NEW p \in Patches, NEW c \in Calls, NEW b \in BOOLEAN, PatchRead(p, c, b) PROVE TypeOK'
  BY <1>15 DEF PatchRead
<1>16. ASSUME NEW p \in Patches, PatchCommit(p) PROVE TypeOK'
  BY <1>16 DEF PatchCommit
<1>17. ASSUME NEW p \in Patches, PatchResolve(p) PROVE TypeOK'
  BY <1>17 DEF PatchResolve
<1>18. CASE AbortChat
  BY <1>18 DEF AbortChat
<1>19. CASE SessionStops
  BY <1>19 DEF SessionStops
<1>20. CASE Restart
  BY <1>20 DEF Restart
<1>21. CASE UNCHANGED vars
  BY <1>21 DEF vars
<1>22. QED
  BY <1>1, <1>2, <1>3, <1>4, <1>5, <1>6, <1>7, <1>8, <1>9, <1>10, <1>11, <1>12, <1>13, <1>14, <1>15, <1>16, <1>17, <1>18, <1>19, <1>20, <1>21 DEF Next, ToolStep

\* ssh_lock is held by the one call that is past its acquisition; no call of an
\* earlier session, and none of a session that is over, is in flight.
LEMMA LockStep == IInv /\ [Next]_vars => LockInv'
<1> SUFFICES ASSUME IInv, [Next]_vars PROVE LockInv'
  OBVIOUS
<1> USE DEF IInv, TypeOK, LockInv, InFlight, Goto, Submit, ReleaseIfHeld, At, Live, gateVars, humanVars, sessionVars, LockPcs, EarlyPcs, FinalPcs
<1>1. ASSUME NEW c \in Calls, Screen(c) PROVE LockInv'
  BY <1>1 DEF Screen
<1>2. ASSUME NEW c \in Calls, SaveToolCall(c) PROVE LockInv'
  BY <1>2 DEF SaveToolCall
<1>3. ASSUME NEW c \in Calls, Announce(c) PROVE LockInv'
  BY <1>3 DEF Announce
<1>4. ASSUME NEW c \in Calls, AcquireLock(c) PROVE LockInv'
  BY <1>4, NoCallIsNoCall DEF AcquireLock
<1>5. ASSUME NEW c \in Calls, RequestApproval(c) PROVE LockInv'
  BY <1>5 DEF RequestApproval
<1>6. ASSUME NEW c \in Calls, Wake(c) PROVE LockInv'
  BY <1>6 DEF Wake
<1>7. ASSUME NEW c \in Calls, Resume(c) PROVE LockInv'
  BY <1>7 DEF Resume
<1>8. ASSUME NEW c \in Calls, RecordRejection(c) PROVE LockInv'
  BY <1>8 DEF RecordRejection, Record
<1>9. ASSUME NEW c \in Calls, RecordResult(c) PROVE LockInv'
  BY <1>9 DEF RecordResult, Record
<1>10. ASSUME NEW c \in Calls, RecordConnectionError(c) PROVE LockInv'
  BY <1>10 DEF RecordConnectionError, Record
<1>11. ASSUME NEW c \in Calls, Raises(c) PROVE LockInv'
  BY <1>11 DEF Raises, MayRaise
<1>12. ASSUME NEW c \in Calls, Cancelled(c) PROVE LockInv'
  BY <1>12 DEF Cancelled
<1>13. ASSUME NEW c \in Calls, Transmit(c) PROVE LockInv'
  BY <1>13 DEF Transmit, ThreadStep
<1>14. ASSUME NEW c \in Calls, Finish(c) PROVE LockInv'
  BY <1>14 DEF Finish, ThreadStep
<1>15. ASSUME NEW p \in Patches, NEW c \in Calls, NEW b \in BOOLEAN, PatchRead(p, c, b) PROVE LockInv'
  BY <1>15 DEF PatchRead
<1>16. ASSUME NEW p \in Patches, PatchCommit(p) PROVE LockInv'
  BY <1>16 DEF PatchCommit
<1>17. ASSUME NEW p \in Patches, PatchResolve(p) PROVE LockInv'
  BY <1>17 DEF PatchResolve
<1>18. CASE AbortChat
  BY <1>18 DEF AbortChat
<1>19. CASE SessionStops
  BY <1>19 DEF SessionStops
<1>20. CASE Restart
  BY <1>20 DEF Restart
<1>21. CASE UNCHANGED vars
  BY <1>21 DEF vars
<1>22. QED
  BY <1>1, <1>2, <1>3, <1>4, <1>5, <1>6, <1>7, <1>8, <1>9, <1>10, <1>11, <1>12, <1>13, <1>14, <1>15, <1>16, <1>17, <1>18, <1>19, <1>20, <1>21 DEF Next, ToolStep

\* A PATCH that committed left its answer in the history.
LEMMA PatchStep == IInv /\ [Next]_vars => PatchInv'
<1> SUFFICES ASSUME IInv, [Next]_vars PROVE PatchInv'
  OBVIOUS
<1> USE DEF IInv, TypeOK, PatchInv, Goto, Submit, ReleaseIfHeld, At, Live, gateVars, humanVars, sessionVars
<1>1. ASSUME NEW c \in Calls, Screen(c) PROVE PatchInv'
  BY <1>1 DEF Screen
<1>2. ASSUME NEW c \in Calls, SaveToolCall(c) PROVE PatchInv'
  BY <1>2 DEF SaveToolCall
<1>3. ASSUME NEW c \in Calls, Announce(c) PROVE PatchInv'
  BY <1>3 DEF Announce
<1>4. ASSUME NEW c \in Calls, AcquireLock(c) PROVE PatchInv'
  BY <1>4 DEF AcquireLock
<1>5. ASSUME NEW c \in Calls, RequestApproval(c) PROVE PatchInv'
  BY <1>5 DEF RequestApproval
<1>6. ASSUME NEW c \in Calls, Wake(c) PROVE PatchInv'
  BY <1>6 DEF Wake
<1>7. ASSUME NEW c \in Calls, Resume(c) PROVE PatchInv'
  BY <1>7 DEF Resume
<1>8. ASSUME NEW c \in Calls, RecordRejection(c) PROVE PatchInv'
  BY <1>8 DEF RecordRejection, Record
<1>9. ASSUME NEW c \in Calls, RecordResult(c) PROVE PatchInv'
  BY <1>9 DEF RecordResult, Record
<1>10. ASSUME NEW c \in Calls, RecordConnectionError(c) PROVE PatchInv'
  BY <1>10 DEF RecordConnectionError, Record
<1>11. ASSUME NEW c \in Calls, Raises(c) PROVE PatchInv'
  BY <1>11 DEF Raises, MayRaise
<1>12. ASSUME NEW c \in Calls, Cancelled(c) PROVE PatchInv'
  BY <1>12 DEF Cancelled
<1>13. ASSUME NEW c \in Calls, Transmit(c) PROVE PatchInv'
  BY <1>13 DEF Transmit, ThreadStep
<1>14. ASSUME NEW c \in Calls, Finish(c) PROVE PatchInv'
  BY <1>14 DEF Finish, ThreadStep
<1>15. ASSUME NEW p \in Patches, NEW c \in Calls, NEW b \in BOOLEAN, PatchRead(p, c, b) PROVE PatchInv'
  BY <1>15 DEF PatchRead
<1>16. ASSUME NEW p \in Patches, PatchCommit(p) PROVE PatchInv'
  BY <1>16 DEF PatchCommit
<1>17. ASSUME NEW p \in Patches, PatchResolve(p) PROVE PatchInv'
  BY <1>17 DEF PatchResolve
<1>18. CASE AbortChat
  BY <1>18 DEF AbortChat
<1>19. CASE SessionStops
  BY <1>19 DEF SessionStops
<1>20. CASE Restart
  BY <1>20 DEF Restart
<1>21. CASE UNCHANGED vars
  BY <1>21 DEF vars
<1>22. QED
  BY <1>1, <1>2, <1>3, <1>4, <1>5, <1>6, <1>7, <1>8, <1>9, <1>10, <1>11, <1>12, <1>13, <1>14, <1>15, <1>16, <1>17, <1>18, <1>19, <1>20, <1>21 DEF Next, ToolStep

\* A decision, and the await it led to, stands for a committed answer or for the
\* abort of a session that unwinds.
LEMMA DecisionStep == IInv /\ [Next]_vars => DecisionInv'
<1> SUFFICES ASSUME IInv, [Next]_vars PROVE DecisionInv'
  OBVIOUS
<1> USE DEF IInv, TypeOK, LockInv, PatchInv, DecisionInv, GateInv, InFlight, BeforeGate, Goto, Submit, ReleaseIfHeld, At, Live, gateVars, humanVars, sessionVars, LockPcs, EarlyPcs, FinalPcs
<1>1. ASSUME NEW c \in Calls, Screen(c) PROVE DecisionInv'
  BY <1>1 DEF Screen
<1>2. ASSUME NEW c \in Calls, SaveToolCall(c) PROVE DecisionInv'
  BY <1>2 DEF SaveToolCall
<1>3. ASSUME NEW c \in Calls, Announce(c) PROVE DecisionInv'
  BY <1>3 DEF Announce
<1>4. ASSUME NEW c \in Calls, AcquireLock(c) PROVE DecisionInv'
  BY <1>4 DEF AcquireLock
<1>5. ASSUME NEW c \in Calls, RequestApproval(c) PROVE DecisionInv'
  BY <1>5 DEF RequestApproval
<1>6. ASSUME NEW c \in Calls, Wake(c) PROVE DecisionInv'
  BY <1>6 DEF Wake
<1>7. ASSUME NEW c \in Calls, Resume(c) PROVE DecisionInv'
  BY <1>7 DEF Resume
<1>8. ASSUME NEW c \in Calls, RecordRejection(c) PROVE DecisionInv'
  BY <1>8 DEF RecordRejection, Record
<1>9. ASSUME NEW c \in Calls, RecordResult(c) PROVE DecisionInv'
  BY <1>9 DEF RecordResult, Record
<1>10. ASSUME NEW c \in Calls, RecordConnectionError(c) PROVE DecisionInv'
  BY <1>10 DEF RecordConnectionError, Record
<1>11. ASSUME NEW c \in Calls, Raises(c) PROVE DecisionInv'
  BY <1>11 DEF Raises, MayRaise
<1>12. ASSUME NEW c \in Calls, Cancelled(c) PROVE DecisionInv'
  BY <1>12 DEF Cancelled
<1>13. ASSUME NEW c \in Calls, Transmit(c) PROVE DecisionInv'
  BY <1>13 DEF Transmit, ThreadStep
<1>14. ASSUME NEW c \in Calls, Finish(c) PROVE DecisionInv'
  BY <1>14 DEF Finish, ThreadStep
<1>15. ASSUME NEW p \in Patches, NEW c \in Calls, NEW b \in BOOLEAN, PatchRead(p, c, b) PROVE DecisionInv'
  BY <1>15 DEF PatchRead
<1>16. ASSUME NEW p \in Patches, PatchCommit(p) PROVE DecisionInv'
  BY <1>16 DEF PatchCommit
<1>17. ASSUME NEW p \in Patches, PatchResolve(p) PROVE DecisionInv'
  BY <1>17 DEF PatchResolve
<1>18. CASE AbortChat
  BY <1>18 DEF AbortChat
<1>19. CASE SessionStops
  BY <1>19 DEF SessionStops
<1>20. CASE Restart
  BY <1>20 DEF Restart
<1>21. CASE UNCHANGED vars
  BY <1>21 DEF vars
<1>22. QED
  BY <1>1, <1>2, <1>3, <1>4, <1>5, <1>6, <1>7, <1>8, <1>9, <1>10, <1>11, <1>12, <1>13, <1>14, <1>15, <1>16, <1>17, <1>18, <1>19, <1>20, <1>21 DEF Next, ToolStep

\* Whoever waits at the gate has an event, and a decision once it is set.
LEMMA GateStep == IInv /\ [Next]_vars => GateInv'
<1> SUFFICES ASSUME IInv, [Next]_vars PROVE GateInv'
  OBVIOUS
<1> USE DEF IInv, TypeOK, LockInv, PatchInv, GateInv, InFlight, BeforeGate, Goto, Submit, ReleaseIfHeld, At, Live, gateVars, humanVars, sessionVars, LockPcs, EarlyPcs, FinalPcs
<1>1. ASSUME NEW c \in Calls, Screen(c) PROVE GateInv'
  BY <1>1 DEF Screen
<1>2. ASSUME NEW c \in Calls, SaveToolCall(c) PROVE GateInv'
  BY <1>2 DEF SaveToolCall
<1>3. ASSUME NEW c \in Calls, Announce(c) PROVE GateInv'
  BY <1>3 DEF Announce
<1>4. ASSUME NEW c \in Calls, AcquireLock(c) PROVE GateInv'
  BY <1>4 DEF AcquireLock
<1>5. ASSUME NEW c \in Calls, RequestApproval(c) PROVE GateInv'
  BY <1>5 DEF RequestApproval
<1>6. ASSUME NEW c \in Calls, Wake(c) PROVE GateInv'
  BY <1>6 DEF Wake
<1>7. ASSUME NEW c \in Calls, Resume(c) PROVE GateInv'
  BY <1>7 DEF Resume
<1>8. ASSUME NEW c \in Calls, RecordRejection(c) PROVE GateInv'
  BY <1>8 DEF RecordRejection, Record
<1>9. ASSUME NEW c \in Calls, RecordResult(c) PROVE GateInv'
  BY <1>9 DEF RecordResult, Record
<1>10. ASSUME NEW c \in Calls, RecordConnectionError(c) PROVE GateInv'
  BY <1>10 DEF RecordConnectionError, Record
<1>11. ASSUME NEW c \in Calls, Raises(c) PROVE GateInv'
  BY <1>11 DEF Raises, MayRaise
<1>12. ASSUME NEW c \in Calls, Cancelled(c) PROVE GateInv'
  BY <1>12 DEF Cancelled
<1>13. ASSUME NEW c \in Calls, Transmit(c) PROVE GateInv'
  BY <1>13 DEF Transmit, ThreadStep
<1>14. ASSUME NEW c \in Calls, Finish(c) PROVE GateInv'
  BY <1>14 DEF Finish, ThreadStep
<1>15. ASSUME NEW p \in Patches, NEW c \in Calls, NEW b \in BOOLEAN, PatchRead(p, c, b) PROVE GateInv'
  BY <1>15 DEF PatchRead
<1>16. ASSUME NEW p \in Patches, PatchCommit(p) PROVE GateInv'
  BY <1>16 DEF PatchCommit
<1>17. ASSUME NEW p \in Patches, PatchResolve(p) PROVE GateInv'
  BY <1>17 DEF PatchResolve
<1>18. CASE AbortChat
  BY <1>18 DEF AbortChat
<1>19. CASE SessionStops
  BY <1>19 DEF SessionStops
<1>20. CASE Restart
  BY <1>20 DEF Restart
<1>21. CASE UNCHANGED vars
  BY <1>21 DEF vars
<1>22. QED
  BY <1>1, <1>2, <1>3, <1>4, <1>5, <1>6, <1>7, <1>8, <1>9, <1>10, <1>11, <1>12, <1>13, <1>14, <1>15, <1>16, <1>17, <1>18, <1>19, <1>20, <1>21 DEF Next, ToolStep

\* Only allowed calls reach the runner, one at a time.
LEMMA RunStep == IInv /\ [Next]_vars => RunInv'
<1> SUFFICES ASSUME IInv, [Next]_vars PROVE RunInv'
  OBVIOUS
<1> USE DEF IInv, TypeOK, LockInv, DecisionInv, GateInv, RunInv, OneAtATime, OnlyAllowedRun, InFlight, Busy, BeforeRun, Goto, Submit, ReleaseIfHeld, At, Live, gateVars, humanVars, sessionVars, LockPcs, EarlyPcs, FinalPcs
<1>1. ASSUME NEW c \in Calls, Screen(c) PROVE RunInv'
  BY <1>1 DEF Screen
<1>2. ASSUME NEW c \in Calls, SaveToolCall(c) PROVE RunInv'
  BY <1>2 DEF SaveToolCall
<1>3. ASSUME NEW c \in Calls, Announce(c) PROVE RunInv'
  BY <1>3 DEF Announce
<1>4. ASSUME NEW c \in Calls, AcquireLock(c) PROVE RunInv'
  BY <1>4, NoCallIsNoCall DEF AcquireLock
<1>5. ASSUME NEW c \in Calls, RequestApproval(c) PROVE RunInv'
  BY <1>5 DEF RequestApproval
<1>6. ASSUME NEW c \in Calls, Wake(c) PROVE RunInv'
  BY <1>6 DEF Wake
<1>7. ASSUME NEW c \in Calls, Resume(c) PROVE RunInv'
  BY <1>7 DEF Resume
<1>8. ASSUME NEW c \in Calls, RecordRejection(c) PROVE RunInv'
  BY <1>8 DEF RecordRejection, Record
<1>9. ASSUME NEW c \in Calls, RecordResult(c) PROVE RunInv'
  BY <1>9 DEF RecordResult, Record
<1>10. ASSUME NEW c \in Calls, RecordConnectionError(c) PROVE RunInv'
  BY <1>10 DEF RecordConnectionError, Record
<1>11. ASSUME NEW c \in Calls, Raises(c) PROVE RunInv'
  BY <1>11 DEF Raises, MayRaise
<1>12. ASSUME NEW c \in Calls, Cancelled(c) PROVE RunInv'
  BY <1>12 DEF Cancelled
<1>13. ASSUME NEW c \in Calls, Transmit(c) PROVE RunInv'
  BY <1>13 DEF Transmit, ThreadStep
<1>14. ASSUME NEW c \in Calls, Finish(c) PROVE RunInv'
  BY <1>14 DEF Finish, ThreadStep
<1>15. ASSUME NEW p \in Patches, NEW c \in Calls, NEW b \in BOOLEAN, PatchRead(p, c, b) PROVE RunInv'
  BY <1>15 DEF PatchRead
<1>16. ASSUME NEW p \in Patches, PatchCommit(p) PROVE RunInv'
  BY <1>16 DEF PatchCommit
<1>17. ASSUME NEW p \in Patches, PatchResolve(p) PROVE RunInv'
  BY <1>17 DEF PatchResolve
<1>18. CASE AbortChat
  BY <1>18 DEF AbortChat
<1>19. CASE SessionStops
  BY <1>19 DEF SessionStops
<1>20. CASE Restart
  BY <1>20 DEF Restart
<1>21. CASE UNCHANGED vars
  BY <1>21 DEF vars
<1>22. QED
  BY <1>1, <1>2, <1>3, <1>4, <1>5, <1>6, <1>7, <1>8, <1>9, <1>10, <1>11, <1>12, <1>13, <1>14, <1>15, <1>16, <1>17, <1>18, <1>19, <1>20, <1>21 DEF Next, ToolStep

\* The audit rows stay true.
LEMMA AuditStep == IInv /\ [Next]_vars => AuditIsTrue'
<1> SUFFICES ASSUME IInv, [Next]_vars PROVE AuditIsTrue'
  OBVIOUS
<1> USE DEF IInv, TypeOK, LockInv, DecisionInv, RunInv, AuditIsTrue, InFlight, Busy, BeforeRun, Goto, Submit, ReleaseIfHeld, At, Live, gateVars, humanVars, sessionVars, LockPcs, EarlyPcs, FinalPcs
<1>1. ASSUME NEW c \in Calls, Screen(c) PROVE AuditIsTrue'
  BY <1>1 DEF Screen
<1>2. ASSUME NEW c \in Calls, SaveToolCall(c) PROVE AuditIsTrue'
  BY <1>2 DEF SaveToolCall
<1>3. ASSUME NEW c \in Calls, Announce(c) PROVE AuditIsTrue'
  BY <1>3 DEF Announce
<1>4. ASSUME NEW c \in Calls, AcquireLock(c) PROVE AuditIsTrue'
  BY <1>4 DEF AcquireLock
<1>5. ASSUME NEW c \in Calls, RequestApproval(c) PROVE AuditIsTrue'
  BY <1>5 DEF RequestApproval
<1>6. ASSUME NEW c \in Calls, Wake(c) PROVE AuditIsTrue'
  BY <1>6 DEF Wake
<1>7. ASSUME NEW c \in Calls, Resume(c) PROVE AuditIsTrue'
  BY <1>7 DEF Resume
<1>8. ASSUME NEW c \in Calls, RecordRejection(c) PROVE AuditIsTrue'
  BY <1>8 DEF RecordRejection, Record
<1>9. ASSUME NEW c \in Calls, RecordResult(c) PROVE AuditIsTrue'
  BY <1>9 DEF RecordResult, Record
<1>10. ASSUME NEW c \in Calls, RecordConnectionError(c) PROVE AuditIsTrue'
  BY <1>10 DEF RecordConnectionError, Record
<1>11. ASSUME NEW c \in Calls, Raises(c) PROVE AuditIsTrue'
  BY <1>11 DEF Raises, MayRaise
<1>12. ASSUME NEW c \in Calls, Cancelled(c) PROVE AuditIsTrue'
  BY <1>12 DEF Cancelled
<1>13. ASSUME NEW c \in Calls, Transmit(c) PROVE AuditIsTrue'
  BY <1>13 DEF Transmit, ThreadStep
<1>14. ASSUME NEW c \in Calls, Finish(c) PROVE AuditIsTrue'
  BY <1>14 DEF Finish, ThreadStep
<1>15. ASSUME NEW p \in Patches, NEW c \in Calls, NEW b \in BOOLEAN, PatchRead(p, c, b) PROVE AuditIsTrue'
  BY <1>15 DEF PatchRead
<1>16. ASSUME NEW p \in Patches, PatchCommit(p) PROVE AuditIsTrue'
  BY <1>16 DEF PatchCommit
<1>17. ASSUME NEW p \in Patches, PatchResolve(p) PROVE AuditIsTrue'
  BY <1>17 DEF PatchResolve
<1>18. CASE AbortChat
  BY <1>18 DEF AbortChat
<1>19. CASE SessionStops
  BY <1>19 DEF SessionStops
<1>20. CASE Restart
  BY <1>20 DEF Restart
<1>21. CASE UNCHANGED vars
  BY <1>21 DEF vars
<1>22. QED
  BY <1>1, <1>2, <1>3, <1>4, <1>5, <1>6, <1>7, <1>8, <1>9, <1>10, <1>11, <1>12, <1>13, <1>14, <1>15, <1>16, <1>17, <1>18, <1>19, <1>20, <1>21 DEF Next, ToolStep

\* Chat.status follows the call at the gate.
LEMMA StatusStep == IInv /\ [Next]_vars => StatusInv'
<1> SUFFICES ASSUME IInv, [Next]_vars PROVE StatusInv'
  OBVIOUS
<1> USE DEF IInv, TypeOK, LockInv, StatusInv, StatusMatchesGate, InFlight, Goto, Submit, ReleaseIfHeld, At, Live, gateVars, humanVars, sessionVars, LockPcs, EarlyPcs, FinalPcs
<1>1. ASSUME NEW c \in Calls, Screen(c) PROVE StatusInv'
  BY <1>1 DEF Screen
<1>2. ASSUME NEW c \in Calls, SaveToolCall(c) PROVE StatusInv'
  BY <1>2 DEF SaveToolCall
<1>3. ASSUME NEW c \in Calls, Announce(c) PROVE StatusInv'
  BY <1>3 DEF Announce
<1>4. ASSUME NEW c \in Calls, AcquireLock(c) PROVE StatusInv'
  BY <1>4 DEF AcquireLock
<1>5. ASSUME NEW c \in Calls, RequestApproval(c) PROVE StatusInv'
  BY <1>5 DEF RequestApproval
<1>6. ASSUME NEW c \in Calls, Wake(c) PROVE StatusInv'
  BY <1>6 DEF Wake
<1>7. ASSUME NEW c \in Calls, Resume(c) PROVE StatusInv'
  BY <1>7 DEF Resume
<1>8. ASSUME NEW c \in Calls, RecordRejection(c) PROVE StatusInv'
  BY <1>8 DEF RecordRejection, Record
<1>9. ASSUME NEW c \in Calls, RecordResult(c) PROVE StatusInv'
  BY <1>9 DEF RecordResult, Record
<1>10. ASSUME NEW c \in Calls, RecordConnectionError(c) PROVE StatusInv'
  BY <1>10 DEF RecordConnectionError, Record
<1>11. ASSUME NEW c \in Calls, Raises(c) PROVE StatusInv'
  BY <1>11 DEF Raises, MayRaise
<1>12. ASSUME NEW c \in Calls, Cancelled(c) PROVE StatusInv'
  BY <1>12 DEF Cancelled
<1>13. ASSUME NEW c \in Calls, Transmit(c) PROVE StatusInv'
  BY <1>13 DEF Transmit, ThreadStep
<1>14. ASSUME NEW c \in Calls, Finish(c) PROVE StatusInv'
  BY <1>14 DEF Finish, ThreadStep
<1>15. ASSUME NEW p \in Patches, NEW c \in Calls, NEW b \in BOOLEAN, PatchRead(p, c, b) PROVE StatusInv'
  BY <1>15 DEF PatchRead
<1>16. ASSUME NEW p \in Patches, PatchCommit(p) PROVE StatusInv'
  BY <1>16 DEF PatchCommit
<1>17. ASSUME NEW p \in Patches, PatchResolve(p) PROVE StatusInv'
  BY <1>17 DEF PatchResolve
<1>18. CASE AbortChat
  BY <1>18 DEF AbortChat
<1>19. CASE SessionStops
  BY <1>19 DEF SessionStops
<1>20. CASE Restart
  BY <1>20 DEF Restart
<1>21. CASE UNCHANGED vars
  BY <1>21 DEF vars
<1>22. QED
  BY <1>1, <1>2, <1>3, <1>4, <1>5, <1>6, <1>7, <1>8, <1>9, <1>10, <1>11, <1>12, <1>13, <1>14, <1>15, <1>16, <1>17, <1>18, <1>19, <1>20, <1>21 DEF Next, ToolStep

-------------------------------------------------------------------------------
\* IInv holds of every behaviour of run_ssh_command and its environment.
THEOREM Inductive == Spec => []IInv
<1>1. Init => IInv
  BY NoCallIsNoCall DEF Init, IInv, TypeOK, ThreadStates, LockInv, PatchInv, DecisionInv, GateInv, RunInv,
     AuditIsTrue, StatusInv, StatusMatchesGate, OneAtATime, OnlyAllowedRun,
     InFlight, Busy, Live, LockPcs, EarlyPcs, FinalPcs, BeforeRun, BeforeGate
<1>2. IInv /\ [Next]_vars => IInv'
  BY TypeStep, LockStep, PatchStep, DecisionStep, GateStep, RunStep, AuditStep,
     StatusStep DEF IInv
<1>3. QED
  BY <1>1, <1>2, PTL DEF Spec

\* Rows, decisions, requests and sessions only take the values the code gives them.
THEOREM TypeCorrect == Spec => []TypeOK
<1>1. IInv => TypeOK
  BY DEF IInv
<1>2. QED
  BY Inductive, <1>1, PTL

\* No command reaches the runner that neither the whitelist nor a technician let
\* through, for any number of calls, requests, aborts and restarts.
THEOREM AllowedBeforeRun == Spec => []OnlyAllowedRun
<1>1. IInv => OnlyAllowedRun
  BY DEF IInv, RunInv
<1>2. QED
  BY Inductive, <1>1, PTL

\* ssh_lock serialises the commands of a session, cancelled calls included.
THEOREM SerialInSession == Spec => []OneAtATime
<1>1. IInv => OneAtATime
  BY DEF IInv, RunInv
<1>2. QED
  BY Inductive, <1>1, PTL

\* An audit row never claims a result that was not read nor a rejection nobody made.
THEOREM AuditTruth == Spec => []AuditIsTrue
<1>1. IInv => AuditIsTrue
  BY DEF IInv
<1>2. QED
  BY Inductive, <1>1, PTL

\* A call that waits at the gate can always be released, by an answer or an abort.
THEOREM WaiterReleasable == Spec => []GateReleases
<1>1. IInv => GateReleases
  BY DEF IInv, GateInv, GateReleases, At
<1>2. QED
  BY Inductive, <1>1, PTL

\* The status the user interface shows is the state of the gate.
THEOREM StatusIsGate == Spec => []StatusMatchesGate
<1>1. IInv => StatusMatchesGate
  BY DEF IInv, StatusInv
<1>2. QED
  BY Inductive, <1>1, PTL

-------------------------------------------------------------------------------
(* Refinement.  Under IInv every step allows one more call, sends one, lets one
   return, closes or reopens the session, or changes nothing the promise sees. *)

Allowed == {c \in Calls : auto[c]} \cup approvals
Sent == {c \in Calls : thread[c] # "none"}
Running == {c \in Calls \ past : Busy(c)}

\* Handing a command to a thread is a Send: nothing of the session is running.
LEMMA SubmitSends ==
  ASSUME IInv, NEW c \in Calls, Live, c \in Allowed, thread[c] = "none",
         pc[c] \in {"locking", "granted"}, holder \in {c, NoCall},
         Submit(c), UNCHANGED <<auto, approvals, session, past>>
  PROVE  Promise!Send(c)
<1> USE DEF IInv, Busy, Live
<1>1. c \notin past
  BY DEF LockInv, FinalPcs
<1>2. Running = {}
  <2>1. \A d \in Running : pc[d] = "executing"
    BY DEF Running, RunInv
  <2>2. \A d \in Running : holder = d /\ d # c
    BY <2>1 DEF Running, LockInv, LockPcs
  <2>3. QED
    BY <2>2, NoCallIsNoCall DEF Running
<1>3. thread' = [thread EXCEPT ![c] = "submitted"] /\ thread \in [Calls -> ThreadStates]
  BY DEF Submit, TypeOK
<1>4. Sent' = Sent \cup {c}
  BY <1>3 DEF Sent
<1>5. Running' = {c}
  <2>1. Running' = {d \in Calls \ past : thread'[d] \in {"submitted", "onVM"}}
    BY DEF Running
  <2>2. \A d \in Calls \ past : d # c => thread'[d] \notin {"submitted", "onVM"}
    BY <1>2, <1>3 DEF Running
  <2>3. QED
    BY <1>1, <1>3, <2>1, <2>2
<1>6. Allowed' = Allowed
  BY DEF Allowed
<1>7. QED
  BY <1>2, <1>4, <1>5, <1>6 DEF Promise!Send, Allowed, Sent, Running

\* A step that leaves threads, permissions and the session alone is a stutter.
LEMMA Unseen ==
  ASSUME UNCHANGED <<auto, approvals, thread, session, past>>
  PROVE  UNCHANGED Promise!vars
BY DEF Promise!vars, Busy, Live

\* Letting one more call through is an Allow.
LEMMA Allowing ==
  ASSUME NEW c \in Calls, Allowed' = Allowed \cup {c},
         UNCHANGED <<thread, session, past>>
  PROVE  Promise!Allow(c)
BY DEF Promise!Allow, Allowed, Busy, Live

\* A thread that moves on without being submitted returns, or stays where it was.
LEMMA Returning ==
  ASSUME TypeOK, NEW c \in Calls, thread[c] \in {"submitted", "onVM"},
         NEW t \in {"onVM", "unreachable", "ok", "lost", "broke", "dropped"},
         thread' = [thread EXCEPT ![c] = t],
         UNCHANGED <<auto, approvals, session, past>>
  PROVE  [Promise!Next]_(Promise!vars)
<1>1. thread \in [Calls -> ThreadStates]
  BY DEF TypeOK
<1>2. Sent' = Sent
  BY <1>1 DEF Sent
<1>3. Allowed' = Allowed /\ Live' = Live
  BY DEF Allowed, Live
<1>4. CASE t = "onVM"
  <2>1. Running' = Running
    BY <1>1, <1>4 DEF Running, Busy
  <2>2. QED
    BY <1>2, <1>3, <2>1 DEF Promise!vars, Sent, Allowed, Running
<1>5. CASE t # "onVM"
  <2>1. Running' = Running \ {c}
    BY <1>1, <1>5 DEF Running, Busy
  <2>2. Promise!Return(c)
    BY <1>2, <1>3, <2>1 DEF Promise!Return, Sent, Allowed, Running
  <2>3. QED
    BY <2>2 DEF Promise!Next
<1>6. QED
  BY <1>4, <1>5

\* The end of a session closes the promise; once closed it stays so.
LEMMA Closing ==
  ASSUME ~Live', UNCHANGED <<auto, approvals, thread, past>>
  PROVE  [Promise!Next]_(Promise!vars)
BY DEF Promise!Next, Promise!Close, Live, Busy

\* run_ssh_command, the gate, the handlers and the runner keep the promise of
\* HumanInTheLoop, whatever the numbers of calls and requests.
THEOREM Refinement == Spec => Implements
<1>1. Init => Promise!Init
  BY DEF Init, Promise!Init, Busy, Live
<1>2. IInv /\ [Next]_vars => [Promise!Next]_(Promise!vars)
  <2> SUFFICES ASSUME IInv, [Next]_vars PROVE [Promise!Next]_(Promise!vars)
    OBVIOUS
  <2> USE DEF gateVars, humanVars, sessionVars
  <2>1. ASSUME NEW c \in Calls, \/ Screen(c) \/ SaveToolCall(c) \/ RequestApproval(c) \/ Wake(c)
                                \/ RecordRejection(c) \/ RecordResult(c)
                                \/ RecordConnectionError(c)
        PROVE  [Promise!Next]_(Promise!vars)
    BY <2>1, Unseen DEF Screen, SaveToolCall, RequestApproval, Wake,
       RecordRejection, RecordResult, RecordConnectionError, Record
  <2>2. ASSUME NEW c \in Calls, Announce(c) PROVE [Promise!Next]_(Promise!vars)
    <3>1. ~auto[c] /\ auto \in [Calls -> BOOLEAN]
      BY <2>2 DEF Announce, At, IInv, RunInv, TypeOK
    <3>2. PICK b \in BOOLEAN : auto' = [auto EXCEPT ![c] = b]
      BY <2>2 DEF Announce
    <3>3. CASE b
      <4>1. Allowed' = Allowed \cup {c}
        BY <2>2, <3>1, <3>2, <3>3 DEF Announce, Allowed
      <4>2. QED
        BY <2>2, <4>1, Allowing DEF Announce, Promise!Next
    <3>4. CASE ~b
      <4>1. auto' = auto
        BY <3>1, <3>2, <3>4
      <4>2. QED
        BY <2>2, <4>1, Unseen DEF Announce
    <3>5. QED
      BY <3>3, <3>4
  <2>3. ASSUME NEW c \in Calls, AcquireLock(c) PROVE [Promise!Next]_(Promise!vars)
    <3>1. CASE ~auto[c]
      BY <2>3, <3>1, Unseen DEF AcquireLock
    <3>2. CASE auto[c]
      <4>1. thread[c] = "none"
        BY <2>3 DEF AcquireLock, At, IInv, RunInv, BeforeRun
      <4>2. Promise!Send(c)
        BY <2>3, <3>2, <4>1, SubmitSends DEF AcquireLock, At, Allowed
      <4>3. QED
        BY <4>2 DEF Promise!Next
    <3>3. QED
      BY <3>1, <3>2
  <2>4. ASSUME NEW c \in Calls, Resume(c) PROVE [Promise!Next]_(Promise!vars)
    <3>1. CASE At(c, "refused")
      BY <2>4, <3>1, Unseen DEF Resume, At
    <3>2. CASE At(c, "granted")
      <4>1. thread[c] = "none" /\ c \in Allowed /\ holder = c
        BY <3>2 DEF At, IInv, RunInv, BeforeRun, DecisionInv, LockInv, LockPcs, Allowed
      <4>2. Submit(c)
        BY <2>4, <3>2 DEF Resume, At
      <4>3. Promise!Send(c)
        BY <2>4, <3>2, <4>1, <4>2, SubmitSends DEF Resume, At
      <4>4. QED
        BY <4>3 DEF Promise!Next
    <3>3. QED
      BY <2>4, <3>1, <3>2 DEF Resume
  <2>5. ASSUME NEW c \in Calls, Raises(c) PROVE [Promise!Next]_(Promise!vars)
    BY <2>5, Closing DEF Raises, Live
  <2>6. ASSUME NEW c \in Calls, Cancelled(c) PROVE [Promise!Next]_(Promise!vars)
    <3>1. CASE UNCHANGED thread
      BY <2>6, <3>1, Unseen DEF Cancelled
    <3>2. CASE thread[c] = "submitted" /\ thread' = [thread EXCEPT ![c] = "dropped"]
      BY <2>6, <3>2, Returning DEF Cancelled, IInv
    <3>3. QED
      BY <2>6, <3>1, <3>2 DEF Cancelled
  <2>7. ASSUME NEW c \in Calls, Transmit(c) \/ Finish(c) PROVE [Promise!Next]_(Promise!vars)
    BY <2>7, Returning DEF Transmit, Finish, ThreadStep, IInv
  <2>8. ASSUME NEW p \in Patches,
               (\E c \in Calls, b \in BOOLEAN : PatchRead(p, c, b)) \/ PatchResolve(p)
        PROVE  [Promise!Next]_(Promise!vars)
    BY <2>8, Unseen DEF PatchRead, PatchResolve
  <2>9. ASSUME NEW p \in Patches, PatchCommit(p) PROVE [Promise!Next]_(Promise!vars)
    <3>1. CASE patch[p].approve
      <4>1. patch[p].call \in Calls /\ approvals' = approvals \cup {patch[p].call}
        BY <2>9, <3>1 DEF PatchCommit, IInv, PatchInv
      <4>2. Allowed' = Allowed \cup {patch[p].call}
        BY <2>9, <4>1 DEF PatchCommit, Allowed
      <4>3. QED
        BY <2>9, <4>1, <4>2, Allowing DEF PatchCommit, Promise!Next
    <3>2. CASE ~patch[p].approve
      BY <2>9, <3>2, Unseen DEF PatchCommit
    <3>3. QED
      BY <3>1, <3>2
  <2>10. CASE AbortChat \/ SessionStops
    BY <2>10, Closing DEF AbortChat, SessionStops, Live
  <2>11. CASE Restart
    <3>1. ~Live /\ Live'
      BY <2>11 DEF Restart, Live
    <3>2. Running' = {}
      <4>1. \A c \in Calls : Busy(c) => pc[c] # "new"
        BY DEF IInv, RunInv, BeforeRun, Busy
      <4>2. QED
        BY <2>11, <4>1 DEF Restart, Running, Busy
    <3>3. QED
      BY <2>11, <3>1, <3>2 DEF Restart, Promise!Next, Promise!Reopen, Running
  <2>12. CASE UNCHANGED vars
    BY <2>12, Unseen DEF vars
  <2>13. QED
    BY <2>1, <2>2, <2>3, <2>4, <2>5, <2>6, <2>7, <2>8, <2>9, <2>10, <2>11, <2>12
       DEF Next, ToolStep
<1>3. QED
  BY Inductive, <1>1, <1>2, PTL DEF Implements, Promise!Spec, Spec

===============================================================================
