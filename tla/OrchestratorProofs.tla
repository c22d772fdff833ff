-------------------------- MODULE OrchestratorProofs --------------------------
(***************************************************************************)
(* Who waits for whom in the handover between agent loops, and what an     *)
(* idle chat has reported, for every number of messages, aborts and        *)
(* restarts of the server.                                                 *)
(***************************************************************************)
EXTENDS Orchestrator, TLAPS

\* Where the dispatcher of a start is tells what its loop can be.
DispInv ==
  /\ \A s \in Starts :
       /\ disp[s] \in {"none", "scheduled"} => old[s] = NoStart
       /\ disp[s] \in {"none", "scheduled", "handover"} => loop[s] = "none"
       /\ disp[s] = "serving" => loop[s] # "none"
       /\ disp[s] = "handover" => old[s] \in Starts /\ disp[old[s]] = "serving"
  /\ \A m \in Messages : post[m].at \in {"new", "read"} => disp[m] = "none"

HandoverInv ==
  /\ DispInv
  /\ LoopsAreAwaited
  /\ HandoverIsPrivate
  /\ ReplacedLoopIsOver

\* What a loop has done when it is about to report or to go idle.
ReportInv ==
  /\ IdleIsReported
  /\ \A s \in Starts :
       /\ loop[s] = "closing" => reported
       /\ loop[s] = "finishing" => ticket = "done"

\* Where an input is.  A message that was not accepted is nowhere; one that was
\* queued is in one queue, then with the one loop that took it, then heard; one
\* that restarts the chat belongs to its own start until it is heard.
UnacceptedIsNowhere ==
  /\ disp[First] # "none"
  /\ \A m \in Messages : disp[m] # "none" <=> post[m].at = "restarted"
  /\ heard \subseteq Accepted
QueuedOnce ==
  /\ \A s \in Starts : loop[s] = "none" => queue[s] = <<>> /\ current[s] = s
  /\ \A s \in Starts : \A i \in DOMAIN queue[s] :
       /\ post[queue[s][i]].at = "queued"
       /\ queue[s][i] \notin heard
       /\ \A t \in Starts : current[t] = queue[s][i] => t = queue[s][i]
  /\ \A s, t \in Starts : \A i \in DOMAIN queue[s], j \in DOMAIN queue[t] :
       queue[s][i] = queue[t][j] => s = t /\ i = j
TakenOnce ==
  /\ \A s \in Starts :
       current[s] # s => current[s] \in Messages /\ post[current[s]].at = "queued"
  /\ \A s, t \in Starts : current[s] = current[t] => s = t \/ current[s] \in {s, t}
UnheardIsAhead ==
  \A s \in Starts :
    /\ disp[s] \in {"scheduled", "handover"} => s \notin heard
    /\ loop[s] \in Ahead => current[s] \notin heard
DeliveryInv == UnacceptedIsNowhere /\ QueuedOnce /\ TakenOnce /\ UnheardIsAhead

IInv == TypeOK /\ HandoverInv /\ ReportInv /\ DeliveryInv

-------------------------------------------------------------------------------
(* What a step of a loop leaves alone *)

\* A loop that moves was alive, moves alone and is not forgotten; the
\* dispatchers, the registries and the requests stay as they are.
LEMMA LoopFrame ==
  ASSUME TypeOK, NEW s \in Starts, LoopStep(s)
  PROVE  /\ UNCHANGED <<registered, disp, old, post, abort, crashes>>
         /\ Alive(s)
         /\ \E to \in LoopStates \ {"none"} : loop' = [loop EXCEPT ![s] = to]
         /\ cancelReq' \in [Starts -> BOOLEAN]
<1> USE DEF TypeOK, dispVars, httpVars, Alive, LoopStates, InTry, Fallible
<1>1. ASSUME NEW from \in LoopStates \ {"none", "done"}, NEW to \in LoopStates \ {"none"},
             Goes(s, from, to)
      PROVE  /\ UNCHANGED <<registered, disp, old, post, abort, crashes>>
             /\ Alive(s)
             /\ loop' = [loop EXCEPT ![s] = to]
             /\ cancelReq' \in [Starts -> BOOLEAN]
  BY <1>1 DEF Goes
<1>2. ASSUME Cancelled(s)
      PROVE  /\ UNCHANGED <<registered, disp, old, post, abort, crashes>>
             /\ Alive(s)
             /\ \E to \in LoopStates \ {"none"} : loop' = [loop EXCEPT ![s] = to]
             /\ cancelReq' \in [Starts -> BOOLEAN]
  BY <1>2 DEF Cancelled
<1>3. ASSUME ~Cancelled(s)
      PROVE  \E from \in LoopStates \ {"none", "done"}, to \in LoopStates \ {"none"} :
               Goes(s, from, to)
  BY <1>3 DEF LoopStep, LoadChat, Connect, SavePrompt, BeginTurn, AskApproval, Answered,
     FinishStream, CreateActivity, SetDone, GoIdle, TakeMessage, Resume, Fail, Stop,
     ReportFailure, Handled, Cleanup
<1>4. QED
  BY <1>1, <1>2, <1>3

-------------------------------------------------------------------------------
(* Types *)

\* The loops' own variables keep their types.
LEMMA LoopType ==
  ASSUME TypeOK, NEW s \in Starts, LoopStep(s)
  PROVE  TypeOK'
<1>1. /\ UNCHANGED <<registered, disp, old, post, abort, crashes>>
      /\ loop' \in [Starts -> LoopStates]
      /\ cancelReq' \in [Starts -> BOOLEAN]
  <2>1. PICK to \in LoopStates \ {"none"} : loop' = [loop EXCEPT ![s] = to]
    BY LoopFrame
  <2>2. loop' \in [Starts -> LoopStates]
    BY <2>1 DEF TypeOK
  <2>3. QED
    BY <2>2, LoopFrame
<1>2. ASSUME TakeMessage(s)
      PROVE  /\ queue' \in [Starts -> Seq(Messages)]
             /\ current' \in [Starts -> Starts]
             /\ UNCHANGED <<status, chatVars>>
  <2>1. queue[s] \in Seq(Messages) /\ queue[s] # <<>>
    BY <1>2 DEF TakeMessage, TypeOK
  <2>2. Head(queue[s]) \in Starts /\ Tail(queue[s]) \in Seq(Messages)
    BY <2>1 DEF Starts
  <2>3. QED
    BY <1>2, <2>2 DEF TakeMessage, TypeOK
<1>3. ASSUME ~TakeMessage(s)
      PROVE  /\ queue' = queue /\ current' = current
             /\ status' \in {"running", "waiting_on_approval", "idle", "stopped"}
             /\ cached' \subseteq Starts
             /\ heard' \subseteq Starts
             /\ reported' \in BOOLEAN
             /\ ticket' \in {"pending", "done"}
  <2> USE DEF TypeOK, chatVars
  <2>1. CASE Cancelled(s)
    BY <2>1 DEF Cancelled
  <2>2. CASE SavePrompt(s)
    BY <2>2 DEF SavePrompt
  <2>3. CASE Stop(s) \/ ReportFailure(s)
    BY <2>3 DEF Stop, ReportFailure, Handled
  <2>4. CASE CreateActivity(s) \/ SetDone(s)
    BY <2>4 DEF CreateActivity, SetDone
  <2>5. CASE \/ LoadChat(s) \/ Connect(s) \/ BeginTurn(s) \/ AskApproval(s) \/ Answered(s)
             \/ FinishStream(s) \/ GoIdle(s) \/ Resume(s) \/ Fail(s) \/ Cleanup(s)
    BY <2>5 DEF LoadChat, Connect, BeginTurn, AskApproval, Answered, FinishStream, GoIdle,
       Resume, Fail, Cleanup
  <2>6. QED
    BY <1>3, <2>1, <2>2, <2>3, <2>4, <2>5 DEF LoopStep
<1>4. QED
  BY <1>1, <1>2, <1>3 DEF TypeOK, chatVars

\* Every step keeps the types.
LEMMA TypeStep == TypeOK /\ [Next]_vars => TypeOK'
<1> SUFFICES ASSUME TypeOK, [Next]_vars PROVE TypeOK'
  OBVIOUS
<1>1. ASSUME NEW s \in Starts, Dispatch(s) PROVE TypeOK'
  <2>1. /\ registered' \in Starts \cup {NoStart}
        /\ disp' \in [Starts -> {"none", "scheduled", "handover", "serving", "done"}]
        /\ old' \in [Starts -> Starts \cup {NoStart}]
        /\ loop' \in [Starts -> LoopStates]
        /\ cancelReq' \in [Starts -> BOOLEAN]
    <3>1. CASE Running
      <4>1. registered \in Starts
        BY <3>1 DEF Running, TypeOK
      <4>2. /\ disp' = [disp EXCEPT ![s] = "handover"]
            /\ old' = [old EXCEPT ![s] = registered]
            /\ cancelReq' = [cancelReq EXCEPT ![registered] = TRUE]
            /\ registered' = NoStart
            /\ loop' = loop
        BY <1>1, <3>1 DEF Dispatch
      <4>3. /\ disp \in [Starts -> {"none", "scheduled", "handover", "serving", "done"}]
            /\ old \in [Starts -> Starts \cup {NoStart}]
            /\ loop \in [Starts -> LoopStates]
            /\ cancelReq \in [Starts -> BOOLEAN]
        BY DEF TypeOK
      <4>4. QED
        BY <4>1, <4>2, <4>3
    <3>2. CASE ~Running
      BY <1>1, <3>2 DEF Dispatch, TypeOK, LoopStates
    <3>3. QED
      BY <3>1, <3>2
  <2>2. QED
    BY <1>1, <2>1 DEF Dispatch, TypeOK, httpVars, chatVars
<1>2. ASSUME NEW s \in Starts, TaskDone(s) PROVE TypeOK'
  <2> DEFINE next == {w \in Starts : disp[w] = "handover" /\ old[w] = s}
  <2>1. registered' \in Starts \cup {NoStart}
    <3>1. next = {} \/ \E w \in Starts : w \in next
      OBVIOUS
    <3>2. next = {} \/ (CHOOSE w \in next : TRUE) \in next
      BY <3>1
    <3>3. QED
      BY <1>2, <3>2 DEF TaskDone
  <2>2. /\ disp' \in [Starts -> {"none", "scheduled", "handover", "serving", "done"}]
        /\ loop' \in [Starts -> LoopStates]
    BY <1>2 DEF TaskDone, TypeOK, LoopStates
  <2>3. QED
    BY <1>2, <2>1, <2>2 DEF TaskDone, TypeOK, httpVars, chatVars
<1>3. ASSUME NEW s \in Starts, LoopStep(s) PROVE TypeOK'
  BY <1>3, LoopType
<1>4. ASSUME NEW m \in Messages, PostRead(m) PROVE TypeOK'
  <2>1. post' \in [Messages -> [at : {"new", "read", "queued", "restarted", "refused", "lost"},
                                seen : {"none", "idle", "stopped", "busy"}]]
    <3>1. post \in [Messages -> [at : {"new", "read", "queued", "restarted", "refused", "lost"},
                                  seen : {"none", "idle", "stopped", "busy"}]]
      BY DEF TypeOK
    <3>2. \E r \in {"idle", "stopped", "busy"} :
            post' = [post EXCEPT ![m] = [at |-> "read", seen |-> r]]
      BY <1>4 DEF PostRead
    <3>3. QED
      BY <3>1, <3>2
  <2>2. QED
    BY <1>4, <2>1 DEF PostRead, TypeOK, dispVars, loopVars, chatVars
<1>5. ASSUME NEW m \in Messages, PostAct(m) PROVE TypeOK'
  <2>1. /\ post' \in [Messages -> [at : {"new", "read", "queued", "restarted", "refused", "lost"},
                                   seen : {"none", "idle", "stopped", "busy"}]]
        /\ disp' \in [Starts -> {"none", "scheduled", "handover", "serving", "done"}]
    <3>1. /\ post \in [Messages -> [at : {"new", "read", "queued", "restarted", "refused", "lost"},
                                     seen : {"none", "idle", "stopped", "busy"}]]
          /\ disp \in [Starts -> {"none", "scheduled", "handover", "serving", "done"}]
      BY DEF TypeOK
    <3>2. \E to \in {"queued", "restarted", "refused"} : post' = [post EXCEPT ![m].at = to]
      BY <1>5 DEF PostAct
    <3>3. disp' = disp \/ disp' = [disp EXCEPT ![m] = "scheduled"]
      BY <1>5 DEF PostAct
    <3>4. QED
      BY <3>1, <3>2, <3>3
  <2>2. queue' \in [Starts -> Seq(Messages)]
    <3>1. CASE queue' = queue
      BY <3>1 DEF TypeOK
    <3>2. CASE registered # NoStart /\ queue' = [queue EXCEPT ![registered] = Append(@, m)]
      <4>1. registered \in Starts /\ queue[registered] \in Seq(Messages)
        BY <3>2 DEF TypeOK
      <4>2. Append(queue[registered], m) \in Seq(Messages)
        BY <4>1
      <4>3. QED
        BY <3>2, <4>1, <4>2 DEF TypeOK
    <3>3. QED
      BY <1>5, <3>1, <3>2 DEF PostAct
  <2>3. QED
    BY <1>5, <2>1, <2>2 DEF PostAct, TypeOK, chatVars
<1>6. ASSUME NEW a \in Aborts, AbortRead(a) \/ AbortAct(a) PROVE TypeOK'
  <2>1. abort' \in [Aborts -> {"new", "read", "hit", "missed", "refused", "lost"}]
    BY <1>6 DEF AbortRead, AbortAct, TypeOK
  <2>2. cancelReq' \in [Starts -> BOOLEAN]
    BY <1>6 DEF AbortRead, AbortAct, TypeOK, loopVars
  <2>3. QED
    BY <1>6, <2>1, <2>2 DEF AbortRead, AbortAct, TypeOK, dispVars, loopVars, chatVars
<1>7. CASE Crash
  <2>1. crashes' \in 0..MaxCrashes
    BY <1>7, CrashBound DEF Crash, TypeOK
  <2>2. post' \in [Messages -> [at : {"new", "read", "queued", "restarted", "refused", "lost"},
                                seen : {"none", "idle", "stopped", "busy"}]]
    <3> SUFFICES ASSUME NEW m \in Messages
                 PROVE  (IF post[m].at = "read" THEN [post[m] EXCEPT !.at = "lost"] ELSE post[m])
                          \in [at : {"new", "read", "queued", "restarted", "refused", "lost"},
                              seen : {"none", "idle", "stopped", "busy"}]
      BY <1>7 DEF Crash
    <3>1. post[m] \in [at : {"new", "read", "queued", "restarted", "refused", "lost"},
                       seen : {"none", "idle", "stopped", "busy"}]
      BY DEF TypeOK
    <3>2. QED
      BY <3>1
  <2>3. abort' \in [Aborts -> {"new", "read", "hit", "missed", "refused", "lost"}]
    BY <1>7 DEF Crash, TypeOK
  <2>4. /\ disp' \in [Starts -> {"none", "scheduled", "handover", "serving", "done"}]
        /\ loop' \in [Starts -> LoopStates]
        /\ cancelReq' \in [Starts -> BOOLEAN]
    BY <1>7 DEF Crash, TypeOK, LoopStates
  <2>5. queue' \in [Starts -> Seq(Messages)]
    <3>1. <<>> \in Seq(Messages)
      OBVIOUS
    <3>2. QED
      BY <1>7, <3>1 DEF Crash
  <2>6. QED
    BY <1>7, <2>1, <2>2, <2>3, <2>4, <2>5 DEF Crash, TypeOK, chatVars
<1>8. CASE UNCHANGED vars
  BY <1>8 DEF vars, TypeOK, dispVars, loopVars, httpVars, chatVars
<1>9. QED
  BY <1>1, <1>2, <1>3, <1>4, <1>5, <1>6, <1>7, <1>8 DEF Next

-------------------------------------------------------------------------------
(* The handover *)

\* Every step keeps loops awaited and handovers apart.
LEMMA HandoverStep == IInv /\ [Next]_vars => HandoverInv'
<1> SUFFICES ASSUME TypeOK, HandoverInv, [Next]_vars PROVE HandoverInv'
  BY DEF IInv
<1> USE FirstIsNoMessage, NoStartIsNobody DEF HandoverInv, DispInv, LoopsAreAwaited,
        HandoverIsPrivate, ReplacedLoopIsOver, Alive, Starts
<1>1. ASSUME NEW s \in Starts, Dispatch(s) PROVE HandoverInv'
  <2>1. disp[s] = "scheduled" /\ old[s] = NoStart /\ loop[s] = "none" /\ post' = post
    BY <1>1 DEF Dispatch, httpVars
  <2>2. CASE Running
    <3>1. registered \in Starts /\ disp[registered] = "serving" /\ registered # s
      BY <2>1, <2>2 DEF Running, TypeOK
    <3>2. /\ disp' = [disp EXCEPT ![s] = "handover"]
          /\ old' = [old EXCEPT ![s] = registered]
          /\ registered' = NoStart
          /\ loop' = loop
      BY <1>1, <2>2 DEF Dispatch
    <3>3. DispInv'
      BY <2>1, <3>1, <3>2 DEF TypeOK
    <3>4. LoopsAreAwaited'
      BY <2>1, <3>1, <3>2 DEF TypeOK
    <3>5. HandoverIsPrivate'
      BY <2>1, <3>1, <3>2 DEF TypeOK
    <3>6. ReplacedLoopIsOver'
      BY <2>1, <3>1, <3>2 DEF TypeOK
    <3>7. QED
      BY <3>3, <3>4, <3>5, <3>6
  <2>3. CASE ~Running
    <3>1. /\ disp' = [disp EXCEPT ![s] = "serving"]
          /\ loop' = [loop EXCEPT ![s] = "created"]
          /\ registered' = s
          /\ old' = old
      BY <1>1, <2>3 DEF Dispatch
    <3>2. \A v \in Starts : disp[v] = "handover" => old[v] # s
      BY <2>1
    <3>3. \A v \in Starts : disp[v] \in {"serving", "done"} => old[v] # s
      BY <2>1
    <3>4. DispInv'
      BY <2>1, <3>1 DEF TypeOK
    <3>5. LoopsAreAwaited'
      BY <2>1, <3>1 DEF TypeOK
    <3>6. HandoverIsPrivate'
      BY <2>1, <3>1, <3>2 DEF TypeOK
    <3>7. ReplacedLoopIsOver'
      BY <2>1, <3>1, <3>3 DEF TypeOK
    <3>8. QED
      BY <3>4, <3>5, <3>6, <3>7
  <2>4. QED
    BY <2>2, <2>3
<1>2. ASSUME NEW s \in Starts, TaskDone(s) PROVE HandoverInv'
  <2> DEFINE next == {w \in Starts : disp[w] = "handover" /\ old[w] = s}
  <2>0. UNCHANGED <<old, post>>
    BY <1>2 DEF TaskDone, httpVars
  <2>1. CASE next = {}
    <3>1. /\ disp' = [w \in Starts |-> IF w = s THEN "done" ELSE disp[w]]
          /\ loop' = [w \in Starts |-> loop[w]]
          /\ registered' = NoStart
      BY <1>2, <2>1 DEF TaskDone
    <3>2. QED
      BY <1>2, <2>0, <2>1, <3>1 DEF TaskDone, TypeOK
  <2>2. ASSUME NEW n \in next PROVE HandoverInv'
    <3>1. next = {n} /\ n # s
      BY <1>2, <2>2 DEF TaskDone
    <3>2. /\ disp' = [w \in Starts |-> IF w = s THEN "done"
                                      ELSE IF w = n THEN "serving" ELSE disp[w]]
          /\ loop' = [w \in Starts |-> IF w = n THEN "created" ELSE loop[w]]
          /\ registered' = n
      BY <1>2, <3>1 DEF TaskDone
    <3>3. disp[n] = "handover" /\ old[n] = s /\ loop[n] = "none"
          /\ loop[s] = "done" /\ disp[s] = "serving"
      BY <1>2, <2>2 DEF TaskDone
    <3>4. \A v \in Starts : disp[v] = "handover" => v = n \/ old[v] \notin {s, n}
      BY <2>2, <3>1, <3>3
    <3>5. QED
      BY <2>0, <2>2, <3>2, <3>3, <3>4 DEF TypeOK
  <2>3. QED
    BY <2>1, <2>2
<1>3. ASSUME NEW s \in Starts, LoopStep(s) PROVE HandoverInv'
  <2>1. PICK to \in LoopStates \ {"none"} : loop' = [loop EXCEPT ![s] = to]
    BY <1>3, LoopFrame
  <2>2. UNCHANGED <<registered, disp, old, post>> /\ Alive(s)
    BY <1>3, LoopFrame
  <2>3. QED
    BY <2>1, <2>2 DEF TypeOK
<1>4. ASSUME NEW m \in Messages, PostRead(m) PROVE HandoverInv'
  <2>1. UNCHANGED <<registered, disp, old, loop>>
    BY <1>4 DEF PostRead, dispVars, loopVars
  <2>2. \A n \in Messages : post'[n].at \in {"new", "read"} => post[n].at \in {"new", "read"}
    BY <1>4 DEF PostRead, TypeOK
  <2>3. QED
    BY <2>1, <2>2
<1>5. ASSUME NEW m \in Messages, PostAct(m) PROVE HandoverInv'
  <2>1. UNCHANGED <<registered, old, loop>> /\ disp[m] = "none"
    BY <1>5 DEF PostAct
  <2>2. \A n \in Messages : post'[n].at \in {"new", "read"} =>
          n # m /\ post[n].at \in {"new", "read"}
    BY <1>5 DEF PostAct, TypeOK
  <2>3. disp' = disp \/ disp' = [disp EXCEPT ![m] = "scheduled"]
    BY <1>5 DEF PostAct
  <2>4. QED
    BY <2>1, <2>2, <2>3 DEF TypeOK
<1>6. ASSUME NEW a \in Aborts, AbortRead(a) \/ AbortAct(a) PROVE HandoverInv'
  <2>1. UNCHANGED <<registered, disp, old, loop, post>>
    BY <1>6 DEF AbortRead, AbortAct, dispVars, loopVars
  <2>2. QED
    BY <2>1
<1>7. CASE Crash
  <2>1. \A n \in Messages : post'[n].at \in {"new", "read"} => post[n].at \in {"new", "read"}
    BY <1>7 DEF Crash, TypeOK
  <2>2. /\ registered' = NoStart /\ old' = old
        /\ \A s \in Starts : /\ disp'[s] = IF disp[s] = "none" THEN "none" ELSE "done"
                             /\ loop'[s] = IF loop[s] = "none" THEN "none" ELSE "done"
    BY <1>7 DEF Crash
  <2>3. \A s \in Starts : disp'[s] = "done" /\ old[s] # NoStart =>
          old[s] \in Starts /\ loop'[old[s]] = "done"
    <3> SUFFICES ASSUME NEW s \in Starts, disp[s] # "none", old[s] # NoStart
                 PROVE  old[s] \in Starts /\ loop[old[s]] # "none"
      BY <2>2
    <3>1. old[s] \in Starts /\ disp[s] \in {"handover", "serving", "done"}
      BY DEF TypeOK
    <3>2. CASE disp[s] = "handover"
      BY <3>1, <3>2
    <3>3. CASE disp[s] # "handover"
      BY <3>1, <3>3
    <3>4. QED
      BY <3>2, <3>3
  <2>4. QED
    BY <2>1, <2>2, <2>3
<1>8. CASE UNCHANGED vars
  BY <1>8 DEF vars, dispVars, loopVars, httpVars
<1>9. QED
  BY <1>1, <1>2, <1>3, <1>4, <1>5, <1>6, <1>7, <1>8 DEF Next

-------------------------------------------------------------------------------
(* The report *)

\* The work is reported before the ticket is closed, and that before the chat is
\* idle.
LEMMA ReportStep == IInv /\ [Next]_vars => ReportInv'
<1> SUFFICES ASSUME TypeOK, ReportInv, [Next]_vars PROVE ReportInv'
  BY DEF IInv
<1> USE DEF TypeOK, ReportInv, IdleIsReported, chatVars
<1>1. ASSUME NEW s \in Starts, Dispatch(s) \/ TaskDone(s) PROVE ReportInv'
  BY <1>1 DEF Dispatch, TaskDone
<1>2. ASSUME NEW s \in Starts, CreateActivity(s) PROVE ReportInv'
  BY <1>2 DEF CreateActivity, Goes
<1>3. ASSUME NEW s \in Starts, SetDone(s) PROVE ReportInv'
  BY <1>3 DEF SetDone, Goes
<1>4. ASSUME NEW s \in Starts, GoIdle(s) PROVE ReportInv'
  BY <1>4 DEF GoIdle, Goes
<1>5. ASSUME NEW s \in Starts,
             Stop(s) \/ ReportFailure(s) \/ Cancelled(s)
      PROVE ReportInv'
  BY <1>5 DEF Stop, ReportFailure, Handled, Goes, Cancelled
<1>6. ASSUME NEW s \in Starts,
             \/ LoadChat(s) \/ Connect(s) \/ SavePrompt(s) \/ BeginTurn(s) \/ AskApproval(s)
             \/ Answered(s) \/ FinishStream(s) \/ TakeMessage(s) \/ Resume(s) \/ Fail(s)
             \/ Cleanup(s)
      PROVE ReportInv'
  BY <1>6 DEF LoadChat, Connect, SavePrompt, BeginTurn, AskApproval, Answered,
     FinishStream, TakeMessage, Resume, Fail, Cleanup, Goes
<1>7. ASSUME NEW m \in Messages, PostRead(m) \/ PostAct(m) PROVE ReportInv'
  BY <1>7 DEF PostRead, PostAct, loopVars
<1>8. ASSUME NEW a \in Aborts, AbortRead(a) \/ AbortAct(a) PROVE ReportInv'
  BY <1>8 DEF AbortRead, AbortAct, loopVars
<1>9. CASE Crash
  BY <1>9 DEF Crash
<1>10. CASE UNCHANGED vars
  BY <1>10 DEF vars, loopVars
<1>11. QED
  BY <1>1, <1>2, <1>3, <1>4, <1>5, <1>6, <1>7, <1>8, <1>9, <1>10 DEF Next, LoopStep

-------------------------------------------------------------------------------
(* Where the inputs are *)

\* Apart from taking a message and saving a prompt, a loop neither gets nor hears
\* an input: it keeps what it has before it or drops it.
LEMMA LoopQuiet ==
  ASSUME TypeOK, NEW s \in Starts, LoopStep(s), ~SavePrompt(s), ~TakeMessage(s)
  PROVE  /\ UNCHANGED <<heard, queue, current>>
         /\ loop'[s] \in Ahead => loop[s] \in Ahead
         /\ loop'[s] \in Listening => loop[s] \in Listening
<1> USE DEF Goes, chatVars, Ahead, Listening, InTry, Fallible, TypeOK
<1>1. CASE LoadChat(s) \/ Connect(s) \/ BeginTurn(s) \/ AskApproval(s) \/ Answered(s)
  BY <1>1 DEF LoadChat, Connect, BeginTurn, AskApproval, Answered
<1>2. CASE FinishStream(s) \/ CreateActivity(s) \/ SetDone(s) \/ GoIdle(s) \/ Resume(s)
  BY <1>2 DEF FinishStream, CreateActivity, SetDone, GoIdle, Resume
<1>3. CASE Fail(s) \/ Stop(s) \/ ReportFailure(s) \/ Cleanup(s)
  BY <1>3 DEF Fail, Stop, ReportFailure, Handled, Cleanup
<1>4. CASE Cancelled(s)
  BY <1>4 DEF Cancelled
<1>5. QED
  BY <1>1, <1>2, <1>3, <1>4 DEF LoopStep

\* The first message of a queue becomes the input of the loop's turn, the others
\* move up.
LEMMA Taken ==
  ASSUME TypeOK, NEW s \in Starts, TakeMessage(s)
  PROVE  /\ 1 \in DOMAIN queue[s]
         /\ queue[s][1] \in Messages
         /\ loop[s] = "idle" /\ loop' = [loop EXCEPT ![s] = "resuming"]
         /\ current' = [current EXCEPT ![s] = queue[s][1]]
         /\ \A t \in Starts : t # s => queue'[t] = queue[t]
         /\ \A i \in DOMAIN queue'[s] :
              i + 1 \in DOMAIN queue[s] /\ i + 1 # 1 /\ queue'[s][i] = queue[s][i + 1]
         /\ UNCHANGED <<disp, post, heard>>
<1>1. queue[s] \in Seq(Messages) /\ queue[s] # <<>>
  BY DEF TakeMessage, TypeOK
<1>2. Head(queue[s]) = queue[s][1] /\ 1 \in DOMAIN queue[s] /\ queue[s][1] \in Messages
  BY <1>1
<1>3. \A i \in DOMAIN Tail(queue[s]) :
        i + 1 \in DOMAIN queue[s] /\ i + 1 # 1 /\ Tail(queue[s])[i] = queue[s][i + 1]
  BY <1>1
<1>4. queue' = [queue EXCEPT ![s] = Tail(queue[s])] /\ queue \in [Starts -> Seq(Messages)]
  BY DEF TakeMessage, TypeOK
<1>5. queue'[s] = Tail(queue[s]) /\ \A t \in Starts : t # s => queue'[t] = queue[t]
  BY <1>4
<1>6. QED
  BY <1>2, <1>3, <1>5 DEF TakeMessage, Goes, dispVars, httpVars, chatVars

\* Only messages are queued.
LEMMA QueueElements ==
  ASSUME TypeOK, NEW s \in Starts, NEW i \in DOMAIN queue[s]
  PROVE  queue[s][i] \in Messages
<1>1. queue[s] \in Seq(Messages)
  BY DEF TypeOK
<1>2. QED
  BY <1>1

\* Every step keeps each input in at most one place, and what was heard in none.
LEMMA DeliveryStep == IInv /\ [Next]_vars => DeliveryInv'
<1> SUFFICES ASSUME TypeOK, HandoverInv, DeliveryInv, [Next]_vars PROVE DeliveryInv'
  BY DEF IInv
<1> USE FirstIsNoMessage DEF DeliveryInv, UnacceptedIsNowhere, QueuedOnce, TakenOnce,
        UnheardIsAhead, Accepted, Starts
<1>1. ASSUME NEW s \in Starts, Dispatch(s) PROVE DeliveryInv'
  <2>1. /\ disp[s] = "scheduled" /\ loop[s] = "none"
        /\ UNCHANGED <<queue, current, post, heard>>
        /\ disp' = [disp EXCEPT ![s] = "handover"] \/ disp' = [disp EXCEPT ![s] = "serving"]
        /\ loop' = loop \/ loop' = [loop EXCEPT ![s] = "created"]
    BY <1>1 DEF Dispatch, httpVars, chatVars, HandoverInv, DispInv
  <2>2. /\ \A t \in Starts : t # s => disp'[t] = disp[t] /\ loop'[t] = loop[t]
        /\ disp'[s] \in {"handover", "serving"} /\ loop'[s] \in {"none", "created"}
    BY <2>1 DEF TypeOK
  <2>3. UnacceptedIsNowhere'
    BY <2>1, <2>2
  <2>4. QueuedOnce' /\ TakenOnce'
    BY <2>1, <2>2
  <2>5. UnheardIsAhead'
    <3>1. s \notin heard /\ current[s] = s
      BY <2>1
    <3>2. \A t \in Starts : t # s => /\ disp'[t] \in {"scheduled", "handover"} => t \notin heard
                                     /\ loop'[t] \in Ahead => current[t] \notin heard
      BY <2>2
    <3>3. QED
      BY <2>1, <3>1, <3>2
  <2>6. QED
    BY <2>3, <2>4, <2>5
<1>2. ASSUME NEW s \in Starts, TaskDone(s) PROVE DeliveryInv'
  <2>1. /\ UNCHANGED <<queue, current, post, heard>>
        /\ disp[s] = "serving"
        /\ \A w \in Starts :
             \/ disp'[w] = disp[w] /\ loop'[w] = loop[w]
             \/ w = s /\ disp'[w] = "done" /\ loop'[w] = loop[w]
             \/ /\ disp[w] = "handover" /\ loop[w] = "none"
                /\ disp'[w] = "serving" /\ loop'[w] = "created"
    BY <1>2 DEF TaskDone, httpVars, chatVars, HandoverInv, DispInv
  <2>2. UnacceptedIsNowhere'
    <3>1. \A w \in Starts : disp'[w] = "none" <=> disp[w] = "none"
      BY <2>1
    <3>2. QED
      BY <2>1, <3>1
  <2>3. QueuedOnce' /\ TakenOnce'
    BY <2>1
  <2>4. UnheardIsAhead'
    <3>1. \A w \in Starts : disp[w] = "handover" => w \notin heard /\ current[w] = w
      BY DEF HandoverInv, DispInv
    <3>2. QED
      BY <2>1, <3>1
  <2>5. QED
    BY <2>2, <2>3, <2>4
<1>3. ASSUME NEW s \in Starts, LoopStep(s) PROVE DeliveryInv'
  <2>1. PICK to \in LoopStates \ {"none"} : loop' = [loop EXCEPT ![s] = to]
    BY <1>3, LoopFrame
  <2>2. UNCHANGED <<disp, post>> /\ loop[s] # "none" /\ disp[s] = "serving"
    BY <1>3, LoopFrame DEF Alive, HandoverInv, LoopsAreAwaited
  <2>3. CASE TakeMessage(s)
    <3> DEFINE m == queue[s][1]
    <3>1. /\ 1 \in DOMAIN queue[s] /\ m \in Messages
          /\ loop' = [loop EXCEPT ![s] = "resuming"]
          /\ current' = [current EXCEPT ![s] = m]
          /\ \A t \in Starts : t # s => queue'[t] = queue[t]
          /\ \A i \in DOMAIN queue'[s] :
               i + 1 \in DOMAIN queue[s] /\ i + 1 # 1 /\ queue'[s][i] = queue[s][i + 1]
          /\ UNCHANGED <<disp, post, heard>>
      BY <2>3, Taken
    <3>2. /\ post[m].at = "queued" /\ m \notin heard
          /\ \A t \in Starts : current[t] = m => t = m
      BY <3>1
    <3>3. \A t \in Starts : \A i \in DOMAIN queue'[t] :
            \E j \in DOMAIN queue[t] : /\ queue'[t][i] = queue[t][j]
                                       /\ j = IF t = s THEN i + 1 ELSE i
                                       /\ t = s => j # 1
      BY <3>1
    <3>4. current \in [Starts -> Starts] /\ loop \in [Starts -> LoopStates]
      BY DEF TypeOK
    <3> HIDE DEF m
    <3>5. \A t \in Starts : \A i \in DOMAIN queue'[t] :
            post[queue'[t][i]].at = "queued" /\ queue'[t][i] \notin heard /\ queue'[t][i] # m
      BY <3>3, <3>1 DEF m
    <3>6. QueuedOnce'
      <4>1. \A t \in Starts : loop'[t] = "none" => queue'[t] = <<>> /\ current'[t] = t
        BY <3>1, <3>4, <2>2
      <4>2. \A t \in Starts : \A i \in DOMAIN queue'[t] : \A u \in Starts :
              current'[u] = queue'[t][i] => u = queue'[t][i]
        BY <3>1, <3>3, <3>4, <3>5
      <4>3. \A t, u \in Starts : \A i \in DOMAIN queue'[t], j \in DOMAIN queue'[u] :
              queue'[t][i] = queue'[u][j] => t = u /\ i = j
        <5> SUFFICES ASSUME NEW t \in Starts, NEW u \in Starts, NEW i \in DOMAIN queue'[t],
                            NEW j \in DOMAIN queue'[u], queue'[t][i] = queue'[u][j]
                     PROVE  t = u /\ i = j
          OBVIOUS
        <5>1. PICK k \in DOMAIN queue[t] : /\ queue'[t][i] = queue[t][k]
                                           /\ k = IF t = s THEN i + 1 ELSE i
          BY <3>3
        <5>2. PICK l \in DOMAIN queue[u] : /\ queue'[u][j] = queue[u][l]
                                           /\ l = IF u = s THEN j + 1 ELSE j
          BY <3>3
        <5>3. t = u /\ k = l
          <6>1. queue[t][k] = queue[u][l]
            BY <5>1, <5>2
          <6>2. QED
            BY <6>1
        <5>4. i \in Nat /\ j \in Nat
          <6>1. queue' \in [Starts -> Seq(Messages)]
            BY <1>3, LoopType DEF TypeOK
          <6>2. queue'[t] \in Seq(Messages) /\ queue'[u] \in Seq(Messages)
            BY <6>1
          <6>3. DOMAIN queue'[t] \subseteq Nat /\ DOMAIN queue'[u] \subseteq Nat
            BY <6>2
          <6>4. QED
            BY <6>3
        <5>5. QED
          BY <5>1, <5>2, <5>3, <5>4
      <4>4. QED
        BY <3>1, <3>5, <4>1, <4>2, <4>3
    <3>7. TakenOnce'
      BY <3>1, <3>2, <3>4, <2>2
    <3>8. UnheardIsAhead'
      BY <3>1, <3>2, <3>4
    <3>9. QED
      BY <3>1, <3>6, <3>7, <3>8
  <2>4. CASE SavePrompt(s)
    <3>1. /\ UNCHANGED <<queue, current>>
          /\ loop[s] = "prompting" /\ loop' = [loop EXCEPT ![s] = "beginning"]
          /\ heard' = heard \cup {current[s]}
      BY <2>4 DEF SavePrompt, Goes
    <3>2. /\ loop \in [Starts -> LoopStates] /\ current[s] \in Starts
          /\ post \in [Messages -> [at : {"new", "read", "queued", "restarted", "refused", "lost"},
                                    seen : {"none", "idle", "stopped", "busy"}]]
      BY DEF TypeOK
    <3>3. \/ current[s] = First
          \/ current[s] \in Messages /\ post[current[s]].at = "restarted" /\ current[s] = s
          \/ current[s] \in Messages /\ post[current[s]].at = "queued"
      BY <2>2
    <3>4. \A t \in Starts : \A i \in DOMAIN queue[t] : queue[t][i] # current[s]
      <4>1. CASE current[s] = s
        <5>1. \A t \in Starts : \A i \in DOMAIN queue[t] : queue[t][i] \in Messages
          BY QueueElements
        <5>2. QED
          BY <4>1, <5>1, <2>2
      <4>2. CASE current[s] # s
        BY <4>2
      <4>3. QED
        BY <4>1, <4>2
    <3>5. \A t \in Starts : disp[t] \in {"scheduled", "handover"} => t # current[s]
      BY <3>3, <2>2
    <3>6. \A t \in Starts : t # s /\ loop[t] # "none" => current[t] # current[s]
      <4> SUFFICES ASSUME NEW t \in Starts, t # s, loop[t] # "none", current[t] = current[s]
                   PROVE  FALSE
        OBVIOUS
      <4>1. disp[t] # "none" /\ disp[s] # "none"
        BY <2>2 DEF HandoverInv, DispInv
      <4>2. current[s] = s \/ current[s] = t
        OBVIOUS
      <4>3. QED
        BY <4>1, <4>2
    <3>7. QueuedOnce' /\ TakenOnce'
      BY <3>1, <3>2, <3>4, <2>2
    <3>8. UnheardIsAhead'
      BY <3>1, <3>2, <3>5, <3>6, <2>2 DEF Ahead
    <3>9. QED
      BY <3>1, <3>3, <3>7, <3>8, <2>2
  <2>5. CASE ~TakeMessage(s) /\ ~SavePrompt(s)
    <3>1. UNCHANGED <<heard, queue, current>> /\ (loop'[s] \in Ahead => loop[s] \in Ahead)
      BY <1>3, <2>5, LoopQuiet
    <3>2. QED
      BY <2>1, <2>2, <3>1 DEF TypeOK
  <2>6. QED
    BY <2>3, <2>4, <2>5
<1>4. ASSUME NEW m \in Messages, PostRead(m) PROVE DeliveryInv'
  <2>1. UNCHANGED <<disp, loop, queue, current, heard>> /\ post[m].at = "new"
    BY <1>4 DEF PostRead, dispVars, loopVars, chatVars
  <2>2. post'[m].at = "read" /\ \A n \in Messages : n # m => post'[n] = post[n]
    BY <1>4 DEF PostRead, TypeOK
  <2>3. \A n \in Starts : post[n].at \in {"queued", "restarted"} /\ n \in Messages => post'[n] = post[n]
    BY <2>1, <2>2
  <2>4. \A s \in Starts : \A i \in DOMAIN queue[s] : queue[s][i] \in Messages
    BY QueueElements
  <2>5. UnacceptedIsNowhere'
    BY <2>1, <2>2, <2>3
  <2>6. QueuedOnce' /\ TakenOnce' /\ UnheardIsAhead'
    BY <2>1, <2>3, <2>4
  <2>7. QED
    BY <2>5, <2>6
<1>5. ASSUME NEW m \in Messages, PostAct(m) PROVE DeliveryInv'
  <2>1. UNCHANGED <<loop, current, heard>> /\ post[m].at = "read" /\ disp[m] = "none"
    BY <1>5 DEF PostAct, chatVars, HandoverInv, DispInv
  <2>2. \A n \in Messages : n # m => post'[n] = post[n]
    BY <1>5 DEF PostAct, TypeOK
  <2>3. \A n \in Starts : post[n].at \in {"queued", "restarted"} /\ n \in Messages => n # m /\ post'[n] = post[n]
    BY <2>1, <2>2
  <2>4. \A s \in Starts : \A i \in DOMAIN queue[s] : queue[s][i] \in Messages /\ queue[s][i] # m
    BY <2>3, QueueElements
  <2>5. m \notin heard /\ \A s \in Starts : current[s] = m => s = m
    BY <2>1
  <2>6. CASE queue' = queue /\ disp' = disp /\ post'[m].at = "refused"
    <3>1. UnacceptedIsNowhere'
      BY <2>1, <2>2, <2>3, <2>6
    <3>2. QueuedOnce' /\ TakenOnce' /\ UnheardIsAhead'
      BY <2>1, <2>3, <2>4, <2>6
    <3>3. QED
      BY <3>1, <3>2
  <2>7. CASE queue' = queue /\ disp' = [disp EXCEPT ![m] = "scheduled"] /\ post'[m].at = "restarted"
    <3>1. UnacceptedIsNowhere'
      BY <2>1, <2>2, <2>3, <2>7 DEF TypeOK
    <3>2. QueuedOnce' /\ TakenOnce' /\ UnheardIsAhead'
      BY <2>1, <2>3, <2>4, <2>5, <2>7 DEF TypeOK
    <3>3. QED
      BY <3>1, <3>2
  <2>8. CASE /\ registered # NoStart
             /\ queue' = [queue EXCEPT ![registered] = Append(@, m)]
             /\ disp' = disp /\ post'[m].at = "queued"
    <3>1. registered \in Starts /\ loop[registered] # "none"
      BY <2>8 DEF TypeOK, HandoverInv, DispInv, LoopsAreAwaited
    <3>2. \A s \in Starts : s # registered => queue'[s] = queue[s]
      BY <2>8 DEF TypeOK
    <3>3. \A i \in DOMAIN queue'[registered] :
            \/ i \in DOMAIN queue[registered] /\ queue'[registered][i] = queue[registered][i]
            \/ i = Len(queue[registered]) + 1 /\ queue'[registered][i] = m
      <4>1. queue[registered] \in Seq(Messages) /\ queue'[registered] = Append(queue[registered], m)
        BY <3>1, <2>8 DEF TypeOK
      <4>2. QED
        BY <4>1
    <3>4. \A s \in Starts : \A i \in DOMAIN queue'[s] :
            \/ i \in DOMAIN queue[s] /\ queue'[s][i] = queue[s][i]
            \/ s = registered /\ i = Len(queue[registered]) + 1 /\ queue'[s][i] = m
      BY <3>2, <3>3
    <3>5. UnacceptedIsNowhere'
      BY <2>1, <2>2, <2>3, <2>8
    <3>6. QueuedOnce'
      <4>1. \A s \in Starts : loop'[s] = "none" => queue'[s] = <<>> /\ current'[s] = s
        BY <2>1, <3>1, <3>2
      <4>2. \A s \in Starts : \A i \in DOMAIN queue'[s] :
              /\ post'[queue'[s][i]].at = "queued"
              /\ queue'[s][i] \notin heard'
              /\ \A t \in Starts : current'[t] = queue'[s][i] => t = queue'[s][i]
        BY <2>1, <2>3, <2>4, <2>5, <2>8, <3>4
      <4>3. \A s, t \in Starts : \A i \in DOMAIN queue'[s], j \in DOMAIN queue'[t] :
              queue'[s][i] = queue'[t][j] => s = t /\ i = j
        BY <2>4, <3>4
      <4>4. QED
        BY <4>1, <4>2, <4>3
    <3>7. TakenOnce' /\ UnheardIsAhead'
      BY <2>1, <2>3, <2>8
    <3>8. QED
      BY <3>5, <3>6, <3>7
  <2>9. QED
    <3>1. post \in [Messages -> [at : {"new", "read", "queued", "restarted", "refused", "lost"},
                                 seen : {"none", "idle", "stopped", "busy"}]]
      BY DEF TypeOK
    <3>2. \A to \in {"refused", "queued", "restarted"} :
            post' = [post EXCEPT ![m].at = to] => post'[m].at = to
      BY <3>1
    <3>3. QED
      BY <1>5, <3>2, <2>6, <2>7, <2>8 DEF PostAct
<1>6. ASSUME NEW a \in Aborts, AbortRead(a) \/ AbortAct(a) PROVE DeliveryInv'
  <2>1. UNCHANGED <<disp, loop, queue, current, post, heard>>
    BY <1>6 DEF AbortRead, AbortAct, dispVars, loopVars, chatVars
  <2>2. QED
    BY <2>1
<1>7. CASE Crash
  <2>1. \A m \in Messages : post[m].at # "read" => post'[m] = post[m]
    BY <1>7 DEF Crash
  <2>2. \A m \in Messages : post[m].at = "read" => post'[m].at = "lost"
    <3> SUFFICES ASSUME NEW m \in Messages, post[m].at = "read" PROVE post'[m].at = "lost"
      OBVIOUS
    <3>1. post[m] \in [at : {"new", "read", "queued", "restarted", "refused", "lost"},
                       seen : {"none", "idle", "stopped", "busy"}]
      BY DEF TypeOK
    <3>2. post'[m] = [post[m] EXCEPT !.at = "lost"]
      BY <1>7 DEF Crash
    <3>3. QED
      BY <3>1, <3>2
  <2>3. /\ current' = current /\ heard' = heard
        /\ \A s \in Starts : /\ queue'[s] = <<>>
                             /\ disp'[s] = IF disp[s] = "none" THEN "none" ELSE "done"
                             /\ loop'[s] = IF loop[s] = "none" THEN "none" ELSE "done"
    BY <1>7 DEF Crash, chatVars
  <2>4. UnacceptedIsNowhere'
    BY <2>1, <2>2, <2>3
  <2>5. QueuedOnce'
    BY <2>3
  <2>6. TakenOnce' /\ UnheardIsAhead'
    BY <2>1, <2>3 DEF Ahead
  <2>7. QED
    BY <2>4, <2>5, <2>6
<1>8. CASE UNCHANGED vars
  BY <1>8 DEF vars, dispVars, loopVars, httpVars, chatVars
<1>9. QED
  BY <1>1, <1>2, <1>3, <1>4, <1>5, <1>6, <1>7, <1>8 DEF Next

-------------------------------------------------------------------------------
\* IInv holds of every behaviour of the dispatchers, loops and handlers.
THEOREM Inductive == Spec => []IInv
<1>1. Init => IInv
  <2> SUFFICES ASSUME Init PROVE IInv
    OBVIOUS
  <2> USE FirstIsNoMessage, NoStartIsNobody DEF Init, Starts
  <2>1. TypeOK
    <3>1. <<>> \in Seq(Messages)
      OBVIOUS
    <3>2. queue \in [Starts -> Seq(Messages)]
      BY <3>1
    <3>3. crashes \in 0..MaxCrashes
      BY CrashBound
    <3>4. QED
      BY <3>2, <3>3 DEF TypeOK, LoopStates
  <2>2. HandoverInv
    BY DEF HandoverInv, DispInv, LoopsAreAwaited, HandoverIsPrivate, ReplacedLoopIsOver, Alive
  <2>3. ReportInv
    BY DEF ReportInv, IdleIsReported
  <2>4. DeliveryInv
    BY DEF DeliveryInv, UnacceptedIsNowhere, QueuedOnce, TakenOnce, UnheardIsAhead, Accepted, Ahead
  <2>5. QED
    BY <2>1, <2>2, <2>3, <2>4 DEF IInv
<1>2. IInv /\ [Next]_vars => IInv'
  BY TypeStep, HandoverStep, ReportStep, DeliveryStep DEF IInv
<1>3. QED
  BY <1>1, <1>2, PTL DEF Spec

\* The registries, dispatchers, loops and requests only take their own states.
THEOREM TypeCorrect == Spec => []TypeOK
<1>1. IInv => TypeOK
  BY DEF IInv
<1>2. QED
  BY Inductive, <1>1, PTL

\* A loop that waited to replace another was created after the other was over.
THEOREM ReplacedIsOver == Spec => []ReplacedLoopIsOver
<1>1. IInv => ReplacedLoopIsOver
  BY DEF IInv, HandoverInv
<1>2. QED
  BY Inductive, <1>1, PTL

\* No live loop loses its dispatcher and no dispatcher leaves a registration
\* behind.
THEOREM Awaited == Spec => []LoopsAreAwaited
<1>1. IInv => LoopsAreAwaited
  BY DEF IInv, HandoverInv
<1>2. QED
  BY Inductive, <1>1, PTL

\* A loop is replaced by one start at most and is out of the registry meanwhile.
THEOREM PrivateHandover == Spec => []HandoverIsPrivate
<1>1. IInv => HandoverIsPrivate
  BY DEF IInv, HandoverInv
<1>2. QED
  BY Inductive, <1>1, PTL

\* An idle chat's work was reported and its ticket closed.
THEOREM IdleReported == Spec => []IdleIsReported
<1>1. IInv => IdleIsReported
  BY DEF IInv, ReportInv
<1>2. QED
  BY Inductive, <1>1, PTL

-------------------------------------------------------------------------------
(* The delivery that ChatDelivery promises *)

\* A step after which the same inputs are accepted and heard, and no more are
\* waiting, at most loses some.
LEMMA OnlyLoses ==
  ASSUME Accepted' = Accepted, heard' = heard, Waiting' \subseteq Waiting
  PROVE  [Delivery!Next]_(Delivery!vars)
<1>1. Waiting \ Waiting' \in SUBSET Waiting
  OBVIOUS
<1>2. Delivery!Lose(Waiting \ Waiting')
  BY DEF Delivery!Lose
<1>3. QED
  BY <1>1, <1>2 DEF Delivery!Next

\* What a loop has before it after a step of its own, it had before the step;
\* saving a prompt, it parts with that input only.
LEMMA PendingKept ==
  ASSUME TypeOK, NEW s \in Starts, LoopStep(s)
  PROVE  /\ \A t \in Starts : Pending(t)' \subseteq Pending(t)
         /\ SavePrompt(s) => \A t \in Starts : Pending(t) \ {current[s]} \subseteq Pending(t)'
<1>1. PICK to \in LoopStates \ {"none"} : loop' = [loop EXCEPT ![s] = to]
  BY LoopFrame
<1>2. loop \in [Starts -> LoopStates] /\ current \in [Starts -> Starts]
  BY DEF TypeOK
<1>3. CASE TakeMessage(s)
  <2>1. \A t \in Starts : t # s => Pending(t)' = Pending(t)
    BY <1>2, <1>3, Taken DEF Pending, Elements
  <2>2. Pending(s)' \subseteq Pending(s)
    <3>1. /\ current'[s] = queue[s][1] /\ 1 \in DOMAIN queue[s]
          /\ \A i \in DOMAIN queue'[s] :
               i + 1 \in DOMAIN queue[s] /\ queue'[s][i] = queue[s][i + 1]
      BY <1>2, <1>3, Taken
    <3>2. loop[s] \in Listening
      BY <1>3, Taken DEF Listening, InTry
    <3>3. QED
      BY <3>1, <3>2 DEF Pending, Elements
  <2>3. ~SavePrompt(s)
    BY <1>3 DEF TakeMessage, SavePrompt, Goes
  <2>4. QED
    BY <2>1, <2>2, <2>3
<1>4. CASE SavePrompt(s)
  <2>1. /\ UNCHANGED <<queue, current>> /\ loop[s] = "prompting"
        /\ loop' = [loop EXCEPT ![s] = "beginning"]
    BY <1>4 DEF SavePrompt, Goes
  <2>2. \A t \in Starts : t # s => Pending(t)' = Pending(t)
    BY <1>2, <2>1 DEF Pending, Elements
  <2>3. Pending(s)' \subseteq Pending(s) /\ Pending(s) \ {current[s]} \subseteq Pending(s)'
    BY <1>2, <2>1 DEF Pending, Elements, Ahead, Listening, InTry, Fallible
  <2>4. QED
    BY <2>2, <2>3
<1>5. CASE ~TakeMessage(s) /\ ~SavePrompt(s)
  <2>1. /\ UNCHANGED <<queue, current>>
        /\ loop'[s] \in Ahead => loop[s] \in Ahead
        /\ loop'[s] \in Listening => loop[s] \in Listening
    BY <1>5, LoopQuiet
  <2>2. QED
    BY <1>1, <1>2, <1>5, <2>1 DEF Pending, Elements
<1>6. QED
  BY <1>3, <1>4, <1>5

\* Every step of the chat is a step of the delivery, or none.
LEMMA DeliversStep == IInv /\ [Next]_vars => [Delivery!Next]_(Delivery!vars)
<1> SUFFICES ASSUME IInv, [Next]_vars PROVE [Delivery!Next]_(Delivery!vars)
  OBVIOUS
<1>0. TypeOK /\ HandoverInv /\ DeliveryInv
  BY DEF IInv
<1>1. ASSUME NEW s \in Starts, Dispatch(s) PROVE [Delivery!Next]_(Delivery!vars)
  <2>1. /\ disp[s] = "scheduled" /\ loop[s] = "none"
        /\ UNCHANGED <<queue, current, post, heard>>
        /\ \/ disp' = [disp EXCEPT ![s] = "handover"] /\ loop' = loop
           \/ /\ disp' = [disp EXCEPT ![s] = "serving"]
              /\ loop' = [loop EXCEPT ![s] = "created"]
    BY <1>1, <1>0 DEF Dispatch, httpVars, chatVars, HandoverInv, DispInv
  <2>2. queue[s] = <<>> /\ current[s] = s
    BY <2>1, <1>0 DEF DeliveryInv, QueuedOnce
  <2>3. \A t \in Starts : t # s => disp'[t] = disp[t] /\ loop'[t] = loop[t]
    BY <2>1, <1>0 DEF TypeOK
  <2>4. Pending(s)' \subseteq {s} /\ \A t \in Starts : t # s => Pending(t)' = Pending(t)
    BY <2>1, <2>2, <2>3 DEF Pending, Elements
  <2>5. Waiting' \subseteq Waiting
    BY <2>1, <2>3, <2>4 DEF Waiting
  <2>6. QED
    BY <2>1, <2>5, OnlyLoses DEF Accepted
<1>2. ASSUME NEW s \in Starts, TaskDone(s) PROVE [Delivery!Next]_(Delivery!vars)
  <2>1. /\ UNCHANGED <<queue, current, post, heard>>
        /\ \A w \in Starts :
             \/ disp'[w] = disp[w] /\ loop'[w] = loop[w]
             \/ disp'[w] = "done" /\ loop'[w] = loop[w]
             \/ /\ disp[w] = "handover" /\ loop[w] = "none"
                /\ disp'[w] = "serving" /\ loop'[w] = "created"
    BY <1>2, <1>0 DEF TaskDone, httpVars, chatVars, HandoverInv, DispInv
  <2>2. \A w \in Starts : loop[w] = "none" => queue[w] = <<>> /\ current[w] = w
    BY <1>0 DEF DeliveryInv, QueuedOnce
  <2>3. \A w \in Starts :
          \/ Pending(w)' = Pending(w)
          \/ disp[w] = "handover" /\ Pending(w)' \subseteq {w}
    <3> SUFFICES ASSUME NEW w \in Starts
                 PROVE  \/ Pending(w)' = Pending(w)
                        \/ disp[w] = "handover" /\ Pending(w)' \subseteq {w}
      OBVIOUS
    <3>1. CASE loop'[w] = loop[w]
      BY <2>1, <3>1 DEF Pending, Elements
    <3>2. CASE disp[w] = "handover" /\ loop[w] = "none"
      BY <2>1, <2>2, <3>2 DEF Pending, Elements
    <3>3. QED
      BY <2>1, <3>1, <3>2
  <2>4. \A w \in Starts : disp'[w] \in {"scheduled", "handover"} => disp'[w] = disp[w]
    BY <2>1
  <2>5. Waiting' \subseteq Waiting
    BY <2>3, <2>4 DEF Waiting
  <2>6. QED
    BY <2>1, <2>5, OnlyLoses DEF Accepted
<1>3. ASSUME NEW s \in Starts, LoopStep(s) PROVE [Delivery!Next]_(Delivery!vars)
  <2>1. /\ \A t \in Starts : Pending(t)' \subseteq Pending(t)
        /\ UNCHANGED <<disp, post>>
    BY <1>0, <1>3, PendingKept, LoopFrame
  <2>2. Waiting' \subseteq Waiting /\ Accepted' = Accepted
    BY <2>1 DEF Waiting, Accepted
  <2>3. CASE SavePrompt(s)
    <3>1. /\ loop[s] = "prompting" /\ heard' = heard \cup {current[s]}
          /\ current[s] \in Starts
      BY <2>3, <1>0 DEF SavePrompt, Goes, TypeOK
    <3>2. current[s] \in Waiting
      BY <3>1 DEF Waiting, Pending, Elements, Ahead
    <3>3. current[s] \notin Waiting'
      <4>1. DeliveryInv'
        BY DeliveryStep
      <4>2. current[s] \in heard'
        BY <3>1
      <4>3. ~(disp'[current[s]] \in {"scheduled", "handover"})
        BY <3>1, <4>1, <4>2 DEF DeliveryInv, UnheardIsAhead
      <4>4. \A t \in Starts : current[s] \notin Pending(t)'
        BY <4>1, <4>2 DEF DeliveryInv, UnheardIsAhead, QueuedOnce, Pending, Elements
      <4>5. QED
        BY <4>3, <4>4 DEF Waiting
    <3>4. Waiting \ {current[s]} \subseteq Waiting'
      <4>1. \A t \in Starts : Pending(t) \ {current[s]} \subseteq Pending(t)'
        BY <1>0, <1>3, <2>3, PendingKept
      <4>2. QED
        BY <2>1, <4>1 DEF Waiting
    <3>5. Waiting' = Waiting \ {current[s]}
      BY <2>2, <3>3, <3>4
    <3>6. Delivery!Hear(current[s])
      BY <2>2, <3>1, <3>2, <3>5 DEF Delivery!Hear
    <3>7. QED
      BY <3>1, <3>6 DEF Delivery!Next
  <2>4. CASE ~SavePrompt(s)
    <3>1. heard' = heard
      <4>1. CASE TakeMessage(s)
        BY <4>1 DEF TakeMessage, chatVars
      <4>2. CASE ~TakeMessage(s)
        BY <1>3, <1>0, <2>4, <4>2, LoopQuiet
      <4>3. QED
        BY <4>1, <4>2
    <3>2. QED
      BY <2>2, <3>1, OnlyLoses
  <2>5. QED
    BY <2>3, <2>4
<1>4. ASSUME NEW m \in Messages, PostRead(m) PROVE [Delivery!Next]_(Delivery!vars)
  <2>1. UNCHANGED <<disp, loop, queue, current, heard>>
    BY <1>4 DEF PostRead, dispVars, loopVars, chatVars
  <2>2. \A n \in Messages : post'[n].at \in {"queued", "restarted"}
                              <=> post[n].at \in {"queued", "restarted"}
    BY <1>0, <1>4 DEF PostRead, TypeOK
  <2>3. Waiting' = Waiting
    BY <2>1 DEF Waiting, Pending, Elements
  <2>4. Accepted' = Accepted
    BY <2>2 DEF Accepted
  <2>5. QED
    BY <2>1, <2>3, <2>4, OnlyLoses
<1>5. ASSUME NEW m \in Messages, PostAct(m) PROVE [Delivery!Next]_(Delivery!vars)
  <2>1. UNCHANGED <<loop, current, heard>> /\ post[m].at = "read"
    BY <1>5 DEF PostAct, chatVars
  <2>2. \A n \in Messages : n # m => post'[n] = post[n]
    BY <1>0, <1>5 DEF PostAct, TypeOK
  <2>3. post \in [Messages -> [at : {"new", "read", "queued", "restarted", "refused", "lost"},
                               seen : {"none", "idle", "stopped", "busy"}]]
    BY <1>0 DEF TypeOK
  <2>4. CASE UNCHANGED <<queue, disp>> /\ post' = [post EXCEPT ![m].at = "refused"]
    <3>1. post'[m].at = "refused"
      BY <2>3, <2>4
    <3>2. Accepted' = Accepted
      BY <2>1, <2>2, <3>1 DEF Accepted
    <3>3. Waiting' = Waiting
      BY <2>1, <2>4 DEF Waiting, Pending, Elements
    <3>4. QED
      BY <2>1, <3>2, <3>3, OnlyLoses
  <2>5. ASSUME NEW to \in {"queued", "restarted"}, post' = [post EXCEPT ![m].at = to],
               Waiting' \in {Waiting, Waiting \cup {m}}
        PROVE  [Delivery!Next]_(Delivery!vars)
    <3>1. post'[m].at \in {"queued", "restarted"}
      BY <2>3, <2>5
    <3>2. m \in Starts \ Accepted /\ Accepted' = Accepted \cup {m}
      BY <2>1, <2>2, <3>1, FirstIsNoMessage DEF Accepted, Starts
    <3>3. Delivery!Accept(m)
      BY <2>1, <2>5, <3>2 DEF Delivery!Accept
    <3>4. QED
      BY <3>2, <3>3 DEF Delivery!Next
  <2>6. ASSUME registered # NoStart,
               queue' = [queue EXCEPT ![registered] = Append(@, m)],
               disp' = disp
        PROVE  Waiting' \in {Waiting, Waiting \cup {m}}
    <3>1. registered \in Starts /\ m \in Starts
      BY <1>0, <2>6 DEF TypeOK, Starts
    <3>2. PICK r \in Starts : r = registered
      BY <3>1
    <3>3. queue' = [queue EXCEPT ![r] = Append(queue[r], m)] /\ queue \in [Starts -> Seq(Messages)]
      BY <1>0, <2>6, <3>2 DEF TypeOK
    <3>4. queue'[r] = Append(queue[r], m) /\ queue[r] \in Seq(Messages)
      BY <3>3
    <3>5. \A t \in Starts : t # r => Pending(t)' = Pending(t)
      BY <2>1, <3>3 DEF Pending, Elements
    <3>6. Elements(queue'[r]) = Elements(queue[r]) \cup {m}
      BY <3>4 DEF Elements
    <3>7. Pending(r)' \in {Pending(r), Pending(r) \cup {m}}
      <4>1. CASE loop[r] \in Listening
        BY <2>1, <3>1, <3>6, <4>1 DEF Pending
      <4>2. CASE loop[r] \notin Listening
        BY <2>1, <4>2 DEF Pending
      <4>3. QED
        BY <4>1, <4>2
    <3>8. disp' = disp
      BY <2>6
    <3>9. Waiting' \in {Waiting, Waiting \cup {m}}
      BY <3>5, <3>7, <3>8 DEF Waiting
    <3>10. QED
      BY <3>9
  <2>7. ASSUME queue' = queue, disp' = [disp EXCEPT ![m] = "scheduled"]
        PROVE  Waiting' = Waiting \cup {m}
    <3>1. \A t \in Starts : Pending(t)' = Pending(t)
      BY <2>1, <2>7 DEF Pending, Elements
    <3>2. m \in Starts /\ disp'[m] = "scheduled" /\ \A t \in Starts : t # m => disp'[t] = disp[t]
      BY <1>0, <2>7 DEF TypeOK, Starts
    <3>3. Waiting' = Waiting \cup {m}
      BY <3>1, <3>2 DEF Waiting
    <3>4. QED
      BY <3>3
  <2>8. QED
    <3>1. CASE UNCHANGED <<queue, disp>> /\ post' = [post EXCEPT ![m].at = "refused"]
      BY <3>1, <2>4
    <3>2. CASE /\ registered # NoStart
               /\ post' = [post EXCEPT ![m].at = "queued"]
               /\ queue' = [queue EXCEPT ![registered] = Append(@, m)]
               /\ disp' = disp
      BY <3>2, <2>5, <2>6
    <3>3. CASE /\ post' = [post EXCEPT ![m].at = "restarted"]
               /\ disp' = [disp EXCEPT ![m] = "scheduled"]
               /\ queue' = queue
      BY <3>3, <2>5, <2>7
    <3>4. QED
      BY <1>5, <3>1, <3>2, <3>3 DEF PostAct
<1>6. ASSUME NEW a \in Aborts, AbortRead(a) \/ AbortAct(a)
      PROVE  [Delivery!Next]_(Delivery!vars)
  <2>1. UNCHANGED <<disp, loop, queue, current, post, heard>>
    BY <1>6 DEF AbortRead, AbortAct, dispVars, loopVars, chatVars
  <2>2. QED
    BY <2>1, OnlyLoses DEF Waiting, Pending, Elements, Accepted
<1>7. CASE Crash
  <2>1. \A t \in Starts : Pending(t)' = {} /\ disp'[t] \in {"none", "done"}
    BY <1>7 DEF Crash, Pending, Elements, Ahead, Listening, InTry, Fallible
  <2>2. Waiting' = {}
    BY <2>1 DEF Waiting
  <2>3. \A n \in Messages : post'[n].at \in {"queued", "restarted"}
                              <=> post[n].at \in {"queued", "restarted"}
    <3> SUFFICES ASSUME NEW n \in Messages
                 PROVE  post'[n].at \in {"queued", "restarted"}
                          <=> post[n].at \in {"queued", "restarted"}
      OBVIOUS
    <3>1. post[n] \in [at : {"new", "read", "queued", "restarted", "refused", "lost"},
                       seen : {"none", "idle", "stopped", "busy"}]
      BY <1>0 DEF TypeOK
    <3>2. post'[n] = IF post[n].at = "read" THEN [post[n] EXCEPT !.at = "lost"] ELSE post[n]
      BY <1>7 DEF Crash
    <3>3. QED
      BY <3>1, <3>2
  <2>4. Accepted' = Accepted /\ heard' = heard
    BY <1>7, <2>3 DEF Accepted, Crash, chatVars
  <2>5. QED
    BY <2>2, <2>4, OnlyLoses
<1>8. CASE UNCHANGED vars
  <2>1. UNCHANGED <<disp, loop, queue, current, post, heard>>
    BY <1>8 DEF vars, dispVars, loopVars, httpVars, chatVars
  <2>2. QED
    BY <2>1, OnlyLoses DEF Waiting, Pending, Elements, Accepted
<1>9. QED
  BY <1>1, <1>2, <1>3, <1>4, <1>5, <1>6, <1>7, <1>8 DEF Next

\* The dispatchers, loops, queues and requests of a chat implement ChatDelivery,
\* however many messages, aborts and restarts of the server there are.
THEOREM ChatIsDelivery == Spec => Delivers
<1>1. Init => Delivery!Init
  <2> SUFFICES ASSUME Init PROVE Delivery!Init
    OBVIOUS
  <2>1. Accepted = {First} /\ heard = {}
    BY DEF Init, Accepted
  <2>2. \A s \in Starts : Pending(s) = {}
    BY DEF Init, Pending, Elements, Ahead, Listening, InTry, Fallible
  <2>3. Waiting = {First}
    BY <2>2 DEF Init, Waiting, Starts
  <2>4. QED
    BY <2>1, <2>3 DEF Delivery!Init
<1>2. QED
  BY Inductive, <1>1, DeliversStep, PTL DEF Delivers, Delivery!Spec, Spec
===============================================================================
