----------------------------- MODULE ChatMessages -----------------------------
(***************************************************************************)
(* The stored messages of one chat and the order GET .../messages lists    *)
(* them in.  save_message (agent/persistence.py) numbers a message by      *)
(* counting the rows that are committed, in a transaction of its caller:   *)
(* the agent loop (agent/orchestrator.py) for prompts and answers, its     *)
(* tool calls (agent/agent.py) under ssh_lock for results.  Two loops of a *)
(* chat may be alive at once (see Orchestrator, OneLoop).                  *)
(***************************************************************************)
EXTENDS Naturals, Sequences

CONSTANTS
  Loops,       \* agent loops of the chat
  Tools,       \* tool calls of a turn
  Self,        \* the loop itself, as a writer
  MaxMessages  \* bound on the rows

ASSUME SelfIsNoTool == Self \notin Tools
ASSUME MessageBound == MaxMessages \in Nat

VARIABLES
  table,   \* committed rows in commit order: sequence, and whose they are
  saves,   \* messages counted and not yet committed
  phase,   \* what each loop is doing
  met      \* history: pairs of loops that were alive at the same time

vars == <<table, saves, phase, met>>

Row == [seq : Nat, loop : Loops]
Save == [seq : Nat, loop : Loops, by : Tools \cup {Self}]
SavesOf(l) == {s \in saves : s.loop = l}
OwnOf(l) == {s \in SavesOf(l) : s.by = Self}
ResultsOf(l) == {s \in SavesOf(l) : s.by # Self}
Alive(l) == phase[l] \notin {"none", "over"}

TypeOK ==
  /\ table \in Seq(Row)
  /\ saves \subseteq Save
  /\ phase \in [Loops -> {"none", "prompting", "turn", "answering", "idle", "over"}]
  /\ met \subseteq Loops \X Loops

Init ==
  /\ table = <<>>
  /\ saves = {}
  /\ phase = [l \in Loops |-> "none"]
  /\ met = {}

Goes(l, from, to) == phase[l] = from /\ phase' = [phase EXCEPT ![l] = to]

-------------------------------------------------------------------------------
(* save_message *)

\* The sequence is the number of rows; the row is flushed, not committed.
Count(l, w) ==
  /\ Len(table) < MaxMessages
  /\ saves' = saves \cup {[seq |-> Len(table), loop |-> l, by |-> w]}

Stored(s) == Append(table, [seq |-> s.seq, loop |-> s.loop])

-------------------------------------------------------------------------------
(* The agent loop *)

Start(l) ==
  /\ Goes(l, "none", "prompting")
  /\ met' = met \cup UNION {{<<l, k>>, <<k, l>>} : k \in {k \in Loops : Alive(k)}}
  /\ UNCHANGED <<table, saves>>

\* The prompt, the answer of a turn or the technician's next message.
CountOwn(l) ==
  /\ phase[l] \in {"prompting", "answering"}
  /\ OwnOf(l) = {}
  /\ Count(l, Self)
  /\ UNCHANGED <<table, phase, met>>

CommitOwn(l) ==
  /\ Goes(l, "prompting", "turn") \/ Goes(l, "answering", "idle")
  /\ \E s \in OwnOf(l) : table' = Stored(s) /\ saves' = saves \ {s}
  /\ UNCHANGED met

\* Mutant: the stream's end does not wait for the tool calls of the turn.
FinishStreamEarly(l) ==
  /\ Goes(l, "turn", "answering")
  /\ UNCHANGED <<table, saves, met>>

\* run_stream returns when its tool calls have.
FinishStream(l) ==
  /\ Goes(l, "turn", "answering")
  /\ ResultsOf(l) = {}
  /\ UNCHANGED <<table, saves, met>>

TakeMessage(l) ==
  /\ Goes(l, "idle", "prompting")
  /\ UNCHANGED <<table, saves, met>>

\* Mutant: results are saved outside ssh_lock.
CountResultUnlocked(l, t) ==
  /\ phase[l] = "turn"
  /\ Count(l, t)
  /\ UNCHANGED <<table, phase, met>>

\* A rejection, a connection error or a result, saved while the call holds ssh_lock.
CountResult(l, t) ==
  /\ phase[l] = "turn"
  /\ ResultsOf(l) = {}
  /\ Count(l, t)
  /\ UNCHANGED <<table, phase, met>>

CommitResult(l) ==
  /\ \E s \in ResultsOf(l) : table' = Stored(s) /\ saves' = saves \ {s}
  /\ UNCHANGED <<phase, met>>

\* An abort, an error or the end of the server: a commit under way arrives or not.
End(l) ==
  /\ Alive(l)
  /\ phase' = [phase EXCEPT ![l] = "over"]
  /\ saves' = saves \ SavesOf(l)
  /\ \/ UNCHANGED table
     \/ \E s \in SavesOf(l) : table' = Stored(s)
  /\ UNCHANGED met

Next ==
  \E l \in Loops :
    \/ Start(l) \/ CountOwn(l) \/ CommitOwn(l) \/ FinishStream(l) \/ TakeMessage(l)
    \/ CommitResult(l) \/ End(l)
    \/ \E t \in Tools : CountResult(l, t)

Spec == Init /\ [][Next]_vars

-------------------------------------------------------------------------------
(* Safety *)

\* GET .../messages orders by sequence.
ListedBefore(i, j) == table[i].seq < table[j].seq

\* The history a technician reopens is the conversation as it went: of two
\* messages the one stored first is listed first, and no two share a number,
\* unless they come from two loops that were alive together.
HistoryInOrder ==
  \A i, j \in DOMAIN table :
    i < j /\ <<table[i].loop, table[j].loop>> \notin met => ListedBefore(i, j)

\* Without overlapping loops the numbers are 0, 1, 2, ..., whatever was cancelled.
NoGaps == met = {} => \A i \in DOMAIN table : table[i].seq = i - 1
===============================================================================
