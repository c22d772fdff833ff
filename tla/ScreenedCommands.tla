--------------------------- MODULE ScreenedCommands ---------------------------
(***************************************************************************)
(* How run_ssh_command (agent/agent.py) uses the command rules: each of    *)
(* the Loaders of CommandRules is a tool call that looks its command up on *)
(* the blacklist, is refused or stored, and then looks it up on the        *)
(* whitelist, to run without a technician or to ask.  Rules are added and  *)
(* deleted while it does.                                                  *)
(***************************************************************************)
EXTENDS CommandRules

VARIABLE call  \* of each tool call: where it is, the patterns found in its command,
               \* and, as history, the rules it must (blacklist) or may heed

screenVars == <<rules, cache, load, overtaken, suspect, write, call>>

NoCall == [at |-> "idle"]
Busy == {"screening", "passed", "listing", "auto", "asked"}

CallsOK ==
  \A l \in Loaders :
    call[l] = NoCall \/ call[l] \in [at : Busy, cmd : SUBSET Patterns, heed : SUBSET Patterns]

ScreenTypeOK == TypeOK /\ CallsOK

ScreenInit == Init /\ call = [l \in Loaders |-> NoCall]

\* Refused by the blacklist, or on to the next step.
Screened(cmd, list, heed) ==
  IF cmd \cap list # {} THEN NoCall ELSE [at |-> "passed", cmd |-> cmd, heed |-> heed]

\* Whitelisted or a question for the technician.
Classified(cmd, list, heed) ==
  [at |-> IF cmd \cap list # {} THEN "auto" ELSE "asked", cmd |-> cmd, heed |-> heed]

-------------------------------------------------------------------------------
(* The tool call.  A command is the set of the patterns `search` finds in it. *)

\* Mutant: a list that is not loaded is taken for an empty one.
BeginHitUnloaded(l, cmd) ==
  LET heed == IF Overlapped("blacklist") THEN {} ELSE PatternsOf("blacklist")
      list == IF cache["blacklist"] = Unloaded THEN {} ELSE cache["blacklist"]
  IN /\ call[l] = NoCall
     /\ call' = [call EXCEPT ![l] = Screened(cmd, list, heed)]
     /\ UNCHANGED vars

BeginHit(l, cmd) ==
  LET heed == IF Overlapped("blacklist") THEN {} ELSE PatternsOf("blacklist")
  IN /\ call[l] = NoCall
     /\ cache["blacklist"] # Unloaded
     /\ call' = [call EXCEPT ![l] = Screened(cmd, cache["blacklist"], heed)]
     /\ UNCHANGED vars

BeginMiss(l, cmd) ==
  /\ call[l] = NoCall
  /\ LoadMiss(l, "blacklist")
  /\ call' = [call EXCEPT ![l] =
       [at |-> "screening", cmd |-> cmd, heed |-> PatternsOf("blacklist")]]

Screen(l) ==
  /\ call[l].at = "screening"
  /\ LoadStore(l)
  /\ call' = [call EXCEPT ![l] = Screened(@.cmd, load[l].seen, @.heed)]

\* `match` looks at the start of the command only, and minds the case: it matches
\* some of the patterns that `search` finds.
ListHit(l) ==
  LET heed == IF Overlapped("whitelist") THEN Patterns ELSE PatternsOf("whitelist")
  IN /\ call[l].at = "passed"
     /\ cache["whitelist"] # Unloaded
     /\ \E cmd \in SUBSET call[l].cmd :
          call' = [call EXCEPT ![l] = Classified(cmd, cache["whitelist"], heed)]
     /\ UNCHANGED vars

ListMiss(l) ==
  /\ call[l].at = "passed"
  /\ LoadMiss(l, "whitelist")
  /\ \E cmd \in SUBSET call[l].cmd :
       call' = [call EXCEPT ![l] =
         [at |-> "listing", cmd |-> cmd, heed |-> PatternsOf("whitelist")]]

List(l) ==
  /\ call[l].at = "listing"
  /\ LoadStore(l)
  /\ call' = [call EXCEPT ![l] = Classified(@.cmd, load[l].seen, @.heed)]

Read(l) == LoadRead(l) /\ UNCHANGED call

\* The call runs or is rejected, whatever the rules have become.
Settle(l) ==
  /\ call[l].at \in {"auto", "asked"}
  /\ call' = [call EXCEPT ![l] = NoCall]
  /\ UNCHANGED vars

\* The session is stopped, or a load fails.
CancelCall(l) ==
  /\ call[l].at \in {"screening", "passed", "listing"}
  /\ call' = [call EXCEPT ![l] = NoCall]
  /\ LoadCancelled(l) \/ (load[l] = NoLoad /\ UNCHANGED vars)

-------------------------------------------------------------------------------
(* Meanwhile *)

\* Until its load is over a call must heed the rules that are banned throughout and
\* may heed those that are listed at some moment.
Watch ==
  [l \in Loaders |->
     CASE call[l].at = "screening" -> [call[l] EXCEPT !.heed = @ \cap PatternsOf("blacklist")']
       [] call[l].at = "listing" -> [call[l] EXCEPT !.heed = @ \cup PatternsOf("whitelist")']
       [] OTHER -> call[l]]

Request(w) == WriterStep(w) /\ call' = Watch

\* The tool calls end with the process.
ServerRestart == Restart /\ call' = [l \in Loaders |-> NoCall]

ScreenNext ==
  \/ \E l \in Loaders :
       \/ \E cmd \in SUBSET Patterns : BeginHit(l, cmd) \/ BeginMiss(l, cmd)
       \/ Screen(l) \/ ListHit(l) \/ ListMiss(l) \/ List(l)
       \/ Read(l) \/ Settle(l) \/ CancelCall(l)
  \/ \E w \in Writers : Request(w)
  \/ ServerRestart

ScreenSpec == ScreenInit /\ [][ScreenNext]_screenVars

-------------------------------------------------------------------------------
(* Safety *)

\* agent.py:214: a command that goes on to the technician, or to the machine,
\* contains no pattern that was on the blacklist from the moment the call looked
\* until it was let through, unless a rule was changed under the cached list.
PassedIsUnbanned ==
  \A l \in Loaders : call[l].at = "passed" => call[l].cmd \cap call[l].heed = {}

\* agent.py:242: only a command on the whitelist runs without a technician: one of
\* its patterns was listed at some moment of the look-up, with the same exception.
AutoIsListed ==
  \A l \in Loaders : call[l].at = "auto" => call[l].cmd \cap call[l].heed # {}
===============================================================================
