----------------------------- MODULE CommandRules -----------------------------
(***************************************************************************)
(* Whitelist and blacklist rules: the command_rules table, the requests    *)
(* that add and delete rules (api/command_rules/router.py), the in-memory  *)
(* caches every tool call reads (agent/command_rules_cache.py) and the     *)
(* defaults inserted at startup (db/session.py).  Every step is the code   *)
(* from one await to the next.                                             *)
(***************************************************************************)
EXTENDS FiniteSets

CONSTANTS
  Patterns,  \* regular expressions
  Ids,       \* primary keys
  Defaults,  \* the seeded rules, each [type, pattern]
  Loaders,   \* tool calls that load a list
  Writers,   \* POST and DELETE requests
  Unloaded   \* the cache is None

Types == {"whitelist", "blacklist"}

ASSUME UnloadedIsNoSet == \A S \in SUBSET Patterns : Unloaded # S
ASSUME DefaultsAreRules == Defaults \subseteq [type : Types, pattern : Patterns]

VARIABLES
  rules,      \* the table; `raced`: see CreateInsert
  cache,      \* _whitelist_cache and _blacklist_cache
  load,       \* where each loader is, what it read
  overtaken,  \* history: loaders whose list was written after they read it
  suspect,    \* history: caches an overtaken loader filled
  write       \* where each request is, its rule

vars == <<rules, cache, load, overtaken, suspect, write>>

Rule == [id : Ids, type : Types, pattern : Patterns, raced : BOOLEAN]
PatternsOf(t) == {r.pattern : r \in {q \in rules : q.type = t}}
Same(r, q) == r.type = q.type /\ r.pattern = q.pattern

NoLoad == [at |-> "idle"]
NoWrite == [at |-> "new"]

TypeOK ==
  /\ rules \subseteq Rule
  /\ cache \in [Types -> {Unloaded} \cup SUBSET Patterns]
  /\ \A l \in Loaders :
       \/ load[l] = NoLoad
       \/ load[l] \in [at : {"missed"}, type : Types]
       \/ load[l] \in [at : {"read"}, type : Types, seen : SUBSET Patterns]
  /\ overtaken \subseteq Loaders
  /\ suspect \subseteq Types
  /\ \A w \in Writers :
       \/ write[w] \in [at : {"new", "committed", "done"}]
       \/ write[w] \in [at : {"checked"}, rule : [type : Types, pattern : Patterns, raced : BOOLEAN]]
       \/ write[w] \in [at : {"found"}, rule : Rule]

\* The default rules, each under an id of its own.
SeededRules ==
  {{[id |-> f[d], type |-> d.type, pattern |-> d.pattern, raced |-> FALSE] : d \in Defaults} :
     f \in {g \in [Defaults -> Ids] : \A d, e \in Defaults : g[d] = g[e] => d = e}}

Init ==
  /\ rules \in SeededRules
  /\ cache = [t \in Types |-> Unloaded]
  /\ load = [l \in Loaders |-> NoLoad]
  /\ overtaken = {}
  /\ suspect = {}
  /\ write = [w \in Writers |-> NoWrite]

-------------------------------------------------------------------------------
(* load_whitelist and load_blacklist.  A hit returns cache[t] and changes
   nothing; a miss opens a session, reads, and stores what it read. *)

LoadMiss(l, t) ==
  /\ load[l] = NoLoad
  /\ cache[t] = Unloaded
  /\ load' = [load EXCEPT ![l] = [at |-> "missed", type |-> t]]
  /\ UNCHANGED <<rules, cache, overtaken, suspect, write>>

LoadRead(l) ==
  /\ load[l].at = "missed"
  /\ load' = [load EXCEPT ![l] =
       [at |-> "read", type |-> @.type, seen |-> PatternsOf(@.type)]]
  /\ overtaken' = overtaken \ {l}
  /\ UNCHANGED <<rules, cache, suspect, write>>

LoadStore(l) ==
  LET t == load[l].type
  IN /\ load[l].at = "read"
     /\ cache' = [cache EXCEPT ![t] = load[l].seen]
     /\ suspect' = IF l \in overtaken THEN suspect \cup {t} ELSE suspect \ {t}
     /\ load' = [load EXCEPT ![l] = NoLoad]
     /\ UNCHANGED <<rules, overtaken, write>>

\* The tool call is cancelled, or the database fails, at either await of a load.
LoadCancelled(l) ==
  /\ load[l] # NoLoad
  /\ load' = [load EXCEPT ![l] = NoLoad]
  /\ UNCHANGED <<rules, cache, overtaken, suspect, write>>

-------------------------------------------------------------------------------
(* The requests *)

\* Loaders that have read the list of type t.
Readers(t) == {l \in Loaders : load[l].at = "read" /\ load[l].type = t}

\* Mutant: existing rules are not looked for.
CreateUnchecked(w, t, p) ==
  /\ write[w] = NoWrite
  /\ write' = [write EXCEPT ![w] =
       [at |-> "checked", rule |-> [type |-> t, pattern |-> p, raced |-> FALSE]]]
  /\ UNCHANGED <<rules, cache, load, overtaken, suspect>>

\* A rule that exists is refused with 409.
CreateCheck(w, t, p) ==
  LET rule == [type |-> t, pattern |-> p, raced |-> FALSE]
  IN /\ write[w] = NoWrite
     /\ write' = [write EXCEPT ![w] =
          IF \E r \in rules : Same(r, rule) THEN [at |-> "done"]
                                            ELSE [at |-> "checked", rule |-> rule]]
     /\ UNCHANGED <<rules, cache, load, overtaken, suspect>>

\* The row is committed.  A request that checked for the same rule before it has
\* raced.
CreateInsert(w, i) ==
  LET rule == write[w].rule
      again == [type |-> rule.type, pattern |-> rule.pattern, raced |-> TRUE]
  IN /\ write[w].at = "checked"
     /\ \A r \in rules : r.id # i
     /\ \A v \in Writers : write[v].at = "found" => write[v].rule.id # i
     /\ rules' = rules \cup {[id |-> i, type |-> rule.type, pattern |-> rule.pattern,
                              raced |-> rule.raced]}
     /\ overtaken' = overtaken \cup Readers(rule.type)
     /\ write' = [v \in Writers |->
          IF v = w THEN [at |-> "committed"]
          ELSE IF write[v].at = "checked" /\ Same(write[v].rule, rule)
               THEN [at |-> "checked", rule |-> again] ELSE write[v]]
     /\ UNCHANGED <<cache, load, suspect>>

\* A rule that does not exist (any more) is not found and the request is over.
DeleteFind(w, r) ==
  /\ write[w] = NoWrite
  /\ write' = [write EXCEPT ![w] = [at |-> "found", rule |-> r]]
  /\ UNCHANGED <<rules, cache, load, overtaken, suspect>>

DeleteCommit(w) ==
  LET rule == write[w].rule
  IN /\ write[w].at = "found"
     /\ rules' = rules \ {rule}
     /\ overtaken' = overtaken \cup Readers(rule.type)
     /\ write' = [write EXCEPT ![w] = [at |-> "committed"]]
     /\ UNCHANGED <<cache, load, suspect>>

\* Mutant: only the whitelist is forgotten.
InvalidateWhitelist(w) ==
  /\ write[w].at = "committed"
  /\ write' = [write EXCEPT ![w] = [at |-> "done"]]
  /\ cache' = [cache EXCEPT !["whitelist"] = Unloaded]
  /\ suspect' = {}
  /\ UNCHANGED <<rules, load, overtaken>>

\* Mutant: only the blacklist is forgotten.
InvalidateBlacklist(w) ==
  /\ write[w].at = "committed"
  /\ write' = [write EXCEPT ![w] = [at |-> "done"]]
  /\ cache' = [cache EXCEPT !["blacklist"] = Unloaded]
  /\ suspect' = {}
  /\ UNCHANGED <<rules, load, overtaken>>

\* Both requests end with invalidate_cache, which forgets both lists.
Invalidate(w) ==
  /\ write[w].at = "committed"
  /\ write' = [write EXCEPT ![w] = [at |-> "done"]]
  /\ cache' = [t \in Types |-> Unloaded]
  /\ suspect' = {}
  /\ UNCHANGED <<rules, load, overtaken>>

\* The server starts again: only the table is left; an empty one is seeded.
Restart ==
  /\ \/ rules # {} /\ UNCHANGED rules
     \/ rules = {} /\ rules' \in SeededRules
  /\ cache' = [t \in Types |-> Unloaded]
  /\ load' = [l \in Loaders |-> NoLoad]
  /\ overtaken' = {}
  /\ suspect' = {}
  /\ write' = [w \in Writers |-> IF write[w] = NoWrite THEN NoWrite ELSE [at |-> "done"]]

WriterStep(w) ==
  \/ \E t \in Types, p \in Patterns : CreateCheck(w, t, p)
  \/ \E i \in Ids : CreateInsert(w, i)
  \/ \E r \in rules : DeleteFind(w, r)
  \/ DeleteCommit(w)
  \/ Invalidate(w)

Next ==
  \/ \E l \in Loaders :
       (\E t \in Types : LoadMiss(l, t)) \/ LoadRead(l) \/ LoadStore(l) \/ LoadCancelled(l)
  \/ \E w \in Writers : WriterStep(w)
  \/ Restart

Spec == Init /\ [][Next]_vars

-------------------------------------------------------------------------------
(* Safety *)

Fresh(t) == cache[t] \in {Unloaded, PatternsOf(t)}

\* A request has committed and not yet invalidated, or the list was read before a
\* commit and stored after it.
Overlapped(t) == t \in suspect \/ \E w \in Writers : write[w].at = "committed"

\* The cache commands are screened with is the table's content, but for the moment
\* between a request's commit and its invalidation, and but for a list that was
\* read before a commit and stored after the invalidation.
StaleOnlyByOverlap == \A t \in Types : Fresh(t) \/ Overlapped(t)

\* A rule is in the table twice only if two requests that add it overlapped.
DuplicateOnlyByOverlap ==
  \A r, q \in rules : Same(r, q) /\ r # q => r.raced \/ q.raced
===============================================================================
