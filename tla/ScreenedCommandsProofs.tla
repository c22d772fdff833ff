------------------------ MODULE ScreenedCommandsProofs ------------------------
(***************************************************************************)
(* When the caches and the table can disagree, when a rule can be there    *)
(* twice, and that screening leaves the command rules to themselves, lets  *)
(* no banned command pass and runs none unasked that is not listed, for    *)
(* every number of rules, tool calls and requests.                         *)
(***************************************************************************)
EXTENDS ScreenedCommands, TLAPS

-------------------------------------------------------------------------------
(* The rules by themselves: Spec, of CommandRules *)

\* A loader that was not overtaken holds the list as it is in the table.
LoadsAreCurrent ==
  \A l \in Loaders : load[l].at = "read" /\ l \notin overtaken
                       => load[l].seen = PatternsOf(load[l].type)

CacheInv ==
  /\ cache = [t \in Types |-> cache[t]]
  /\ load = [l \in Loaders |-> load[l]]
  /\ write = [w \in Writers |-> write[w]]
  /\ LoadsAreCurrent
  /\ StaleOnlyByOverlap

\* A request that was not raced would still find its rule missing.
ChecksHold ==
  \A w \in Writers : write[w].at = "checked" /\ ~write[w].rule.raced
                       => \A r \in rules : ~Same(r, write[w].rule)

TableInv ==
  /\ write = [w \in Writers |-> write[w]]
  /\ ChecksHold
  /\ DuplicateOnlyByOverlap

-------------------------------------------------------------------------------
(* Caches *)

\* Committing a rule marks the request, so that no list needs to agree with the
\* table until it is invalidated, and overtakes whoever has read the old list.
LEMMA Committing ==
  ASSUME CacheInv, NEW w \in Writers, NEW t,
         write' = [v \in Writers |-> write'[v]], write'[w] = [at |-> "committed"],
         \A r : r.type # t => (r \in rules <=> r \in rules'),
         overtaken' = overtaken \cup Readers(t),
         UNCHANGED <<load, cache, suspect>>
  PROVE  CacheInv'
<1>1. \A u \in Types : u # t => PatternsOf(u)' = PatternsOf(u)
  BY DEF PatternsOf
<1>2. LoadsAreCurrent'
  <2> SUFFICES ASSUME NEW l \in Loaders, load[l].at = "read", l \notin overtaken'
               PROVE  load[l].seen = PatternsOf(load[l].type)'
    BY DEF LoadsAreCurrent
  <2>1. load[l].type # t /\ l \notin overtaken
    BY DEF Readers
  <2>2. load[l].seen = PatternsOf(load[l].type)
    BY <2>1 DEF CacheInv, LoadsAreCurrent
  <2>3. QED
    BY <2>1, <2>2 DEF PatternsOf
<1>3. StaleOnlyByOverlap'
  BY DEF StaleOnlyByOverlap, Overlapped
<1>4. QED
  BY <1>2, <1>3 DEF CacheInv

LEMMA CacheStep == CacheInv /\ [Next]_vars => CacheInv'
<1> SUFFICES ASSUME CacheInv, [Next]_vars PROVE CacheInv'
  OBVIOUS
<1> USE DEF CacheInv, LoadsAreCurrent, StaleOnlyByOverlap, Overlapped, Fresh
<1>0. ASSUME UNCHANGED rules, NEW t PROVE PatternsOf(t)' = PatternsOf(t)
  BY <1>0 DEF PatternsOf
<1>1. ASSUME NEW l \in Loaders, NEW t \in Types, LoadMiss(l, t) PROVE CacheInv'
  BY <1>1, <1>0 DEF LoadMiss
<1>2. ASSUME NEW l \in Loaders, LoadRead(l) PROVE CacheInv'
  BY <1>2, <1>0 DEF LoadRead
<1>3. ASSUME NEW l \in Loaders, LoadStore(l) PROVE CacheInv'
  BY <1>3, <1>0 DEF LoadStore, NoLoad
<1>4. ASSUME NEW w \in Writers, NEW t \in Types, NEW p \in Patterns, CreateCheck(w, t, p)
      PROVE  CacheInv'
  <2>1. UNCHANGED <<rules, cache, load, overtaken, suspect>>
    BY <1>4 DEF CreateCheck
  <2>2. \A v \in Writers : write[v].at = "committed" => write'[v].at = "committed"
    BY <1>4 DEF CreateCheck, NoWrite
  <2>3. write' = [v \in Writers |-> write'[v]]
    BY <1>4 DEF CreateCheck
  <2>4. QED
    BY <2>1, <2>2, <2>3, <1>0
<1>5. ASSUME NEW w \in Writers, NEW i \in Ids, CreateInsert(w, i) PROVE CacheInv'
  <2> DEFINE t == write[w].rule.type
  <2>1. \A r : r.type # t => (r \in rules <=> r \in rules')
    BY <1>5 DEF CreateInsert
  <2>2. write' = [v \in Writers |-> write'[v]] /\ write'[w] = [at |-> "committed"]
    BY <1>5 DEF CreateInsert
  <2>3. overtaken' = overtaken \cup Readers(t) /\ UNCHANGED <<load, cache, suspect>>
    BY <1>5 DEF CreateInsert
  <2>4. QED
    BY <2>1, <2>2, <2>3, Committing
<1>6. ASSUME NEW w \in Writers, NEW r \in rules, DeleteFind(w, r) PROVE CacheInv'
  <2>1. UNCHANGED <<rules, cache, load, overtaken, suspect>>
    BY <1>6 DEF DeleteFind
  <2>2. \A v \in Writers : write[v].at = "committed" => write'[v].at = "committed"
    BY <1>6 DEF DeleteFind, NoWrite
  <2>3. write' = [v \in Writers |-> write'[v]]
    BY <1>6 DEF DeleteFind
  <2>4. QED
    BY <2>1, <2>2, <2>3, <1>0
<1>7. ASSUME NEW w \in Writers, DeleteCommit(w) PROVE CacheInv'
  <2> DEFINE t == write[w].rule.type
  <2>1. \A r : r.type # t => (r \in rules <=> r \in rules')
    BY <1>7 DEF DeleteCommit
  <2>2. write' = [v \in Writers |-> write'[v]] /\ write'[w] = [at |-> "committed"]
    BY <1>7 DEF DeleteCommit
  <2>3. overtaken' = overtaken \cup Readers(t) /\ UNCHANGED <<load, cache, suspect>>
    BY <1>7 DEF DeleteCommit
  <2>4. QED
    BY <2>1, <2>2, <2>3, Committing
<1>8. ASSUME NEW w \in Writers, Invalidate(w) PROVE CacheInv'
  BY <1>8, <1>0 DEF Invalidate
<1>9. CASE Restart
  BY <1>9 DEF Restart, NoLoad, NoWrite
<1>10. ASSUME NEW l \in Loaders, LoadCancelled(l) PROVE CacheInv'
  BY <1>10, <1>0 DEF LoadCancelled, NoLoad
<1>11. CASE UNCHANGED vars
  BY <1>11, <1>0 DEF vars
<1>12. QED
  BY <1>1, <1>2, <1>3, <1>4, <1>5, <1>6, <1>7, <1>8, <1>9, <1>10, <1>11
  DEF Next, WriterStep

\* A cache disagrees with the table only while a request has committed and not
\* yet invalidated, or when an overtaken loader filled it.
THEOREM CacheTruth == Spec => []StaleOnlyByOverlap
<1>1. Init => CacheInv
  BY DEF Init, CacheInv, LoadsAreCurrent, StaleOnlyByOverlap, Overlapped, Fresh, NoLoad, NoWrite
<1>2. CacheInv => StaleOnlyByOverlap
  BY DEF CacheInv
<1>3. QED
  BY <1>1, <1>2, CacheStep, PTL DEF Spec

-------------------------------------------------------------------------------
(* Duplicates *)

\* Seeding makes no duplicates: each default has an id of its own.
LEMMA SeedsDiffer ==
  ASSUME NEW S \in SeededRules, NEW r \in S, NEW q \in S, Same(r, q)
  PROVE  r = q
<1>1. PICK f \in [Defaults -> Ids] :
        S = {[id |-> f[d], type |-> d.type, pattern |-> d.pattern, raced |-> FALSE] :
               d \in Defaults}
  BY DEF SeededRules
<1>2. PICK d \in Defaults, e \in Defaults :
        /\ r = [id |-> f[d], type |-> d.type, pattern |-> d.pattern, raced |-> FALSE]
        /\ q = [id |-> f[e], type |-> e.type, pattern |-> e.pattern, raced |-> FALSE]
  BY <1>1
<1>3. d.type = e.type /\ d.pattern = e.pattern
  BY <1>2 DEF Same
<1>4. d = e
  BY <1>3, DefaultsAreRules
<1>5. QED
  BY <1>2, <1>4

LEMMA TableStep == TableInv /\ [Next]_vars => TableInv'
<1> SUFFICES ASSUME TableInv, [Next]_vars PROVE TableInv'
  OBVIOUS
<1> USE DEF TableInv, ChecksHold, DuplicateOnlyByOverlap
<1>1. ASSUME NEW l \in Loaders, \/ \E t \in Types : LoadMiss(l, t)
                                \/ LoadRead(l) \/ LoadStore(l) \/ LoadCancelled(l)
      PROVE  TableInv'
  BY <1>1 DEF LoadMiss, LoadRead, LoadStore, LoadCancelled
<1>2. ASSUME NEW w \in Writers, NEW t \in Types, NEW p \in Patterns, CreateCheck(w, t, p) PROVE TableInv'
  BY <1>2 DEF CreateCheck, NoWrite
<1>3. ASSUME NEW w \in Writers, NEW i \in Ids, CreateInsert(w, i) PROVE TableInv'
  <2> DEFINE rule == write[w].rule
             row == [id |-> i, type |-> rule.type, pattern |-> rule.pattern,
                     raced |-> rule.raced]
  <2>1. rules' = rules \cup {row} /\ write[w].at = "checked"
    BY <1>3 DEF CreateInsert
  <2>2. ChecksHold'
    BY <1>3 DEF CreateInsert, Same
  <2>3. DuplicateOnlyByOverlap'
    BY <2>1 DEF Same
  <2>4. QED
    BY <1>3, <2>2, <2>3 DEF CreateInsert
<1>4. ASSUME NEW w \in Writers, NEW r \in rules, DeleteFind(w, r) PROVE TableInv'
  BY <1>4 DEF DeleteFind, NoWrite
<1>5. ASSUME NEW w \in Writers, DeleteCommit(w) PROVE TableInv'
  BY <1>5 DEF DeleteCommit
<1>6. ASSUME NEW w \in Writers, Invalidate(w) PROVE TableInv'
  BY <1>6 DEF Invalidate
<1>7. CASE Restart
  <2>1. ChecksHold'
    BY <1>7 DEF Restart, NoWrite
  <2>2. DuplicateOnlyByOverlap'
    BY <1>7, SeedsDiffer DEF Restart
  <2>3. QED
    BY <1>7, <2>1, <2>2 DEF Restart
<1>8. CASE UNCHANGED vars
  BY <1>8 DEF vars
<1>9. QED
  BY <1>1, <1>2, <1>3, <1>4, <1>5, <1>6, <1>7, <1>8 DEF Next, WriterStep

\* Without overlapping requests no rule is stored twice.
THEOREM DuplicateTruth == Spec => []DuplicateOnlyByOverlap
<1>1. Init => TableInv
  BY SeedsDiffer DEF Init, TableInv, ChecksHold, DuplicateOnlyByOverlap, NoWrite
<1>2. TableInv => DuplicateOnlyByOverlap
  BY DEF TableInv
<1>3. QED
  BY <1>1, <1>2, TableStep, PTL DEF Spec

-------------------------------------------------------------------------------
(* Types *)

TypeInv ==
  /\ load = [l \in Loaders |-> load[l]]
  /\ write = [w \in Writers |-> write[w]]
  /\ TypeOK

LEMMA PatternsArePatterns ==
  ASSUME rules \subseteq Rule, NEW t PROVE PatternsOf(t) \subseteq Patterns
  BY DEF PatternsOf, Rule

LEMMA SeedsAreRules == ASSUME NEW S \in SeededRules PROVE S \subseteq Rule
<1>1. PICK f \in [Defaults -> Ids] :
        S = {[id |-> f[d], type |-> d.type, pattern |-> d.pattern, raced |-> FALSE] :
               d \in Defaults}
  BY DEF SeededRules
<1>2. ASSUME NEW d \in Defaults
      PROVE  [id |-> f[d], type |-> d.type, pattern |-> d.pattern, raced |-> FALSE] \in Rule
  <2>1. f[d] \in Ids /\ d.type \in Types /\ d.pattern \in Patterns
    BY DefaultsAreRules
  <2>2. QED
    BY <2>1 DEF Rule
<1>3. QED
  BY <1>1, <1>2

LEMMA TypeStep == TypeInv /\ [Next]_vars => TypeInv'
<1> SUFFICES ASSUME TypeInv, [Next]_vars PROVE TypeInv'
  OBVIOUS
<1> USE DEF TypeInv, TypeOK
<1>1. ASSUME NEW l \in Loaders, NEW t \in Types, LoadMiss(l, t) PROVE TypeInv'
  BY <1>1 DEF LoadMiss
<1>2. ASSUME NEW l \in Loaders, LoadRead(l) PROVE TypeInv'
  <2>1. load[l].type \in Types
    BY <1>2 DEF LoadRead, NoLoad
  <2>2. PatternsOf(load[l].type) \subseteq Patterns
    BY PatternsArePatterns
  <2>3. load'[l] \in [at : {"read"}, type : Types, seen : SUBSET Patterns]
    BY <1>2, <2>1, <2>2 DEF LoadRead
  <2>4. QED
    BY <1>2, <2>3 DEF LoadRead
<1>3. ASSUME NEW l \in Loaders, LoadStore(l) PROVE TypeInv'
  <2>1. load[l].type \in Types /\ load[l].seen \subseteq Patterns
    BY <1>3 DEF LoadStore, NoLoad
  <2>2. QED
    BY <1>3, <2>1 DEF LoadStore
<1>4. ASSUME NEW l \in Loaders, LoadCancelled(l) PROVE TypeInv'
  BY <1>4 DEF LoadCancelled
<1>5. ASSUME NEW w \in Writers, NEW t \in Types, NEW p \in Patterns, CreateCheck(w, t, p)
      PROVE  TypeInv'
  BY <1>5 DEF CreateCheck
<1>6. ASSUME NEW w \in Writers, NEW i \in Ids, CreateInsert(w, i) PROVE TypeInv'
  <2>1. write[w].rule \in [type : Types, pattern : Patterns, raced : BOOLEAN]
    BY <1>6 DEF CreateInsert
  <2>2. rules' \subseteq Rule /\ overtaken' \subseteq Loaders
    BY <1>6, <2>1 DEF CreateInsert, Rule, Readers
  <2>3. ASSUME NEW v \in Writers
        PROVE  \/ write'[v] \in [at : {"new", "committed", "done"}]
               \/ write'[v] \in [at : {"checked"},
                                 rule : [type : Types, pattern : Patterns, raced : BOOLEAN]]
               \/ write'[v] \in [at : {"found"}, rule : Rule]
    <3>1. CASE v = w
      BY <1>6, <3>1 DEF CreateInsert
    <3>2. CASE v # w /\ write[v].at = "checked" /\ Same(write[v].rule, write[w].rule)
      <4>1. write'[v] = [at |-> "checked",
                         rule |-> [type |-> write[w].rule.type,
                                   pattern |-> write[w].rule.pattern, raced |-> TRUE]]
        BY <1>6, <3>2 DEF CreateInsert
      <4>2. QED
        BY <2>1, <4>1
    <3>3. CASE v # w /\ ~(write[v].at = "checked" /\ Same(write[v].rule, write[w].rule))
      BY <1>6, <3>3 DEF CreateInsert
    <3>4. QED
      BY <3>1, <3>2, <3>3
  <2>4. QED
    BY <1>6, <2>2, <2>3 DEF CreateInsert
<1>7. ASSUME NEW w \in Writers, NEW r \in rules, DeleteFind(w, r) PROVE TypeInv'
  BY <1>7 DEF DeleteFind
<1>8. ASSUME NEW w \in Writers, DeleteCommit(w) PROVE TypeInv'
  BY <1>8 DEF DeleteCommit, Readers
<1>9. ASSUME NEW w \in Writers, Invalidate(w) PROVE TypeInv'
  BY <1>9 DEF Invalidate
<1>10. CASE Restart
  <2>1. rules' \subseteq Rule
    BY <1>10, SeedsAreRules DEF Restart
  <2>2. QED
    BY <1>10, <2>1 DEF Restart, NoLoad, NoWrite
<1>11. CASE UNCHANGED vars
  BY <1>11 DEF vars
<1>12. QED
  BY <1>1, <1>2, <1>3, <1>4, <1>5, <1>6, <1>7, <1>8, <1>9, <1>10, <1>11
  DEF Next, WriterStep

\* Every variable of the command rules stays within its type.
THEOREM RulesTypeCorrect == Spec => []TypeOK
<1>1. Init => TypeInv
  BY SeedsAreRules DEF Init, TypeInv, TypeOK, NoLoad, NoWrite
<1>2. TypeInv => TypeOK
  BY DEF TypeInv
<1>3. QED
  BY <1>1, <1>2, TypeStep, PTL DEF Spec

-------------------------------------------------------------------------------
(* Screening *)

\* What a call that loads a list must or may heed, against what it will read or
\* has read.
LoadsInv ==
  \A l \in Loaders :
    /\ call[l].at = "screening" =>
         /\ load[l].type = "blacklist"
         /\ call[l].heed \subseteq PatternsOf("blacklist")
         /\ load[l].at = "read" => call[l].heed \subseteq load[l].seen
    /\ call[l].at = "listing" =>
         /\ load[l].type = "whitelist"
         /\ PatternsOf("whitelist") \subseteq call[l].heed
         /\ load[l].at = "read" => load[l].seen \subseteq call[l].heed

ScreenInv ==
  /\ TypeInv
  /\ CacheInv
  /\ call = [l \in Loaders |-> call[l]]
  /\ CallsOK
  /\ LoadsInv
  /\ PassedIsUnbanned
  /\ AutoIsListed

-------------------------------------------------------------------------------
(* Every step of a call or a request is a step of the rules. *)

LEMMA StepSimulation == [ScreenNext]_screenVars => [Next]_vars
<1> SUFFICES ASSUME [ScreenNext]_screenVars PROVE [Next]_vars
  OBVIOUS
<1>1. ASSUME NEW l \in Loaders,
             \/ \E cmd \in SUBSET Patterns : BeginHit(l, cmd) \/ BeginMiss(l, cmd)
             \/ Screen(l) \/ ListHit(l) \/ ListMiss(l) \/ List(l)
             \/ Read(l) \/ Settle(l) \/ CancelCall(l)
      PROVE  [Next]_vars
  <2>1. {"blacklist", "whitelist"} \subseteq Types
    BY DEF Types
  <2>2. QED
    BY <1>1, <2>1
    DEF BeginHit, BeginMiss, Screen, ListHit, ListMiss, List, Read, Settle, CancelCall, Next
<1>2. ASSUME NEW w \in Writers, Request(w) PROVE [Next]_vars
  BY <1>2 DEF Request, Next
<1>3. CASE ServerRestart
  BY <1>3 DEF ServerRestart, Next
<1>4. CASE UNCHANGED screenVars
  BY <1>4 DEF screenVars, vars
<1>5. QED
  BY <1>1, <1>2, <1>3, <1>4 DEF ScreenNext

-------------------------------------------------------------------------------
(* Calls *)

\* A record of a call, made by one of its steps.
LEMMA CallType ==
  ASSUME NEW l \in Loaders, CallsOK, call = [k \in Loaders |-> call[k]], NEW c,
         c = NoCall \/ c \in [at : Busy, cmd : SUBSET Patterns, heed : SUBSET Patterns],
         call' = [call EXCEPT ![l] = c]
  PROVE  CallsOK' /\ call' = [k \in Loaders |-> call'[k]] /\ call'[l] = c
  BY DEF CallsOK

\* Calls that a step of another call leaves alone.
LEMMA OthersKeep ==
  ASSUME ScreenInv, NEW l \in Loaders, NEW c, call' = [call EXCEPT ![l] = c],
         UNCHANGED rules, \A k \in Loaders \ {l} : load'[k] = load[k]
  PROVE  \A k \in Loaders \ {l} :
           /\ call'[k] = call[k]
           /\ call'[k].at = "screening" =>
                /\ load'[k].type = "blacklist"
                /\ call'[k].heed \subseteq PatternsOf("blacklist")'
                /\ load'[k].at = "read" => call'[k].heed \subseteq load'[k].seen
           /\ call'[k].at = "listing" =>
                /\ load'[k].type = "whitelist"
                /\ PatternsOf("whitelist")' \subseteq call'[k].heed
                /\ load'[k].at = "read" => load'[k].seen \subseteq call'[k].heed
<1>1. \A t : PatternsOf(t)' = PatternsOf(t)
  BY DEF PatternsOf
<1>2. \A k \in Loaders \ {l} : call'[k] = call[k]
  BY DEF ScreenInv
<1>3. QED
  BY <1>1, <1>2 DEF ScreenInv, LoadsInv

\* What a step of one call has to establish.
LEMMA CallStep ==
  ASSUME ScreenInv, NEW l \in Loaders, NEW c, call' = [call EXCEPT ![l] = c],
         UNCHANGED rules, \A k \in Loaders \ {l} : load'[k] = load[k],
         c = NoCall \/ c \in [at : Busy, cmd : SUBSET Patterns, heed : SUBSET Patterns],
         c.at = "screening" => /\ load'[l].type = "blacklist"
                               /\ c.heed \subseteq PatternsOf("blacklist")
                               /\ load'[l].at = "read" => c.heed \subseteq load'[l].seen,
         c.at = "listing" => /\ load'[l].type = "whitelist"
                             /\ PatternsOf("whitelist") \subseteq c.heed
                             /\ load'[l].at = "read" => load'[l].seen \subseteq c.heed,
         c.at = "passed" => c.cmd \cap c.heed = {},
         c.at = "auto" => c.cmd \cap c.heed # {},
         TypeInv', CacheInv'
  PROVE  ScreenInv'
<1>1. CallsOK' /\ call' = [k \in Loaders |-> call'[k]] /\ call'[l] = c
  BY CallType DEF ScreenInv
<1>2. \A t : PatternsOf(t)' = PatternsOf(t)
  BY DEF PatternsOf
<1>3. LoadsInv'
  BY <1>1, <1>2, OthersKeep DEF LoadsInv
<1>4. PassedIsUnbanned' /\ AutoIsListed'
  <2>1. \A k \in Loaders \ {l} : call'[k] = call[k]
    BY OthersKeep
  <2>2. QED
    BY <1>1, <2>1 DEF ScreenInv, PassedIsUnbanned, AutoIsListed
<1>5. QED
  BY <1>1, <1>3, <1>4 DEF ScreenInv

LEMMA ScreenStep == ScreenInv /\ [ScreenNext]_screenVars => ScreenInv'
<1> SUFFICES ASSUME ScreenInv, [ScreenNext]_screenVars PROVE ScreenInv'
  OBVIOUS
<1>1. TypeInv' /\ CacheInv'
  BY StepSimulation, TypeStep, CacheStep DEF ScreenInv
<1>2. TypeInv /\ CacheInv /\ rules \subseteq Rule /\ call = [l \in Loaders |-> call[l]]
  BY DEF ScreenInv, TypeInv, TypeOK
<1>3. \A t : PatternsOf(t) \subseteq Patterns
  BY <1>2, PatternsArePatterns
<1>4. ASSUME NEW l \in Loaders, NEW cmd \in SUBSET Patterns, BeginHit(l, cmd)
      PROVE  ScreenInv'
  <2> DEFINE heed == IF Overlapped("blacklist") THEN {} ELSE PatternsOf("blacklist")
             c == Screened(cmd, cache["blacklist"], heed)
  <2>1. call' = [call EXCEPT ![l] = c] /\ UNCHANGED vars
    BY <1>4 DEF BeginHit
  <2>2. heed \subseteq cache["blacklist"] /\ heed \subseteq Patterns
    BY <1>2, <1>3, <1>4 DEF BeginHit, CacheInv, StaleOnlyByOverlap, Fresh, Types
  <2> HIDE DEF heed
  <2>3. \/ c = NoCall
        \/ c = [at |-> "passed", cmd |-> cmd, heed |-> heed] /\ cmd \cap heed = {}
    <3>1. cmd \cap cache["blacklist"] = {} => cmd \cap heed = {}
      BY <2>2
    <3>2. QED
      BY <3>1 DEF Screened
  <2>4. UNCHANGED rules /\ \A k \in Loaders \ {l} : load'[k] = load[k]
    BY <2>1 DEF vars
  <2>5. c = NoCall \/ c \in [at : Busy, cmd : SUBSET Patterns, heed : SUBSET Patterns]
    BY <2>2, <2>3 DEF Busy
  <2>6. c.at \in {"idle", "passed"} /\ (c.at = "passed" => c.cmd \cap c.heed = {})
    BY <2>3 DEF NoCall
  <2> HIDE DEF c
  <2>7. QED
    BY <1>1, <2>1, <2>4, <2>5, <2>6, CallStep
<1>5. ASSUME NEW l \in Loaders, NEW cmd \in SUBSET Patterns, BeginMiss(l, cmd)
      PROVE  ScreenInv'
  <2> DEFINE c == [at |-> "screening", cmd |-> cmd, heed |-> PatternsOf("blacklist")]
  <2>1. call' = [call EXCEPT ![l] = c]
    BY <1>5 DEF BeginMiss
  <2>2. /\ UNCHANGED rules /\ \A k \in Loaders \ {l} : load'[k] = load[k]
        /\ load'[l].at # "read" /\ load'[l].type = "blacklist"
    BY <1>2, <1>5 DEF BeginMiss, LoadMiss, TypeInv
  <2>3. c \in [at : Busy, cmd : SUBSET Patterns, heed : SUBSET Patterns]
    BY <1>3 DEF Busy
  <2>4. c.at = "screening" /\ c.heed = PatternsOf("blacklist")
    OBVIOUS
  <2> HIDE DEF c
  <2>5. QED
    BY <1>1, <2>1, <2>2, <2>3, <2>4, CallStep
<1>6. ASSUME NEW l \in Loaders, Screen(l) PROVE ScreenInv'
  <2> DEFINE c == Screened(call[l].cmd, load[l].seen, call[l].heed)
  <2>1. call' = [call EXCEPT ![l] = c] /\ call[l].at = "screening"
    BY <1>2, <1>6 DEF Screen
  <2>2. UNCHANGED rules /\ \A k \in Loaders \ {l} : load'[k] = load[k]
    BY <1>2, <1>6 DEF Screen, LoadStore, TypeInv
  <2>3. call[l].heed \subseteq load[l].seen
    BY <1>6, <2>1 DEF Screen, LoadStore, ScreenInv, LoadsInv
  <2>4. call[l] \in [at : Busy, cmd : SUBSET Patterns, heed : SUBSET Patterns]
    BY <2>1 DEF ScreenInv, CallsOK, NoCall
  <2>5. \/ c = NoCall
        \/ /\ c = [at |-> "passed", cmd |-> call[l].cmd, heed |-> call[l].heed]
           /\ call[l].cmd \cap call[l].heed = {}
    BY <2>3 DEF Screened
  <2> HIDE DEF c
  <2>6. QED
    BY <1>1, <2>1, <2>2, <2>4, <2>5, CallStep DEF NoCall, Busy
<1>7. ASSUME NEW l \in Loaders, ListHit(l) PROVE ScreenInv'
  <2> DEFINE heed == IF Overlapped("whitelist") THEN Patterns ELSE PatternsOf("whitelist")
  <2>1. PICK cmd \in SUBSET call[l].cmd :
          call' = [call EXCEPT ![l] = Classified(cmd, cache["whitelist"], heed)]
    BY <1>7 DEF ListHit
  <2> DEFINE c == Classified(cmd, cache["whitelist"], heed)
  <2>2. UNCHANGED vars /\ call[l].at = "passed"
    BY <1>7 DEF ListHit
  <2>3. cmd \subseteq Patterns
    BY <2>1, <2>2 DEF ScreenInv, CallsOK, NoCall
  <2>4. cmd \cap cache["whitelist"] \subseteq heed /\ heed \subseteq Patterns
    BY <1>2, <1>3, <1>7, <2>3 DEF ListHit, CacheInv, StaleOnlyByOverlap, Fresh, Types
  <2> HIDE DEF heed
  <2>5. \/ c = [at |-> "asked", cmd |-> cmd, heed |-> heed]
        \/ c = [at |-> "auto", cmd |-> cmd, heed |-> heed] /\ cmd \cap heed # {}
    <3>1. cmd \cap cache["whitelist"] # {} => cmd \cap heed # {}
      BY <2>4
    <3>2. QED
      BY <3>1 DEF Classified
  <2>6. call' = [call EXCEPT ![l] = c]
    BY <2>1 DEF heed
  <2>7. UNCHANGED rules /\ \A k \in Loaders \ {l} : load'[k] = load[k]
    BY <2>2 DEF vars
  <2>8. c \in [at : Busy, cmd : SUBSET Patterns, heed : SUBSET Patterns]
    BY <2>3, <2>4, <2>5 DEF Busy
  <2>9. c.at \in {"auto", "asked"} /\ (c.at = "auto" => c.cmd \cap c.heed # {})
    BY <2>5
  <2> HIDE DEF c
  <2>10. QED
    BY <1>1, <2>6, <2>7, <2>8, <2>9, CallStep
<1>8. ASSUME NEW l \in Loaders, ListMiss(l) PROVE ScreenInv'
  <2>1. PICK cmd \in SUBSET call[l].cmd :
          call' = [call EXCEPT ![l] =
            [at |-> "listing", cmd |-> cmd, heed |-> PatternsOf("whitelist")]]
    BY <1>8 DEF ListMiss
  <2> DEFINE c == [at |-> "listing", cmd |-> cmd, heed |-> PatternsOf("whitelist")]
  <2>2. cmd \subseteq Patterns
    BY <1>8, <2>1 DEF ListMiss, ScreenInv, CallsOK, NoCall
  <2>3. /\ UNCHANGED rules /\ \A k \in Loaders \ {l} : load'[k] = load[k]
        /\ load'[l].at # "read" /\ load'[l].type = "whitelist"
    BY <1>2, <1>8 DEF ListMiss, LoadMiss, TypeInv
  <2>4. c \in [at : Busy, cmd : SUBSET Patterns, heed : SUBSET Patterns]
    BY <1>3, <2>2 DEF Busy
  <2>5. c.at = "listing" /\ c.heed = PatternsOf("whitelist")
    OBVIOUS
  <2>6. call' = [call EXCEPT ![l] = c]
    BY <2>1
  <2> HIDE DEF c
  <2>7. QED
    BY <1>1, <2>3, <2>4, <2>5, <2>6, CallStep
<1>9. ASSUME NEW l \in Loaders, List(l) PROVE ScreenInv'
  <2> DEFINE c == Classified(call[l].cmd, load[l].seen, call[l].heed)
  <2>1. call' = [call EXCEPT ![l] = c] /\ call[l].at = "listing"
    BY <1>2, <1>9 DEF List
  <2>2. UNCHANGED rules /\ \A k \in Loaders \ {l} : load'[k] = load[k]
    BY <1>2, <1>9 DEF List, LoadStore, TypeInv
  <2>3. load[l].seen \subseteq call[l].heed
    BY <1>9, <2>1 DEF List, LoadStore, ScreenInv, LoadsInv
  <2>4. call[l] \in [at : Busy, cmd : SUBSET Patterns, heed : SUBSET Patterns]
    BY <2>1 DEF ScreenInv, CallsOK, NoCall
  <2>5. \/ c = [at |-> "asked", cmd |-> call[l].cmd, heed |-> call[l].heed]
        \/ /\ c = [at |-> "auto", cmd |-> call[l].cmd, heed |-> call[l].heed]
           /\ call[l].cmd \cap call[l].heed # {}
    BY <2>3 DEF Classified
  <2>6. c \in [at : Busy, cmd : SUBSET Patterns, heed : SUBSET Patterns]
    BY <2>4, <2>5 DEF Busy
  <2>7. c.at \in {"auto", "asked"} /\ (c.at = "auto" => c.cmd \cap c.heed # {})
    BY <2>5
  <2> HIDE DEF c
  <2>8. QED
    BY <1>1, <2>1, <2>2, <2>6, <2>7, CallStep
<1>10. ASSUME NEW l \in Loaders, Read(l) PROVE ScreenInv'
  <2>1. UNCHANGED <<rules, call>> /\ \A k \in Loaders \ {l} : load'[k] = load[k]
    BY <1>2, <1>10 DEF Read, LoadRead, TypeInv
  <2>2. load'[l] = [at |-> "read", type |-> load[l].type, seen |-> PatternsOf(load[l].type)]
    BY <1>2, <1>10 DEF Read, LoadRead, TypeInv
  <2>3. \A t : PatternsOf(t)' = PatternsOf(t)
    BY <2>1 DEF PatternsOf
  <2>4. LoadsInv'
    BY <2>1, <2>2, <2>3 DEF ScreenInv, LoadsInv
  <2>5. QED
    BY <1>1, <2>1, <2>4 DEF ScreenInv, CallsOK, PassedIsUnbanned, AutoIsListed
<1>11. ASSUME NEW l \in Loaders, Settle(l) \/ CancelCall(l) PROVE ScreenInv'
  <2>1. call' = [call EXCEPT ![l] = NoCall] /\ UNCHANGED rules
    BY <1>11 DEF Settle, CancelCall, LoadCancelled, vars
  <2>2. \A k \in Loaders \ {l} : load'[k] = load[k]
    BY <1>2, <1>11 DEF Settle, CancelCall, LoadCancelled, vars, TypeInv
  <2>3. QED
    BY <1>1, <2>1, <2>2, CallStep DEF NoCall
<1>12. ASSUME NEW w \in Writers, Request(w) PROVE ScreenInv'
  <2>1. UNCHANGED load
    BY <1>12 DEF Request, WriterStep, CreateCheck, CreateInsert, DeleteFind, DeleteCommit,
                 Invalidate
  <2>2. call' = Watch
    BY <1>12 DEF Request
  <2>3. \A t : PatternsOf(t)' \subseteq Patterns
    BY <1>1 DEF TypeInv, TypeOK, PatternsOf, Rule
  <2> DEFINE Narrow(l) == call[l].heed \cap PatternsOf("blacklist")'
             Widen(l) == call[l].heed \cup PatternsOf("whitelist")'
  <2>4. ASSUME NEW l \in Loaders
        PROVE  /\ call'[l] \in [at : Busy, cmd : SUBSET Patterns, heed : SUBSET Patterns]
                    \/ call'[l] = NoCall
               /\ call'[l].at = call[l].at
               /\ call[l].at = "screening" => call'[l].heed = Narrow(l)
               /\ call[l].at = "listing" => call'[l].heed = Widen(l)
               /\ call[l].at \notin {"screening", "listing"} => call'[l] = call[l]
    <3>1. \/ call[l] = NoCall
          \/ call[l] \in [at : Busy, cmd : SUBSET Patterns, heed : SUBSET Patterns]
      BY DEF ScreenInv, CallsOK
    <3>2. Narrow(l) \subseteq Patterns \/ call[l] = NoCall
      BY <3>1
    <3>3. Widen(l) \subseteq Patterns \/ call[l] = NoCall
      BY <2>3, <3>1
    <3>4. call'[l] = CASE call[l].at = "screening" -> [call[l] EXCEPT !.heed = Narrow(l)]
                       [] call[l].at = "listing" -> [call[l] EXCEPT !.heed = Widen(l)]
                       [] OTHER -> call[l]
      BY <2>2 DEF Watch
    <3> HIDE DEF Narrow, Widen
    <3>5. CASE call[l].at = "screening"
      <4>1. call'[l] = [call[l] EXCEPT !.heed = Narrow(l)] /\ call[l] # NoCall
        BY <3>4, <3>5 DEF NoCall
      <4>2. QED
        BY <3>1, <3>2, <3>5, <4>1
    <3>6. CASE call[l].at = "listing"
      <4>1. call'[l] = [call[l] EXCEPT !.heed = Widen(l)] /\ call[l] # NoCall
        BY <3>4, <3>6 DEF NoCall
      <4>2. QED
        BY <3>1, <3>3, <3>6, <4>1
    <3>7. CASE call[l].at \notin {"screening", "listing"}
      BY <3>1, <3>4, <3>7
    <3>8. QED
      BY <3>5, <3>6, <3>7
  <2>5. call' = [l \in Loaders |-> call'[l]]
    BY <2>2 DEF Watch
  <2>6. CallsOK'
    BY <2>4 DEF CallsOK
  <2>7. LoadsInv'
    <3> SUFFICES ASSUME NEW l \in Loaders
                 PROVE  /\ call'[l].at = "screening" =>
                             /\ load'[l].type = "blacklist"
                             /\ call'[l].heed \subseteq PatternsOf("blacklist")'
                             /\ load'[l].at = "read" => call'[l].heed \subseteq load'[l].seen
                        /\ call'[l].at = "listing" =>
                             /\ load'[l].type = "whitelist"
                             /\ PatternsOf("whitelist")' \subseteq call'[l].heed
                             /\ load'[l].at = "read" => load'[l].seen \subseteq call'[l].heed
      BY DEF LoadsInv
    <3>1. CASE call[l].at = "screening"
      <4>1. call'[l].at = "screening" /\ call'[l].heed = Narrow(l)
        BY <2>4, <3>1
      <4>2. QED
        BY <2>1, <3>1, <4>1 DEF ScreenInv, LoadsInv
    <3>2. CASE call[l].at = "listing"
      <4>1. call'[l].at = "listing" /\ call'[l].heed = Widen(l)
        BY <2>4, <3>2
      <4>2. PatternsOf("whitelist")' \subseteq Widen(l)
        OBVIOUS
      <4>3. QED
        BY <2>1, <3>2, <4>1, <4>2 DEF ScreenInv, LoadsInv
    <3>3. CASE call[l].at \notin {"screening", "listing"}
      BY <2>4, <3>3
    <3>4. QED
      BY <3>1, <3>2, <3>3
  <2>8. PassedIsUnbanned' /\ AutoIsListed'
    <3>1. ASSUME NEW l \in Loaders, call'[l].at \in {"passed", "auto"}
          PROVE  call'[l] = call[l]
      BY <2>4, <3>1
    <3>2. QED
      BY <3>1 DEF ScreenInv, PassedIsUnbanned, AutoIsListed
  <2>9. QED
    BY <1>1, <2>5, <2>6, <2>7, <2>8 DEF ScreenInv
<1>13. CASE ServerRestart
  BY <1>1, <1>13
  DEF ServerRestart, ScreenInv, CallsOK, LoadsInv, PassedIsUnbanned, AutoIsListed, NoCall
<1>14. CASE UNCHANGED screenVars
  <2>1. UNCHANGED <<rules, load, call>> /\ \A t : PatternsOf(t)' = PatternsOf(t)
    BY <1>14 DEF screenVars, PatternsOf
  <2>2. QED
    BY <1>1, <2>1 DEF ScreenInv, CallsOK, LoadsInv, PassedIsUnbanned, AutoIsListed
<1>15. QED
  BY <1>4, <1>5, <1>6, <1>7, <1>8, <1>9, <1>10, <1>11, <1>12, <1>13, <1>14 DEF ScreenNext

LEMMA ScreenStart == ScreenInit => ScreenInv
<1> SUFFICES ASSUME ScreenInit PROVE ScreenInv
  OBVIOUS
<1>1. TypeInv
  BY SeedsAreRules DEF ScreenInit, Init, TypeInv, TypeOK, NoLoad, NoWrite
<1>2. CacheInv
  BY DEF ScreenInit, Init, CacheInv, LoadsAreCurrent, StaleOnlyByOverlap, Overlapped, Fresh,
         NoLoad, NoWrite
<1>3. QED
  BY <1>1, <1>2
  DEF ScreenInit, ScreenInv, CallsOK, LoadsInv, PassedIsUnbanned, AutoIsListed, NoCall

-------------------------------------------------------------------------------
\* The screened system is a system of command rules: all that is proved of
\* CommandRules holds of it.
THEOREM ScreeningIsReading == ScreenSpec => Spec
<1>1. ScreenInit => Init
  BY DEF ScreenInit
<1>2. QED
  BY <1>1, StepSimulation, PTL DEF ScreenSpec, Spec

\* No command passes the blacklist against a rule that stood the whole time.
THEOREM NothingBannedPasses == ScreenSpec => []PassedIsUnbanned
<1>1. ScreenInv => PassedIsUnbanned
  BY DEF ScreenInv
<1>2. QED
  BY <1>1, ScreenStart, ScreenStep, PTL DEF ScreenSpec

\* No command runs unasked without a rule that listed it.
THEOREM NothingUnlistedIsAuto == ScreenSpec => []AutoIsListed
<1>1. ScreenInv => AutoIsListed
  BY DEF ScreenInv
<1>2. QED
  BY <1>1, ScreenStart, ScreenStep, PTL DEF ScreenSpec

\* Rules, caches, requests and calls stay within their types.
THEOREM ScreenTypeCorrect == ScreenSpec => []ScreenTypeOK
<1>1. ScreenInv => ScreenTypeOK
  BY DEF ScreenInv, TypeInv, ScreenTypeOK
<1>2. QED
  BY <1>1, ScreenStart, ScreenStep, PTL DEF ScreenSpec
===============================================================================
