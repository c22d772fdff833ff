--------------------------- MODULE KanbanBoardProofs ---------------------------
(***************************************************************************)
(* A ticket that nobody contested is shown where the ERP has it, and every *)
(* ticket has one card, for every number of tickets and of requests.       *)
(***************************************************************************)
EXTENDS KanbanBoard, FiniteSetTheorems, FunctionTheorems, SequenceTheorems, TLAPS

\* A request that is under way.
Request == [at : {"sent", "stored", "failed"}, ticket : Tickets,
            from : Columns, to : Columns, ours : BOOLEAN]

\* The types of what BoardMatchesErp is about (not of the order of the cards).
TypeInv ==
  /\ erp \in [Tickets -> Columns]
  /\ column \in [Tickets -> Columns]
  /\ drag \in [ticket : Tickets, from : Columns] \cup {NoDrag}
  /\ move \in [Moves -> Request \cup {NoMove}]

\* A ticket that nobody contested is moved by one request at most, one of this
\* board; the board shows the request's target and the ERP what it has stored.
Settled(t) ==
  /\ Pending(t) = {} => column[t] = erp[t]
  /\ \A m \in Pending(t) :
       /\ Pending(t) = {m}
       /\ move[m].ours
       /\ column[t] = move[m].to
       /\ erp[t] = IF move[m].at = "stored" THEN move[m].to ELSE move[m].from

IInv == TypeInv /\ (shown => \A t \in Tickets \ contested : Settled(t))

-------------------------------------------------------------------------------
LEMMA InitInv == Init => IInv
  BY DEF Init, IInv, TypeInv, Unknown, Columns

\* A request that is under way is no free one, and has a ticket.
LEMMA MoveFacts ==
  ASSUME TypeInv, NEW m \in Moves, move[m].at # "none"
  PROVE  /\ move[m] \in Request
         /\ m \in Pending(move[m].ticket)
  BY DEF TypeInv, Pending, NoMove, Request

\* Answers and stores concern the ticket of their request only.
LEMMA OtherTickets ==
  ASSUME NEW m \in Moves, NEW t \in Tickets, TypeInv,
         move[m].ticket # t \/ move[m].at = "none",
         move'[m].ticket # t \/ move'[m].at = "none",
         \A n \in Moves \ {m} : move'[n] = move[n],
         erp'[t] = erp[t], column'[t] = column[t], Settled(t)
  PROVE  Settled(t)'
<1>1. m \notin Pending(t) /\ m \notin Pending(t)'
  BY DEF Pending
<1>2. Pending(t)' = Pending(t)
  BY <1>1 DEF Pending
<1>3. QED
  BY <1>1, <1>2 DEF Settled, Pending

LEMMA StepInv == IInv /\ [Next]_vars => IInv'
<1> SUFFICES ASSUME IInv, [Next]_vars PROVE IInv'
  OBVIOUS
<1> USE DEF IInv
<1>1. CASE Load
  <2>1. TypeInv'
    BY <1>1 DEF Load, TypeInv
  <2>2. ASSUME NEW t \in Tickets \ contested' PROVE Settled(t)'
    <3>1. Pending(t) = {} /\ Pending(t)' = {}
      BY <1>1, <2>2 DEF Load, Pending
    <3>2. column'[t] = erp'[t]
      BY <1>1 DEF Load
    <3>3. QED
      BY <3>1, <3>2 DEF Settled
  <2>3. QED
    BY <2>1, <2>2
<1>2. CASE Reenter
  <2>1. ASSUME NEW m \in Moves
        PROVE  [move[m] EXCEPT !.ours = FALSE] \in Request \cup {NoMove}
    <3>1. CASE move[m] = NoMove
      <4>1. [NoMove EXCEPT !.ours = FALSE] = NoMove
        <5>1. NoMove = [x \in {"at", "ticket", "from", "to", "ours"} |-> NoMove[x]]
          BY DEF NoMove
        <5>2. NoMove.ours = FALSE
          BY DEF NoMove
        <5>3. QED
          BY <5>1, <5>2
      <4>2. QED
        BY <3>1, <4>1
    <3>2. CASE move[m] \in Request
      BY <3>2 DEF Request
    <3>3. QED
      BY <3>1, <3>2 DEF TypeInv
  <2>2. TypeInv'
    BY <1>2, <2>1 DEF Reenter, TypeInv, Unknown, Columns
  <2>3. QED
    BY <1>2, <2>2 DEF Reenter
<1>3. CASE DropHere \/ \E t \in Tickets : Pick(t)
  <2>1. UNCHANGED <<erp, shown, column, move, contested>>
    BY <1>3 DEF DropHere, Pick
  <2>2. drag' \in [ticket : Tickets, from : Columns] \cup {NoDrag}
    BY <1>3 DEF DropHere, Pick, TypeInv
  <2>3. TypeInv'
    BY <2>1, <2>2 DEF TypeInv
  <2>4. QED
    BY <2>1, <2>3 DEF Settled, Pending
<1>4. ASSUME NEW u \in Tickets, AgentSets(u) PROVE IInv'
  <2>1. TypeInv'
    BY <1>4 DEF AgentSets, TypeInv, Columns
  <2>2. ASSUME NEW t \in Tickets \ contested', Settled(t) PROVE Settled(t)'
    <3>1. t # u /\ erp'[t] = erp[t]
      BY <1>4, <2>2 DEF AgentSets, TypeInv
    <3>2. QED
      BY <1>4, <2>2, <3>1 DEF AgentSets, Settled, Pending
  <2>3. QED
    BY <1>4, <2>1, <2>2 DEF AgentSets
<1>5. ASSUME NEW m \in Moves, Store(m) PROVE IInv'
  <2>1. move[m].at = "sent" /\ move[m] \in Request /\ m \in Pending(move[m].ticket)
    BY <1>5, MoveFacts DEF Store
  <2>2. PICK a \in {"stored", "failed"} :
          /\ move' = [move EXCEPT ![m].at = a]
          /\ erp' = IF a = "stored" THEN [erp EXCEPT ![move[m].ticket] = move[m].to] ELSE erp
    BY <1>5 DEF Store
  <2>3. /\ move'[m] = [move[m] EXCEPT !.at = a]
        /\ \A n \in Moves \ {m} : move'[n] = move[n]
        /\ UNCHANGED <<shown, column, drag, contested>>
    BY <1>5, <2>2 DEF Store, TypeInv
  <2>4. /\ move'[m] \in Request /\ move'[m].at = a
        /\ move'[m].ticket = move[m].ticket /\ move'[m].ours = move[m].ours
        /\ move'[m].from = move[m].from /\ move'[m].to = move[m].to
    BY <2>1, <2>3 DEF Request
  <2>5. TypeInv'
    BY <2>1, <2>2, <2>3, <2>4 DEF TypeInv, Request
  <2>6. ASSUME NEW t \in Tickets, Settled(t) PROVE Settled(t)'
    <3>1. CASE t # move[m].ticket
      <4>1. erp'[t] = erp[t] /\ column'[t] = column[t]
        BY <2>1, <2>2, <2>3, <3>1 DEF TypeInv
      <4>2. QED
        BY <2>3, <2>4, <2>6, <3>1, <4>1, OtherTickets
    <3>2. CASE t = move[m].ticket
      <4>1. Pending(t) = {m}
        BY <2>1, <2>6, <3>2 DEF Settled
      <4>2. Pending(t)' = Pending(t)
        BY <2>1, <2>3, <2>4, <3>2, <4>1 DEF Pending
      <4>3. /\ move[m].ours
            /\ column[t] = move[m].to /\ erp[t] = move[m].from
        BY <2>1, <2>6, <4>1 DEF Settled
      <4>4. erp'[t] = IF a = "stored" THEN move[m].to ELSE move[m].from
        BY <2>2, <3>2, <4>3 DEF TypeInv
      <4>5. /\ move'[m].ours /\ column'[t] = move'[m].to
            /\ erp'[t] = IF move'[m].at = "stored" THEN move'[m].to ELSE move'[m].from
        BY <2>3, <2>4, <4>3, <4>4
      <4>6. Pending(t)' = {m}
        BY <4>1, <4>2
      <4>7. QED
        BY <4>5, <4>6 DEF Settled
    <3>3. QED
      BY <3>1, <3>2
  <2>7. QED
    BY <2>3, <2>5, <2>6
<1>6. ASSUME NEW m \in Moves, AnswerLost(m) PROVE IInv'
  <2>1. TypeInv'
    BY <1>6, MoveFacts DEF AnswerLost, TypeInv, NoMove, Request
  <2>2. ASSUME NEW t \in Tickets \ contested', Settled(t) PROVE Settled(t)'
    <3>1. t # move[m].ticket
      BY <1>6, <2>2 DEF AnswerLost
    <3>2. QED
      BY <1>6, <2>2, <3>1, OtherTickets DEF AnswerLost, TypeInv, NoMove
  <2>3. QED
    BY <1>6, <2>1, <2>2 DEF AnswerLost
<1>7. ASSUME NEW m \in Moves, Answered(m) PROVE IInv'
  <2>1. /\ move[m].at \in {"stored", "failed"}
        /\ move[m] \in Request /\ move[m].ticket \in Tickets
        /\ m \in Pending(move[m].ticket)
        /\ move' = [move EXCEPT ![m] = NoMove]
    BY <1>7, MoveFacts DEF Answered, Request
  <2>2. TypeInv'
    BY <1>7, <2>1 DEF Answered, TypeInv, Request
  <2>3. ASSUME NEW t \in Tickets, Settled(t) PROVE Settled(t)'
    <3>1. CASE t # move[m].ticket
      BY <1>7, <2>1, <2>3, <3>1, OtherTickets DEF Answered, TypeInv, NoMove
    <3>2. CASE t = move[m].ticket
      <4>1. /\ Pending(t) = {m} /\ move[m].ours
            /\ column[t] = move[m].to
            /\ erp[t] = IF move[m].at = "stored" THEN move[m].to ELSE move[m].from
        BY <2>1, <2>3, <3>2 DEF Settled
      <4>2. Pending(t)' = {}
        BY <2>1, <4>1 DEF Pending, TypeInv, NoMove
      <4>3. column'[t] = erp'[t]
        BY <1>7, <2>1, <3>2, <4>1 DEF Answered, TypeInv
      <4>4. QED
        BY <4>2, <4>3 DEF Settled
    <3>3. QED
      BY <3>1, <3>2
  <2>4. QED
    BY <1>7, <2>2, <2>3 DEF Answered
<1>8. ASSUME NEW m \in Moves, NEW c \in Columns, DropThere(m, c) PROVE IInv'
  <2>1. /\ drag.ticket \in Tickets /\ drag.from \in Columns
        /\ move[m].at = "none"
        /\ move' = [move EXCEPT ![m] = [at |-> "sent", ticket |-> drag.ticket,
                      from |-> drag.from, to |-> c, ours |-> TRUE]]
        /\ column' = [column EXCEPT ![drag.ticket] = c]
        /\ erp' = erp
    BY <1>8 DEF DropThere, TypeInv
  <2>2. TypeInv'
    BY <1>8, <2>1 DEF DropThere, TypeInv, Request
  <2>3. ASSUME NEW t \in Tickets \ contested', Settled(t) PROVE Settled(t)'
    <3>1. CASE t # drag.ticket
      BY <2>1, <2>3, <3>1, OtherTickets DEF TypeInv
    <3>2. CASE t = drag.ticket
      <4>1. Pending(t) = {} /\ column[t] = drag.from
        BY <1>8, <2>3, <3>2 DEF DropThere
      <4>2. Pending(t)' = {m}
        BY <2>1, <3>2, <4>1 DEF Pending, TypeInv
      <4>3. erp'[t] = drag.from /\ column'[t] = c
        BY <2>1, <2>3, <3>2, <4>1 DEF Settled, TypeInv
      <4>4. QED
        BY <2>1, <4>2, <4>3 DEF Settled, TypeInv
    <3>3. QED
      BY <3>1, <3>2
  <2>4. contested \subseteq contested' /\ shown' = shown
    BY <1>8 DEF DropThere
  <2>5. QED
    BY <2>2, <2>3, <2>4
<1>9. CASE UNCHANGED vars
  BY <1>9 DEF vars, TypeInv, Settled, Pending
<1>10. QED
  BY <1>1, <1>2, <1>3, <1>4, <1>5, <1>6, <1>7, <1>8, <1>9 DEF Next

-------------------------------------------------------------------------------
\* Optimistic moves and their reverts leave nothing behind: a ticket without a
\* request under way is where the ERP has it, unless it was contested.
THEOREM BoardTruth == Spec => []BoardMatchesErp
<1>1. IInv => BoardMatchesErp
  BY DEF IInv, BoardMatchesErp, Settled
<1>2. QED
  BY <1>1, InitInv, StepInv, PTL DEF Spec
-------------------------------------------------------------------------------
(* Lists without repetition *)

\* s has every element of R, once.
Lists(s, R) ==
  /\ s \in Seq(R)
  /\ \A i, j \in DOMAIN s : s[i] = s[j] => i = j
  /\ \A x \in R : \E i \in DOMAIN s : s[i] = x

\* The places that are kept are counted up without a gap.
LEMMA PlacesCounted ==
  ASSUME NEW R, NEW s \in Seq(R), NEW S
  PROVE  /\ Cardinality(Places(s, S)) \in Nat
         /\ \A i \in Places(s, S) : Place(s, S, i) \in 1..Cardinality(Places(s, S))
         /\ \A i, j \in Places(s, S) : Place(s, S, i) = Place(s, S, j) => i = j
         /\ \A k \in 1..Cardinality(Places(s, S)) : \E i \in Places(s, S) : Place(s, S, i) = k
<1> DEFINE P == Places(s, S)
           Upto(i) == {j \in P : j <= i}
           n == Cardinality(P)
<1>1. P \subseteq 1..Len(s) /\ Len(s) \in Nat
  BY DEF Places
<1>2. IsFiniteSet(P) /\ n \in Nat
  <2>1. IsFiniteSet(1..Len(s))
    BY <1>1, FS_Interval
  <2> HIDE DEF P
  <2>2. IsFiniteSet(P)
    BY <1>1, <2>1, FS_Subset
  <2> QED
    BY <2>2, FS_CardinalityType
<1>3. \A i : Place(s, S, i) = Cardinality(Upto(i))
  BY DEF Place
<1> HIDE DEF P
<1>4. ASSUME NEW i \in P
      PROVE  IsFiniteSet(Upto(i)) /\ Cardinality(Upto(i)) \in 1..n
  <2>1. IsFiniteSet(Upto(i)) /\ Cardinality(Upto(i)) <= n /\ Cardinality(Upto(i)) \in Nat
    BY <1>2, FS_Subset, FS_CardinalityType
  <2>2. i \in Upto(i)
    BY <1>1
  <2>3. Cardinality(Upto(i)) # 0
    BY <2>1, <2>2, FS_EmptySet
  <2> QED
    BY <1>2, <2>1, <2>3
<1>5. ASSUME NEW i \in P, NEW j \in P, i < j
      PROVE  Cardinality(Upto(i)) # Cardinality(Upto(j))
  <2>0. i \in Nat /\ j \in Nat /\ \A k \in P : k \in Nat
    BY <1>1
  <2>1. Upto(i) \subseteq Upto(j)
    <3>1. \A k \in Nat : k <= i => k <= j
      BY <1>5, <2>0
    <3> QED
      BY <2>0, <3>1
  <2>2. j \in Upto(j) /\ j \notin Upto(i)
    BY <1>5, <2>0
  <2> QED
    BY <1>4, <2>1, <2>2, FS_Subset
<1>6. ASSUME NEW i \in P, NEW j \in P, Cardinality(Upto(i)) = Cardinality(Upto(j))
      PROVE  i = j
  <2>1. i = j \/ i < j \/ j < i
    BY <1>1
  <2> QED
    BY <1>5, <1>6, <2>1
<1> DEFINE f == [i \in P |-> Cardinality(Upto(i))]
<1>7. f \in Injection(P, 1..n)
  <2>1. f \in [P -> 1..n]
    BY <1>4
  <2>2. \A i, j \in P : f[i] = f[j] => i = j
    BY <1>6
  <2> QED
    BY <2>1, <2>2, Fun_IsInj
<1>8. IsFiniteSet(1..n) /\ Cardinality(1..n) = n
  BY <1>2, FS_Interval
<1>9. f \in Surjection(P, 1..n)
  BY <1>7, <1>8, FS_Injection
<1>10. \A k \in 1..n : \E i \in P : Cardinality(Upto(i)) = k
  BY <1>9 DEF Surjection
<1> QED
  BY <1>2, <1>3, <1>4, <1>6, <1>10 DEF P

\* filter keeps what it should, in places of their own.
LEMMA KeptPlaces ==
  ASSUME NEW R, NEW s \in Seq(R), NEW S
  PROVE  \E p \in [1..Cardinality(Places(s, S)) -> Places(s, S)] :
           /\ Kept(s, S) = [k \in 1..Cardinality(Places(s, S)) |-> s[p[k]]]
           /\ \A k, l \in DOMAIN p : p[k] = p[l] => k = l
           /\ \A i \in Places(s, S) : \E k \in DOMAIN p : p[k] = i
<1> DEFINE P == Places(s, S)
           n == Cardinality(P)
           at(k) == CHOOSE i \in P : Place(s, S, i) = k
           p == [k \in 1..n |-> at(k)]
<1>1. \A k \in 1..n : at(k) \in P /\ Place(s, S, at(k)) = k
  BY PlacesCounted
<1>2. Kept(s, S) = [k \in 1..n |-> s[at(k)]]
  BY DEF Kept
<1>3. \A i \in P : Place(s, S, i) \in 1..n
  BY PlacesCounted
<1>4. \A i, j \in P : Place(s, S, i) = Place(s, S, j) => i = j
  BY PlacesCounted
<1> HIDE DEF P, n, at
<1>5. p \in [1..n -> P] /\ Kept(s, S) = [k \in 1..n |-> s[p[k]]]
  BY <1>1, <1>2
<1>6. \A k, l \in DOMAIN p : p[k] = p[l] => k = l
  BY <1>1
<1>7. \A i \in P : \E k \in DOMAIN p : p[k] = i
  BY <1>1, <1>3, <1>4
<1> HIDE DEF p
<1> QED
  BY <1>5, <1>6, <1>7 DEF P, n

LEMMA ListsKept ==
  ASSUME NEW R, NEW s, Lists(s, R), NEW S
  PROVE  Lists(Kept(s, S), R \cap S)
<1> DEFINE P == Places(s, S)
           n == Cardinality(P)
           r == Kept(s, S)
<1>1. s \in Seq(R) /\ n \in Nat
  BY PlacesCounted DEF Lists
<1>2. PICK p \in [1..n -> P] :
        /\ r = [k \in 1..n |-> s[p[k]]]
        /\ \A k, l \in DOMAIN p : p[k] = p[l] => k = l
        /\ \A i \in P : \E k \in DOMAIN p : p[k] = i
  BY <1>1, KeptPlaces
<1>3. P \subseteq DOMAIN s /\ \A i \in DOMAIN s : i \in P <=> s[i] \in S
  BY DEF Places
<1> HIDE DEF P, n, r
<1>4. \A k \in 1..n : p[k] \in DOMAIN s /\ r[k] = s[p[k]] /\ r[k] \in R \cap S
  BY <1>1, <1>2, <1>3
<1>5. r \in Seq(R \cap S) /\ DOMAIN r = 1..n
  BY <1>1, <1>2, <1>4
<1>6. \A k, l \in 1..n : r[k] = r[l] => k = l
  BY <1>2, <1>4 DEF Lists
<1>7. ASSUME NEW x \in R \cap S
      PROVE  \E k \in 1..n : r[k] = x
  <2>1. PICK i \in DOMAIN s : s[i] = x
    BY DEF Lists
  <2>2. i \in P
    BY <1>3, <2>1
  <2> QED
    BY <1>2, <1>4, <2>1, <2>2
<1> QED
  BY <1>5, <1>6, <1>7 DEF Lists, r

\* splice puts a card in at an index.
LEMMA ListsInserted ==
  ASSUME NEW R, NEW s, Lists(s, R), NEW t, t \notin R, NEW i \in 0..Len(s)
  PROVE  Lists(InsertedAt(s, i, t), R \cup {t})
<1> DEFINE r == InsertedAt(s, i, t)
           n == Len(s)
<1>1. s \in Seq(R) /\ n \in Nat /\ DOMAIN s = 1..n
  BY DEF Lists
<1>2. SubSeq(s, 1, i) \in Seq(R) /\ SubSeq(s, i + 1, n) \in Seq(R)
      /\ Len(SubSeq(s, 1, i)) = i /\ Len(SubSeq(s, i + 1, n)) = n - i
      /\ (\A k \in 1..i : SubSeq(s, 1, i)[k] = s[k])
      /\ (\A k \in 1..n - i : SubSeq(s, i + 1, n)[k] = s[i + k])
  <2>1. SubSeq(s, 1, i) \in Seq(R) /\ Len(SubSeq(s, 1, i)) = i
        /\ \A k \in 1..i : SubSeq(s, 1, i)[k] = s[k]
    BY <1>1
  <2>2. SubSeq(s, i + 1, n) \in Seq(R) /\ Len(SubSeq(s, i + 1, n)) = n - i
    <3>1. i + 1 \in Int /\ n \in Int /\ n - (i + 1) + 1 = n - i
      BY <1>1
    <3>2. \A k \in i + 1..n : s[k] \in R
      BY <1>1
    <3> HIDE DEF n
    <3>3. CASE i + 1 <= n
      BY <1>1, <3>1, <3>2, <3>3, SubSeqProperties
    <3>4. CASE ~(i + 1 <= n)
      <4>1. SubSeq(s, i + 1, n) = <<>>
        BY <1>1, <3>1, <3>4, SubSeqProperties
      <4>2. i \in Nat /\ i <= n
        BY <1>1 DEF n
      <4>3. n - i = 0
        BY <1>1, <3>4, <4>2
      <4>4. <<>> \in Seq(R) /\ Len(<<>>) = 0
        OBVIOUS
      <4> QED
        BY <4>1, <4>3, <4>4
    <3> QED
      BY <3>3, <3>4
  <2>3. ASSUME NEW k \in 1..n - i PROVE SubSeq(s, i + 1, n)[k] = s[i + k]
    BY <1>1, SubSeqProperties
  <2> QED
    BY <2>1, <2>2, <2>3
<1>3. /\ r \in Seq(R \cup {t}) /\ Len(r) = n + 1
      /\ \A k \in 1..n + 1 : r[k] = IF k <= i THEN s[k] ELSE IF k = i + 1 THEN t ELSE s[k - 1]
  <2> DEFINE a == SubSeq(s, 1, i)
             b == SubSeq(s, i + 1, n)
  <2>1. r = (a \o <<t>>) \o b
    BY DEF InsertedAt
  <2>2. a \in Seq(R \cup {t}) /\ b \in Seq(R \cup {t}) /\ Len(a) = i /\ Len(b) = n - i
        /\ (\A k \in 1..i : a[k] = s[k]) /\ (\A k \in 1..n - i : b[k] = s[i + k])
    BY <1>2
  <2> HIDE DEF a, b, r, n
  <2> DEFINE q == a \o <<t>>
  <2>3. q \in Seq(R \cup {t}) /\ Len(q) = i + 1
        /\ \A k \in 1..i + 1 : q[k] = IF k <= i THEN s[k] ELSE t
    BY <2>2
  <2> HIDE DEF q
  <2>4. r \in Seq(R \cup {t}) /\ Len(r) = n + 1
        /\ \A k \in 1..n + 1 : r[k] = IF k <= i + 1 THEN q[k] ELSE b[k - (i + 1)]
    BY <1>1, <2>1, <2>2, <2>3 DEF q
  <2>5. ASSUME NEW k \in 1..n + 1, k > i + 1 PROVE b[k - (i + 1)] = s[k - 1]
    <3>1. k - (i + 1) \in 1..n - i /\ i + (k - (i + 1)) = k - 1
      BY <1>1, <2>5
    <3> QED
      BY <2>2, <3>1
  <2>6. ASSUME NEW k \in 1..n + 1
        PROVE  r[k] = IF k <= i THEN s[k] ELSE IF k = i + 1 THEN t ELSE s[k - 1]
    <3>1. CASE k <= i + 1
      BY <1>1, <2>3, <2>4, <3>1
    <3>2. CASE k > i + 1
      BY <1>1, <2>4, <2>5, <3>2
    <3> QED
      BY <1>1, <3>1, <3>2
  <2> QED
    BY <2>4, <2>6
<1>4. \A k \in 1..n : s[k] \in R
  BY <1>1
<1> HIDE DEF r, n
<1>5. DOMAIN r = 1..n + 1
  BY <1>3
<1>6. ASSUME NEW k \in 1..n + 1, NEW l \in 1..n + 1, r[k] = r[l] PROVE k = l
  <2> DEFINE from(m) == IF m <= i THEN m ELSE m - 1
  <2>1. \A m \in 1..n + 1 : m # i + 1 => from(m) \in 1..n /\ r[m] = s[from(m)]
    BY <1>1, <1>3
  <2>2. \A m \in 1..n + 1 : m # i + 1 => r[m] # t
    BY <1>4, <2>1
  <2>3. r[i + 1] = t
    BY <1>1, <1>3 DEF n
  <2>4. CASE k = i + 1 \/ l = i + 1
    BY <1>6, <2>2, <2>3, <2>4
  <2>5. CASE k # i + 1 /\ l # i + 1
    <3>0. from(k) \in 1..n /\ from(l) \in 1..n /\ s[from(k)] = s[from(l)]
      BY <1>6, <2>1, <2>5
    <3> HIDE DEF from
    <3>1. from(k) = from(l)
      BY <1>1, <3>0 DEF Lists
    <3> USE DEF from
    <3> QED
      BY <1>1, <2>5, <3>1
  <2> QED
    BY <2>4, <2>5
<1>7. ASSUME NEW x \in R \cup {t} PROVE \E k \in 1..n + 1 : r[k] = x
  <2>1. CASE x = t
    BY <1>1, <1>3, <2>1 DEF n
  <2>2. CASE x \in R
    <3>1. PICK k \in 1..n : s[k] = x
      BY <1>1, <2>2 DEF Lists
    <3>2. CASE k <= i
      BY <1>1, <1>3, <3>1, <3>2
    <3>3. CASE k > i
      <4>1. k + 1 \in 1..n + 1 /\ k + 1 > i + 1 /\ (k + 1) - 1 = k
        BY <1>1, <3>3
      <4>2. ~(k + 1 <= i) /\ k + 1 # i + 1
        BY <1>1, <4>1
      <4>3. r[k + 1] = s[k]
        BY <1>3, <4>1, <4>2
      <4> QED
        BY <3>1, <4>1, <4>3
    <3> QED
      BY <1>1, <3>2, <3>3
  <2> QED
    BY <2>1, <2>2
<1> QED
  BY <1>3, <1>5, <1>6, <1>7 DEF Lists, r

LEMMA ListsJoined ==
  ASSUME NEW A, NEW a, Lists(a, A), NEW B, NEW b, Lists(b, B), A \cap B = {}
  PROVE  Lists(a \o b, A \cup B)
<1> DEFINE r == a \o b
           n == Len(a)
<1>1. a \in Seq(A) /\ b \in Seq(B) /\ n \in Nat /\ Len(b) \in Nat
  BY DEF Lists
<1>2. /\ r \in Seq(A \cup B) /\ DOMAIN r = 1..n + Len(b)
      /\ \A k \in 1..n : r[k] = a[k] /\ a[k] \in A
      /\ \A k \in 1..Len(b) : r[n + k] = b[k] /\ b[k] \in B
  BY <1>1
<1>3. \A k \in 1..n + Len(b) : k > n => k - n \in 1..Len(b) /\ n + (k - n) = k
  BY <1>1
<1>4. DOMAIN a = 1..n /\ DOMAIN b = 1..Len(b)
  BY <1>1
<1> HIDE DEF r, n
<1>5. \A k \in 1..n + Len(b) : k > n => r[k] = b[k - n] /\ r[k] \in B
  BY <1>2, <1>3
<1>6. ASSUME NEW k \in 1..n + Len(b), NEW l \in 1..n + Len(b), r[k] = r[l] PROVE k = l
  <2>1. CASE k \in 1..n /\ l \in 1..n
    BY <1>2, <1>4, <1>6, <2>1 DEF Lists
  <2>2. CASE k > n /\ l > n
    <3>1. b[k - n] = b[l - n] /\ k - n \in 1..Len(b) /\ l - n \in 1..Len(b)
      BY <1>3, <1>5, <1>6, <2>2
    <3>2. k - n = l - n
      BY <1>4, <3>1 DEF Lists
    <3> QED
      BY <1>1, <3>2
  <2>3. CASE k \in 1..n /\ l > n
    BY <1>2, <1>5, <1>6, <2>3
  <2>4. CASE k > n /\ l \in 1..n
    BY <1>2, <1>5, <1>6, <2>4
  <2> QED
    BY <1>1, <2>1, <2>2, <2>3, <2>4
<1>7. ASSUME NEW x \in A \cup B PROVE \E k \in 1..n + Len(b) : r[k] = x
  <2>1. CASE x \in A
    <3>1. PICK k \in 1..n : a[k] = x
      BY <1>4, <2>1 DEF Lists
    <3> QED
      BY <1>1, <1>2, <3>1
  <2>2. CASE x \in B
    <3>1. PICK k \in 1..Len(b) : b[k] = x
      BY <1>4, <2>2 DEF Lists
    <3>2. n + k \in 1..n + Len(b)
      BY <1>1
    <3> QED
      BY <1>2, <3>1, <3>2
  <2> QED
    BY <2>1, <2>2
<1> QED
  BY <1>2, <1>6, <1>7 DEF Lists, r

\* The orders are the lists of the tickets.
LEMMA OrdersAreLists ==
  ASSUME NEW s
  PROVE  s \in Orders <=> Lists(s, Tickets)
<1> DEFINE n == Cardinality(Tickets)
<1>0. n \in Nat /\ IsFiniteSet(1..n) /\ Cardinality(1..n) = n
  BY TicketsAreFinite, FS_CardinalityType, FS_Interval
<1>1. ASSUME s \in Orders PROVE Lists(s, Tickets)
  <2>1. s \in Injection(1..n, Tickets)
    <3>1. s \in [1..n -> Tickets] /\ \A i, j \in 1..n : s[i] = s[j] => i = j
      BY <1>1 DEF Orders
    <3> HIDE DEF n
    <3> QED
      BY <3>1, Fun_IsInj
  <2>2. s \in Surjection(1..n, Tickets)
    BY <1>0, <2>1, TicketsAreFinite, FS_Injection
  <2>3. s \in [1..n -> Tickets] /\ (\A i, j \in 1..n : s[i] = s[j] => i = j)
        /\ \A t \in Tickets : \E i \in 1..n : s[i] = t
    <3> HIDE DEF n
    <3>1. s \in [1..n -> Tickets] /\ \A i, j \in 1..n : s[i] = s[j] => i = j
      BY <2>1, Fun_InjectionProperties
    <3>2. \A t \in Tickets : \E i \in 1..n : s[i] = t
      BY <2>2 DEF Surjection
    <3> QED
      BY <3>1, <3>2
  <2> HIDE DEF n
  <2>4. s \in Seq(Tickets) /\ DOMAIN s = 1..n
    BY <1>0, <2>3
  <2> QED
    BY <2>3, <2>4 DEF Lists
<1>2. ASSUME Lists(s, Tickets) PROVE s \in Orders
  <2>1. s \in [1..Len(s) -> Tickets] /\ Len(s) \in Nat
    BY <1>2 DEF Lists
  <2>2. s \in Injection(1..Len(s), Tickets) /\ s \in Surjection(1..Len(s), Tickets)
    <3>1. DOMAIN s = 1..Len(s)
      BY <2>1
    <3>2. \A i, j \in 1..Len(s) : s[i] = s[j] => i = j
      BY <1>2, <3>1 DEF Lists
    <3>3. \A t \in Tickets : \E i \in 1..Len(s) : s[i] = t
      BY <1>2, <3>1 DEF Lists
    <3> QED
      BY <2>1, <3>2, <3>3, Fun_IsInj, Fun_IsSurj
  <2>3. ExistsBijection(1..Len(s), Tickets)
    BY <2>2 DEF ExistsBijection, Bijection
  <2>4. n = Len(s)
    BY <2>1, <2>3, FS_CountingElements
  <2> QED
    BY <1>2, <2>1, <2>4 DEF Orders, Lists
<1> QED
  BY <1>1, <1>2

-------------------------------------------------------------------------------
(* The order of the cards *)

\* A board that shows its tickets shows each of them once.
OrderInv ==
  /\ shown \in BOOLEAN /\ contested \subseteq Tickets
  /\ IF shown THEN Lists(order, Tickets) ELSE order = <<>> /\ drag = NoDrag

\* A drop in its own column only puts the cards in another order, also when a
\* revert took the card out of that column during the drag.
LEMMA DropReorders ==
  ASSUME Lists(order, Tickets), NEW c, NEW t \in Tickets,
         NEW i \in 0..Len(Without(In(order, c), t))
  PROVE  Lists(Reordered(order, c, t, i), Tickets)
<1> DEFINE S == {u \in Tickets : column[u] = c}
           N == {u \in Tickets : column[u] # c}
<1>1. /\ Tickets \cap S = S /\ Tickets \cap N = N
      /\ S \cap N = {} /\ S \cup N = Tickets
      /\ S \cap (Tickets \ {t}) = S \ {t}
  OBVIOUS
<1>2. Lists(In(order, c), S) /\ Lists(NotIn(order, c), N)
  <2>1. Lists(Kept(order, S), Tickets \cap S) /\ Lists(Kept(order, N), Tickets \cap N)
    BY ListsKept
  <2> QED
    BY <1>1, <2>1 DEF In, NotIn
<1>3. CASE column[t] = c
  <2>1. Lists(Without(In(order, c), t), S \cap (Tickets \ {t}))
    BY <1>2, ListsKept DEF Without
  <2> DEFINE w == Without(In(order, c), t)
  <2>2. Lists(w, S \ {t}) /\ i \in 0..Len(w) /\ t \notin S \ {t}
    BY <1>1, <2>1
  <2>3. Reordered(order, c, t, i) = InsertedAt(w, i, t) \o NotIn(order, c)
    BY <1>3 DEF Reordered
  <2>4. t \in S
    BY <1>3
  <2> HIDE DEF w, S, N
  <2>5. Lists(InsertedAt(w, i, t), (S \ {t}) \cup {t})
    BY <2>2, ListsInserted
  <2>6. (S \ {t}) \cup {t} = S
    BY <2>4
  <2> QED
    BY <1>1, <1>2, <2>3, <2>5, <2>6, ListsJoined
<1>4. CASE column[t] # c
  <2>1. Reordered(order, c, t, i) = In(order, c) \o NotIn(order, c)
    BY <1>4 DEF Reordered
  <2> HIDE DEF S, N
  <2> QED
    BY <1>1, <1>2, <2>1, ListsJoined
<1> QED
  BY <1>3, <1>4

LEMMA InitOrder == Init => OrderInv
  BY DEF Init, OrderInv

LEMMA StepOrder == IInv /\ OrderInv /\ [Next]_vars => OrderInv'
<1> SUFFICES ASSUME IInv, OrderInv, [Next]_vars PROVE OrderInv'
  OBVIOUS
<1>1. CASE Load
  <2>1. Lists(order', Tickets) /\ shown' = TRUE
    BY <1>1, OrdersAreLists DEF Load
  <2> QED
    BY <1>1, <2>1 DEF Load, OrderInv
<1>2. CASE Reenter
  BY <1>2 DEF Reenter, OrderInv
<1>3. CASE DropHere
  <2>1. shown /\ Lists(order, Tickets)
    BY <1>3 DEF DropHere, OrderInv
  <2>2. drag.ticket \in Tickets
    BY <1>3 DEF DropHere, IInv, TypeInv
  <2>3. PICK i \in 0..Len(Without(In(order, drag.from), drag.ticket)) :
          order' = Reordered(order, drag.from, drag.ticket, i)
    BY <1>3 DEF DropHere
  <2>4. Lists(order', Tickets)
    BY <2>1, <2>2, <2>3, DropReorders
  <2> QED
    BY <1>3, <2>1, <2>4 DEF DropHere, OrderInv
<1>4. ASSUME NEW t \in Tickets, Pick(t) \/ AgentSets(t) PROVE OrderInv'
  BY <1>4 DEF Pick, AgentSets, OrderInv
<1>5. ASSUME NEW m \in Moves, Store(m) \/ AnswerLost(m) \/ Answered(m) PROVE OrderInv'
  <2>1. UNCHANGED <<shown, order, drag>>
    BY <1>5 DEF Store, AnswerLost, Answered
  <2>2. AnswerLost(m) => move[m].ticket \in Tickets
    BY MoveFacts DEF AnswerLost, IInv, Request
  <2>3. contested' \subseteq Tickets
    BY <1>5, <2>2 DEF Store, AnswerLost, Answered, OrderInv
  <2> QED
    BY <2>1, <2>3 DEF OrderInv
<1>6. ASSUME NEW m \in Moves, NEW c \in Columns, DropThere(m, c) PROVE OrderInv'
  <2>1. drag.ticket \in Tickets /\ drag # NoDrag
    BY <1>6 DEF DropThere, IInv, TypeInv
  <2> QED
    BY <1>6, <2>1 DEF DropThere, OrderInv
<1>7. CASE UNCHANGED vars
  BY <1>7 DEF vars, OrderInv
<1> QED
  BY <1>1, <1>2, <1>3, <1>4, <1>5, <1>6, <1>7 DEF Next

LEMMA OrderAlways == Spec => [](IInv /\ OrderInv)
  BY InitInv, StepInv, InitOrder, StepOrder, PTL DEF Spec

\* The types, those of the order of the cards too: it holds tickets only.
THEOREM Types == Spec => []TypeOK
<1>1. IInv /\ OrderInv => TypeOK
  <2> SUFFICES ASSUME IInv, OrderInv PROVE TypeOK
    OBVIOUS
  <2>1. order \in Seq(Tickets)
    <3>1. <<>> \in Seq(Tickets)
      OBVIOUS
    <3>2. CASE shown
      BY <3>2 DEF OrderInv, Lists
    <3>3. CASE ~shown
      BY <3>1, <3>3 DEF OrderInv
    <3> QED
      BY <3>2, <3>3
  <2> QED
    BY <2>1 DEF IInv, TypeInv, OrderInv, TypeOK, Request
<1> QED
  BY <1>1, OrderAlways, PTL

\* Drops, reverts that happen during a drag, and filtered columns neither lose
\* nor duplicate a card: the order is one of all the tickets.
THEOREM CardsKept == Spec => []NoCardLost
<1>1. OrderInv => NoCardLost
  BY OrdersAreLists DEF OrderInv, NoCardLost
<1> QED
  BY <1>1, OrderAlways, PTL
===============================================================================
