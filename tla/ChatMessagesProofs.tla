-------------------------- MODULE ChatMessagesProofs --------------------------
(* Proofs of the order of ChatMessages, for any number of loops and tools. *)
EXTENDS ChatMessages, TLAPS

\* A loop saves while it is alive, one message at a time.
SaveInv ==
  /\ \A s \in saves : IF s.by = Self THEN phase[s.loop] \in {"prompting", "answering"}
                                     ELSE phase[s.loop] = "turn"
  /\ \A s, r \in saves : s.loop = r.loop => s = r

\* Loops that are alive have met.
MetInv == \A k, l \in Loops : k # l /\ Alive(k) /\ Alive(l) => <<k, l>> \in met

\* Rows beyond the one that a number counted come from loops met by its own.
Counted(n, l, last) ==
  /\ n <= last
  /\ \A i \in 1..last : n < i => <<table[i].loop, l>> \in met

NumberInv ==
  /\ \A s \in saves : Counted(s.seq, s.loop, Len(table))
  /\ \A i \in DOMAIN table : Counted(table[i].seq, table[i].loop, i - 1)

IInv == TypeOK /\ SaveInv /\ MetInv /\ NumberInv

-------------------------------------------------------------------------------
USE SelfIsNoTool, MessageBound

LEMMA RowsAreNumbered ==
  ASSUME table \in Seq(Row), NEW i \in DOMAIN table
  PROVE  table[i].seq \in Nat /\ table[i].loop \in Loops
<1>1. table[i] \in Row
  OBVIOUS
<1>2. QED
  BY <1>1 DEF Row

LEMMA InitInv == Init => IInv
BY DEF Init, IInv, TypeOK, SaveInv, MetInv, NumberInv, Alive, Row, Save

\* A message that is stored is counted right, and so are those still to store.
LEMMA StoreKeepsNumbers ==
  ASSUME IInv, NEW s \in saves, table' = Stored(s), saves' \subseteq saves \ {s},
         met' = met
  PROVE  NumberInv' /\ table' \in Seq(Row)
<1> DEFINE row == [seq |-> s.seq, loop |-> s.loop]
<1>1. /\ row \in Row /\ table \in Seq(Row) /\ s.loop \in Loops
      /\ table' = Append(table, row)
  BY DEF IInv, TypeOK, Save, Row, Stored
<1>2. /\ table' \in Seq(Row)
      /\ Len(table') = Len(table) + 1 /\ Len(table) \in Nat
      /\ DOMAIN table' = 1..(Len(table) + 1) /\ DOMAIN table = 1..Len(table)
      /\ \A i \in DOMAIN table : table'[i] = table[i]
      /\ table'[Len(table) + 1] = row
  BY <1>1
<1>3. ASSUME NEW r \in saves' PROVE Counted(r.seq, r.loop, Len(table))'
  <2>1. r \in saves /\ r # s /\ r.loop \in Loops /\ r.seq \in Nat
    BY DEF IInv, TypeOK, Save
  <2>2. Counted(r.seq, r.loop, Len(table))
    BY <2>1 DEF IInv, NumberInv
  \* Another loop's: the two are alive, so they have met.
  <2>3. <<s.loop, r.loop>> \in met
    BY <1>1, <2>1 DEF IInv, SaveInv, MetInv, Alive
  <2>4. \A i \in 1..(Len(table) + 1) : r.seq < i => <<table'[i].loop, r.loop>> \in met
    <3> SUFFICES ASSUME NEW i \in 1..(Len(table) + 1), r.seq < i
                 PROVE  <<table'[i].loop, r.loop>> \in met
      OBVIOUS
    <3>1. CASE i = Len(table) + 1
      BY <1>2, <2>3, <3>1
    <3>2. CASE i \in 1..Len(table)
      BY <1>2, <2>2, <3>2 DEF Counted
    <3>3. QED
      BY <1>2, <3>1, <3>2
  <2>5. QED
    BY <1>2, <2>1, <2>2, <2>4 DEF Counted
<1>4. ASSUME NEW i \in DOMAIN table' PROVE Counted(table[i].seq, table[i].loop, i - 1)'
  <2>1. CASE i \in DOMAIN table
    <3>1. Counted(table[i].seq, table[i].loop, i - 1)
      BY <2>1 DEF IInv, NumberInv
    <3>2. QED
      BY <1>2, <2>1, <3>1 DEF Counted
  <2>2. CASE i = Len(table) + 1
    <3>1. Counted(s.seq, s.loop, Len(table))
      BY DEF IInv, NumberInv
    <3>2. QED
      BY <1>2, <2>2, <3>1 DEF Counted
  <2>3. QED
    BY <1>2, <2>1, <2>2
<1>5. QED
  BY <1>2, <1>3, <1>4 DEF NumberInv

\* Counting gives the number of rows.
LEMMA CountKeepsNumbers ==
  ASSUME IInv, NEW l \in Loops, NEW w \in Tools \cup {Self}, Count(l, w),
         UNCHANGED <<table, met>>
  PROVE  NumberInv' /\ saves' \subseteq Save
<1>1. Len(table) \in Nat
  BY DEF IInv, TypeOK
<1>2. saves' \subseteq Save
  BY <1>1 DEF IInv, TypeOK, Save, Count
<1>3. ASSUME NEW r \in saves' PROVE Counted(r.seq, r.loop, Len(table))'
  <2>1. CASE r \in saves
    BY <2>1 DEF IInv, NumberInv, Counted
  <2>2. CASE r = [seq |-> Len(table), loop |-> l, by |-> w]
    BY <1>1, <2>2 DEF Counted
  <2>3. QED
    BY <2>1, <2>2 DEF Count
<1>4. QED
  BY <1>2, <1>3 DEF IInv, NumberInv, Counted

\* A step that leaves rows and numbers alone.
LEMMA QuietKeepsNumbers ==
  ASSUME IInv, table' = table, saves' \subseteq saves, met \subseteq met'
  PROVE  NumberInv'
BY DEF IInv, NumberInv, Counted

LEMMA NextInv == IInv /\ [Next]_vars => IInv'
<1> SUFFICES ASSUME IInv, [Next]_vars PROVE IInv'
  OBVIOUS
<1> USE DEF IInv, TypeOK, SaveInv, MetInv, Alive, Goes, Save
<1>1. ASSUME NEW l \in Loops, Start(l) PROVE IInv'
  <2>1. NumberInv'
    BY <1>1, QuietKeepsNumbers DEF Start
  <2>2. QED
    BY <1>1, <2>1 DEF Start
<1>2. ASSUME NEW l \in Loops, CountOwn(l) PROVE IInv'
  <2>1. NumberInv' /\ saves' \subseteq Save
    BY <1>2, CountKeepsNumbers DEF CountOwn
  <2>2. SaveInv'
    BY <1>2 DEF CountOwn, Count, OwnOf, SavesOf
  <2>3. QED
    BY <1>2, <2>1, <2>2 DEF CountOwn
<1>3. ASSUME NEW l \in Loops, CommitOwn(l) PROVE IInv'
  <2>1. PICK s \in OwnOf(l) : table' = Stored(s) /\ saves' = saves \ {s}
    BY <1>3 DEF CommitOwn
  <2>2. s \in saves /\ s.loop = l
    BY DEF OwnOf, SavesOf
  <2>3. NumberInv' /\ table' \in Seq(Row)
    BY <1>3, <2>1, <2>2, StoreKeepsNumbers DEF CommitOwn
  <2>4. \A r \in saves' : r.loop # l
    BY <2>1, <2>2
  <2>5. QED
    BY <1>3, <2>1, <2>3, <2>4 DEF CommitOwn
<1>4. ASSUME NEW l \in Loops, FinishStream(l) PROVE IInv'
  <2>1. NumberInv'
    BY <1>4, QuietKeepsNumbers DEF FinishStream
  <2>2. QED
    BY <1>4, <2>1 DEF FinishStream, ResultsOf, SavesOf
<1>5. ASSUME NEW l \in Loops, TakeMessage(l) PROVE IInv'
  <2>1. NumberInv'
    BY <1>5, QuietKeepsNumbers DEF TakeMessage
  <2>2. QED
    BY <1>5, <2>1 DEF TakeMessage
<1>6. ASSUME NEW l \in Loops, CommitResult(l) PROVE IInv'
  <2>1. PICK s \in ResultsOf(l) : table' = Stored(s) /\ saves' = saves \ {s}
    BY <1>6 DEF CommitResult
  <2>2. s \in saves /\ s.loop = l
    BY DEF ResultsOf, SavesOf
  <2>3. NumberInv' /\ table' \in Seq(Row)
    BY <1>6, <2>1, <2>2, StoreKeepsNumbers DEF CommitResult
  <2>4. QED
    BY <1>6, <2>1, <2>3 DEF CommitResult
<1>7. ASSUME NEW l \in Loops, End(l) PROVE IInv'
  <2>1. NumberInv' /\ table' \in Seq(Row)
    <3>1. CASE UNCHANGED table
      BY <1>7, <3>1, QuietKeepsNumbers DEF End
    <3>2. CASE \E s \in SavesOf(l) : table' = Stored(s)
      <4>1. PICK s \in SavesOf(l) : table' = Stored(s)
        BY <3>2
      <4>2. s \in saves /\ saves' \subseteq saves \ {s}
        BY <1>7 DEF End, SavesOf
      <4>3. QED
        BY <1>7, <4>1, <4>2, StoreKeepsNumbers DEF End
    <3>3. QED
      BY <1>7, <3>1, <3>2 DEF End
  <2>2. \A r \in saves' : r \in saves /\ r.loop # l
    BY <1>7 DEF End, SavesOf
  <2>3. QED
    BY <1>7, <2>1, <2>2 DEF End
<1>8. ASSUME NEW l \in Loops, NEW t \in Tools, CountResult(l, t) PROVE IInv'
  <2>1. NumberInv' /\ saves' \subseteq Save
    BY <1>8, CountKeepsNumbers DEF CountResult
  <2>2. SaveInv'
    BY <1>8 DEF CountResult, Count, ResultsOf, SavesOf
  <2>3. QED
    BY <1>8, <2>1, <2>2 DEF CountResult
<1>9. CASE UNCHANGED vars
  BY <1>9, QuietKeepsNumbers DEF vars
<1>10. QED
  BY <1>1, <1>2, <1>3, <1>4, <1>5, <1>6, <1>7, <1>8, <1>9 DEF Next

LEMMA Inductive == Spec => []IInv
BY InitInv, NextInv, PTL DEF Spec

-------------------------------------------------------------------------------
\* Every variable keeps its type.
THEOREM TypeCorrect == Spec => []TypeOK
BY Inductive, PTL DEF IInv

\* persistence.py:20: messages are listed in the order they were stored, but for
\* those of loops that overlapped.
THEOREM Ordered == Spec => []HistoryInOrder
<1>1. IInv => HistoryInOrder
  <2> SUFFICES ASSUME IInv, NEW i \in DOMAIN table, NEW j \in DOMAIN table, i < j,
                      <<table[i].loop, table[j].loop>> \notin met
               PROVE  table[i].seq < table[j].seq
    BY DEF HistoryInOrder, ListedBefore
  <2>1. table \in Seq(Row) /\ DOMAIN table = 1..Len(table) /\ Len(table) \in Nat
    BY DEF IInv, TypeOK
  <2>2. table[i].seq \in Nat /\ table[j].seq \in Nat
    BY <2>1, RowsAreNumbered
  <2>3. table[i].seq <= i - 1
    BY DEF IInv, NumberInv, Counted
  <2>4. i <= table[j].seq
    BY <2>1, <2>2 DEF IInv, NumberInv, Counted
  <2>5. QED
    BY <2>1, <2>2, <2>3, <2>4
<1>2. QED
  BY Inductive, <1>1, PTL

\* Without overlap the numbers are consecutive.
THEOREM Consecutive == Spec => []NoGaps
<1>1. IInv => NoGaps
  <2> SUFFICES ASSUME IInv, met = {}, NEW i \in DOMAIN table PROVE table[i].seq = i - 1
    BY DEF NoGaps
  <2>1. i \in Nat \ {0} /\ table[i].seq \in Nat
    BY RowsAreNumbered DEF IInv, TypeOK
  <2>2. Counted(table[i].seq, table[i].loop, i - 1)
    BY DEF IInv, NumberInv
  <2>3. QED
    BY <2>1, <2>2 DEF Counted
<1>2. QED
  BY Inductive, <1>1, PTL
===============================================================================
