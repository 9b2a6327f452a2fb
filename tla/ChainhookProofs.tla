-------------------------- MODULE ChainhookProofs --------------------------
(***************************************************************************)
(* What the table promises behind Chainhooks, for any assertions, parties, *)
(* blocks and number of failures: deliveries that fail half way and are    *)
(* repeated leave exactly the rows of the chain.  And what it promises on  *)
(* a chain that reorganises, for any number of reorganisations.            *)
(***************************************************************************)
EXTENDS ChainhookReorgs, AssertionRowsProofs, FiniteSetTheorems

-----------------------------------------------------------------------------
(* Handling an event again *)

\* A row that has everything its events tell; only its status may still be that of
\* the dispute, while the first j events are all that has been repeated.
AsOf(row, h, j) ==
    /\ row \in Row
    /\ \A c \in Columns \ {"status"} : row[c] = TrueRow(h)[c]
    /\ \/ row.status = TrueRow(h).status
       \/ Len(h) = 3 /\ j < 3 /\ row.status = "disputed"

\* The same of a table, for the first m events of an assertion.
HasRow(t, id, h, m, j) ==
    IF m = 0 THEN id \notin DOMAIN t
    ELSE id \in DOMAIN t /\ AsOf(t[id], SubSeq(h, 1, m), j)

\* Such a row invents nothing.
LEMMA AsOfIsTruthful ==
    ASSUME NEW h, Life(h), NEW j, NEW row, AsOf(row, h, j)
    PROVE  Truthful(row, h)
<1> DEFINE t == TrueRow(h)
<1>1. Len(h) \in 1..3 /\ Len(h) \in DOMAIN h
  BY DEF Life
<1>2. /\ t.disputer = (IF Disputed(h) THEN h[2].by ELSE Null)
      /\ t.settler = (IF SettledLast(h) THEN h[Len(h)].by ELSE Null)
      /\ t.resolver = (IF Len(h) = 3 THEN h[3].by ELSE Null)
      /\ t.status = (IF Len(h) = 1 THEN "open" ELSE h[Len(h)].event)
  BY TrueColumns
<1>3. /\ \A c \in Columns \ {"status"} : row[c] = t[c]
      /\ row.status = t.status \/ (Len(h) = 3 /\ row.status = "disputed")
      /\ row \in Row
  BY DEF AsOf
<1> HIDE DEF t
<1>4. row.disputer = t.disputer /\ row.settler = t.settler /\ row.resolver = t.resolver
  BY <1>3 DEF Columns
<1>5. \A k \in DOMAIN h : h[k].by # Null /\ h[k].by \in Parties
  <2>1. DOMAIN h = 1..Len(h)
    BY DEF Life
  <2>2. QED
    BY <2>1, PrintsSay, RowAssumption
<1>6. CASE Len(h) = 1
  <2>1. ~ Disputed(h) /\ ~ SettledLast(h)
    BY <1>6 DEF Disputed, SettledLast
  <2>2. /\ row.status = "open" /\ row.disputer = Null /\ row.settler = Null
        /\ row.resolver = Null
    BY <1>2, <1>3, <1>4, <1>6, <2>1
  <2>3. QED
    BY <1>3, <2>2, TruthfulRow DEF t
<1>7. CASE Len(h) = 2
  <2>1. 2 \in DOMAIN h /\ h[2].event \in {"disputed", "settled"} /\ row.status = h[2].event
    BY <1>2, <1>3, <1>7 DEF Life
  <2>2. Happened(h, row.status)
    BY <2>1 DEF Happened
  <2>3. /\ row.status = "disputed" => row.disputer # Null
        /\ row.status = "settled" => row.settler # Null
    BY <1>2, <1>4, <1>5, <1>7, <2>1 DEF Disputed, SettledLast
  <2>4. QED
    BY <1>3, <2>1, <2>2, <2>3, TruthfulRow DEF t
<1>8. CASE Len(h) = 3
  <2>1. 2 \in DOMAIN h /\ 3 \in DOMAIN h /\ h[2].event = "disputed"
        /\ h[3].event \in TerminalStatus
    BY <1>8 DEF Life
  <2>2. row.status = h[3].event \/ row.status = "disputed"
    BY <1>2, <1>3, <1>8
  <2>3. Happened(h, row.status)
    BY <2>1, <2>2 DEF Happened
  <2>4. row.disputer # Null /\ row.resolver # Null
    BY <1>2, <1>4, <1>5, <1>8, <2>1 DEF Disputed
  <2>5. row.status = "settled" => row.settler # Null
    BY <1>2, <1>4, <1>5, <1>8, <2>1, <2>2 DEF SettledLast
  <2>6. row.status # "open"
    BY <2>1, <2>2 DEF TerminalStatus
  <2>7. QED
    BY <1>3, <2>3, <2>4, <2>5, <2>6, TruthfulRow DEF t
<1>9. QED
  BY <1>1, <1>6, <1>7, <1>8

\* A statement for an event that has been handled before changes the status at most.
LEMMA RepeatedStatement ==
    ASSUME NEW h, Life(h), NEW j, NEW row, AsOf(row, h, j), NEW columns, Reports(columns, h)
    PROVE  /\ Replaced(row, columns) \in Row
           /\ \A c \in Columns \ {"status"} : Replaced(row, columns)[c] = TrueRow(h)[c]
           /\ Replaced(row, columns).status
                = IF "status" \in DOMAIN columns THEN columns.status ELSE row.status
<1> DEFINE new == Replaced(row, columns)
<1>1. row \in Row /\ \A c \in Columns \ {"status"} : row[c] = TrueRow(h)[c]
  BY DEF AsOf
<1>2. /\ new \in Row
      /\ \A c \in Columns : new[c] = IF c \in DOMAIN columns THEN columns[c] ELSE row[c]
  BY <1>1, ReplacedColumns DEF Reports
<1> HIDE DEF new
<1>3. \A c \in Columns \ {"status"} : new[c] = TrueRow(h)[c]
  BY <1>1, <1>2 DEF Reports
<1>4. "status" \in Columns
  BY DEF Columns
<1>5. QED
  BY <1>2, <1>3, <1>4 DEF new

\* An event handled again, after all those before it that are repeated.
LEMMA HandledAgain ==
    ASSUME NEW t, NEW id \in DOMAIN t, NEW h, Life(h), NEW k \in DOMAIN h, NEW readRow,
           AsOf(t[id], h, k - 1), Fresh(t, id, h[k], readRow)
    PROVE  /\ id \in DOMAIN Handled(t, id, h[k], readRow)
           /\ AsOf(Handled(t, id, h[k], readRow)[id], h, k)
<1> DEFINE e == h[k]
           row == t[id]
           true == TrueRow(h).status
<1>1. k \in 1..3 /\ k \in 1..Len(h) /\ Len(h) \in 1..3 /\ e \in Prints
  BY Places DEF Life
<1>2. Truthful(row, h) /\ row \in Row
  BY AsOfIsTruthful DEF AsOf
<1>3. \A columns : /\ id \in DOMAIN Update(t, id, columns)
                   /\ Update(t, id, columns)[id] = Replaced(row, columns)
  BY DEF Update
<1>4. /\ row.status = true \/ (Len(h) = 3 /\ k - 1 < 3 /\ row.status = "disputed")
      /\ true = IF Len(h) = 1 THEN "open" ELSE h[Len(h)].event
  BY TrueColumns DEF AsOf
<1>5. CASE e.event = "asserted"
  <2>1. k = 1
    BY <1>5, Places
  <2>2. Handled(t, id, e, readRow) = Update(t, id, AssertedColumns(e))
    BY <1>5 DEF Handled, OnAsserted, AssertedColumns
  <2>3. Reports(AssertedColumns(e), h)
    BY <1>5, StatementsReport
  <2>4. Replaced(row, AssertedColumns(e)).status = row.status
    BY <2>3, RepeatedStatement DEF AssertedColumns
  <2>5. AsOf(Replaced(row, AssertedColumns(e)), h, k)
    BY <1>4, <2>1, <2>3, <2>4, RepeatedStatement, SMTT(20) DEF AsOf
  <2>6. QED
    BY <1>3, <2>2, <2>5
<1>6. CASE e.event = "disputed"
  <2>1. k = 2
    BY <1>6, Places
  <2>2. Handled(t, id, e, readRow) = Update(t, id, DisputedColumns(e))
    BY <1>6 DEF Handled, OnDisputed, DisputedColumns
  <2>3. Reports(DisputedColumns(e), h)
    BY <1>6, StatementsReport
  <2>4. Replaced(row, DisputedColumns(e)).status = "disputed"
    BY <2>3, RepeatedStatement DEF DisputedColumns
  <2>5. true = "disputed" \/ Len(h) = 3
    BY <1>1, <1>4, <1>6, <2>1
  <2>6. AsOf(Replaced(row, DisputedColumns(e)), h, k)
    BY <2>1, <2>3, <2>4, <2>5, RepeatedStatement DEF AsOf
  <2>7. QED
    BY <1>3, <2>2, <2>6
<1>7. CASE e.event \in TerminalStatus
  <2>1. k = Len(h) /\ k > 1 /\ true = e.event
    BY <1>1, <1>4, <1>7, Places
  <2>2. PICK columns :
           /\ Handled(t, id, e, readRow) = Update(t, id, columns)
           /\ Reports(columns, h)
           /\ "status" \in DOMAIN columns /\ columns.status = e.event
    <3>1. CASE e.event = "settled"
      <4>1. readRow = row
        BY <3>1 DEF Fresh
      <4>2. Handled(t, id, e, readRow) = Update(t, id, SettledColumns(e, row))
        BY <3>1, <4>1 DEF Handled, OnSettled, SettledColumns
      <4>3. Reports(SettledColumns(e, row), h)
        BY <1>2, <3>1, StatementsReport
      <4>4. /\ "status" \in DOMAIN SettledColumns(e, row)
            /\ SettledColumns(e, row).status = "settled"
        BY DEF SettledColumns
      <4>5. QED
        BY <3>1, <4>2, <4>3, <4>4
    <3>2. CASE e.event \in {"rejected", "unresolved"}
      <4>1. Handled(t, id, e, readRow) = Update(t, id, ResolvedColumns(e, e.event))
        BY <3>2 DEF Handled, OnRejected, OnUnresolved, ResolvedColumns
      <4>2. Reports(ResolvedColumns(e, e.event), h)
        BY <3>2, StatementsReport
      <4>3. /\ "status" \in DOMAIN ResolvedColumns(e, e.event)
            /\ ResolvedColumns(e, e.event).status = e.event
        BY DEF ResolvedColumns
      <4>4. QED
        BY <4>1, <4>2, <4>3
    <3>3. QED
      BY <1>7, <3>1, <3>2 DEF TerminalStatus
  <2>3. AsOf(Replaced(row, columns), h, k)
    <3>1. /\ Replaced(row, columns) \in Row
          /\ \A c \in Columns \ {"status"} : Replaced(row, columns)[c] = TrueRow(h)[c]
          /\ Replaced(row, columns).status = columns.status
      BY <2>2, RepeatedStatement
    <3>2. QED
      BY <2>1, <2>2, <3>1 DEF AsOf
  <2>4. QED
    BY <1>3, <2>2, <2>3
<1>8. e.event \in {"asserted", "disputed"} \cup TerminalStatus
  BY <1>1 DEF Prints, TerminalStatus
<1>9. QED
  BY <1>5, <1>6, <1>7, <1>8

\* A handler writes one row.
LEMMA OtherRowsStay ==
    ASSUME NEW t, NEW id, NEW e \in Prints, NEW readRow, NEW i, i # id
    PROVE  /\ i \in DOMAIN Handled(t, id, e, readRow) <=> i \in DOMAIN t
           /\ i \in DOMAIN t => Handled(t, id, e, readRow)[i] = t[i]
<1>1. e.event \in {"asserted", "disputed", "settled", "rejected", "unresolved"}
  BY DEF Prints
<1>2. \A columns : /\ i \in DOMAIN Update(t, id, columns) <=> i \in DOMAIN t
                   /\ i \in DOMAIN t => Update(t, id, columns)[i] = t[i]
  BY DEF Update
<1>3. CASE e.event = "asserted"
  BY <1>2, <1>3 DEF Handled, OnAsserted
<1>4. CASE e.event = "disputed"
  BY <1>2, <1>4 DEF Handled, OnDisputed
<1>5. CASE e.event = "settled"
  BY <1>2, <1>5 DEF Handled, OnSettled
<1>6. CASE e.event = "rejected"
  BY <1>2, <1>6 DEF Handled, OnRejected
<1>7. CASE e.event = "unresolved"
  BY <1>2, <1>7 DEF Handled, OnUnresolved
<1>8. QED
  BY <1>1, <1>3, <1>4, <1>5, <1>6, <1>7

\* The next event that is handled of an assertion: one of those handled before, or
\* the first that has not been.
LEMMA HandledNext ==
    ASSUME NEW t, NEW id, NEW h, Life(h), NEW m \in 0..Len(h), NEW k \in 1..Len(h),
           k <= m + 1, NEW readRow, HasRow(t, id, h, m, k - 1), Fresh(t, id, h[k], readRow)
    PROVE  HasRow(Handled(t, id, h[k], readRow), id, h, IF k = m + 1 THEN k ELSE m, k)
<1> DEFINE u == Handled(t, id, h[k], readRow)
           g == SubSeq(h, 1, m)
<1>1. Len(h) \in 1..3 /\ DOMAIN h = 1..Len(h) /\ m \in 0..3 /\ k \in 1..3
  <2>1. Len(h) \in 1..3 /\ DOMAIN h = 1..Len(h)
    BY DEF Life
  <2>2. QED
    BY <2>1
<1>2. m > 0 => /\ Life(g) /\ Len(g) = m /\ DOMAIN g = 1..m
               /\ \A i \in 1..m : g[i] = h[i]
  <2> SUFFICES ASSUME m > 0
               PROVE  /\ Life(g) /\ Len(g) = m /\ DOMAIN g = 1..m
                      /\ \A i \in 1..m : g[i] = h[i]
    OBVIOUS
  <2>1. m \in DOMAIN h
    BY <1>1
  <2>2. Life(g) /\ Len(g) = m /\ \A i \in 1..m : g[i] = h[i]
    BY <2>1, FirstEvents
  <2> HIDE DEF g
  <2>3. DOMAIN g = 1..m
    BY <2>2 DEF Life
  <2>4. QED
    BY <2>2, <2>3
<1> HIDE DEF g
<1>3. CASE k = m + 1
  <2>1. Exact(t, id, h, k - 1)
    <3>1. CASE m = 0
      BY <1>3, <3>1 DEF HasRow, Exact
    <3>2. CASE m > 0
      <4>1. id \in DOMAIN t /\ AsOf(t[id], g, k - 1)
        BY <3>2 DEF HasRow, g
      <4>2. t[id] \in Row /\ TrueRow(g) \in Row
        BY <1>2, <3>2, <4>1, TrueColumns DEF AsOf
      <4>3. ~ (Len(g) = 3 /\ k - 1 < 3)
        BY <1>1, <1>2, <1>3, <3>2
      <4>4. \A c \in Columns : t[id][c] = TrueRow(g)[c]
        BY <4>1, <4>3 DEF AsOf
      <4>5. t[id] = TrueRow(g)
        BY <4>2, <4>4, SameRow
      <4>6. k - 1 = m
        BY <1>1, <1>3
      <4>7. QED
        BY <3>2, <4>1, <4>5, <4>6 DEF Exact, g
    <3>3. QED
      BY <1>1, <3>1, <3>2
  <2>2. k \in DOMAIN h
    BY <1>1
  <2>3. Exact(u, id, h, k)
    BY <2>1, <2>2, HandledInOrder
  <2> DEFINE p == SubSeq(h, 1, k)
  <2>4. Life(p)
    BY <2>2, FirstEvents
  <2> HIDE DEF u, p
  <2>5. id \in DOMAIN u /\ u[id] = TrueRow(p) /\ TrueRow(p) \in Row
    BY <1>1, <2>3, <2>4, TrueColumns DEF Exact, p
  <2>6. AsOf(u[id], p, k)
    BY <2>5 DEF AsOf
  <2>7. QED
    BY <1>1, <1>3, <2>5, <2>6 DEF HasRow, p, u
<1>4. CASE k # m + 1
  <2>1. m > 0 /\ k \in DOMAIN g /\ g[k] = h[k]
    BY <1>1, <1>2, <1>4
  <2>2. id \in DOMAIN t /\ AsOf(t[id], g, k - 1)
    BY <2>1 DEF HasRow, g
  <2>3. Fresh(t, id, g[k], readRow) /\ Life(g)
    BY <1>2, <2>1
  <2>4. /\ id \in DOMAIN Handled(t, id, g[k], readRow)
        /\ AsOf(Handled(t, id, g[k], readRow)[id], g, k)
    BY <2>1, <2>2, <2>3, HandledAgain
  <2>5. QED
    BY <1>4, <2>1, <2>4 DEF HasRow, g
<1>5. QED
  BY <1>3, <1>4

-----------------------------------------------------------------------------
(* How many of the first n events of a log are about an assertion *)

Count(l, id, n) == Cardinality({k \in 1..n : l[k][1] = id})

\* The events counted are finitely many, so the count is a number.
LEMMA CountType ==
    ASSUME NEW l, NEW id, NEW n \in Nat
    PROVE  IsFiniteSet({k \in 1..n : l[k][1] = id}) /\ Count(l, id, n) \in Nat
<1>1. IsFiniteSet(1..n)
  BY FS_Interval
<1>2. IsFiniteSet({k \in 1..n : l[k][1] = id})
  BY <1>1, FS_Subset
<1>3. QED
  BY <1>2, FS_CardinalityType DEF Count

\* None of no events; and one more for each event that is about it.
LEMMA CountNext ==
    ASSUME NEW l, NEW id, NEW n \in Nat
    PROVE  /\ Count(l, id, 0) = 0
           /\ Count(l, id, n + 1) = IF l[n + 1][1] = id THEN Count(l, id, n) + 1
                                    ELSE Count(l, id, n)
<1> DEFINE S(m) == {k \in 1..m : l[k][1] = id}
<1>1. S(0) = {}
  OBVIOUS
<1>2. Count(l, id, 0) = 0
  BY <1>1, FS_EmptySet DEF Count
<1>3. IsFiniteSet(S(n))
  BY CountType
<1>4. CASE l[n + 1][1] = id
  <2>1. S(n + 1) = S(n) \cup {n + 1} /\ n + 1 \notin S(n)
    BY <1>4
  <2>2. QED
    BY <1>2, <1>3, <1>4, <2>1, FS_AddElement DEF Count
<1>5. CASE l[n + 1][1] # id
  <2>1. S(n + 1) = S(n)
    BY <1>5
  <2>2. QED
    BY <1>2, <1>5, <2>1 DEF Count
<1>6. QED
  BY <1>4, <1>5

\* More events count no less.
LEMMA CountGrows ==
    ASSUME NEW l, NEW id, NEW n \in Nat, NEW m \in Nat, n <= m
    PROVE  Count(l, id, n) <= Count(l, id, m)
<1> DEFINE S == {k \in 1..n : l[k][1] = id}
           T == {k \in 1..m : l[k][1] = id}
<1>1. S \subseteq T
  OBVIOUS
<1>2. IsFiniteSet(T)
  BY CountType
<1> HIDE DEF S, T
<1>3. Cardinality(S) <= Cardinality(T)
  BY <1>1, <1>2, FS_Subset
<1>4. QED
  BY <1>3 DEF Count, S, T

\* The count depends on the first n events only.
LEMMA CountSame ==
    ASSUME NEW l, NEW m, NEW id, NEW n \in Nat, \A k \in 1..n : l[k] = m[k]
    PROVE  Count(l, id, n) = Count(m, id, n)
<1>1. {k \in 1..n : l[k][1] = id} = {k \in 1..n : m[k][1] = id}
  OBVIOUS
<1>2. QED
  BY <1>1 DEF Count

\* It is zero if there is no such event.
LEMMA CountZero ==
    ASSUME NEW l, NEW id, NEW n \in Nat
    PROVE  Count(l, id, n) = 0 <=> id \notin {l[k][1] : k \in 1..n}
<1>1. Count(l, id, n) = 0 <=> {k \in 1..n : l[k][1] = id} = {}
  BY CountType, FS_EmptySet DEF Count
<1>2. QED
  BY <1>1

-----------------------------------------------------------------------------
(* The chain *)

\* One assertion has had one more event.
GrowsAt(f, g, id) ==
    /\ DOMAIN g = DOMAIN f \cup {id}
    /\ \A i \in DOMAIN f : i # id => g[i] = f[i]
    /\ Len(g[id]) = (IF id \in DOMAIN f THEN Len(f[id]) ELSE 0) + 1

\* A transaction adds an event to the feed of one assertion.
LEMMA FeedGrows ==
    ASSUME LivesIn(feed), Chain!Next
    PROVE  LivesIn(feed') /\ Grows(feed, feed') /\ \E id : GrowsAt(feed, feed', id)
<1>1. ASSUME NEW id, NEW by \in Parties, NEW at \in Blocks, Chain!Start(id, by, at)
      PROVE  LivesIn(feed') /\ Grows(feed, feed') /\ GrowsAt(feed, feed', id)
  <2> DEFINE e == Chain!Entry("asserted", by, at)
  <2>1. e \in Prints /\ e.event = "asserted"
    BY DEF Prints, Chain!Entry
  <2> HIDE DEF e
  <2>2. feed' = [i \in DOMAIN feed \cup {id} |-> IF i = id THEN <<e>> ELSE feed[i]]
        /\ id \notin DOMAIN feed
    BY <1>1 DEF Chain!Start, e
  <2>3. GrowsAt(feed, feed', id)
    BY <2>2 DEF GrowsAt
  <2>4. QED
    BY <2>1, <2>2, <2>3, Started
<1>2. ASSUME NEW id \in DOMAIN feed, NEW by \in Parties, NEW at \in Blocks,
             Chain!Continue(id, by, at)
      PROVE  LivesIn(feed') /\ Grows(feed, feed') /\ GrowsAt(feed, feed', id)
  <2> DEFINE last == feed[id][Len(feed[id])].event
  <2>1. PICK name \in Chain!Successors(last) :
           feed' = [feed EXCEPT ![id] = Append(@, Chain!Entry(name, by, at))]
    BY <1>2 DEF Chain!Continue
  <2> DEFINE e == Chain!Entry(name, by, at)
  <2>2. \/ last = "asserted" /\ name \in {"disputed", "settled"}
        \/ last = "disputed" /\ name \in TerminalStatus
    BY <2>1 DEF Chain!Successors, TerminalStatus
  <2>3. e \in Prints /\ e.event = name
    BY <2>2 DEF Prints, Chain!Entry, TerminalStatus
  <2> HIDE DEF e
  <2>4. feed' = [feed EXCEPT ![id] = Append(@, e)]
    BY <2>1 DEF e
  <2>5. LivesIn(feed') /\ Grows(feed, feed')
    BY <2>2, <2>3, <2>4, Continued
  <2>6. feed[id] \in Seq(Prints) /\ feed'[id] = Append(feed[id], e)
    BY <2>4 DEF LivesIn, Life
  <2>7. Len(feed'[id]) = Len(feed[id]) + 1
    BY <2>3, <2>6
  <2>8. GrowsAt(feed, feed', id)
    BY <2>4, <2>7 DEF GrowsAt
  <2>9. QED
    BY <2>5, <2>8
<1>3. QED
  BY <1>1, <1>2 DEF Chain!Next

\* An event that has been printed.
LEMMA RefOf ==
    ASSUME NEW f, NEW r
    PROVE  r \in Refs(f) <=> \E id \in DOMAIN f : \E k \in DOMAIN f[id] : r = <<id, k>>
  BY DEF Refs

\* The log has the events of each assertion in their order, and all of them.
LogOf(l, f) ==
    /\ l \in Seq(Refs(f))
    /\ \A n \in 1..Len(l) : l[n][2] = Count(l, l[n][1], n)
    /\ \A id \in DOMAIN f : Count(l, id, Len(l)) = Len(f[id])

\* An entry of the log: an assertion, and the place of the event among its events.
LEMMA Logged ==
    ASSUME NEW l, NEW f, LivesIn(f), LogOf(l, f), NEW n \in 1..Len(l)
    PROVE  /\ l[n][1] \in DOMAIN f
           /\ l[n][2] \in 1..Len(f[l[n][1]])
           /\ l[n][2] = Count(l, l[n][1], n - 1) + 1
           /\ \A id : id # l[n][1] => Count(l, id, n) = Count(l, id, n - 1)
<1>1. l[n] \in Refs(f) /\ l[n][2] = Count(l, l[n][1], n)
  BY DEF LogOf
<1>2. PICK id \in DOMAIN f : \E k \in DOMAIN f[id] : l[n] = <<id, k>>
  BY <1>1, RefOf
<1>3. l[n][1] = id /\ l[n][2] \in DOMAIN f[id]
  BY <1>2
<1>4. DOMAIN f[id] = 1..Len(f[id])
  BY DEF LivesIn, Life
<1>5. n - 1 \in Nat /\ (n - 1) + 1 = n
  BY DEF LogOf
<1>6. \A i : Count(l, i, n) = IF l[n][1] = i THEN Count(l, i, n - 1) + 1 ELSE Count(l, i, n - 1)
  BY <1>5, CountNext
<1>7. QED
  BY <1>1, <1>3, <1>4, <1>6

\* No more events of an assertion have been logged than it has had.
LEMMA CountBound ==
    ASSUME NEW l, NEW f, LogOf(l, f), NEW id \in DOMAIN f, NEW n \in 0..Len(l)
    PROVE  Count(l, id, n) \in 0..Len(f[id])
<1>1. Len(l) \in Nat /\ n \in Nat /\ n <= Len(l)
  BY DEF LogOf
<1>2. Count(l, id, n) <= Count(l, id, Len(l))
  BY <1>1, CountGrows
<1>3. Count(l, id, n) \in Nat /\ Count(l, id, Len(l)) = Len(f[id])
      /\ Count(l, id, Len(l)) \in Nat
  BY <1>1, CountType DEF LogOf
<1>4. QED
  BY <1>2, <1>3

\* A printed event extends the log.
LEMMA LogGrows ==
    ASSUME LivesIn(feed), LogOf(log, feed), Printed
    PROVE  /\ LogOf(log', feed')
           /\ Len(log') = Len(log) + 1 /\ \A k \in 1..Len(log) : log'[k] = log[k]
<1>1. PICK ref \in Refs(feed') \ Refs(feed) : log' = Append(log, ref)
  BY DEF Printed
<1>2. /\ LivesIn(feed') /\ Grows(feed, feed') /\ \E id : GrowsAt(feed, feed', id)
  BY FeedGrows DEF Printed
<1>3. PICK id : GrowsAt(feed, feed', id)
  BY <1>2
<1> DEFINE n == Len(log)
           old == IF id \in DOMAIN feed THEN Len(feed[id]) ELSE 0
<1>4. \A i \in DOMAIN feed : DOMAIN feed[i] = 1..Len(feed[i]) /\ Len(feed[i]) \in Nat
  BY DEF LivesIn, Life
<1>5. \A i \in DOMAIN feed' : DOMAIN feed'[i] = 1..Len(feed'[i]) /\ Len(feed'[i]) \in Nat
  BY <1>2 DEF LivesIn, Life
<1>6. ref = <<id, old + 1>>
  <2>1. PICK i \in DOMAIN feed' : \E k \in DOMAIN feed'[i] : ref = <<i, k>>
    BY <1>1, RefOf
  <2>2. PICK k \in DOMAIN feed'[i] : ref = <<i, k>>
    BY <2>1
  <2>3. ~ (i \in DOMAIN feed /\ k \in DOMAIN feed[i])
    BY <1>1, <2>2, RefOf
  <2>4. i = id
    BY <1>3, <2>2, <2>3 DEF GrowsAt
  <2>5. k \in 1..(old + 1)
    BY <1>3, <1>5, <2>4 DEF GrowsAt
  <2>6. k \notin 1..old
    BY <1>4, <2>3, <2>4
  <2>7. old \in Nat
    BY <1>4
  <2>8. QED
    BY <2>2, <2>4, <2>5, <2>6, <2>7
<1>7. Refs(feed) \subseteq Refs(feed')
  BY <1>2, RefOf, GrowthKeeps
<1>8. /\ log \in Seq(Refs(feed)) /\ n \in Nat
      /\ log \in Seq(Refs(feed')) /\ log' \in Seq(Refs(feed'))
      /\ Len(log') = n + 1 /\ log'[n + 1] = ref
      /\ \A k \in 1..n : log'[k] = log[k]
  BY <1>1, <1>7 DEF LogOf
<1>9. ASSUME NEW i, NEW k \in 0..n PROVE Count(log', i, k) = Count(log, i, k)
  BY <1>8, CountSame
<1>10. Count(log, id, n) = old
  <2>1. CASE id \in DOMAIN feed
    BY <2>1 DEF LogOf
  <2>2. CASE id \notin DOMAIN feed
    <3>1. id \notin {log[k][1] : k \in 1..n}
      BY <2>2, Logged
    <3>2. QED
      BY <1>8, <2>2, <3>1, CountZero
  <2>3. QED
    BY <2>1, <2>2
<1>11. \A i : Count(log', i, n + 1) = IF i = id THEN old + 1 ELSE Count(log, i, n)
  <2>1. \A i : Count(log', i, n + 1)
                  = IF log'[n + 1][1] = i THEN Count(log', i, n) + 1 ELSE Count(log', i, n)
    BY <1>8, CountNext
  <2>2. log'[n + 1][1] = id /\ \A i : Count(log', i, n) = Count(log, i, n)
    BY <1>6, <1>8, <1>9
  <2>3. QED
    BY <1>10, <2>1, <2>2
<1>12. ASSUME NEW k \in 1..(n + 1) PROVE log'[k][2] = Count(log', log'[k][1], k)
  <2>1. CASE k = n + 1
    BY <1>6, <1>8, <1>11, <2>1
  <2>2. CASE k # n + 1
    <3>1. k \in 1..n /\ k \in 0..n
      BY <1>8, <2>2
    <3>2. QED
      BY <1>8, <1>9, <3>1 DEF LogOf
  <2>3. QED
    BY <2>1, <2>2
<1>13. ASSUME NEW i \in DOMAIN feed' PROVE Count(log', i, n + 1) = Len(feed'[i])
  <2>1. CASE i = id
    BY <1>3, <1>11, <2>1 DEF GrowsAt
  <2>2. CASE i # id
    BY <1>3, <1>11, <2>2 DEF GrowsAt, LogOf
  <2>3. QED
    BY <2>1, <2>2
<1>14. QED
  BY <1>8, <1>12, <1>13 DEF LogOf

-----------------------------------------------------------------------------
(* The invariant *)

\* The events handled since the last answer, and how far a failed delivery can
\* have come before.
Pos   == IF batch = NoBatch THEN cursor ELSE batch.next - 1
Limit == IF batch # NoBatch THEN batch.last ELSE IF retry # 0 THEN retry ELSE cursor

\* Every assertion has the row of its events among the first top of the log, those
\* up to pos being repeated.
Applied(t, f, l, top, pos) ==
    \A id \in DOMAIN f : HasRow(t, id, f[id], Count(l, id, top), Count(l, id, pos))

DeliveryOK ==
    /\ cursor \in 0..Len(log)
    /\ batch = NoBatch \/ (batch.next \in (cursor + 1)..(batch.last + 1)
                           /\ batch.last \in (cursor + 1)..Len(log)
                           /\ batch = [next |-> batch.next, last |-> batch.last])
    /\ retry = 0 \/ retry \in (cursor + 1)..Len(log)
    /\ (batch # NoBatch /\ retry # 0) => batch.last = retry
    /\ failures \in 0..MaxFailures

\* What the settled case has read is what the table holds.
SeenOK ==
    seen # Null => /\ Handling /\ Event.event = "settled"
                   /\ Id \in DOMAIN table /\ seen = table[Id]

DeliveryInv ==
    /\ LivesIn(feed) /\ LogOf(log, feed)
    /\ DeliveryOK
    /\ SeenOK
    /\ TableTruthful(table, feed)
    /\ \E top \in Pos..Limit : Applied(table, feed, log, top, Pos)

\* The bounds between which the table is.
LEMMA Bounds ==
    ASSUME DeliveryInv
    PROVE  /\ cursor \in Nat /\ Pos \in Nat /\ Limit \in Nat /\ Len(log) \in Nat
           /\ cursor <= Pos /\ Pos <= Limit /\ Limit <= Len(log)
           /\ batch # NoBatch => batch.next \in Nat /\ batch.last \in Nat
  BY DEF DeliveryInv, DeliveryOK, LogOf, Pos, Limit

\* A new event at the end of the log changes nothing for the earlier ones.
LEMMA PrintKeepsDelivery == DeliveryInv /\ Printed => DeliveryInv'
<1> SUFFICES ASSUME DeliveryInv, Printed PROVE DeliveryInv'
  OBVIOUS
<1>1. /\ LivesIn(feed') /\ Grows(feed, feed') /\ \E id : GrowsAt(feed, feed', id)
  BY FeedGrows DEF Printed, DeliveryInv
<1>2. /\ LogOf(log', feed')
      /\ Len(log') = Len(log) + 1 /\ \A k \in 1..Len(log) : log'[k] = log[k]
  BY LogGrows DEF DeliveryInv
<1>3. UNCHANGED <<cursor, batch, seen, retry, failures, table>>
  BY DEF Printed
<1>4. LivesIn(feed) /\ LogOf(log, feed) /\ TableTruthful(table, feed)
  BY DEF DeliveryInv
<1>5. TableTruthful(table, feed')
  BY <1>1, <1>4, GrowthKeepsTable
<1>6. DeliveryOK'
  <2>1. Len(log) \in Nat /\ DeliveryOK
    BY Bounds DEF DeliveryInv
  <2>2. QED
    BY <1>2, <1>3, <2>1 DEF DeliveryOK, NoBatch
<1>7. SeenOK'
  <2> SUFFICES ASSUME seen # Null
               PROVE  /\ Handling' /\ Event'.event = "settled"
                      /\ Id' \in DOMAIN table /\ seen = table[Id']
    BY <1>3 DEF SeenOK
  <2>1. /\ Handling /\ Event.event = "settled"
        /\ Id \in DOMAIN table /\ seen = table[Id]
    BY DEF DeliveryInv, SeenOK
  <2>2. batch.next \in 1..Len(log)
    BY <2>1, Bounds DEF DeliveryInv, DeliveryOK, Handling
  <2>3. log'[batch.next] = log[batch.next]
    BY <1>2, <2>2
  <2>4. Id' = Id /\ Handling'
    BY <1>3, <2>1, <2>3 DEF Id, Handling, NoBatch
  <2>5. Id \in DOMAIN feed /\ log[batch.next][2] \in DOMAIN feed[Id]
    BY <1>4, <2>2, Logged DEF Id, LivesIn, Life
  <2>6. Event' = Event
    BY <1>1, <1>3, <1>4, <2>3, <2>4, <2>5, GrowthKeeps DEF Event, Id
  <2>7. QED
    BY <2>1, <2>4, <2>6
<1>8. PICK top \in Pos..Limit : Applied(table, feed, log, top, Pos)
  BY DEF DeliveryInv
<1>9. Pos' = Pos /\ Limit' = Limit
  BY <1>3 DEF Pos, Limit, NoBatch
<1>10. ASSUME NEW id, NEW n \in 0..Len(log) PROVE Count(log', id, n) = Count(log, id, n)
  BY <1>2, CountSame
<1>11. top \in 0..Len(log) /\ Pos \in 0..Len(log) /\ Len(log) \in Nat
  BY Bounds
<1>12. ASSUME NEW id \in DOMAIN feed'
       PROVE  HasRow(table, id, feed'[id], Count(log', id, top), Count(log', id, Pos))
  <2> DEFINE m == Count(log, id, top)
             j == Count(log, id, Pos)
  <2>1. Count(log', id, top) = m /\ Count(log', id, Pos) = j
    BY <1>10, <1>11
  <2>2. CASE id \in DOMAIN feed
    <3>1. HasRow(table, id, feed[id], m, j)
      BY <1>8, <2>2 DEF Applied
    <3>2. m \in 0..Len(feed[id])
      BY <1>4, <1>11, <2>2, CountBound
    <3> HIDE DEF m, j
    <3>3. m > 0 => SubSeq(feed'[id], 1, m) = SubSeq(feed[id], 1, m)
      <4>1. \A k \in DOMAIN feed[id] : k \in DOMAIN feed'[id] /\ feed'[id][k] = feed[id][k]
        BY <1>1, <1>4, <2>2, GrowthKeeps
      <4>2. /\ feed[id] \in Seq(Prints) /\ feed'[id] \in Seq(Prints)
            /\ DOMAIN feed[id] = 1..Len(feed[id]) /\ DOMAIN feed'[id] = 1..Len(feed'[id])
            /\ Len(feed[id]) \in Nat /\ Len(feed'[id]) \in Nat
        BY <1>1, <1>4, <2>2 DEF LivesIn, Life
      <4>3. \A k \in 1..m : feed'[id][k] = feed[id][k]
        BY <3>2, <4>1, <4>2
      <4>4. [k \in 1..m |-> feed'[id][k]] = [k \in 1..m |-> feed[id][k]]
        BY <4>3
      <4>5. \A q \in Seq(Prints) : m <= Len(q) => SubSeq(q, 1, m) = [k \in 1..m |-> q[k]]
        BY <3>2
      <4>6. m <= Len(feed[id]) /\ m <= Len(feed'[id])
        <5>1. m > 0 => m \in DOMAIN feed'[id]
          BY <3>2, <4>1, <4>2
        <5>2. QED
          BY <3>2, <4>2, <5>1
      <4>7. QED
        BY <4>2, <4>4, <4>5, <4>6
    <3>4. m = 0 \/ m > 0
      BY <3>2
    <3>5. QED
      BY <2>1, <3>1, <3>3, <3>4 DEF HasRow
  <2>3. CASE id \notin DOMAIN feed
    <3>1. m = 0
      <4>1. id \notin {log[k][1] : k \in 1..top}
        BY <1>4, <1>11, <2>3, Logged
      <4>2. QED
        BY <1>11, <4>1, CountZero
    <3>2. id \notin DOMAIN table
      BY <1>4, <2>3 DEF TableTruthful
    <3>3. QED
      BY <2>1, <3>1, <3>2 DEF HasRow
  <2>4. QED
    BY <2>2, <2>3
<1>13. QED
  BY <1>1, <1>2, <1>3, <1>5, <1>6, <1>7, <1>8, <1>9, <1>12 DEF DeliveryInv, Applied

\* One more event handled, for the first time or again.
LEMMA EventKeepsApplied ==
    ASSUME NEW t, NEW f, NEW l, LivesIn(f), LogOf(l, f),
           NEW pos \in Nat, pos + 1 \in 1..Len(l), NEW top \in pos..Len(l),
           Applied(t, f, l, top, pos), NEW seenRow,
           Fresh(t, l[pos + 1][1], f[l[pos + 1][1]][l[pos + 1][2]], seenRow)
    PROVE  LET id == l[pos + 1][1]
               e  == f[id][l[pos + 1][2]]
           IN  Applied(Handled(t, id, e, seenRow), f, l,
                       IF top = pos THEN pos + 1 ELSE top, pos + 1)
<1> DEFINE n == pos + 1
           id == l[n][1]
           k == l[n][2]
           h == f[id]
           u == Handled(t, id, h[k], seenRow)
           new == IF top = pos THEN n ELSE top
<1>1. /\ id \in DOMAIN f /\ k \in 1..Len(h) /\ k = Count(l, id, n - 1) + 1
      /\ \A i : i # id => Count(l, i, n) = Count(l, i, n - 1)
  BY Logged
<1>2. n - 1 = pos /\ pos \in 0..Len(l) /\ top \in 0..Len(l) /\ n \in 0..Len(l)
      /\ top \in Nat /\ pos <= top /\ Len(l) \in Nat
  BY DEF LogOf
<1>3. Life(h)
  BY <1>1 DEF LivesIn
<1>4. k = Count(l, id, n) /\ k - 1 = Count(l, id, pos) /\ k \in Nat
  <2>1. k = Count(l, id, n)
    BY DEF LogOf
  <2>2. Count(l, id, pos) \in Nat
    BY CountType
  <2>3. QED
    BY <1>1, <1>2, <2>1, <2>2
<1>5. ASSUME NEW i \in DOMAIN f, i # id
      PROVE  HasRow(u, i, f[i], Count(l, i, new), Count(l, i, n))
  <2>1. HasRow(t, i, f[i], Count(l, i, top), Count(l, i, pos))
    BY DEF Applied
  <2>2. Count(l, i, n) = Count(l, i, pos) /\ Count(l, i, new) = Count(l, i, top)
    BY <1>1, <1>2, <1>5
  <2>3. h[k] \in Prints
    BY <1>1, <1>3 DEF Life
  <2>4. (i \in DOMAIN u <=> i \in DOMAIN t) /\ (i \in DOMAIN t => u[i] = t[i])
    BY <1>5, <2>3, OtherRowsStay
  <2> HIDE DEF u
  <2>5. QED
    BY <2>1, <2>2, <2>4 DEF HasRow
<1>6. HasRow(u, id, h, Count(l, id, new), Count(l, id, n))
  <2> DEFINE m == Count(l, id, top)
  <2>1. HasRow(t, id, h, m, k - 1)
    BY <1>1, <1>4 DEF Applied
  <2>2. m \in 0..Len(h)
    BY <1>1, <1>2, CountBound
  <2>3. k - 1 <= m /\ (top # pos => k <= m) /\ (top = pos => m = k - 1)
    <3>1. Count(l, id, pos) <= m
      BY <1>2, CountGrows
    <3>2. top # pos => n <= top
      BY <1>2
    <3>3. top # pos => Count(l, id, n) <= m
      BY <1>2, <3>2, CountGrows
    <3>4. QED
      BY <1>4, <3>1, <3>3
  <2>4. k <= m + 1
    BY <1>4, <2>2, <2>3
  <2>5. HasRow(u, id, h, IF k = m + 1 THEN k ELSE m, k)
    <3> HIDE DEF m, h, k
    <3>1. Fresh(t, id, h[k], seenRow)
      BY DEF h, k
    <3>2. k \in 1..Len(h)
      BY <1>1
    <3>3. QED
      BY <1>3, <2>1, <2>2, <2>4, <3>1, <3>2, HandledNext
  <2>6. Count(l, id, new) = IF k = m + 1 THEN k ELSE m
    <3>1. CASE top = pos
      BY <1>4, <2>3, <3>1
    <3>2. CASE top # pos
      BY <1>4, <2>2, <2>3, <3>2
    <3>3. QED
      BY <3>1, <3>2
  <2>7. QED
    BY <1>4, <2>5, <2>6
<1>7. QED
  BY <1>5, <1>6 DEF Applied

\* The event that is handled next.
LEMMA NextOfBatch ==
    ASSUME DeliveryInv, Handling
    PROVE  /\ Pos = batch.next - 1 /\ Limit = batch.last /\ Pos \in Nat
           /\ batch.next = Pos + 1 /\ batch.next \in 1..Len(log) /\ batch.next <= batch.last
           /\ batch.last \in Nat /\ Len(log) \in Nat /\ batch.last <= Len(log)
           /\ Id = log[Pos + 1][1] /\ Event = feed[Id][log[Pos + 1][2]]
           /\ Id \in DOMAIN feed /\ log[Pos + 1][2] \in DOMAIN feed[Id]
           /\ Life(feed[Id])
<1>1. /\ Pos = batch.next - 1 /\ Limit = batch.last /\ batch.next <= batch.last
      /\ batch # NoBatch
  BY DEF Handling, Pos, Limit
<1>2. /\ Pos \in Nat /\ batch.next \in Nat /\ batch.last \in Nat /\ Len(log) \in Nat
      /\ Limit <= Len(log)
  BY <1>1, Bounds
<1>3. batch.next = Pos + 1 /\ batch.next \in 1..Len(log)
  BY <1>1, <1>2
<1>4. Id = log[Pos + 1][1] /\ Event = feed[Id][log[Pos + 1][2]]
  BY <1>3 DEF Id, Event
<1>5. Id \in DOMAIN feed /\ log[Pos + 1][2] \in 1..Len(feed[Id]) /\ Life(feed[Id])
  BY <1>3, <1>4, Logged DEF DeliveryInv, LivesIn
<1>6. DOMAIN feed[Id] = 1..Len(feed[Id])
  BY <1>5 DEF Life
<1>7. QED
  BY <1>1, <1>2, <1>3, <1>4, <1>5, <1>6

\* Handling an event.
LEMMA HandlingKeeps ==
    ASSUME DeliveryInv, Handling, NextEvent, seen' = Null, NEW seenRow,
           Fresh(table, Id, Event, seenRow),
           Event.event = "settled" => seenRow \in Row /\ Truthful(seenRow, feed[Id]),
           table' = Handled(table, Id, Event, seenRow)
    PROVE  DeliveryInv'
<1> DEFINE n == Pos + 1
<1>1. /\ Pos = batch.next - 1 /\ Limit = batch.last /\ Pos \in Nat
      /\ batch.next = n /\ n \in 1..Len(log) /\ n <= batch.last
      /\ batch.last \in Nat /\ Len(log) \in Nat /\ batch.last <= Len(log)
      /\ Id = log[n][1] /\ Event = feed[Id][log[n][2]]
      /\ Id \in DOMAIN feed /\ log[n][2] \in DOMAIN feed[Id]
  BY NextOfBatch
<1>2. LivesIn(feed) /\ LogOf(log, feed) /\ TableTruthful(table, feed) /\ DeliveryOK
  BY DEF DeliveryInv
<1>3. UNCHANGED <<feed, log, cursor, retry, failures>>
  BY DEF NextEvent
<1>4. batch' = [next |-> n + 1, last |-> batch.last] /\ batch # NoBatch
  <2>1. batch # NoBatch /\ batch = [next |-> batch.next, last |-> batch.last]
    BY <1>2 DEF Handling, DeliveryOK
  <2>2. batch' = [batch EXCEPT !.next = batch.next + 1]
    BY DEF NextEvent
  <2>3. QED
    BY <1>1, <2>1, <2>2
<1>5. /\ batch' # NoBatch /\ batch'.next = n + 1 /\ batch'.last = batch.last
      /\ batch' = [next |-> batch'.next, last |-> batch'.last]
  BY <1>1, <1>4 DEF NoBatch
<1>6. DeliveryOK'
  <2>1. cursor \in 0..Len(log) /\ batch.next \in (cursor + 1)..(batch.last + 1)
        /\ batch.last \in (cursor + 1)..Len(log)
    BY <1>2, <1>4 DEF DeliveryOK
  <2>2. batch'.next \in (cursor + 1)..(batch'.last + 1)
    <3>1. cursor \in Nat /\ n \in Nat /\ cursor + 1 <= n
      BY <1>1, <2>1
    <3>2. n + 1 \in (cursor + 1)..(batch.last + 1)
      BY <1>1, <3>1
    <3>3. QED
      BY <1>5, <3>2
  <2>3. QED
    BY <1>2, <1>3, <1>4, <1>5, <2>1, <2>2 DEF DeliveryOK, NoBatch
<1>7. Pos' = n /\ Limit' = Limit
  <2>1. Pos' = batch'.next - 1 /\ Limit' = batch'.last
    BY <1>5 DEF Pos, Limit
  <2>2. n \in Nat /\ (n + 1) - 1 = n
    BY <1>1
  <2>3. QED
    BY <1>1, <1>5, <2>1, <2>2
<1>8. TableTruthful(table', feed)
  BY <1>1, <1>2, HandlersKeepTable
<1>9. PICK top \in Pos..Limit : Applied(table, feed, log, top, Pos)
  BY DEF DeliveryInv
<1> DEFINE new == IF top = Pos THEN n ELSE top
<1>10. top \in Pos..Len(log)
  BY <1>1
<1>11. Applied(table', feed, log, new, n)
  <2> DEFINE pos == Pos
  <2>1. /\ pos \in Nat /\ pos + 1 \in 1..Len(log) /\ top \in pos..Len(log)
        /\ Applied(table, feed, log, top, pos)
        /\ Fresh(table, log[pos + 1][1], feed[log[pos + 1][1]][log[pos + 1][2]], seenRow)
        /\ table' = Handled(table, log[pos + 1][1],
                            feed[log[pos + 1][1]][log[pos + 1][2]], seenRow)
    BY <1>1, <1>9, <1>10
  <2> HIDE DEF pos
  <2>2. Applied(table', feed, log, IF top = pos THEN pos + 1 ELSE top, pos + 1)
    BY <1>2, <2>1, EventKeepsApplied
  <2>3. QED
    BY <2>2 DEF pos
<1>12. new \in n..Limit
  <2> HIDE DEF n
  <2>1. /\ Pos \in Nat /\ Limit \in Nat /\ n = Pos + 1 /\ n <= Limit
        /\ top \in Pos..Limit
    BY <1>1, <1>9 DEF n
  <2>2. QED
    BY <2>1
<1>13. SeenOK'
  BY DEF SeenOK
<1>14. QED
  BY <1>2, <1>3, <1>6, <1>7, <1>8, <1>11, <1>12, <1>13 DEF DeliveryInv

\* The row is there when its settlement is handled.
LEMMA RowIsThere ==
    ASSUME DeliveryInv, Handling, Event.event # "asserted"
    PROVE  Id \in DOMAIN table
<1> DEFINE k == log[Pos + 1][2]
<1>1. /\ Pos \in Nat /\ Pos + 1 \in 1..Len(log) /\ Len(log) \in Nat /\ Limit <= Len(log)
      /\ Id = log[Pos + 1][1] /\ Event = feed[Id][k]
      /\ Id \in DOMAIN feed /\ k \in DOMAIN feed[Id] /\ Life(feed[Id])
      /\ Limit \in Nat
  BY NextOfBatch
<1>2. k > 1 /\ k \in 1..3
  <2>1. k \in 1..3
    BY <1>1, Places
  <2>2. k # 1
    BY <1>1 DEF Life
  <2>3. QED
    BY <2>1, <2>2
<1>3. k = Count(log, Id, Pos) + 1
  <2>1. k = Count(log, Id, (Pos + 1) - 1) + 1
    BY <1>1, Logged DEF DeliveryInv
  <2>2. (Pos + 1) - 1 = Pos
    BY <1>1
  <2>3. QED
    BY <2>1, <2>2
<1>4. PICK top \in Pos..Limit : Applied(table, feed, log, top, Pos)
  BY DEF DeliveryInv
<1>5. Count(log, Id, Pos) <= Count(log, Id, top)
      /\ Count(log, Id, Pos) \in Nat /\ Count(log, Id, top) \in Nat
  <2>1. top \in Nat /\ Pos <= top /\ Pos \in Nat
    BY <1>1, <1>4
  <2> DEFINE pos == Pos
  <2> HIDE DEF pos
  <2>2. pos \in Nat /\ pos <= top
    BY <2>1 DEF pos
  <2>3. Count(log, Id, pos) <= Count(log, Id, top)
    BY <2>1, <2>2, CountGrows
  <2>4. Count(log, Id, pos) \in Nat /\ Count(log, Id, top) \in Nat
    BY <2>1, <2>2, CountType
  <2>5. QED
    BY <2>3, <2>4 DEF pos
<1>6. Count(log, Id, top) # 0
  BY <1>2, <1>3, <1>5
<1>7. HasRow(table, Id, feed[Id], Count(log, Id, top), Count(log, Id, Pos))
  BY <1>1, <1>4 DEF Applied
<1>8. QED
  BY <1>6, <1>7 DEF HasRow

\* The handlers of a request.
LEMMA HandleKeepsDelivery ==
    ASSUME DeliveryInv,
           \/ HandleAsserted \/ HandleDisputed \/ HandleRejected \/ HandleUnresolved
           \/ SelectForSettled \/ UpdateForSettled
    PROVE  DeliveryInv'
<1>1. CASE HandleAsserted \/ HandleDisputed \/ HandleRejected \/ HandleUnresolved
  <2>1. Handling /\ NextEvent /\ Event.event # "settled" /\ UNCHANGED seen
    BY <1>1 DEF HandleAsserted, HandleDisputed, HandleRejected, HandleUnresolved
  <2>2. table' = Handled(table, Id, Event, Null)
    <3>1. CASE HandleAsserted
      BY <3>1 DEF HandleAsserted, Handled
    <3>2. CASE HandleDisputed
      BY <3>2 DEF HandleDisputed, Handled
    <3>3. CASE HandleRejected
      BY <3>3 DEF HandleRejected, Handled
    <3>4. CASE HandleUnresolved
      BY <3>4 DEF HandleUnresolved, Handled
    <3>5. QED
      BY <1>1, <3>1, <3>2, <3>3, <3>4
  <2>3. seen = Null
    BY <2>1 DEF DeliveryInv, SeenOK
  <2>4. Fresh(table, Id, Event, Null)
    BY <2>1 DEF Fresh
  <2>5. QED
    BY <2>1, <2>2, <2>3, <2>4, HandlingKeeps
<1>2. CASE SelectForSettled
  <2>1. Handling /\ Event.event = "settled"
    BY <1>2 DEF SelectForSettled
  <2>2. Id \in DOMAIN table
    BY <2>1, RowIsThere
  <2>3. seen' = table[Id] /\ UNCHANGED <<feed, log, cursor, retry, failures, batch, table>>
    BY <1>2, <2>2 DEF SelectForSettled
  <2>4. Id' = Id /\ Event' = Event /\ (Handling <=> Handling')
    BY <2>3 DEF Id, Event, Handling, NoBatch
  <2>5. SeenOK'
    BY <2>1, <2>2, <2>3, <2>4 DEF SeenOK
  <2>6. DeliveryOK' /\ Pos' = Pos /\ Limit' = Limit
    BY <2>3 DEF DeliveryInv, DeliveryOK, Pos, Limit, NoBatch
  <2>7. QED
    BY <2>3, <2>5, <2>6 DEF DeliveryInv
<1>3. CASE UpdateForSettled
  <2>1. /\ Handling /\ Event.event = "settled" /\ NextEvent /\ seen' = Null
        /\ seen # Null
    BY <1>3 DEF UpdateForSettled
  <2>2. seen = table[Id] /\ Id \in DOMAIN table
    BY <2>1 DEF DeliveryInv, SeenOK
  <2>3. seen \in Row /\ Truthful(seen, feed[Id])
    BY <2>2 DEF DeliveryInv, TableTruthful
  <2>4. table' = Handled(table, Id, Event, seen)
    BY <1>3, <2>1 DEF UpdateForSettled, Handled
  <2>5. Fresh(table, Id, Event, seen)
    BY <2>2 DEF Fresh
  <2>6. QED
    BY <2>1, <2>3, <2>4, <2>5, HandlingKeeps
<1>4. QED
  BY <1>1, <1>2, <1>3

\* Having repeated fewer events is no stronger.
LEMMA AppliedEarlier ==
    ASSUME NEW t, NEW f, NEW l, NEW top, NEW pos \in Nat, NEW p \in Nat, p <= pos,
           Applied(t, f, l, top, pos)
    PROVE  Applied(t, f, l, top, p)
<1> SUFFICES ASSUME NEW id \in DOMAIN f
             PROVE  HasRow(t, id, f[id], Count(l, id, top), Count(l, id, p))
  BY DEF Applied
<1>1. HasRow(t, id, f[id], Count(l, id, top), Count(l, id, pos))
  BY DEF Applied
<1>2. Count(l, id, p) <= Count(l, id, pos)
  BY CountGrows
<1>3. Count(l, id, p) \in Nat /\ Count(l, id, pos) \in Nat
  BY CountType
<1>4. CASE Count(l, id, top) = 0
  BY <1>1, <1>4 DEF HasRow
<1>5. CASE Count(l, id, top) # 0
  <2> DEFINE h == SubSeq(f[id], 1, Count(l, id, top))
             i == Count(l, id, p)
             j == Count(l, id, pos)
  <2>1. id \in DOMAIN t /\ AsOf(t[id], h, j)
    BY <1>1, <1>5 DEF HasRow
  <2>2. i <= j /\ i \in Nat /\ j \in Nat
    BY <1>2, <1>3
  <2>3. AsOf(t[id], h, i)
    <3> HIDE DEF h, i, j
    <3>1. j < 3 => i < 3
      BY <2>2
    <3>2. QED
      BY <2>1, <3>1 DEF AsOf
  <2>4. QED
    BY <1>5, <2>1, <2>3 DEF HasRow
<1>6. QED
  BY <1>4, <1>5

\* Deliveries, answers and failures.
LEMMA DeliveryKeeps ==
    ASSUME DeliveryInv, Respond \/ Fail \/ \E last \in 1..Len(log) : Deliver(last)
    PROVE  DeliveryInv'
<1>1. PICK top \in Pos..Limit : Applied(table, feed, log, top, Pos)
  BY DEF DeliveryInv
<1>2. /\ cursor \in Nat /\ Pos \in Nat /\ Limit \in Nat /\ Len(log) \in Nat
      /\ cursor <= Pos /\ Pos <= Limit /\ Limit <= Len(log)
      /\ batch # NoBatch => batch.next \in Nat /\ batch.last \in Nat
  BY Bounds
<1>3. UNCHANGED <<feed, log, table>>
  BY DEF Respond, Fail, Deliver
<1>4. DeliveryOK /\ SeenOK
  BY DEF DeliveryInv
<1>5. ASSUME NEW last \in 1..Len(log), Deliver(last) PROVE DeliveryInv'
  <2>1. /\ batch = NoBatch /\ last \in (cursor + 1)..Len(log) /\ (retry # 0 => last = retry)
        /\ batch' = [next |-> cursor + 1, last |-> last]
        /\ UNCHANGED <<cursor, seen, retry, failures>>
    BY <1>5 DEF Deliver
  <2>2. /\ batch'.next = cursor + 1 /\ batch'.last = last /\ batch' # NoBatch
        /\ batch' = [next |-> batch'.next, last |-> batch'.last]
    BY <1>2, <2>1 DEF NoBatch
  <2>3. seen = Null
    BY <1>4, <2>1 DEF SeenOK, Handling
  <2>4. DeliveryOK' /\ SeenOK'
    <3>1. batch'.next \in (cursor + 1)..(batch'.last + 1)
      BY <1>2, <2>1, <2>2
    <3>2. DeliveryOK'
      BY <1>3, <1>4, <2>1, <2>2, <3>1 DEF DeliveryOK, NoBatch
    <3>3. QED
      BY <2>1, <2>3, <3>2 DEF SeenOK
  <2>5. Pos = cursor /\ Pos' = cursor /\ Limit' = last
    BY <1>2, <2>1, <2>2 DEF Pos, Limit, NoBatch
  <2>6. Limit <= last
    BY <1>2, <2>1 DEF Limit
  <2>7. top \in Pos'..Limit'
    BY <1>1, <1>2, <2>5, <2>6
  <2>8. QED
    BY <1>1, <1>3, <2>4, <2>5, <2>7 DEF DeliveryInv
<1>6. CASE Respond
  <2>1. /\ batch # NoBatch /\ batch.next > batch.last
        /\ cursor' = batch.last /\ batch' = NoBatch /\ retry' = 0
        /\ UNCHANGED <<seen, failures>>
    BY <1>6 DEF Respond
  <2>2. seen = Null
    BY <1>2, <1>4, <2>1 DEF SeenOK, Handling
  <2>3. Pos' = batch.last /\ Limit' = batch.last
    BY <2>1 DEF Pos, Limit, NoBatch
  <2>4. Pos = batch.last /\ Limit = batch.last
    BY <1>2, <1>4, <2>1 DEF DeliveryOK, Pos, Limit
  <2>5. DeliveryOK' /\ SeenOK'
    <3>1. batch.last \in 0..Len(log)
      BY <1>2, <2>4
    <3>2. QED
      BY <1>3, <1>4, <2>1, <2>2, <3>1 DEF DeliveryOK, SeenOK, NoBatch
  <2>6. QED
    BY <1>1, <1>3, <2>3, <2>4, <2>5 DEF DeliveryInv
<1>7. CASE Fail
  <2>1. /\ batch # NoBatch /\ failures < MaxFailures /\ failures' = failures + 1
        /\ retry' = batch.last /\ batch' = NoBatch /\ seen' = Null
        /\ UNCHANGED cursor
    BY <1>7 DEF Fail
  <2>2. batch.last \in (cursor + 1)..Len(log) /\ batch.last # 0
    BY <1>2, <1>4, <2>1 DEF DeliveryOK
  <2>3. DeliveryOK' /\ SeenOK'
    <3>1. failures' \in 0..MaxFailures
      BY <1>4, <2>1, FailuresAssumption DEF DeliveryOK
    <3>2. QED
      BY <1>3, <1>4, <2>1, <2>2, <3>1 DEF DeliveryOK, SeenOK, NoBatch
  <2>4. Pos' = cursor /\ Limit' = Limit
    BY <2>1, <2>2 DEF Pos, Limit, NoBatch
  <2>5. top \in Pos'..Limit'
    BY <1>1, <1>2, <2>4
  <2> DEFINE pos == Pos
  <2>6. pos \in Nat /\ cursor <= pos /\ Applied(table, feed, log, top, pos)
    BY <1>1, <1>2
  <2> HIDE DEF pos
  <2>7. Applied(table, feed, log, top, cursor)
    BY <1>2, <2>6, AppliedEarlier
  <2>8. QED
    BY <1>3, <2>3, <2>4, <2>5, <2>7 DEF DeliveryInv
<1>8. QED
  BY <1>5, <1>6, <1>7

\* The steps of the pipeline.
LEMMA NextKeepsDelivery == DeliveryInv /\ [Next]_vars => DeliveryInv'
<1> SUFFICES ASSUME DeliveryInv, [Next]_vars PROVE DeliveryInv'
  OBVIOUS
<1>1. CASE UNCHANGED vars
  BY <1>1 DEF vars, DeliveryInv, DeliveryOK, SeenOK, Pos, Limit, Handling, Id, Event, NoBatch
<1>2. QED
  BY <1>1, PrintKeepsDelivery, HandleKeepsDelivery, DeliveryKeeps DEF Next, Handle

\* Nothing has been logged at first.
LEMMA InitDelivers == Init => DeliveryInv
<1> SUFFICES ASSUME Init PROVE DeliveryInv
  OBVIOUS
<1>1. /\ DOMAIN feed = {} /\ log = <<>> /\ cursor = 0 /\ batch = NoBatch /\ seen = Null
      /\ retry = 0 /\ failures = 0
      /\ DOMAIN table = {} /\ table \in [DOMAIN table -> Row]
  BY DEF Init, Chain!Init, NoRows
<1>2. LogOf(log, feed) /\ Len(log) = 0
  BY <1>1 DEF LogOf
<1>3. DeliveryOK /\ SeenOK
  BY <1>1, <1>2, FailuresAssumption DEF DeliveryOK, SeenOK
<1>4. Pos = 0 /\ Limit = 0
  BY <1>1 DEF Pos, Limit
<1>5. Applied(table, feed, log, 0, 0)
  BY <1>1 DEF Applied
<1>6. 0 \in 0..0
  OBVIOUS
<1>7. QED
  BY <1>1, <1>2, <1>3, <1>4, <1>5, <1>6 DEF DeliveryInv, LivesIn, TableTruthful

-----------------------------------------------------------------------------
(* Theorems *)

\* The invariant of the deliveries.
THEOREM DeliveryTheorem == Spec => []DeliveryInv
  BY InitDelivers, NextKeepsDelivery, PTL DEF Spec

\* The cursor, the batch and the retry stay within the log, and the rows are rows.
THEOREM ChainhookTypeTheorem == Spec => []TypeOK
<1>1. DeliveryInv => TypeOK
  BY DEF DeliveryInv, DeliveryOK, SeenOK, TableTruthful, TypeOK
<1>2. QED
  BY <1>1, DeliveryTheorem, PTL

\* At no moment, repeated delivery or not, does the table invent anything.
THEOREM ChainhookTruthTheorem == Spec => []RowsTruthful
<1>1. DeliveryInv => RowsTruthful
  BY DEF DeliveryInv, TableTruthful, RowsTruthful
<1>2. QED
  BY <1>1, DeliveryTheorem, PTL

\* Between deliveries the table is exactly the chain up to the cursor, however many
\* deliveries have failed half way and been applied again.
THEOREM ExactlyOnceTheorem == Spec => []AppliedUpToCursor
<1>1. DeliveryInv => AppliedUpToCursor
  <2> SUFFICES ASSUME DeliveryInv, batch = NoBatch, retry = 0 PROVE table = TableAt(cursor)
    BY DEF AppliedUpToCursor
  <2>1. Pos = cursor /\ Limit = cursor /\ cursor \in Nat /\ cursor <= Len(log)
        /\ Len(log) \in Nat
    BY Bounds DEF Pos, Limit
  <2>2. Applied(table, feed, log, cursor, cursor)
    BY <2>1 DEF DeliveryInv
  <2> DEFINE Logs == {log[k][1] : k \in 1..cursor}
             Now(id) == TrueRow(SubSeq(feed[id], 1, CountOf(id, cursor)))
  <2>3. TableAt(cursor) = [id \in Logs |-> Now(id)]
    BY DEF TableAt
  <2>4. table \in [DOMAIN table -> Row] /\ DOMAIN table \subseteq DOMAIN feed
    BY DEF DeliveryInv, TableTruthful
  <2>5. Logs \subseteq DOMAIN feed
    BY <2>1, Logged DEF DeliveryInv
  <2>6. ASSUME NEW id \in DOMAIN feed
        PROVE  /\ id \in DOMAIN table <=> id \in Logs
               /\ id \in DOMAIN table => table[id] = Now(id)
    <3> DEFINE m == Count(log, id, cursor)
               g == SubSeq(feed[id], 1, m)
    <3>1. HasRow(table, id, feed[id], m, m)
      BY <2>2 DEF Applied
    <3>2. m = 0 <=> id \notin Logs
      BY <2>1, CountZero
    <3>3. id \in DOMAIN table <=> m # 0
      BY <3>1 DEF HasRow
    <3>4. m = CountOf(id, cursor)
      BY DEF Count, CountOf
    <3>5. m \in 0..Len(feed[id]) /\ Life(feed[id])
      BY <2>1, CountBound DEF DeliveryInv, LivesIn
    <3>6. ASSUME m # 0 PROVE table[id] = TrueRow(g)
      <4>1. m \in DOMAIN feed[id]
        BY <3>5, <3>6 DEF Life
      <4>2. Life(g) /\ Len(g) = m
        BY <3>5, <4>1, FirstEvents
      <4>3. AsOf(table[id], g, m)
        BY <3>1, <3>6 DEF HasRow
      <4> HIDE DEF g
      <4>4. TrueRow(g) \in Row /\ table[id] \in Row
        BY <4>2, <4>3, TrueColumns DEF AsOf
      <4>5. \A c \in Columns : table[id][c] = TrueRow(g)[c]
        BY <4>2, <4>3 DEF AsOf
      <4>6. QED
        BY <4>4, <4>5, SameRow
    <3>7. QED
      BY <3>2, <3>3, <3>4, <3>6
  <2> HIDE DEF Logs, Now
  <2>7. DOMAIN table = Logs
    BY <2>4, <2>5, <2>6
  <2>8. table = [id \in Logs |-> Now(id)]
    BY <2>4, <2>6, <2>7
  <2>9. QED
    BY <2>3, <2>8
<1>2. QED
  BY <1>1, DeliveryTheorem, PTL

-----------------------------------------------------------------------------
(* A chain that reorganises *)

\* The row tells of an event: whose step it was and at which block, and that it was
\* the outcome if it was one.
Tells(row, e) ==
    /\ e.event = "asserted" => row.asserter = e.by /\ row.assertedAt = e.at
    /\ e.event = "disputed" => row.disputer = e.by /\ row.disputedAt = e.at
    /\ e.event = "settled" => row.settler = e.by /\ row.settledAt = e.at
    /\ e.event \in {"rejected", "unresolved"} =>
          row.resolver = e.by /\ row.resolvedAt = e.at
    /\ e.event \in TerminalStatus => row.status = e.event

\* The table tells of each of the first n events of the log, whatever else its rows
\* have kept of chains that are gone.
ToldUpTo(t, f, l, n) ==
    \A id \in DOMAIN f : \A k \in 1..Count(l, id, n) :
        id \in DOMAIN t /\ Tells(t[id], f[id][k])

BatchOK ==
    /\ cursor \in 0..Len(log)
    /\ batch = NoBatch \/ (batch.next \in (cursor + 1)..(batch.last + 1)
                           /\ batch.last \in (cursor + 1)..Len(log)
                           /\ batch = [next |-> batch.next, last |-> batch.last])

\* What the answered deliveries and the one under way have handled is told.  What a
\* failed delivery has done besides is not counted on, and a reorganisation only
\* takes back what there is to tell.
ReorgInv ==
    /\ LivesIn(feed) /\ LogOf(log, feed)
    /\ BatchOK
    /\ table \in [DOMAIN table -> Row]
    /\ ToldUpTo(table, feed, log, Pos)

\* A statement for the next event of an assertion tells of it, and what the row
\* told of those before it stays told.
LEMMA StatementTells ==
    ASSUME NEW h, Life(h), NEW k \in DOMAIN h, NEW row \in Row, NEW readRow,
           \A j \in 1..(k - 1) : Tells(row, h[j])
    PROVE  LET e == h[k]
               Told(columns) == /\ Replaced(row, columns) \in Row
                                /\ \A j \in 1..k : Tells(Replaced(row, columns), h[j])
           IN  /\ e.event = "asserted" => Told(AssertedColumns(e))
               /\ e.event = "disputed" => Told(DisputedColumns(e))
               /\ e.event = "settled" => Told(SettledColumns(e, readRow))
               /\ e.event \in {"rejected", "unresolved"} => Told(ResolvedColumns(e, e.event))
<1> DEFINE e == h[k]
           new(columns) == Replaced(row, columns)
<1>1. k \in 1..3 /\ k \in 1..Len(h) /\ e.by \in Parties /\ e.at \in Blocks
  BY Places, PrintsSay
<1>2. ASSUME NEW j \in 1..(k - 1)
      PROVE  /\ j = 1 \/ k = 3
             /\ j = 1 => h[j].event = "asserted"
             /\ j # 1 => h[j].event = "disputed"
  BY <1>1 DEF Life
<1>3. ASSUME NEW columns, DOMAIN columns \subseteq Columns,
             \A c \in DOMAIN columns : Fits(c, columns[c]),
             {"asserter", "assertedAt"} \cap DOMAIN columns # {} => k = 1,
             {"disputer", "disputedAt"} \cap DOMAIN columns # {} => k = 2,
             Tells(new(columns), e)
      PROVE  /\ new(columns) \in Row
             /\ \A j \in 1..k : Tells(new(columns), h[j])
  <2>1. /\ new(columns) \in Row
        /\ \A c \in Columns : new(columns)[c] = IF c \in DOMAIN columns THEN columns[c] ELSE row[c]
    BY <1>3, ReplacedColumns
  <2> HIDE DEF new
  <2>2. ASSUME NEW j \in 1..(k - 1) PROVE Tells(new(columns), h[j])
    <3>1. Tells(row, h[j])
      OBVIOUS
    <3>2. CASE j = 1
      <4>1. k # 1 /\ h[j].event = "asserted"
        BY <1>1, <1>2, <3>2
      <4>2. new(columns).asserter = row.asserter /\ new(columns).assertedAt = row.assertedAt
        BY <1>3, <2>1, <4>1 DEF Columns
      <4>3. QED
        BY <3>1, <4>1, <4>2 DEF Tells, TerminalStatus
    <3>3. CASE j # 1
      <4>1. k # 2 /\ h[j].event = "disputed"
        BY <1>1, <1>2, <3>3
      <4>2. new(columns).disputer = row.disputer /\ new(columns).disputedAt = row.disputedAt
        BY <1>3, <2>1, <4>1 DEF Columns
      <4>3. QED
        BY <3>1, <4>1, <4>2 DEF Tells, TerminalStatus
    <3>4. QED
      BY <3>2, <3>3
  <2>3. \A j \in 1..k : j \in 1..(k - 1) \/ j = k
    BY <1>1
  <2>4. QED
    BY <1>3, <2>1, <2>2, <2>3
<1>4. DOMAIN row = Columns
  BY RowColumns
<1>5. ASSUME NEW columns, NEW c \in Columns
      PROVE  new(columns)[c] = IF c \in DOMAIN columns THEN columns[c] ELSE row[c]
  BY <1>4 DEF Replaced
<1> HIDE DEF new
<1>6. CASE e.event = "asserted"
  <2> DEFINE columns == AssertedColumns(e)
  <2>1. k = 1
    BY <1>6, Places
  <2>2. DOMAIN columns = {"asserter", "assertedAt"} /\ columns.asserter = e.by
        /\ columns.assertedAt = e.at
    BY DEF AssertedColumns
  <2> HIDE DEF columns
  <2>3. \A c \in DOMAIN columns : c \in Columns /\ Fits(c, columns[c])
    BY <1>1, <2>2 DEF Columns, Fits
  <2>4. Tells(new(columns), e)
    BY <1>5, <1>6, <2>2 DEF Tells, Columns, TerminalStatus
  <2>5. QED
    BY <1>3, <1>6, <2>1, <2>2, <2>3, <2>4 DEF columns, new
<1>7. CASE e.event = "disputed"
  <2> DEFINE columns == DisputedColumns(e)
  <2>1. k = 2
    BY <1>7, Places
  <2>2. DOMAIN columns = {"disputer", "disputedAt", "status"} /\ columns.disputer = e.by
        /\ columns.disputedAt = e.at /\ columns.status = "disputed"
    BY DEF DisputedColumns
  <2> HIDE DEF columns
  <2>3. \A c \in DOMAIN columns : c \in Columns /\ Fits(c, columns[c])
    BY <1>1, <2>2 DEF Columns, Fits, Status
  <2>4. Tells(new(columns), e)
    BY <1>5, <1>7, <2>2 DEF Tells, Columns, TerminalStatus
  <2>5. QED
    BY <1>3, <1>7, <2>1, <2>2, <2>3, <2>4 DEF columns, new
<1>8. CASE e.event = "settled"
  <2> DEFINE columns == SettledColumns(e, readRow)
  <2>1. /\ {"settler", "settledAt", "status"} \subseteq DOMAIN columns
        /\ DOMAIN columns \subseteq
              {"settler", "settledAt", "status", "resolver", "resolvedAt"}
        /\ columns.settler = e.by /\ columns.settledAt = e.at /\ columns.status = "settled"
        /\ "resolver" \in DOMAIN columns => columns.resolver = e.by
        /\ "resolvedAt" \in DOMAIN columns => columns.resolvedAt = e.at
    BY DEF SettledColumns
  <2> HIDE DEF columns
  <2>2. \A c \in DOMAIN columns : c \in Columns /\ Fits(c, columns[c])
    BY <1>1, <2>1 DEF Columns, Fits, Status
  <2>3. Tells(new(columns), e)
    BY <1>5, <1>8, <2>1 DEF Tells, Columns, TerminalStatus
  <2>4. QED
    BY <1>3, <1>8, <2>1, <2>2, <2>3 DEF columns, new
<1>9. CASE e.event \in {"rejected", "unresolved"}
  <2> DEFINE columns == ResolvedColumns(e, e.event)
  <2>1. DOMAIN columns = {"resolver", "resolvedAt", "status"} /\ columns.resolver = e.by
        /\ columns.resolvedAt = e.at /\ columns.status = e.event
    BY DEF ResolvedColumns
  <2> HIDE DEF columns
  <2>2. \A c \in DOMAIN columns : c \in Columns /\ Fits(c, columns[c])
    BY <1>1, <1>9, <2>1 DEF Columns, Fits, Status
  <2>3. Tells(new(columns), e)
    BY <1>5, <1>9, <2>1 DEF Tells, Columns, TerminalStatus
  <2>4. QED
    BY <1>3, <1>9, <2>1, <2>2, <2>3 DEF columns, new
<1>10. QED
  BY <1>6, <1>7, <1>8, <1>9 DEF new

\* A new assertion's row tells of it.
LEMMA InsertTells ==
    ASSUME NEW h, Life(h)
    PROVE  InsertedRow(h[1]) \in Row /\ Tells(InsertedRow(h[1]), h[1])
<1>1. InsertedRow(h[1]) \in Row /\ h[1].event = "asserted"
  BY InsertIsTruthful DEF Life
<1>2. QED
  BY <1>1 DEF Tells, InsertedRow, TerminalStatus

\* Handling the next event of an assertion, whatever the settled case has read.
LEMMA HandledTells ==
    ASSUME NEW t, t \in [DOMAIN t -> Row], NEW id, NEW h, Life(h), NEW k \in DOMAIN h,
           NEW readRow, \A j \in 1..(k - 1) : id \in DOMAIN t /\ Tells(t[id], h[j])
    PROVE  LET u == Handled(t, id, h[k], readRow)
           IN  /\ u \in [DOMAIN u -> Row]
               /\ id \in DOMAIN u
               /\ \A j \in 1..k : Tells(u[id], h[j])
<1> DEFINE e == h[k]
           u == Handled(t, id, e, readRow)
<1>1. k \in 1..3 /\ e \in Prints
  BY Places
<1>2. id \in DOMAIN u /\ u[id] \in Row /\ \A j \in 1..k : Tells(u[id], h[j])
  <2>1. CASE id \notin DOMAIN t
    <3>1. k = 1 /\ e.event = "asserted"
      <4>1. k # 1 => 1 \in 1..(k - 1)
        BY <1>1
      <4>2. k = 1
        BY <2>1, <4>1
      <4>3. QED
        BY <4>2 DEF Life
    <3>2. u = [i \in DOMAIN t \cup {id} |-> IF i = id THEN InsertedRow(e) ELSE t[i]]
      BY <2>1, <3>1 DEF Handled, OnAsserted
    <3> HIDE DEF u
    <3>3. id \in DOMAIN u /\ u[id] = InsertedRow(h[1])
      BY <3>1, <3>2
    <3>4. \A j \in 1..k : j = 1
      BY <3>1
    <3>5. QED
      BY <3>3, <3>4, InsertTells
  <2>2. CASE id \in DOMAIN t
    <3>1. \A columns : /\ id \in DOMAIN Update(t, id, columns)
                       /\ Update(t, id, columns)[id] = Replaced(t[id], columns)
      BY <2>2 DEF Update
    <3>2. t[id] \in Row /\ \A j \in 1..(k - 1) : Tells(t[id], h[j])
      BY <2>2
    <3>3. CASE e.event = "asserted"
      <4>1. u = Update(t, id, AssertedColumns(e))
        BY <2>2, <3>3 DEF Handled, OnAsserted, AssertedColumns
      <4>2. QED
        BY <3>1, <3>2, <3>3, <4>1, StatementTells
    <3>4. CASE e.event = "disputed"
      <4>1. u = Update(t, id, DisputedColumns(e))
        BY <3>4 DEF Handled, OnDisputed, DisputedColumns
      <4>2. QED
        BY <3>1, <3>2, <3>4, <4>1, StatementTells
    <3>5. CASE e.event = "settled"
      <4>1. u = Update(t, id, SettledColumns(e, readRow))
        BY <3>5 DEF Handled, OnSettled, SettledColumns
      <4>2. /\ Replaced(t[id], SettledColumns(e, readRow)) \in Row
            /\ \A j \in 1..k : Tells(Replaced(t[id], SettledColumns(e, readRow)), h[j])
        BY <3>2, <3>5, StatementTells
      <4>3. QED
        BY <3>1, <4>1, <4>2
    <3>6. CASE e.event \in {"rejected", "unresolved"}
      <4>1. u = Update(t, id, ResolvedColumns(e, e.event))
        BY <3>6 DEF Handled, OnRejected, OnUnresolved, ResolvedColumns
      <4>2. QED
        BY <3>1, <3>2, <3>6, <4>1, StatementTells
    <3>7. QED
      BY <1>1, <3>3, <3>4, <3>5, <3>6 DEF Prints
  <2>3. QED
    BY <2>1, <2>2
<1>3. \A i : i # id => /\ i \in DOMAIN u <=> i \in DOMAIN t
                       /\ i \in DOMAIN t => u[i] = t[i]
  BY <1>1, OtherRowsStay
<1>4. \A i \in DOMAIN u : u[i] \in Row
  BY <1>2, <1>3
<1>5. u = [i \in DOMAIN u |-> u[i]]
  BY <1>1 DEF Handled, OnAsserted, OnDisputed, OnSettled, OnRejected, OnUnresolved, Update, Prints
<1>6. QED
  BY <1>2, <1>4, <1>5

\* How far the table tells of the log.
LEMMA ReorgBounds ==
    ASSUME ReorgInv
    PROVE  /\ cursor \in Nat /\ Pos \in Nat /\ Len(log) \in Nat
           /\ cursor <= Pos /\ Pos <= Len(log)
           /\ batch # NoBatch =>
                 batch.next \in Nat /\ batch.last \in Nat /\ batch.last <= Len(log)
                 /\ cursor < batch.next /\ batch.next <= batch.last + 1
  BY DEF ReorgInv, BatchOK, LogOf, Pos

\* To tell of fewer events is less.
LEMMA ToldEarlier ==
    ASSUME NEW t, NEW f, NEW l, NEW n \in Nat, NEW m \in Nat, m <= n, ToldUpTo(t, f, l, n)
    PROVE  ToldUpTo(t, f, l, m)
<1>1. ASSUME NEW id PROVE 1..Count(l, id, m) \subseteq 1..Count(l, id, n)
  <2>1. Count(l, id, m) <= Count(l, id, n) /\ Count(l, id, m) \in Nat /\ Count(l, id, n) \in Nat
    BY CountGrows, CountType
  <2>2. QED
    BY <2>1
<1>2. QED
  BY <1>1 DEF ToldUpTo

\* The next event of the log is handled.
LEMMA EventTells ==
    ASSUME NEW t, t \in [DOMAIN t -> Row], NEW f, NEW l, LivesIn(f), LogOf(l, f),
           NEW n \in Nat, n + 1 \in 1..Len(l), ToldUpTo(t, f, l, n), NEW readRow
    PROVE  LET id == l[n + 1][1]
               u  == Handled(t, id, f[id][l[n + 1][2]], readRow)
           IN  u \in [DOMAIN u -> Row] /\ ToldUpTo(u, f, l, n + 1)
<1> DEFINE id == l[n + 1][1]
           k == l[n + 1][2]
           h == f[id]
           u == Handled(t, id, h[k], readRow)
<1>1. /\ id \in DOMAIN f /\ k \in 1..Len(h) /\ k = Count(l, id, n) + 1
      /\ \A i : i # id => Count(l, i, n + 1) = Count(l, i, n)
      /\ k = Count(l, id, n + 1)
  <2>1. (n + 1) - 1 = n
    OBVIOUS
  <2>2. k = Count(l, id, n + 1)
    BY DEF LogOf
  <2>3. QED
    BY <2>1, <2>2, Logged
<1>2. Life(h) /\ k \in DOMAIN h /\ Count(l, id, n) = k - 1 /\ h[k] \in Prints
  <2>1. Life(h) /\ Count(l, id, n) \in Nat
    BY <1>1, CountType DEF LivesIn
  <2>2. k \in DOMAIN h /\ Count(l, id, n) = k - 1
    BY <1>1, <2>1 DEF Life
  <2>3. QED
    BY <2>1, <2>2, Places
<1> HIDE DEF h, k
<1>3. \A j \in 1..(k - 1) : id \in DOMAIN t /\ Tells(t[id], h[j])
  BY <1>1, <1>2 DEF ToldUpTo, h
<1>4. u \in [DOMAIN u -> Row] /\ id \in DOMAIN u /\ \A j \in 1..k : Tells(u[id], h[j])
  BY <1>2, <1>3, HandledTells
<1>5. \A i : i # id => /\ i \in DOMAIN u <=> i \in DOMAIN t
                       /\ i \in DOMAIN t => u[i] = t[i]
  BY <1>2, OtherRowsStay
<1> HIDE DEF u, id
<1>6. ToldUpTo(u, f, l, n + 1)
  <2> SUFFICES ASSUME NEW i \in DOMAIN f, NEW j \in 1..Count(l, i, n + 1)
               PROVE  i \in DOMAIN u /\ Tells(u[i], f[i][j])
    BY DEF ToldUpTo
  <2>1. CASE i = id
    BY <1>1, <1>4, <2>1 DEF h
  <2>2. CASE i # id
    BY <1>1, <1>5, <2>2 DEF ToldUpTo
  <2>3. QED
    BY <2>1, <2>2
<1>7. QED
  BY <1>4, <1>6 DEF u, h, k, id

\* A printed event is one more to tell of, later.
LEMMA PrintTells == ReorgInv /\ Printed => ReorgInv'
<1> SUFFICES ASSUME ReorgInv, Printed PROVE ReorgInv'
  OBVIOUS
<1>1. LivesIn(feed) /\ LogOf(log, feed) /\ ToldUpTo(table, feed, log, Pos) /\ BatchOK
  BY DEF ReorgInv
<1>2. LivesIn(feed') /\ Grows(feed, feed')
  BY <1>1, FeedGrows DEF Printed
<1>3. /\ LogOf(log', feed')
      /\ Len(log') = Len(log) + 1 /\ \A k \in 1..Len(log) : log'[k] = log[k]
  BY <1>1, LogGrows
<1>4. UNCHANGED <<cursor, batch, table>> /\ Pos' = Pos
  BY DEF Printed, Pos, NoBatch
<1>5. BatchOK'
  BY <1>1, <1>3, <1>4, ReorgBounds DEF BatchOK, NoBatch
<1>6. Pos \in 0..Len(log) /\ Pos \in Nat
  BY ReorgBounds
<1>7. \A id : Count(log', id, Pos) = Count(log, id, Pos)
  BY <1>3, <1>6, CountSame
<1>8. ASSUME NEW id \in DOMAIN feed', NEW k \in 1..Count(log, id, Pos)
      PROVE  id \in DOMAIN table /\ Tells(table[id], feed'[id][k])
  <2>1. id \in DOMAIN feed
    <3>1. Count(log, id, Pos) # 0
      BY <1>8
    <3>2. id \in {log[j][1] : j \in 1..Pos}
      BY <1>6, <3>1, CountZero
    <3>3. QED
      BY <1>1, <1>6, <3>2, Logged
  <2>2. k \in DOMAIN feed[id]
    <3>1. Count(log, id, Pos) \in 0..Len(feed[id])
      BY <1>1, <1>6, <2>1, CountBound
    <3>2. DOMAIN feed[id] = 1..Len(feed[id])
      BY <1>1, <2>1 DEF LivesIn, Life
    <3>3. QED
      BY <3>1, <3>2
  <2>3. feed'[id][k] = feed[id][k]
    BY <1>1, <1>2, <2>1, <2>2, GrowthKeeps
  <2>4. QED
    BY <1>1, <2>1, <2>3 DEF ToldUpTo
<1>9. ToldUpTo(table, feed', log', Pos)
  BY <1>7, <1>8 DEF ToldUpTo
<1>10. QED
  BY <1>2, <1>3, <1>4, <1>5, <1>9 DEF ReorgInv

\* The next event of the batch.
LEMMA NextOfReorgBatch ==
    ASSUME ReorgInv, Handling
    PROVE  /\ Pos + 1 \in 1..Len(log) /\ batch.next = Pos + 1
           /\ Id = log[Pos + 1][1] /\ Event = feed[Id][log[Pos + 1][2]]
           /\ Id \in DOMAIN feed /\ log[Pos + 1][2] \in DOMAIN feed[Id] /\ Life(feed[Id])
           /\ log[Pos + 1][2] = Count(log, Id, Pos) + 1
<1>1. batch # NoBatch /\ batch.next <= batch.last
  BY DEF Handling
<1>2. Pos + 1 \in 1..Len(log) /\ batch.next = Pos + 1 /\ (Pos + 1) - 1 = Pos
  BY <1>1, ReorgBounds DEF Pos
<1>3. Id = log[Pos + 1][1] /\ Event = feed[Id][log[Pos + 1][2]]
  BY <1>2 DEF Id, Event
<1>4. /\ Id \in DOMAIN feed /\ log[Pos + 1][2] \in 1..Len(feed[Id])
      /\ log[Pos + 1][2] = Count(log, Id, Pos) + 1
  <2>1. LivesIn(feed) /\ LogOf(log, feed)
    BY DEF ReorgInv
  <2>2. QED
    BY <1>2, <1>3, <2>1, Logged
<1>5. Life(feed[Id])
  BY <1>4 DEF ReorgInv, LivesIn
<1>6. QED
  BY <1>2, <1>3, <1>4, <1>5 DEF Life

\* It is handled.
LEMMA HandlingTells ==
    ASSUME ReorgInv, Handling, NextEvent, NEW readRow,
           table' = Handled(table, Id, Event, readRow)
    PROVE  ReorgInv'
<1> DEFINE pos == Pos
<1>1. /\ pos \in Nat /\ pos + 1 \in 1..Len(log) /\ batch.next = pos + 1
      /\ Id = log[pos + 1][1] /\ Event = feed[Id][log[pos + 1][2]]
  BY NextOfReorgBatch, ReorgBounds
<1>2. UNCHANGED <<feed, log, cursor>>
  BY DEF NextEvent
<1>3. batch # NoBatch /\ BatchOK /\ batch.next <= batch.last
  BY DEF Handling, ReorgInv
<1>4. batch' = [next |-> batch.next + 1, last |-> batch.last]
  <2>1. batch = [next |-> batch.next, last |-> batch.last]
    BY <1>3 DEF BatchOK
  <2>2. batch' = [batch EXCEPT !.next = batch.next + 1]
    BY DEF NextEvent
  <2>3. QED
    BY <2>1, <2>2
<1>5. /\ batch'.next = batch.next + 1 /\ batch'.last = batch.last
      /\ batch' # NoBatch /\ batch' = [next |-> batch'.next, last |-> batch'.last]
  BY <1>1, <1>4 DEF NoBatch
<1>6. Pos' = pos + 1
  <2>1. Pos' = batch'.next - 1
    BY <1>5 DEF Pos
  <2>2. batch'.next = (pos + 1) + 1
    BY <1>1, <1>5
  <2> HIDE DEF pos
  <2>3. QED
    BY <1>1, <2>1, <2>2
<1>7. BatchOK'
  <2>1. cursor \in Nat /\ batch.next \in Nat /\ batch.last \in Nat
        /\ batch.next \in (cursor + 1)..(batch.last + 1)
        /\ batch.last \in (cursor + 1)..Len(log) /\ cursor \in 0..Len(log)
    BY <1>3, ReorgBounds DEF BatchOK
  <2>2. batch'.next \in (cursor + 1)..(batch'.last + 1)
    BY <1>3, <1>5, <2>1
  <2>3. QED
    BY <1>2, <1>5, <2>1, <2>2 DEF BatchOK, NoBatch
<1>8. /\ LivesIn(feed) /\ LogOf(log, feed) /\ table \in [DOMAIN table -> Row]
      /\ ToldUpTo(table, feed, log, pos)
  BY DEF ReorgInv
<1> HIDE DEF pos
<1>9. table' \in [DOMAIN table' -> Row] /\ ToldUpTo(table', feed, log, pos + 1)
  BY <1>1, <1>8, EventTells
<1>10. QED
  BY <1>2, <1>6, <1>7, <1>8, <1>9 DEF ReorgInv

\* The handlers of a request.  A settlement always finds the row of its assertion.
LEMMA HandleTells ==
    ASSUME ReorgInv,
           \/ HandleAsserted \/ HandleDisputed \/ HandleRejected \/ HandleUnresolved
           \/ SelectForSettled \/ UpdateForSettled
    PROVE  ReorgInv'
<1>1. CASE HandleAsserted \/ HandleDisputed \/ HandleRejected \/ HandleUnresolved
  <2>1. Handling /\ NextEvent
    BY <1>1 DEF HandleAsserted, HandleDisputed, HandleRejected, HandleUnresolved
  <2>2. table' = Handled(table, Id, Event, Null)
    <3>1. CASE HandleAsserted
      BY <3>1 DEF HandleAsserted, Handled
    <3>2. CASE HandleDisputed
      BY <3>2 DEF HandleDisputed, Handled
    <3>3. CASE HandleRejected
      BY <3>3 DEF HandleRejected, Handled
    <3>4. CASE HandleUnresolved
      BY <3>4 DEF HandleUnresolved, Handled
    <3>5. QED
      BY <1>1, <3>1, <3>2, <3>3, <3>4
  <2>3. QED
    BY <2>1, <2>2, HandlingTells
<1>2. CASE SelectForSettled
  <2>1. Handling /\ Event.event = "settled"
    BY <1>2 DEF SelectForSettled
  <2> DEFINE k == log[Pos + 1][2]
  <2>2. Event = feed[Id][k] /\ Id \in DOMAIN feed /\ k \in DOMAIN feed[Id]
        /\ Life(feed[Id]) /\ k = Count(log, Id, Pos) + 1
    BY <2>1, NextOfReorgBatch
  <2>3. k > 1 /\ k \in 1..3
    BY <2>1, <2>2, Places DEF TerminalStatus
  <2>4. 1 \in 1..Count(log, Id, Pos)
    <3>1. Pos \in Nat
      BY ReorgBounds
    <3> DEFINE pos == Pos
    <3> HIDE DEF pos
    <3>2. Count(log, Id, pos) \in Nat
      BY <3>1, CountType DEF pos
    <3>3. QED
      BY <2>2, <2>3, <3>2 DEF pos
  <2>5. Id \in DOMAIN table
    BY <2>2, <2>4 DEF ReorgInv, ToldUpTo
  <2>6. UNCHANGED <<feed, log, cursor, batch, table>>
    BY <1>2, <2>5 DEF SelectForSettled
  <2>7. Pos' = Pos /\ BatchOK' = BatchOK
    BY <2>6 DEF Pos, BatchOK, NoBatch
  <2>8. QED
    BY <2>6, <2>7 DEF ReorgInv
<1>3. CASE UpdateForSettled
  <2>1. Handling /\ NextEvent /\ table' = Handled(table, Id, Event, seen)
    BY <1>3 DEF UpdateForSettled, Handled
  <2>2. QED
    BY <2>1, HandlingTells
<1>4. QED
  BY <1>1, <1>2, <1>3

\* Deliveries, answers and failures.
LEMMA DeliveryTells ==
    ASSUME ReorgInv, Respond \/ Fail \/ \E last \in 1..Len(log) : Deliver(last)
    PROVE  ReorgInv'
<1>1. UNCHANGED <<feed, log, table>>
  BY DEF Respond, Fail, Deliver
<1>2. BatchOK /\ ToldUpTo(table, feed, log, Pos)
  BY DEF ReorgInv
<1>3. BatchOK' /\ Pos' \in Nat /\ Pos' <= Pos
  <2>1. ASSUME NEW last \in 1..Len(log), Deliver(last)
        PROVE  BatchOK' /\ Pos' \in Nat /\ Pos' <= Pos
    <3>1. batch = NoBatch /\ last \in (cursor + 1)..Len(log) /\ cursor' = cursor
          /\ batch' = [next |-> cursor + 1, last |-> last]
      BY <2>1 DEF Deliver
    <3>2. batch'.next = cursor + 1 /\ batch'.last = last /\ batch' # NoBatch
          /\ batch' = [next |-> batch'.next, last |-> batch'.last]
      BY <3>1, ReorgBounds DEF NoBatch
    <3>3. Pos = cursor /\ Pos' = cursor
      BY <3>1, <3>2, ReorgBounds DEF Pos, NoBatch
    <3>4. batch'.next \in (cursor + 1)..(batch'.last + 1)
      BY <3>1, <3>2, ReorgBounds
    <3>5. QED
      BY <1>1, <1>2, <3>1, <3>2, <3>3, <3>4, ReorgBounds DEF BatchOK, NoBatch
  <2>2. CASE Respond
    <3>1. batch # NoBatch /\ batch.next > batch.last /\ cursor' = batch.last /\ batch' = NoBatch
      BY <2>2 DEF Respond
    <3>2. Pos' = batch.last /\ Pos = batch.last /\ batch.last \in 0..Len(log)
      BY <3>1, ReorgBounds DEF Pos, NoBatch
    <3>3. QED
      BY <1>1, <3>1, <3>2 DEF BatchOK, NoBatch
  <2>3. CASE Fail
    <3>1. batch' = NoBatch /\ cursor' = cursor
      BY <2>3 DEF Fail
    <3>2. Pos' = cursor
      BY <3>1 DEF Pos, NoBatch
    <3>3. QED
      BY <1>1, <1>2, <3>1, <3>2, ReorgBounds DEF BatchOK, NoBatch
  <2>4. QED
    BY <2>1, <2>2, <2>3
<1> DEFINE pos == Pos
           new == Pos'
<1>4. pos \in Nat /\ new \in Nat /\ new <= pos /\ ToldUpTo(table, feed, log, pos)
  BY <1>2, <1>3, ReorgBounds
<1> HIDE DEF pos, new
<1>5. ToldUpTo(table, feed, log, new)
  BY <1>4, ToldEarlier
<1>6. QED
  BY <1>1, <1>3, <1>5 DEF ReorgInv, new

\* The chain drops all events after the first n: the log and the feeds still fit
\* together, and each event that is left is the one it was.
LEMMA ChainShrinks ==
    ASSUME LivesIn(feed), LogOf(log, feed), NEW n \in 0..Len(log), Reorganised(n)
    PROVE  /\ LivesIn(feed') /\ LogOf(log', feed')
           /\ Len(log') = n
           /\ \A id : \A k \in 0..n : Count(log', id, k) = Count(log, id, k)
           /\ \A id \in DOMAIN feed' :
                 /\ id \in DOMAIN feed
                 /\ \A k \in DOMAIN feed'[id] : feed'[id][k] = feed[id][k]
<1> DEFINE Logs == {log[k][1] : k \in 1..n}
<1>1. /\ n \in Nat /\ Len(log) \in Nat /\ n <= Len(log) /\ log \in Seq(Refs(feed))
      /\ log' = SubSeq(log, 1, n)
      /\ feed' = [id \in Logs |-> SubSeq(feed[id], 1, Count(log, id, n))]
  BY DEF Reorganised, LogOf, Count, CountOf
<1>2. Len(log') = n /\ \A k \in 1..n : log'[k] = log[k]
  BY <1>1
<1>3. ASSUME NEW id, NEW k \in 0..n PROVE Count(log', id, k) = Count(log, id, k)
  <2>1. \A j \in 1..k : log'[j] = log[j]
    BY <1>2
  <2>2. QED
    BY <2>1, CountSame
<1>4. ASSUME NEW id \in Logs
      PROVE  /\ id \in DOMAIN feed /\ Count(log, id, n) \in DOMAIN feed[id]
             /\ Life(feed'[id]) /\ Len(feed'[id]) = Count(log, id, n)
             /\ \A k \in 1..Count(log, id, n) : feed'[id][k] = feed[id][k]
  <2>1. id \in DOMAIN feed
    BY <1>1, <1>4, Logged
  <2>2. Count(log, id, n) \in 1..Len(feed[id])
    <3>1. Count(log, id, n) \in 0..Len(feed[id])
      BY <1>1, <2>1, CountBound
    <3>2. Count(log, id, n) # 0
      BY <1>1, <1>4, CountZero
    <3>3. QED
      BY <3>1, <3>2
  <2>3. Life(feed[id]) /\ DOMAIN feed[id] = 1..Len(feed[id])
    BY <2>1 DEF LivesIn, Life
  <2> DEFINE m == Count(log, id, n)
  <2>4. feed'[id] = SubSeq(feed[id], 1, m) /\ m \in DOMAIN feed[id]
    BY <1>1, <1>4, <2>2, <2>3
  <2> HIDE DEF m
  <2>5. Life(feed'[id]) /\ Len(feed'[id]) = m /\ \A k \in 1..m : feed'[id][k] = feed[id][k]
    BY <2>3, <2>4, FirstEvents
  <2>6. QED
    BY <2>1, <2>4, <2>5 DEF m
<1>5. DOMAIN feed' = Logs
  BY <1>1
<1>6. LivesIn(feed')
  BY <1>4, <1>5 DEF LivesIn
<1>7. \A id \in DOMAIN feed' : DOMAIN feed'[id] = 1..Count(log, id, n)
  BY <1>4, <1>5 DEF Life
<1>8. ASSUME NEW k \in 1..n PROVE log'[k] \in Refs(feed')
  <2> DEFINE id == log[k][1]
  <2>1. PICK i \in DOMAIN feed : \E j \in DOMAIN feed[i] : log[k] = <<i, j>>
    <3>1. log[k] \in Refs(feed)
      BY <1>1
    <3>2. QED
      BY <3>1, RefOf
  <2>2. log[k] = <<id, log[k][2]>> /\ id \in Logs
    BY <2>1
  <2>3. log[k][2] = Count(log, id, k)
    BY <1>1 DEF LogOf
  <2>4. log[k][2] \in 1..Count(log, id, n)
    <3>1. k \in 1..Len(log) /\ k \in Nat /\ k <= n
      BY <1>1
    <3>2. Count(log, id, k) <= Count(log, id, n)
          /\ Count(log, id, k) \in Nat /\ Count(log, id, n) \in Nat
      BY <1>1, <3>1, CountGrows, CountType
    <3>3. log[k][2] >= 1
      BY <3>1, Logged
    <3>4. QED
      BY <2>3, <3>2, <3>3
  <2> HIDE DEF id
  <2>5. id \in DOMAIN feed' /\ log[k][2] \in DOMAIN feed'[id]
    BY <1>5, <1>7, <2>2, <2>4
  <2>6. QED
    BY <1>2, <2>2, <2>5, RefOf
<1>9. log' \in Seq(Refs(feed'))
  <2>1. log' = [k \in 1..n |-> log[k]]
    BY <1>1
  <2>2. \A k \in 1..n : log[k] \in Refs(feed')
    BY <1>2, <1>8
  <2>3. QED
    BY <1>1, <2>1, <2>2
<1>10. LogOf(log', feed')
  <2>1. ASSUME NEW k \in 1..n PROVE log'[k][2] = Count(log', log'[k][1], k)
    <3>1. log[k][2] = Count(log, log[k][1], k)
      BY <1>1 DEF LogOf
    <3>2. QED
      BY <1>1, <1>2, <1>3, <3>1
  <2>2. ASSUME NEW id \in DOMAIN feed' PROVE Count(log', id, n) = Len(feed'[id])
    <3>1. n \in 0..n
      BY <1>1
    <3>2. Count(log', id, n) = Count(log, id, n)
      BY <1>3, <3>1
    <3>3. QED
      BY <1>4, <1>5, <3>2
  <2>3. QED
    BY <1>2, <1>9, <2>1, <2>2 DEF LogOf
<1>11. QED
  BY <1>2, <1>3, <1>4, <1>5, <1>6, <1>7, <1>10

\* A reorganisation: what is left to tell is told.
LEMMA ReorganisedTells ==
    ASSUME ReorgInv, NEW n \in 0..Len(log), Reorganised(n)
    PROVE  ReorgInv'
<1> DEFINE new == IF cursor < n THEN cursor ELSE n
<1>1. batch = NoBatch /\ cursor' = new /\ UNCHANGED <<batch, table>>
  BY DEF Reorganised
<1>2. LivesIn(feed) /\ LogOf(log, feed) /\ ToldUpTo(table, feed, log, Pos)
      /\ table \in [DOMAIN table -> Row] /\ BatchOK
  BY DEF ReorgInv
<1>3. /\ LivesIn(feed') /\ LogOf(log', feed') /\ Len(log') = n
      /\ \A id : \A k \in 0..n : Count(log', id, k) = Count(log, id, k)
      /\ \A id \in DOMAIN feed' :
            /\ id \in DOMAIN feed
            /\ \A k \in DOMAIN feed'[id] : feed'[id][k] = feed[id][k]
  BY <1>2, ChainShrinks
<1>4. Pos = cursor /\ Pos' = new /\ cursor \in Nat /\ new \in 0..n /\ new \in Nat /\ new <= cursor
  BY <1>1, ReorgBounds DEF Pos
<1>5. BatchOK'
  BY <1>1, <1>3, <1>4 DEF BatchOK, NoBatch
<1> HIDE DEF new
<1>6. ToldUpTo(table, feed, log, new)
  BY <1>2, <1>4, ToldEarlier
<1>7. ASSUME NEW id \in DOMAIN feed', NEW k \in 1..Count(log', id, new)
      PROVE  id \in DOMAIN table /\ Tells(table[id], feed'[id][k])
  <2>1. k \in 1..Count(log, id, new) /\ id \in DOMAIN feed
    BY <1>3, <1>4
  <2>2. k \in DOMAIN feed'[id]
    <3>1. Count(log', id, new) \in 0..Len(feed'[id])
      BY <1>3, <1>4, CountBound
    <3>2. DOMAIN feed'[id] = 1..Len(feed'[id])
      BY <1>3 DEF LivesIn, Life
    <3>3. QED
      BY <3>1, <3>2
  <2>3. QED
    BY <1>3, <1>6, <2>1, <2>2 DEF ToldUpTo
<1>8. ToldUpTo(table', feed', log', Pos')
  BY <1>1, <1>4, <1>7 DEF ToldUpTo
<1>9. QED
  BY <1>1, <1>2, <1>3, <1>5, <1>8 DEF ReorgInv

\* Whatever happens.
LEMMA NextTells == ReorgInv /\ [ReorgNext]_reorgVars => ReorgInv'
<1> SUFFICES ASSUME ReorgInv, [ReorgNext]_reorgVars PROVE ReorgInv'
  OBVIOUS
<1>1. CASE UNCHANGED reorgVars
  BY <1>1 DEF reorgVars, vars, ReorgInv, BatchOK, Pos, NoBatch
<1>2. CASE Next
  BY <1>2, PrintTells, HandleTells, DeliveryTells DEF Next, Handle
<1>3. QED
  BY <1>1, <1>2, ReorganisedTells DEF ReorgNext

\* Nothing has been logged at first.
LEMMA InitTells == ReorgInit => ReorgInv
<1> SUFFICES ASSUME ReorgInit PROVE ReorgInv
  OBVIOUS
<1>1. /\ DOMAIN feed = {} /\ log = <<>> /\ cursor = 0 /\ batch = NoBatch
      /\ DOMAIN table = {} /\ table \in [DOMAIN table -> Row]
  BY DEF ReorgInit, Init, Chain!Init, NoRows
<1>2. LogOf(log, feed) /\ Len(log) = 0
  BY <1>1 DEF LogOf
<1>3. QED
  BY <1>1, <1>2 DEF ReorgInv, LivesIn, BatchOK, ToldUpTo

\* A row that tells of all the events shows each of their steps, and their outcome.
LEMMA ToldIsShown ==
    ASSUME NEW h, Life(h), NEW row, \A k \in 1..Len(h) : Tells(row, h[k])
    PROVE  /\ \A c \in {"asserter", "assertedAt", "disputer", "disputedAt",
                        "settler", "settledAt"} :
                 TrueRow(h)[c] # Null => row[c] = TrueRow(h)[c]
           /\ TrueRow(h).status \in TerminalStatus => row.status = TrueRow(h).status
           /\ TrueRow(h).status \in {"rejected", "unresolved"} =>
                 row.resolver = TrueRow(h).resolver /\ row.resolvedAt = TrueRow(h).resolvedAt
<1> DEFINE t == TrueRow(h)
<1>1. /\ Len(h) \in 1..3 /\ h[1].event = "asserted"
      /\ t.asserter = h[1].by /\ t.assertedAt = h[1].at
      /\ t.disputer = (IF Disputed(h) THEN h[2].by ELSE Null)
      /\ t.disputedAt = (IF Disputed(h) THEN h[2].at ELSE Null)
      /\ t.settler = (IF SettledLast(h) THEN h[Len(h)].by ELSE Null)
      /\ t.settledAt = (IF SettledLast(h) THEN h[Len(h)].at ELSE Null)
      /\ t.resolver = (IF Len(h) = 3 THEN h[3].by ELSE Null)
      /\ t.resolvedAt = (IF Len(h) = 3 THEN h[3].at ELSE Null)
      /\ t.status = (IF Len(h) = 1 THEN "open" ELSE h[Len(h)].event)
  BY TrueColumns DEF Life
<1> HIDE DEF t
<1>2. Tells(row, h[1]) /\ Tells(row, h[Len(h)]) /\ (Disputed(h) => Tells(row, h[2]))
  BY <1>1 DEF Disputed
<1>3. row.asserter = t.asserter /\ row.assertedAt = t.assertedAt
  BY <1>1, <1>2 DEF Tells
<1>4. Disputed(h) => row.disputer = t.disputer /\ row.disputedAt = t.disputedAt
  BY <1>1, <1>2 DEF Tells, Disputed
<1>5. SettledLast(h) => row.settler = t.settler /\ row.settledAt = t.settledAt
  BY <1>1, <1>2 DEF Tells, SettledLast
<1>6. t.status \in TerminalStatus => row.status = t.status
  BY <1>1, <1>2 DEF Tells, TerminalStatus
<1>7. t.status \in {"rejected", "unresolved"} => row.resolver = t.resolver /\ row.resolvedAt = t.resolvedAt
  <2> SUFFICES ASSUME t.status \in {"rejected", "unresolved"}
               PROVE  row.resolver = t.resolver /\ row.resolvedAt = t.resolvedAt
    OBVIOUS
  <2>1. Len(h) = 3 /\ h[3].event \in {"rejected", "unresolved"}
    BY <1>1 DEF Life
  <2>2. QED
    BY <1>1, <1>2, <2>1 DEF Tells
<1>8. QED
  BY <1>1, <1>3, <1>4, <1>5, <1>6, <1>7 DEF t

\* The invariant on a chain that reorganises.
THEOREM ReorgTheorem == ReorgSpec => []ReorgInv
  BY InitTells, NextTells, PTL DEF ReorgSpec

\* However often the chain reorganises and deliveries fail, the table shows every
\* step and every outcome of the chain as it now is, up to the cursor.
THEOREM SurvivorsTheorem == ReorgSpec => []SurvivorsShown
<1>1. ReorgInv => SurvivorsShown
  <2> SUFFICES ASSUME ReorgInv, AtRest, NEW id \in {log[k][1] : k \in 1..cursor}
               PROVE  /\ id \in DOMAIN table
                      /\ LET row == table[id]
                             now == Delivered(id)
                         IN  /\ \A c \in {"asserter", "assertedAt", "disputer",
                                          "disputedAt", "settler", "settledAt"} :
                                   now[c] # Null => row[c] = now[c]
                             /\ now.status \in TerminalStatus => row.status = now.status
                             /\ now.status \in {"rejected", "unresolved"} =>
                                   /\ row.resolver = now.resolver
                                   /\ row.resolvedAt = now.resolvedAt
    BY DEF SurvivorsShown
  <2>1. LivesIn(feed) /\ LogOf(log, feed) /\ ToldUpTo(table, feed, log, cursor)
        /\ cursor \in Nat /\ cursor <= Len(log) /\ Len(log) \in Nat
    <3>1. Pos = cursor
      BY DEF AtRest, Pos
    <3>2. QED
      BY <3>1, ReorgBounds DEF ReorgInv
  <2> DEFINE m == Count(log, id, cursor)
             h == SubSeq(feed[id], 1, m)
  <2>2. id \in DOMAIN feed
    BY <2>1, Logged
  <2>3. m \in 0..Len(feed[id]) /\ m # 0 /\ Life(feed[id])
    BY <2>1, <2>2, CountBound, CountZero DEF LivesIn
  <2>4. m \in DOMAIN feed[id] /\ 1 \in 1..m
    BY <2>3 DEF Life
  <2> HIDE DEF m
  <2>5. Life(h) /\ Len(h) = m /\ \A k \in 1..m : h[k] = feed[id][k]
    BY <2>3, <2>4, FirstEvents
  <2>6. id \in DOMAIN table /\ \A k \in 1..m : Tells(table[id], feed[id][k])
    BY <2>1, <2>2, <2>4 DEF ToldUpTo, m
  <2>7. Delivered(id) = TrueRow(h)
    BY DEF Delivered, CountOf, Count, m
  <2> HIDE DEF h
  <2>8. \A k \in 1..Len(h) : Tells(table[id], h[k])
    BY <2>5, <2>6
  <2>9. QED
    BY <2>5, <2>6, <2>7, <2>8, ToldIsShown
<1>2. QED
  BY <1>1, ReorgTheorem, PTL

=============================================================================
