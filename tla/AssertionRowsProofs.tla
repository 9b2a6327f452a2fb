------------------------ MODULE AssertionRowsProofs ------------------------
(***************************************************************************)
(* Lemmas about the assertions table, for any parties and blocks: what the *)
(* events of an assertion say, and what each handler does to a row.  The   *)
(* pipelines' proofs rest on them.                                         *)
(***************************************************************************)
EXTENDS AssertionRows, TLAPS

-----------------------------------------------------------------------------
(* The life of an assertion, as its events tell it *)

Prints ==
    [event : {"asserted", "disputed", "settled", "rejected", "unresolved"},
     by : Parties, at : Blocks]

Life(h) ==
    /\ h \in Seq(Prints)
    /\ Len(h) \in 1..3
    /\ h[1].event = "asserted"
    /\ Len(h) > 1 => h[2].event \in {"disputed", "settled"}
    /\ Len(h) > 2 => h[2].event = "disputed" /\ h[3].event \in TerminalStatus

Disputed(h) == Len(h) > 1 /\ h[2].event = "disputed"
SettledLast(h) == Len(h) > 1 /\ h[Len(h)].event = "settled"

\* Every event has a party and a block.
LEMMA PrintsSay ==
    ASSUME NEW h, Life(h), NEW k \in 1..Len(h)
    PROVE  h[k].by \in Parties /\ h[k].at \in Blocks
<1>1. h[k] \in Prints
  BY DEF Life
<1>2. QED
  BY <1>1 DEF Prints

\* Where the events about a dispute and an outcome stand.
LEMMA Places ==
    ASSUME NEW h, Life(h), NEW k \in DOMAIN h
    PROVE  /\ DOMAIN h = 1..Len(h) /\ k \in 1..3 /\ h[k] \in Prints
           /\ h[k].event = "asserted" => k = 1
           /\ h[k].event = "disputed" => k = 2 /\ Disputed(h)
           /\ h[k].event \in TerminalStatus => k > 1 /\ k = Len(h)
<1>1. DOMAIN h = 1..Len(h) /\ h[k] \in Prints
  BY DEF Life
<1>2. Len(h) \in 1..3 /\ k \in 1..Len(h)
  BY <1>1 DEF Life
<1>3. CASE k = 1
  BY <1>1, <1>2, <1>3 DEF Life, TerminalStatus
<1>4. CASE k = 2
  BY <1>1, <1>2, <1>4 DEF Life, TerminalStatus, Disputed
<1>5. CASE k = 3
  BY <1>1, <1>2, <1>5 DEF Life, TerminalStatus
<1>6. QED
  BY <1>2, <1>3, <1>4, <1>5

\* Which events have happened, and where they are found.
LEMMA WhatHappened ==
    ASSUME NEW h, Life(h)
    PROVE  /\ Happened(h, "disputed") <=> Disputed(h)
           /\ Disputed(h) => EventNamed(h, "disputed") = h[2]
           /\ Happened(h, "settled") <=> SettledLast(h)
           /\ SettledLast(h) => EventNamed(h, "settled") = h[Len(h)]
           /\ Ruling(h) = {} <=> Len(h) # 3
<1>1. DOMAIN h = 1..Len(h) /\ Len(h) \in 1..3
  BY DEF Life
<1>2. \A k \in DOMAIN h : h[k].event = "disputed" => k = 2 /\ Disputed(h)
  BY Places
<1>3. \A k \in DOMAIN h : h[k].event = "settled" => k = Len(h) /\ SettledLast(h)
  BY Places DEF TerminalStatus, SettledLast
<1>4. Disputed(h) => 2 \in DOMAIN h /\ h[2].event = "disputed"
  BY <1>1 DEF Disputed
<1>5. SettledLast(h) => Len(h) \in DOMAIN h /\ h[Len(h)].event = "settled"
  BY <1>1 DEF SettledLast
<1>6. /\ Happened(h, "disputed") <=> Disputed(h)
      /\ Happened(h, "settled") <=> SettledLast(h)
  BY <1>2, <1>3, <1>4, <1>5 DEF Happened
<1>7. Disputed(h) => EventNamed(h, "disputed") = h[2]
  BY <1>2, <1>4 DEF EventNamed
<1>8. SettledLast(h) => EventNamed(h, "settled") = h[Len(h)]
  BY <1>3, <1>5 DEF EventNamed
<1>9. Ruling(h) = {} <=> Len(h) # 3
  <2>1. ASSUME Len(h) = 3 PROVE 3 \in Ruling(h)
    BY <1>1, <2>1 DEF Ruling, Life
  <2>2. ASSUME NEW k \in Ruling(h) PROVE Len(h) = 3
    BY <1>1, <1>2, <2>2 DEF Ruling
  <2>3. QED
    BY <2>1, <2>2
<1>10. QED
  BY <1>6, <1>7, <1>8, <1>9

-----------------------------------------------------------------------------
(* Rows *)

Columns == {"asserter", "assertedAt", "disputer", "disputedAt", "settler",
            "settledAt", "resolver", "resolvedAt", "status"}

\* What a column may hold.
Fits(c, v) ==
    /\ c = "asserter" => v \in Parties
    /\ c = "assertedAt" => v \in Blocks
    /\ c \in {"disputer", "settler", "resolver"} => v \in Parties \cup {Null}
    /\ c \in {"disputedAt", "settledAt", "resolvedAt"} => v \in Blocks \cup {Null}
    /\ c = "status" => v \in Status

\* A row, column by column.
LEMMA RowColumns ==
    ASSUME NEW row
    PROVE  row \in Row <=>
               /\ row = [c \in Columns |-> row[c]]
               /\ \A c \in Columns : Fits(c, row[c])
<1>1. ASSUME row \in Row PROVE row = [c \in Columns |-> row[c]]
  BY <1>1 DEF Row, Columns
<1>2. ASSUME row \in Row PROVE \A c \in Columns : Fits(c, row[c])
  BY <1>2 DEF Row, Columns, Fits
<1>3. ASSUME row = [c \in Columns |-> row[c]], \A c \in Columns : Fits(c, row[c])
      PROVE  row \in Row
  BY <1>3 DEF Row, Columns, Fits
<1>4. QED
  BY <1>1, <1>2, <1>3

\* The true row has the columns of a row.
LEMMA TrueRowColumns ==
    ASSUME NEW h
    PROVE  TrueRow(h) = [c \in Columns |-> TrueRow(h)[c]]
  BY DEF TrueRow, Columns

\* The row that the events of an assertion amount to.
LEMMA TrueColumns ==
    ASSUME NEW h, Life(h)
    PROVE  /\ TrueRow(h) \in Row
           /\ TrueRow(h).asserter = h[1].by /\ TrueRow(h).assertedAt = h[1].at
           /\ TrueRow(h).disputer = IF Disputed(h) THEN h[2].by ELSE Null
           /\ TrueRow(h).disputedAt = IF Disputed(h) THEN h[2].at ELSE Null
           /\ TrueRow(h).settler = IF SettledLast(h) THEN h[Len(h)].by ELSE Null
           /\ TrueRow(h).settledAt = IF SettledLast(h) THEN h[Len(h)].at ELSE Null
           /\ TrueRow(h).resolver = IF Len(h) = 3 THEN h[3].by ELSE Null
           /\ TrueRow(h).resolvedAt = IF Len(h) = 3 THEN h[3].at ELSE Null
           /\ TrueRow(h).status = IF Len(h) = 1 THEN "open" ELSE h[Len(h)].event
<1> DEFINE t == TrueRow(h)
<1>1. /\ ByOrNull(h, "disputed") = IF Disputed(h) THEN h[2].by ELSE Null
      /\ AtOrNull(h, "disputed") = IF Disputed(h) THEN h[2].at ELSE Null
      /\ ByOrNull(h, "settled") = IF SettledLast(h) THEN h[Len(h)].by ELSE Null
      /\ AtOrNull(h, "settled") = IF SettledLast(h) THEN h[Len(h)].at ELSE Null
  BY WhatHappened DEF ByOrNull, AtOrNull
<1>2. Ruling(h) = {} <=> Len(h) # 3
  BY WhatHappened
<1>3. h[Len(h)].event = "asserted" <=> Len(h) = 1
  BY DEF Life, TerminalStatus
<1>4. /\ t.asserter = h[1].by /\ t.assertedAt = h[1].at
      /\ t.disputer = IF Disputed(h) THEN h[2].by ELSE Null
      /\ t.disputedAt = IF Disputed(h) THEN h[2].at ELSE Null
  BY <1>1 DEF TrueRow
<1>5. /\ t.settler = IF SettledLast(h) THEN h[Len(h)].by ELSE Null
      /\ t.settledAt = IF SettledLast(h) THEN h[Len(h)].at ELSE Null
  BY <1>1 DEF TrueRow
<1>6. /\ t.resolver = IF Len(h) = 3 THEN h[3].by ELSE Null
      /\ t.resolvedAt = IF Len(h) = 3 THEN h[3].at ELSE Null
  BY <1>2 DEF TrueRow
<1>7. t.status = IF Len(h) = 1 THEN "open" ELSE h[Len(h)].event
  BY <1>3 DEF TrueRow
<1>8. t = [c \in Columns |-> t[c]]
  BY TrueRowColumns, Zenon
<1>9. \A k \in 1..Len(h) : h[k].by \in Parties /\ h[k].at \in Blocks
  BY PrintsSay
<1>10. Len(h) \in 1..3 /\ 1 \in 1..Len(h) /\ Len(h) \in 1..Len(h)
       /\ (Disputed(h) => 2 \in 1..Len(h))
  BY DEF Life, Disputed
<1>11. t.status \in Status
  <2>1. CASE Len(h) = 1
    BY <1>7, <2>1 DEF Status
  <2>2. CASE Len(h) = 2
    BY <1>7, <2>2 DEF Life, Status
  <2>3. CASE Len(h) = 3
    BY <1>7, <2>3 DEF Life, Status, TerminalStatus
  <2>4. QED
    BY <1>10, <2>1, <2>2, <2>3
<1> HIDE DEF t
<1>12. \A c \in Columns : Fits(c, t[c])
  BY <1>4, <1>5, <1>6, <1>9, <1>10, <1>11 DEF Columns, Fits
<1>13. t \in Row
  BY <1>8, <1>12, RowColumns
<1>14. QED
  BY <1>4, <1>5, <1>6, <1>7, <1>13 DEF t

-----------------------------------------------------------------------------
(* What a handler does to a row *)

\* No filled column but the status changes.
Keeps(row, new) == \A c \in Columns \ {"status"} : row[c] # Null => new[c] = row[c]

\* An update of some columns.
LEMMA ReplacedColumns ==
    ASSUME NEW row \in Row, NEW columns, DOMAIN columns \subseteq Columns,
           \A c \in DOMAIN columns : Fits(c, columns[c])
    PROVE  /\ Replaced(row, columns) \in Row
           /\ \A c \in Columns :
                 Replaced(row, columns)[c] = IF c \in DOMAIN columns THEN columns[c] ELSE row[c]
<1> DEFINE new == Replaced(row, columns)
<1>1. DOMAIN row = Columns /\ \A c \in Columns : Fits(c, row[c])
  BY RowColumns
<1>2. new = [c \in Columns |-> IF c \in DOMAIN columns THEN columns[c] ELSE row[c]]
  BY <1>1 DEF Replaced
<1> HIDE DEF new
<1>3. \A c \in Columns : new[c] = IF c \in DOMAIN columns THEN columns[c] ELSE row[c]
  BY <1>2
<1>4. new = [c \in Columns |-> new[c]] /\ \A c \in Columns : Fits(c, new[c])
  BY <1>1, <1>2, <1>3
<1>5. new \in Row
  BY <1>4, RowColumns
<1>6. QED
  BY <1>3, <1>5 DEF new

\* What makes a row truthful, with the domain of a row spelled out.
LEMMA TruthfulRow ==
    ASSUME NEW h, NEW row \in Row
    PROVE  Truthful(row, h) <=>
               /\ \A c \in Columns \ {"status"} : row[c] \in {Null, TrueRow(h)[c]}
               /\ row.status = "open" \/ Happened(h, row.status)
               /\ row.status = "open" <=>
                     row.disputer = Null /\ row.settler = Null /\ row.resolver = Null
               /\ row.status = "disputed" => row.disputer # Null
               /\ row.status = "settled" => row.settler # Null
               /\ row.status \in {"rejected", "unresolved"} => row.resolver # Null
<1>1. DOMAIN row = Columns
  BY RowColumns
<1>2. (row.status = "open") = ({row.disputer, row.settler, row.resolver} = {Null})
      <=> (row.status = "open" <=>
              row.disputer = Null /\ row.settler = Null /\ row.resolver = Null)
  OBVIOUS
<1>3. QED
  BY <1>1, <1>2 DEF Truthful

\* asserted, without a row.
LEMMA InsertIsTruthful ==
    ASSUME NEW h, Life(h)
    PROVE  InsertedRow(h[1]) \in Row /\ Truthful(InsertedRow(h[1]), h)
<1> DEFINE new == InsertedRow(h[1])
<1>1. h[1].by \in Parties /\ h[1].at \in Blocks
  BY PrintsSay DEF Life
<1>2. new = [c \in Columns |-> new[c]]
  BY DEF InsertedRow, Columns
<1>3. /\ new.asserter = h[1].by /\ new.assertedAt = h[1].at
      /\ new.disputer = Null /\ new.disputedAt = Null
      /\ new.settler = Null /\ new.settledAt = Null
      /\ new.resolver = Null /\ new.resolvedAt = Null
      /\ new.status = "open"
  BY DEF InsertedRow
<1> HIDE DEF new
<1>4. \A c \in Columns : Fits(c, new[c])
  BY <1>1, <1>3 DEF Columns, Fits, Status
<1>5. new \in Row
  BY <1>2, <1>4, RowColumns
<1>6. \A c \in Columns \ {"status"} : new[c] \in {Null, TrueRow(h)[c]}
  BY <1>3, TrueColumns DEF Columns
<1>7. Truthful(new, h)
  BY <1>3, <1>5, <1>6, TruthfulRow
<1>8. QED
  BY <1>5, <1>7 DEF new

\* The columns of a statement are true of an event: what is written is the chain's,
\* and a status comes with the party whose step it is.
Reports(columns, h) ==
    /\ DOMAIN columns \subseteq Columns
    /\ \A c \in DOMAIN columns : Fits(c, columns[c])
    /\ \A c \in DOMAIN columns \ {"status"} :
          columns[c] = TrueRow(h)[c] /\ columns[c] # Null
    /\ "status" \in DOMAIN columns =>
          /\ Happened(h, columns.status)
          /\ columns.status # "open"
          /\ columns.status = "disputed" => "disputer" \in DOMAIN columns
          /\ columns.status = "settled" => "settler" \in DOMAIN columns
          /\ columns.status \in {"rejected", "unresolved"} => "resolver" \in DOMAIN columns
    /\ "status" \notin DOMAIN columns =>
          DOMAIN columns \cap {"disputer", "settler", "resolver"} = {}

\* Statements that report what happened keep a row truthful and lose nothing.
LEMMA ReportKeepsTruth ==
    ASSUME NEW h, NEW row \in Row, Truthful(row, h), NEW columns, Reports(columns, h)
    PROVE  /\ Replaced(row, columns) \in Row
           /\ Truthful(Replaced(row, columns), h)
           /\ Keeps(row, Replaced(row, columns))
<1> DEFINE new == Replaced(row, columns)
<1>1. /\ new \in Row
      /\ \A c \in Columns : new[c] = IF c \in DOMAIN columns THEN columns[c] ELSE row[c]
  BY ReplacedColumns DEF Reports
<1> HIDE DEF new
<1>2. \A c \in Columns \ {"status"} : row[c] \in {Null, TrueRow(h)[c]}
  BY TruthfulRow
<1>3. \A c \in Columns \ {"status"} : new[c] \in {Null, TrueRow(h)[c]}
  BY <1>1, <1>2 DEF Reports
<1>4. Keeps(row, new)
  BY <1>1, <1>2 DEF Reports, Keeps
<1>5. {"status", "disputer", "settler", "resolver"} \subseteq Columns
  BY DEF Columns
<1>6. CASE "status" \notin DOMAIN columns
  <2>1. /\ new.status = row.status /\ new.disputer = row.disputer
        /\ new.settler = row.settler /\ new.resolver = row.resolver
    BY <1>1, <1>5, <1>6 DEF Reports
  <2>2. /\ row.status = "open" \/ Happened(h, row.status)
        /\ row.status = "open" <=>
              row.disputer = Null /\ row.settler = Null /\ row.resolver = Null
        /\ row.status = "disputed" => row.disputer # Null
        /\ row.status = "settled" => row.settler # Null
        /\ row.status \in {"rejected", "unresolved"} => row.resolver # Null
    BY TruthfulRow
  <2>3. Truthful(new, h)
    BY <1>1, <1>3, <2>1, <2>2, TruthfulRow
  <2>4. QED
    BY <1>1, <1>4, <2>3 DEF new
<1>7. CASE "status" \in DOMAIN columns
  <2>1. new.status = columns.status /\ new.status \in Status
    BY <1>1, <1>5, <1>7 DEF Reports, Fits
  <2>2. /\ new.status = "disputed" => new.disputer # Null
        /\ new.status = "settled" => new.settler # Null
        /\ new.status \in {"rejected", "unresolved"} => new.resolver # Null
    BY <1>1, <1>5, <1>7, <2>1 DEF Reports
  <2>3. new.status # "open" /\ Happened(h, new.status)
    BY <1>7, <2>1 DEF Reports
  <2>4. ~ (new.disputer = Null /\ new.settler = Null /\ new.resolver = Null)
    BY <2>1, <2>2, <2>3 DEF Status
  <2>5. Truthful(new, h)
    BY <1>1, <1>3, <2>2, <2>3, <2>4, TruthfulRow
  <2>6. QED
    BY <1>1, <1>4, <2>5 DEF new
<1>8. QED
  BY <1>1, <1>4, <1>6, <1>7 DEF new

\* The columns each statement sets.
AssertedColumns(e) == [asserter |-> e.by, assertedAt |-> e.at]
DisputedColumns(e) == [disputer |-> e.by, disputedAt |-> e.at, status |-> "disputed"]
ResolvedColumns(e, outcome) == [resolver |-> e.by, resolvedAt |-> e.at, status |-> outcome]
SettledColumns(e, seen) ==
    IF Resolves(seen)
    THEN [settler |-> e.by, settledAt |-> e.at, status |-> "settled",
          resolver |-> e.by, resolvedAt |-> e.at]
    ELSE [settler |-> e.by, settledAt |-> e.at, status |-> "settled"]

\* The columns a handler sets report the event it handles; the settled handler's
\* do if the row it read was truthful.
LEMMA StatementsReport ==
    ASSUME NEW h, Life(h), NEW k \in DOMAIN h
    PROVE  /\ h[k].event = "asserted" => Reports(AssertedColumns(h[k]), h)
           /\ h[k].event = "disputed" => Reports(DisputedColumns(h[k]), h)
           /\ h[k].event = "rejected" => Reports(ResolvedColumns(h[k], "rejected"), h)
           /\ h[k].event = "unresolved" => Reports(ResolvedColumns(h[k], "unresolved"), h)
           /\ \A seen \in Row :
                 (h[k].event = "settled" /\ Truthful(seen, h))
                     => Reports(SettledColumns(h[k], seen), h)
<1> DEFINE e == h[k]
           t == TrueRow(h)
<1>1. /\ e.by \in Parties /\ e.at \in Blocks
      /\ e.by # Null /\ e.at # Null
      /\ Happened(h, e.event)
  BY RowAssumption, Places, PrintsSay DEF Happened
<1>2. k \in 1..3 /\ k \in 1..Len(h) /\ Len(h) \in 1..3
  BY Places DEF Life
<1>3. CASE e.event = "asserted"
  <2>1. t.asserter = e.by /\ t.assertedAt = e.at
    BY <1>3, Places, TrueColumns
  <2> HIDE DEF e, t
  <2>2. Reports(AssertedColumns(e), h)
    BY <1>1, <2>1 DEF Reports, AssertedColumns, Columns, Fits, t
  <2>3. QED
    BY <1>3, <2>2 DEF e
<1>4. CASE e.event = "disputed"
  <2>1. t.disputer = e.by /\ t.disputedAt = e.at
    BY <1>4, Places, TrueColumns
  <2> HIDE DEF e, t
  <2>2. Reports(DisputedColumns(e), h)
    BY <1>1, <1>4, <2>1 DEF Reports, DisputedColumns, Columns, Fits, Status, t
  <2>3. QED
    BY <1>4, <2>2 DEF e
<1>5. CASE e.event \in {"rejected", "unresolved"}
  <2>1. k = Len(h) /\ Len(h) = 3
    BY <1>2, <1>5, Places DEF Life, TerminalStatus
  <2>2. t.resolver = e.by /\ t.resolvedAt = e.at
    BY <2>1, TrueColumns
  <2> HIDE DEF e, t
  <2>3. Reports(ResolvedColumns(e, e.event), h)
    BY <1>1, <1>5, <2>2 DEF Reports, ResolvedColumns, Columns, Fits, Status, t
  <2>4. QED
    BY <1>5, <2>3 DEF e
<1>6. ASSUME NEW seen \in Row, e.event = "settled", Truthful(seen, h)
      PROVE  Reports(SettledColumns(e, seen), h)
  <2>1. k = Len(h) /\ SettledLast(h)
    BY <1>2, <1>6, Places DEF TerminalStatus, SettledLast
  <2>2. t.settler = e.by /\ t.settledAt = e.at
    BY <2>1, TrueColumns
  <2>3. ASSUME Resolves(seen) PROVE t.resolver = e.by /\ t.resolvedAt = e.at
    <3>1. Disputed(h)
      BY <1>6, <2>3, TruthfulRow, WhatHappened DEF Resolves
    <3>2. Len(h) = 3
      BY <1>2, <1>6, <2>1, <3>1 DEF Disputed
    <3>3. QED
      BY <2>1, <3>2, TrueColumns
  <2> HIDE DEF e, t
  <2>4. CASE Resolves(seen)
    BY <1>1, <1>6, <2>2, <2>3, <2>4 DEF Reports, SettledColumns, Columns, Fits, Status, t
  <2>5. CASE ~ Resolves(seen)
    BY <1>1, <1>6, <2>2, <2>5 DEF Reports, SettledColumns, Columns, Fits, Status, t
  <2>6. QED
    BY <2>4, <2>5
<1>7. QED
  BY <1>3, <1>4, <1>5, <1>6

-----------------------------------------------------------------------------
(* The next event of an assertion *)

MayFollow(h, e) ==
    \/ Len(h) = 1 /\ e.event \in {"disputed", "settled"}
    \/ Len(h) = 2 /\ h[2].event = "disputed" /\ e.event \in TerminalStatus

\* One more event makes a longer life.
LEMMA LifeGoesOn ==
    ASSUME NEW h, Life(h), NEW e \in Prints, MayFollow(h, e)
    PROVE  /\ Life(Append(h, e))
           /\ Len(Append(h, e)) = Len(h) + 1
           /\ \A k \in 1..Len(h) : Append(h, e)[k] = h[k]
           /\ Append(h, e)[Len(h) + 1] = e
<1> DEFINE g == Append(h, e)
<1>1. /\ Len(h) \in 1..3 /\ h \in Seq(Prints)
      /\ g \in Seq(Prints) /\ Len(g) = Len(h) + 1
      /\ \A k \in 1..Len(h) : g[k] = h[k]
      /\ g[Len(h) + 1] = e
  BY DEF Life
<1> HIDE DEF g
<1>2. CASE Len(h) = 1
  <2>1. Len(g) = 2 /\ g[1] = h[1] /\ g[2] = e
    BY <1>1, <1>2
  <2>2. h[1].event = "asserted" /\ e.event \in {"disputed", "settled"}
    BY <1>2 DEF Life, MayFollow
  <2>3. Life(g)
    BY <1>1, <2>1, <2>2 DEF Life
  <2>4. QED
    BY <1>1, <2>3 DEF g
<1>3. CASE Len(h) = 2
  <2>1. Len(g) = 3 /\ g[1] = h[1] /\ g[2] = h[2] /\ g[3] = e
    BY <1>1, <1>3
  <2>2. h[1].event = "asserted" /\ h[2].event = "disputed" /\ e.event \in TerminalStatus
    BY <1>3 DEF Life, MayFollow
  <2>3. Life(g)
    BY <1>1, <2>1, <2>2 DEF Life
  <2>4. QED
    BY <1>1, <2>3 DEF g
<1>4. QED
  BY <1>1, <1>2, <1>3 DEF MayFollow, g

\* What was true of an assertion stays true of it.
LEMMA TruthStays ==
    ASSUME NEW h, Life(h), NEW e \in Prints, MayFollow(h, e),
           NEW row \in Row, Truthful(row, h)
    PROVE  Truthful(row, Append(h, e))
<1> DEFINE g == Append(h, e)
<1>1. /\ Life(g) /\ Len(g) = Len(h) + 1 /\ Len(h) \in {1, 2}
      /\ \A k \in 1..Len(h) : g[k] = h[k]
  BY LifeGoesOn DEF MayFollow
<1> HIDE DEF g
<1>2. \A name : Happened(h, name) => Happened(g, name)
  <2>1. DOMAIN h = 1..Len(h) /\ DOMAIN g = 1..Len(g)
    BY <1>1 DEF Life
  <2>2. QED
    BY <1>1, <2>1 DEF Happened
<1>3. Disputed(h) => Disputed(g) /\ g[2] = h[2]
  BY <1>1 DEF Disputed
<1>4. ~ SettledLast(h) /\ Len(h) # 3
  <2>1. CASE Len(h) = 1
    BY <2>1 DEF SettledLast
  <2>2. CASE Len(h) = 2
    <3>1. h[Len(h)].event = "disputed"
      BY <2>2 DEF MayFollow
    <3>2. QED
      BY <2>2, <3>1 DEF SettledLast
  <2>3. QED
    BY <1>1, <2>1, <2>2
<1>5. g[1] = h[1]
  BY <1>1
<1>6. \A c \in Columns \ {"status"} : TrueRow(h)[c] \in {Null, TrueRow(g)[c]}
  BY <1>1, <1>3, <1>4, <1>5, TrueColumns DEF Columns
<1>7. /\ \A c \in Columns \ {"status"} : row[c] \in {Null, TrueRow(h)[c]}
      /\ row.status = "open" \/ Happened(h, row.status)
      /\ row.status = "open" <=>
            row.disputer = Null /\ row.settler = Null /\ row.resolver = Null
      /\ row.status = "disputed" => row.disputer # Null
      /\ row.status = "settled" => row.settler # Null
      /\ row.status \in {"rejected", "unresolved"} => row.resolver # Null
  BY TruthfulRow
<1>8. Truthful(row, g)
  BY <1>2, <1>6, <1>7, TruthfulRow
<1>9. QED
  BY <1>8 DEF g

-----------------------------------------------------------------------------
(* Tables *)

\* The rows of a table invent nothing about the assertions of a feed.
TableTruthful(t, feed) ==
    /\ t \in [DOMAIN t -> Row]
    /\ \A id \in DOMAIN t : id \in DOMAIN feed /\ Truthful(t[id], feed[id])

TableKeeps(t, u) ==
    /\ DOMAIN t \subseteq DOMAIN u
    /\ \A id \in DOMAIN t : Keeps(t[id], u[id])

LivesIn(feed) == \A id \in DOMAIN feed : Life(feed[id])

\* An UPDATE that reports what happened.
LEMMA UpdateKeepsTable ==
    ASSUME NEW t, NEW feed, TableTruthful(t, feed), NEW id, NEW columns,
           id \in DOMAIN t => Reports(columns, feed[id])
    PROVE  TableTruthful(Update(t, id, columns), feed) /\ TableKeeps(t, Update(t, id, columns))
<1> DEFINE u == Update(t, id, columns)
<1>1. /\ u = [i \in DOMAIN t |-> IF i = id THEN Replaced(t[i], columns) ELSE t[i]]
      /\ DOMAIN u = DOMAIN t
      /\ \A i \in DOMAIN t : u[i] = IF i = id THEN Replaced(t[i], columns) ELSE t[i]
  BY DEF Update
<1> HIDE DEF u
<1>2. ASSUME NEW i \in DOMAIN t
      PROVE  /\ i \in DOMAIN feed
             /\ u[i] \in Row /\ Truthful(u[i], feed[i]) /\ Keeps(t[i], u[i])
  <2>1. i \in DOMAIN feed /\ t[i] \in Row /\ Truthful(t[i], feed[i])
    BY DEF TableTruthful
  <2>2. CASE i = id
    <3>1. Reports(columns, feed[i])
      BY <2>2
    <3>2. /\ Replaced(t[i], columns) \in Row
          /\ Truthful(Replaced(t[i], columns), feed[i])
          /\ Keeps(t[i], Replaced(t[i], columns))
      BY <2>1, <3>1, ReportKeepsTruth
    <3>3. u[i] = Replaced(t[i], columns)
      BY <1>1, <2>2
    <3>4. QED
      BY <2>1, <3>2, <3>3
  <2>3. CASE i # id
    BY <1>1, <2>1, <2>3 DEF Keeps
  <2>4. QED
    BY <2>1, <2>2, <2>3
<1>3. u \in [DOMAIN u -> Row]
  BY <1>1, <1>2
<1>4. QED
  BY <1>1, <1>2, <1>3 DEF TableTruthful, TableKeeps, u

\* asserted: an insert, or an update of the assertion's own columns.
LEMMA InsertKeepsTable ==
    ASSUME NEW t, NEW feed, TableTruthful(t, feed), NEW id \in DOMAIN feed, Life(feed[id])
    PROVE  /\ TableTruthful(OnAsserted(t, id, feed[id][1]), feed)
           /\ TableKeeps(t, OnAsserted(t, id, feed[id][1]))
<1> DEFINE e == feed[id][1]
           u == [i \in DOMAIN t \cup {id} |-> IF i = id THEN InsertedRow(e) ELSE t[i]]
<1>1. CASE id \in DOMAIN t
  <2>1. 1 \in DOMAIN feed[id] /\ e.event = "asserted"
    BY DEF Life
  <2>2. Reports([asserter |-> e.by, assertedAt |-> e.at], feed[id])
    BY <2>1, StatementsReport DEF AssertedColumns
  <2>3. QED
    BY <1>1, <2>2, UpdateKeepsTable DEF OnAsserted
<1>2. CASE id \notin DOMAIN t
  <2>1. OnAsserted(t, id, e) = u
    BY <1>2 DEF OnAsserted
  <2>2. InsertedRow(e) \in Row /\ Truthful(InsertedRow(e), feed[id])
    BY InsertIsTruthful
  <2> HIDE DEF e
  <2>3. DOMAIN u = DOMAIN t \cup {id} /\ u[id] = InsertedRow(e)
        /\ \A i \in DOMAIN t : u[i] = t[i]
    BY <1>2
  <2>4. u \in [DOMAIN u -> Row]
    BY <2>2 DEF TableTruthful
  <2> HIDE DEF u
  <2>5. TableTruthful(u, feed)
    BY <2>2, <2>3, <2>4 DEF TableTruthful
  <2>6. TableKeeps(t, u)
    BY <2>3 DEF TableKeeps, Keeps
  <2>7. QED
    BY <2>1, <2>5, <2>6 DEF e
<1>3. QED
  BY <1>1, <1>2

\* What the handler of an event does to a table.
Handled(t, id, e, seen) ==
    CASE e.event = "asserted"   -> OnAsserted(t, id, e)
      [] e.event = "disputed"   -> OnDisputed(t, id, e)
      [] e.event = "settled"    -> OnSettled(t, id, e, seen)
      [] e.event = "rejected"   -> OnRejected(t, id, e)
      [] e.event = "unresolved" -> OnUnresolved(t, id, e)

\* Whichever event of an assertion is handled, in whatever order: nothing is
\* invented and nothing lost, if the settled handler has read a truthful row.
LEMMA HandlersKeepTable ==
    ASSUME NEW t, NEW feed, TableTruthful(t, feed), LivesIn(feed),
           NEW id \in DOMAIN feed, NEW k \in DOMAIN feed[id], NEW seen,
           feed[id][k].event = "settled" => seen \in Row /\ Truthful(seen, feed[id])
    PROVE  /\ TableTruthful(Handled(t, id, feed[id][k], seen), feed)
           /\ TableKeeps(t, Handled(t, id, feed[id][k], seen))
<1> DEFINE e == feed[id][k]
<1>1. Life(feed[id])
  BY DEF LivesIn
<1>2. CASE e.event = "asserted"
  <2>1. k = 1
    BY <1>1, <1>2, Places
  <2>2. Handled(t, id, e, seen) = OnAsserted(t, id, e)
    BY <1>2 DEF Handled
  <2>3. QED
    BY <1>1, <2>1, <2>2, InsertKeepsTable
<1>3. CASE e.event = "disputed"
  <2>1. Reports(DisputedColumns(e), feed[id])
    BY <1>1, <1>3, StatementsReport
  <2>2. Handled(t, id, e, seen) = Update(t, id, DisputedColumns(e))
    BY <1>3 DEF Handled, OnDisputed, DisputedColumns
  <2>3. QED
    BY <2>1, <2>2, UpdateKeepsTable
<1>4. CASE e.event = "settled"
  <2>1. Reports(SettledColumns(e, seen), feed[id])
    BY <1>1, <1>4, StatementsReport
  <2>2. Handled(t, id, e, seen) = Update(t, id, SettledColumns(e, seen))
    BY <1>4 DEF Handled, OnSettled, SettledColumns
  <2>3. QED
    BY <2>1, <2>2, UpdateKeepsTable
<1>5. CASE e.event = "rejected"
  <2>1. Reports(ResolvedColumns(e, "rejected"), feed[id])
    BY <1>1, <1>5, StatementsReport
  <2>2. Handled(t, id, e, seen) = Update(t, id, ResolvedColumns(e, "rejected"))
    BY <1>5 DEF Handled, OnRejected, ResolvedColumns
  <2>3. QED
    BY <2>1, <2>2, UpdateKeepsTable
<1>6. CASE e.event = "unresolved"
  <2>1. Reports(ResolvedColumns(e, "unresolved"), feed[id])
    BY <1>1, <1>6, StatementsReport
  <2>2. Handled(t, id, e, seen) = Update(t, id, ResolvedColumns(e, "unresolved"))
    BY <1>6 DEF Handled, OnUnresolved, ResolvedColumns
  <2>3. QED
    BY <2>1, <2>2, UpdateKeepsTable
<1>7. e.event \in {"asserted", "disputed", "settled", "rejected", "unresolved"}
  <2>1. e \in Prints
    BY <1>1, Places
  <2>2. QED
    BY <2>1 DEF Prints
<1>8. QED
  BY <1>2, <1>3, <1>4, <1>5, <1>6, <1>7

-----------------------------------------------------------------------------
(* Feeds *)

\* Each assertion has had the same events, or one more.
Grows(f, g) ==
    /\ DOMAIN f \subseteq DOMAIN g
    /\ \A id \in DOMAIN f :
          g[id] = f[id] \/ \E e \in Prints : MayFollow(f[id], e) /\ g[id] = Append(f[id], e)

\* An assertion is made.
LEMMA Started ==
    ASSUME NEW f, LivesIn(f), NEW id, id \notin DOMAIN f,
           NEW e \in Prints, e.event = "asserted", NEW g,
           g = [i \in DOMAIN f \cup {id} |-> IF i = id THEN <<e>> ELSE f[i]]
    PROVE  LivesIn(g) /\ Grows(f, g)
<1>1. /\ DOMAIN g = DOMAIN f \cup {id} /\ g[id] = <<e>>
      /\ \A i \in DOMAIN f : g[i] = f[i]
  OBVIOUS
<1>2. Life(<<e>>)
  BY DEF Life
<1>3. QED
  BY <1>1, <1>2 DEF LivesIn, Grows

\* An assertion goes on, with an event that its last one allows.
LEMMA Continued ==
    ASSUME NEW f, LivesIn(f), NEW id \in DOMAIN f, NEW e \in Prints, NEW g,
           \/ /\ f[id][Len(f[id])].event = "asserted"
              /\ e.event \in {"disputed", "settled"}
           \/ /\ f[id][Len(f[id])].event = "disputed"
              /\ e.event \in TerminalStatus,
           g = [f EXCEPT ![id] = Append(@, e)]
    PROVE  LivesIn(g) /\ Grows(f, g)
<1> DEFINE h == f[id]
<1>1. Life(h)
  BY DEF LivesIn
<1>2. /\ DOMAIN g = DOMAIN f /\ g[id] = Append(h, e)
      /\ \A i \in DOMAIN f : i # id => g[i] = f[i]
  OBVIOUS
<1>3. MayFollow(h, e)
  <2>1. Len(h) \in 1..3 /\ Len(h) \in DOMAIN h
    BY <1>1 DEF Life
  <2>2. CASE h[Len(h)].event = "asserted"
    BY <1>1, <2>1, <2>2, Places DEF MayFollow, TerminalStatus
  <2>3. CASE h[Len(h)].event = "disputed"
    BY <1>1, <2>1, <2>3, Places DEF MayFollow, TerminalStatus
  <2>4. QED
    BY <2>2, <2>3
<1>4. Life(Append(h, e))
  BY <1>1, <1>3, LifeGoesOn
<1>5. QED
  BY <1>2, <1>3, <1>4 DEF LivesIn, Grows

\* What was printed stays printed, and what was true stays true.
LEMMA GrowthKeeps ==
    ASSUME NEW f, NEW g, LivesIn(f), Grows(f, g), NEW id \in DOMAIN f
    PROVE  /\ id \in DOMAIN g
           /\ \A k \in DOMAIN f[id] : k \in DOMAIN g[id] /\ g[id][k] = f[id][k]
           /\ \A row \in Row : Truthful(row, f[id]) => Truthful(row, g[id])
<1>1. id \in DOMAIN g /\ Life(f[id])
  BY DEF Grows, LivesIn
<1>2. CASE g[id] = f[id]
  BY <1>1, <1>2
<1>3. ASSUME NEW e \in Prints, MayFollow(f[id], e), g[id] = Append(f[id], e)
      PROVE  /\ \A k \in DOMAIN f[id] : k \in DOMAIN g[id] /\ g[id][k] = f[id][k]
             /\ \A row \in Row : Truthful(row, f[id]) => Truthful(row, g[id])
  <2>1. /\ Life(g[id]) /\ Len(g[id]) = Len(f[id]) + 1
        /\ \A k \in 1..Len(f[id]) : g[id][k] = f[id][k]
    BY <1>1, <1>3, LifeGoesOn
  <2>2. DOMAIN f[id] = 1..Len(f[id]) /\ DOMAIN g[id] = 1..Len(g[id]) /\ Len(f[id]) \in 1..3
    BY <1>1, <2>1 DEF Life
  <2>3. \A k \in DOMAIN f[id] : k \in DOMAIN g[id] /\ g[id][k] = f[id][k]
    BY <2>1, <2>2
  <2>4. QED
    BY <1>1, <1>3, <2>3, TruthStays
<1>4. QED
  BY <1>1, <1>2, <1>3 DEF Grows

\* A table that invents nothing goes on doing so.
LEMMA GrowthKeepsTable ==
    ASSUME NEW f, NEW g, LivesIn(f), Grows(f, g), NEW t, TableTruthful(t, f)
    PROVE  TableTruthful(t, g)
  BY GrowthKeeps DEF TableTruthful

-----------------------------------------------------------------------------
(* Events in order *)

\* The first n events of a life.
LEMMA FirstEvents ==
    ASSUME NEW h, Life(h), NEW n \in DOMAIN h
    PROVE  /\ Life(SubSeq(h, 1, n)) /\ Len(SubSeq(h, 1, n)) = n /\ n \in 1..3
           /\ \A k \in 1..n : SubSeq(h, 1, n)[k] = h[k]
<1> DEFINE g == SubSeq(h, 1, n)
<1>1. n \in 1..Len(h) /\ Len(h) \in 1..3 /\ h \in Seq(Prints)
  BY DEF Life
<1>2. g \in Seq(Prints) /\ Len(g) = n /\ \A k \in 1..n : g[k] = h[k]
  BY <1>1
<1> HIDE DEF g
<1>3. Life(g)
  <2>1. g[1] = h[1] /\ (n > 1 => g[2] = h[2]) /\ (n > 2 => g[3] = h[3])
    BY <1>1, <1>2
  <2>2. QED
    BY <1>1, <1>2, <2>1 DEF Life
<1>4. QED
  BY <1>1, <1>2, <1>3 DEF g

\* Rows that agree on every column are the same.
LEMMA SameRow ==
    ASSUME NEW r \in Row, NEW q \in Row, \A c \in Columns : r[c] = q[c]
    PROVE  r = q
<1>1. r = [c \in Columns |-> r[c]] /\ q = [c \in Columns |-> q[c]]
  BY RowColumns
<1>2. [c \in Columns |-> r[c]] = [c \in Columns |-> q[c]]
  OBVIOUS
<1>3. QED
  BY <1>1, <1>2

\* The row that is inserted is all there is to tell of a new assertion.
LEMMA FirstRow ==
    ASSUME NEW h, Life(h)
    PROVE  InsertedRow(h[1]) = TrueRow(SubSeq(h, 1, 1))
<1> DEFINE g == SubSeq(h, 1, 1)
           new == InsertedRow(h[1])
<1>1. 1 \in DOMAIN h
  BY DEF Life
<1>2. Life(g) /\ Len(g) = 1 /\ g[1] = h[1]
  BY <1>1, FirstEvents
<1>3. new \in Row
  BY InsertIsTruthful
<1>4. /\ new.asserter = h[1].by /\ new.assertedAt = h[1].at
      /\ new.disputer = Null /\ new.disputedAt = Null
      /\ new.settler = Null /\ new.settledAt = Null
      /\ new.resolver = Null /\ new.resolvedAt = Null
      /\ new.status = "open"
  BY DEF InsertedRow
<1> HIDE DEF g, new
<1>5. ~ Disputed(g) /\ ~ SettledLast(g)
  BY <1>2 DEF Disputed, SettledLast
<1>6. \A c \in Columns : new[c] = TrueRow(g)[c]
  BY <1>2, <1>4, <1>5, TrueColumns DEF Columns
<1>7. new = TrueRow(g)
  BY <1>2, <1>3, <1>6, SameRow, TrueColumns
<1>8. QED
  BY <1>7 DEF g, new

\* A statement for the event that comes next takes an exact row to an exact row.
LEMMA NextRow ==
    ASSUME NEW h, Life(h), NEW k \in DOMAIN h, k > 1
    PROVE  LET old == TrueRow(SubSeq(h, 1, k - 1))
               new == TrueRow(SubSeq(h, 1, k))
               e   == h[k]
           IN  /\ old \in Row
               /\ e.event = "disputed" => Replaced(old, DisputedColumns(e)) = new
               /\ e.event = "settled" => Replaced(old, SettledColumns(e, old)) = new
               /\ e.event \in {"rejected", "unresolved"} =>
                     Replaced(old, ResolvedColumns(e, e.event)) = new
<1> DEFINE p == SubSeq(h, 1, k - 1)
           g == SubSeq(h, 1, k)
           old == TrueRow(p)
           new == TrueRow(g)
           e == h[k]
<1>1. /\ k \in {2, 3} /\ k - 1 \in DOMAIN h /\ k - 1 \in 1..2 /\ Len(h) \in 1..3
      /\ DOMAIN h = 1..Len(h)
  BY DEF Life
<1>2. Life(p) /\ Len(p) = k - 1 /\ \A j \in 1..(k - 1) : p[j] = h[j]
  BY <1>1, FirstEvents
<1>3. Life(g) /\ Len(g) = k /\ \A j \in 1..k : g[j] = h[j]
  BY <1>1, FirstEvents
<1>4. old \in Row /\ new \in Row
  BY <1>2, <1>3, TrueColumns
<1>5. e.by \in Parties /\ e.at \in Blocks
  BY PrintsSay, <1>1
<1>6. p[1] = h[1] /\ g[1] = h[1] /\ g[2] = h[2] /\ g[k] = e /\ (k = 3 => p[2] = h[2])
  BY <1>1, <1>2, <1>3
<1>7. k = 3 => h[2].event = "disputed" /\ e.event \in TerminalStatus
  BY <1>1 DEF Life
<1>8. k = 2 => e.event \in {"disputed", "settled"}
  BY <1>1 DEF Life
<1> HIDE DEF p, g, e
<1>9. /\ Disputed(p) <=> k = 3
      /\ ~ SettledLast(p)
      /\ Disputed(g) <=> (k = 3 \/ e.event = "disputed")
      /\ SettledLast(g) <=> e.event = "settled"
  <2>1. CASE k = 2
    BY <1>2, <1>3, <1>6, <2>1 DEF Disputed, SettledLast
  <2>2. CASE k = 3
    BY <1>2, <1>3, <1>6, <1>7, <2>2 DEF Disputed, SettledLast, TerminalStatus
  <2>3. QED
    BY <1>1, <2>1, <2>2
<1>10. /\ old.asserter = h[1].by /\ old.assertedAt = h[1].at
       /\ old.disputer = IF k = 3 THEN h[2].by ELSE Null
       /\ old.disputedAt = IF k = 3 THEN h[2].at ELSE Null
       /\ old.settler = Null /\ old.settledAt = Null
       /\ old.resolver = Null /\ old.resolvedAt = Null
       /\ old.status = IF k = 3 THEN "disputed" ELSE "open"
  <2>1. /\ old.asserter = p[1].by /\ old.assertedAt = p[1].at
        /\ old.disputer = IF Disputed(p) THEN p[2].by ELSE Null
        /\ old.disputedAt = IF Disputed(p) THEN p[2].at ELSE Null
        /\ old.settler = Null /\ old.settledAt = Null
        /\ old.resolver = Null /\ old.resolvedAt = Null
        /\ old.status = IF Len(p) = 1 THEN "open" ELSE p[Len(p)].event
    <3>1. Len(p) # 3
      BY <1>1, <1>2
    <3>2. QED
      BY <1>2, <1>9, <3>1, TrueColumns
  <2> HIDE DEF old
  <2>2. CASE k = 2
    BY <1>2, <1>6, <1>9, <2>1, <2>2
  <2>3. CASE k = 3
    BY <1>2, <1>6, <1>7, <1>9, <2>1, <2>3
  <2>4. QED
    BY <1>1, <2>2, <2>3
<1>11. /\ new.asserter = h[1].by /\ new.assertedAt = h[1].at
       /\ new.disputer = IF k = 3 \/ e.event = "disputed" THEN h[2].by ELSE Null
       /\ new.disputedAt = IF k = 3 \/ e.event = "disputed" THEN h[2].at ELSE Null
       /\ new.settler = IF e.event = "settled" THEN e.by ELSE Null
       /\ new.settledAt = IF e.event = "settled" THEN e.at ELSE Null
       /\ new.resolver = IF k = 3 THEN e.by ELSE Null
       /\ new.resolvedAt = IF k = 3 THEN e.at ELSE Null
       /\ new.status = e.event
  <2>1. /\ new.asserter = g[1].by /\ new.assertedAt = g[1].at
        /\ new.disputer = IF Disputed(g) THEN g[2].by ELSE Null
        /\ new.disputedAt = IF Disputed(g) THEN g[2].at ELSE Null
        /\ new.settler = IF SettledLast(g) THEN g[k].by ELSE Null
        /\ new.settledAt = IF SettledLast(g) THEN g[k].at ELSE Null
        /\ new.resolver = IF k = 3 THEN g[3].by ELSE Null
        /\ new.resolvedAt = IF k = 3 THEN g[3].at ELSE Null
        /\ new.status = g[k].event
    <3>1. Life(g) /\ Len(g) = k /\ k # 1
      BY <1>1, <1>3
    <3>2. /\ new.asserter = g[1].by /\ new.assertedAt = g[1].at
          /\ new.disputer = IF Disputed(g) THEN g[2].by ELSE Null
          /\ new.disputedAt = IF Disputed(g) THEN g[2].at ELSE Null
          /\ new.settler = IF SettledLast(g) THEN g[Len(g)].by ELSE Null
          /\ new.settledAt = IF SettledLast(g) THEN g[Len(g)].at ELSE Null
      BY <3>1, TrueColumns
    <3>3. /\ new.resolver = IF Len(g) = 3 THEN g[3].by ELSE Null
          /\ new.resolvedAt = IF Len(g) = 3 THEN g[3].at ELSE Null
          /\ new.status = IF Len(g) = 1 THEN "open" ELSE g[Len(g)].event
      BY <3>1, TrueColumns
    <3> HIDE DEF new
    <3>4. QED
      BY <3>1, <3>2, <3>3
  <2> HIDE DEF new
  <2>2. CASE k = 2
    BY <1>6, <1>9, <2>1, <2>2
  <2>3. CASE k = 3
    BY <1>6, <1>9, <2>1, <2>3
  <2>4. QED
    BY <1>1, <2>2, <2>3
<1> HIDE DEF old, new
<1>12. ASSUME e.event = "disputed" PROVE Replaced(old, DisputedColumns(e)) = new
  <2>1. k = 2 /\ h[2] = e
    BY <1>1, <1>7, <1>12 DEF TerminalStatus, e
  <2>2. /\ DOMAIN DisputedColumns(e) \subseteq Columns
        /\ \A c \in DOMAIN DisputedColumns(e) : Fits(c, DisputedColumns(e)[c])
    BY <1>5 DEF DisputedColumns, Columns, Fits, Status
  <2>3. Replaced(old, DisputedColumns(e)) \in Row
    BY <1>4, <2>2, ReplacedColumns
  <2>4. \A c \in Columns : Replaced(old, DisputedColumns(e))[c] = new[c]
    BY <1>4, <1>10, <1>11, <1>12, <2>1, <2>2, ReplacedColumns DEF DisputedColumns, Columns
  <2>5. QED
    BY <1>4, <2>3, <2>4, SameRow
<1>13. ASSUME e.event \in {"rejected", "unresolved"}
       PROVE  Replaced(old, ResolvedColumns(e, e.event)) = new
  <2> DEFINE columns == ResolvedColumns(e, e.event)
  <2>1. k = 3
    BY <1>1, <1>8, <1>13
  <2>2. DOMAIN columns \subseteq Columns /\ \A c \in DOMAIN columns : Fits(c, columns[c])
    BY <1>5, <1>13 DEF ResolvedColumns, Columns, Fits, Status
  <2>3. Replaced(old, columns) \in Row
    BY <1>4, <2>2, ReplacedColumns
  <2>4. \A c \in Columns : Replaced(old, columns)[c] = new[c]
    BY <1>4, <1>10, <1>11, <1>13, <2>1, <2>2, ReplacedColumns DEF ResolvedColumns, Columns
  <2>5. QED
    BY <1>4, <2>3, <2>4, SameRow
<1>14. ASSUME e.event = "settled" PROVE Replaced(old, SettledColumns(e, old)) = new
  <2> DEFINE columns == SettledColumns(e, old)
  <2>1. Resolves(old) <=> k = 3
    BY <1>10 DEF Resolves
  <2>2. DOMAIN columns \subseteq Columns /\ \A c \in DOMAIN columns : Fits(c, columns[c])
    BY <1>5, <1>14 DEF SettledColumns, Columns, Fits, Status
  <2>3. Replaced(old, columns) \in Row
    BY <1>4, <2>2, ReplacedColumns
  <2>4. \A c \in Columns : Replaced(old, columns)[c] = new[c]
    <3>1. CASE k = 2
      BY <1>4, <1>10, <1>11, <1>14, <2>1, <2>2, <3>1, ReplacedColumns
      DEF SettledColumns, Columns
    <3>2. CASE k = 3
      BY <1>4, <1>10, <1>11, <1>14, <2>1, <2>2, <3>2, ReplacedColumns
      DEF SettledColumns, Columns
    <3>3. QED
      BY <1>1, <3>1, <3>2
  <2>5. QED
    BY <1>4, <2>3, <2>4, SameRow
<1>15. QED
  BY <1>4, <1>12, <1>13, <1>14 DEF old, new, p, g, e

\* The table has taken in exactly the first n events of a life.
Exact(t, id, h, n) ==
    IF n = 0 THEN id \notin DOMAIN t
    ELSE id \in DOMAIN t /\ t[id] = TrueRow(SubSeq(h, 1, n))

\* What the settled handler read is what the table holds.
Fresh(t, id, e, seen) == e.event = "settled" => seen = t[id]

\* An event handled when its assertion's row is exact up to the one before.
LEMMA HandledInOrder ==
    ASSUME NEW t, NEW id, NEW h, Life(h), NEW k \in DOMAIN h, NEW seen,
           Exact(t, id, h, k - 1), Fresh(t, id, h[k], seen)
    PROVE  Exact(Handled(t, id, h[k], seen), id, h, k)
<1> DEFINE e == h[k]
<1>1. k \in 1..3 /\ e \in Prints
  BY Places
<1>2. SUFFICES /\ id \in DOMAIN Handled(t, id, h[k], seen)
               /\ Handled(t, id, h[k], seen)[id] = TrueRow(SubSeq(h, 1, k))
  BY <1>1 DEF Exact
<1>3. /\ k = 1 => id \notin DOMAIN t
      /\ k > 1 => id \in DOMAIN t /\ t[id] = TrueRow(SubSeq(h, 1, k - 1))
  BY <1>1 DEF Exact
<1>4. e.event = "settled" => seen = t[id]
  BY DEF Fresh
<1>5. CASE k = 1
  <2>1. Handled(t, id, e, seen) = OnAsserted(t, id, e)
    BY <1>5 DEF Handled, Life
  <2>2. OnAsserted(t, id, e)
           = [i \in DOMAIN t \cup {id} |-> IF i = id THEN InsertedRow(e) ELSE t[i]]
    BY <1>5, <1>3 DEF OnAsserted
  <2>3. InsertedRow(e) = TrueRow(SubSeq(h, 1, k))
    BY <1>5, FirstRow
  <2> HIDE DEF e
  <2>4. /\ id \in DOMAIN OnAsserted(t, id, e)
        /\ OnAsserted(t, id, e)[id] = InsertedRow(e)
    BY <2>2
  <2>5. QED
    BY <2>1, <2>3, <2>4 DEF e
<1>6. CASE k > 1
  <2>1. \A columns : /\ id \in DOMAIN Update(t, id, columns)
                     /\ Update(t, id, columns)[id] = Replaced(t[id], columns)
    BY <1>6, <1>3 DEF Update
  <2>2. CASE e.event = "disputed"
    <3>1. Handled(t, id, e, seen) = Update(t, id, DisputedColumns(e))
      BY <2>2 DEF Handled, OnDisputed, DisputedColumns
    <3>2. Replaced(t[id], DisputedColumns(e)) = TrueRow(SubSeq(h, 1, k))
      BY <1>6, <1>3, <2>2, NextRow
    <3>3. QED
      BY <2>1, <3>1, <3>2
  <2>3. CASE e.event = "settled"
    <3>1. Handled(t, id, e, seen) = Update(t, id, SettledColumns(e, seen))
      BY <2>3 DEF Handled, OnSettled, SettledColumns
    <3>2. Replaced(t[id], SettledColumns(e, t[id])) = TrueRow(SubSeq(h, 1, k))
      BY <1>6, <1>3, <2>3, NextRow
    <3>3. QED
      BY <1>4, <2>1, <2>3, <3>1, <3>2
  <2>4. CASE e.event \in {"rejected", "unresolved"}
    <3>1. Handled(t, id, e, seen) = Update(t, id, ResolvedColumns(e, e.event))
      BY <2>4 DEF Handled, OnRejected, OnUnresolved, ResolvedColumns
    <3>2. Replaced(t[id], ResolvedColumns(e, e.event)) = TrueRow(SubSeq(h, 1, k))
      BY <1>6, <1>3, <2>4, NextRow
    <3>3. QED
      BY <2>1, <3>1, <3>2
  <2>5. e.event \in {"asserted", "disputed", "settled", "rejected", "unresolved"}
    BY <1>1 DEF Prints
  <2>6. QED
    BY <1>6, <2>2, <2>3, <2>4, <2>5, Places
<1>7. QED
  BY <1>1, <1>5, <1>6

=============================================================================
