---------------------------- MODULE CooAppProofs ----------------------------
(***************************************************************************)
(* What the page's list promises, for any number of assertions, parties    *)
(* and blocks: whatever loads and events overlap, repeat, are overtaken or *)
(* lost while the contract goes on, it lists no assertion twice, invents   *)
(* nothing about it and unlearns nothing.                                  *)
(***************************************************************************)
EXTENDS CooApp, CooPromisesProofs, WellFoundedInduction

Table == INSTANCE AssertionRowsProofs WITH
    Parties <- Principals, Blocks <- Nat, Null <- None

-----------------------------------------------------------------------------
(* The contract's events, as the table's lemmas have them *)

\* None is no party and no block, as the lemmas about rows require of it.
LEMMA NoneIsNull == None \notin Principals \cup Nat
  BY PrincipalAssumption

\* The events of an assertion make a life in the table's terms as well.
LEMMA ToldLife ==
    ASSUME NEW h, Life(h)
    PROVE  /\ Table!Life(Told(h)) /\ DOMAIN Told(h) = DOMAIN h
           /\ DOMAIN h = 1..Len(h) /\ 1 \in DOMAIN h
           /\ \A k \in DOMAIN h : /\ Told(h)[k].event = h[k].event
                                  /\ Told(h)[k].by = h[k].by
                                  /\ Told(h)[k].at = h[k].at
<1>1. /\ h \in Seq(Prints) /\ Len(h) \in 1..3 /\ h[1] \in AssertedPrints
      /\ Len(h) > 1 => h[2].event \in {"disputed", "settled"}
      /\ Len(h) > 2 => h[2].event = "disputed" /\ h[3].event \in Outcome
  BY DEF Life
<1>2. /\ Told(h) \in Seq(Entries) /\ Len(Told(h)) = Len(h)
      /\ \A k \in 1..Len(h) : Told(h)[k] = Event(h[k].event, h[k].by, h[k].at)
  BY <1>1, ToldShape
<1>3. DOMAIN h = 1..Len(h) /\ DOMAIN Told(h) = 1..Len(h) /\ 1 \in 1..Len(h)
  BY <1>1, <1>2
<1>4. ASSUME NEW k \in 1..Len(h)
      PROVE  /\ Told(h)[k].event = h[k].event
             /\ Told(h)[k].by = h[k].by
             /\ Told(h)[k].at = h[k].at
  <2>1. Told(h)[k] = Event(h[k].event, h[k].by, h[k].at)
    BY <1>2
  <2>2. QED
    BY <2>1 DEF Event
<1>5. Table!Prints = Entries
  BY DEF Table!Prints, Entries
<1>6. Told(h)[1].event = "asserted"
  BY <1>1, <1>3, <1>4 DEF AssertedPrints
<1>7. Len(h) > 1 => Told(h)[2].event = h[2].event
  BY <1>1, <1>4
<1>8. Len(h) > 2 => Told(h)[3].event = h[3].event
  BY <1>1, <1>4
<1>9. Table!Life(Told(h))
  BY <1>1, <1>2, <1>5, <1>6, <1>7, <1>8 DEF Table!Life, Outcome, Table!TerminalStatus
<1>10. QED
  BY <1>3, <1>4, <1>9

\* An event occurs once, and is found whichever way it is kept.
LEMMA SameNamed ==
    ASSUME NEW h, Life(h), NEW name
    PROVE  /\ Rows!Happened(h, name) <=> Table!Happened(Told(h), name)
           /\ Rows!ByOrNull(h, name) = Table!ByOrNull(Told(h), name)
           /\ Rows!AtOrNull(h, name) = Table!AtOrNull(Told(h), name)
<1>1. /\ DOMAIN Told(h) = DOMAIN h /\ DOMAIN h = 1..Len(h)
      /\ \A k \in DOMAIN h : /\ Told(h)[k].event = h[k].event
                             /\ Told(h)[k].by = h[k].by
                             /\ Told(h)[k].at = h[k].at
  BY ToldLife
<1>2. Rows!Happened(h, name) <=> Table!Happened(Told(h), name)
  BY <1>1 DEF Rows!Happened, Table!Happened
<1>3. ASSUME NEW k \in DOMAIN h, h[k].event = name
      PROVE  /\ Rows!EventNamed(h, name) = h[k]
             /\ Table!EventNamed(Told(h), name) = Told(h)[k]
  <2>1. \A j \in DOMAIN h : h[j].event = name => j = k
    BY <1>1, <1>3, NoneTwice
  <2>2. Rows!EventNamed(h, name) = h[k]
    BY <1>3, <2>1 DEF Rows!EventNamed
  <2>3. \A j \in DOMAIN Told(h) : Told(h)[j].event = name => j = k
    BY <1>1, <2>1
  <2>4. k \in DOMAIN Told(h) /\ Told(h)[k].event = name
    BY <1>1, <1>3
  <2>5. Table!EventNamed(Told(h), name) = Told(h)[k]
    BY <2>3, <2>4 DEF Table!EventNamed
  <2>6. QED
    BY <2>2, <2>5
<1>4. CASE Rows!Happened(h, name)
  <2>1. PICK k \in DOMAIN h : h[k].event = name
    BY <1>4 DEF Rows!Happened
  <2>2. /\ Rows!EventNamed(h, name) = h[k]
        /\ Table!EventNamed(Told(h), name) = Told(h)[k]
    BY <1>3, <2>1
  <2>3. QED
    BY <1>1, <1>2, <1>4, <2>1, <2>2
    DEF Rows!ByOrNull, Rows!AtOrNull, Table!ByOrNull, Table!AtOrNull
<1>5. CASE ~ Rows!Happened(h, name)
  BY <1>2, <1>5 DEF Rows!ByOrNull, Rows!AtOrNull, Table!ByOrNull, Table!AtOrNull
<1>6. QED
  BY <1>2, <1>4, <1>5

\* The chain's row does not depend on what else the events say.
LEMMA SameTrueRow ==
    ASSUME NEW h, Life(h)
    PROVE  Rows!TrueRow(h) = Table!TrueRow(Told(h))
<1>1. /\ Table!Life(Told(h)) /\ DOMAIN Told(h) = DOMAIN h
      /\ DOMAIN h = 1..Len(h) /\ 1 \in DOMAIN h
      /\ \A k \in DOMAIN h : /\ Told(h)[k].event = h[k].event
                             /\ Told(h)[k].by = h[k].by
                             /\ Told(h)[k].at = h[k].at
  BY ToldLife
<1>2. Len(Told(h)) = Len(h) /\ Len(h) \in DOMAIN h
  BY <1>1, ToldShape DEF Life
<1>3. Rows!Ruling(h) = Table!Ruling(Told(h))
  <2>1. ASSUME NEW k \in DOMAIN h, k > 1 PROVE k - 1 \in DOMAIN h
    BY <1>1, <1>2, <2>1 DEF Life
  <2>2. QED
    BY <1>1, <2>1 DEF Rows!Ruling, Table!Ruling
<1>4. QED
  BY <1>1, <1>2, <1>3, SameNamed DEF Rows!TrueRow, Table!TrueRow

\* Nor does it matter for what a row may say.
LEMMA SameTruth ==
    ASSUME NEW h, Life(h), NEW row
    PROVE  Rows!Truthful(row, h) <=> Table!Truthful(row, Told(h))
  BY SameTrueRow, SameNamed DEF Rows!Truthful, Table!Truthful

\* The contract's steps add to an assertion's events, and what was true stays true.
LEMMA EventsGoOn ==
    ASSUME TypeOK, HistoryInv, [Next]_vars, NEW id \in DOMAIN history
    PROVE  /\ id \in DOMAIN history' /\ Life(history[id]) /\ Life(history'[id])
           /\ \A k \in DOMAIN history[id] :
                 k \in DOMAIN history'[id] /\ history'[id][k] = history[id][k]
           /\ \A row \in Table!Row :
                 Table!Truthful(row, Told(history[id])) => Table!Truthful(row, Told(history'[id]))
<1>1. id \in DOMAIN assertionMap /\ Life(history[id])
  BY DEF TypeOK, HistoryInv
<1>2. CASE history' = history
  BY <1>1, <1>2
<1>3. ASSUME NEW x, NEW e, Printed(x, e), x # id
      PROVE  id \in DOMAIN history' /\ history'[id] = history[id]
  BY <1>1, <1>3 DEF Printed, PrintEvent, MapSet
<1>4. ASSUME NEW e, Printed(id, e)
      PROVE  /\ id \in DOMAIN history' /\ Life(history'[id])
             /\ \A k \in DOMAIN history[id] :
                   k \in DOMAIN history'[id] /\ history'[id][k] = history[id][k]
             /\ \A row \in Table!Row :
                   Table!Truthful(row, Told(history[id]))
                       => Table!Truthful(row, Told(history'[id]))
  <2> DEFINE h == history[id]
             x == Event(e.event, e.by, e.at)
  <2>1. /\ e \in LaterPrints /\ Life(h) /\ history'[id] = Append(h, e) /\ Life(Append(h, e))
        /\ id \in DOMAIN history'
    <3>1. id \in DOMAIN history'
      BY <1>4 DEF Printed, PrintEvent, MapSet
    <3>2. QED
      BY <1>1, <1>4, <3>1, PrintedEffect
  <2>2. h \in Seq(Prints) /\ e \in Prints /\ DOMAIN h = 1..Len(h) /\ Len(h) \in 1..3
    BY <2>1 DEF Life, Prints
  <2>3. /\ Told(Append(h, e)) = Append(Told(h), x)
        /\ Len(Append(h, e)) = Len(h) + 1
        /\ Append(h, e)[Len(h) + 1] = e
        /\ \A k \in 1..Len(h) : Append(h, e)[k] = h[k]
    BY <2>2, ToldAppend, AppendProperties
  <2>4. Table!Life(Told(h)) /\ Len(Told(h)) = Len(h)
    BY <2>1, <2>2, ToldLife, ToldShape
  <2>5. x \in Table!Prints /\ x.event = e.event
    BY <2>1 DEF LaterPrints, Event, Table!Prints
  <2>6. Table!MayFollow(Told(h), x)
    <3>1. Len(h) = 1 \/ Len(h) = 2
      BY <2>1, <2>2, <2>3 DEF Life
    <3>2. CASE Len(h) = 1
      <4>1. e.event \in {"disputed", "settled"}
        BY <2>1, <2>3, <3>2 DEF Life
      <4>2. QED
        BY <2>4, <2>5, <3>2, <4>1 DEF Table!MayFollow
    <3>3. CASE Len(h) = 2
      <4>1. h[2].event = "disputed" /\ e.event \in Outcome
        BY <2>1, <2>3, <3>3 DEF Life
      <4>2. Told(h)[2].event = "disputed"
        BY <2>1, <2>2, <3>3, <4>1, ToldLife
      <4>3. QED
        BY <2>4, <2>5, <3>3, <4>1, <4>2 DEF Table!MayFollow, Outcome, Table!TerminalStatus
    <3>4. QED
      BY <3>1, <3>2, <3>3
  <2> HIDE DEF h, x
  <2>7. ASSUME NEW row \in Table!Row, Table!Truthful(row, Told(h))
        PROVE  Table!Truthful(row, Told(Append(h, e)))
    BY <2>3, <2>4, <2>5, <2>6, <2>7, NoneIsNull, Table!TruthStays
  <2>8. DOMAIN Append(h, e) = 1..(Len(h) + 1)
    BY <2>2, AppendProperties
  <2>9. \A k \in DOMAIN h : k \in DOMAIN Append(h, e) /\ Append(h, e)[k] = h[k]
    BY <2>2, <2>3, <2>8
  <2>10. QED
    BY <2>1, <2>7, <2>9 DEF h
<1>5. CASE \E x, e : Printed(x, e) /\ x # id
  BY <1>1, <1>3, <1>5
<1>6. CASE \E e : Printed(id, e)
  BY <1>1, <1>4, <1>6
<1>7. QED
  BY <1>2, <1>5, <1>6, StepPrints

-----------------------------------------------------------------------------
(* The chain's row and the contract's record *)

\* What the events say of one of them.
LEMMA EventTells ==
    ASSUME NEW h, Life(h), NEW name
    PROVE  /\ \A k \in 1..Len(h) :
                 h[k].event = name => AtOf(h, name) = h[k].at /\ ByOf(h, name) = h[k].by
           /\ (\A k \in 1..Len(h) : h[k].event # name)
                 => AtOf(h, name) = None /\ ByOf(h, name) = None
<1>1. ASSUME NEW k \in 1..Len(h), h[k].event = name
      PROVE  AtOf(h, name) = h[k].at /\ ByOf(h, name) = h[k].by
  <2>1. \A j \in 1..Len(h) : h[j].event = h[k].event => j = k
    BY NoneTwice
  <2>2. QED
    BY <1>1, <2>1, Found
<1>2. QED
  BY <1>1, NotFound

\* The party and the block of a life's event are neither none nor, the block, zero.
LEMMA EventNotNone ==
    ASSUME NEW h, Life(h), NEW k \in 1..Len(h)
    PROVE  h[k].by \in Principals /\ h[k].at \in Nat /\ h[k].by # None /\ h[k].at # None
<1>1. h[k] \in Prints
  BY DEF Life
<1>2. QED
  BY <1>1, PrincipalAssumption DEF Prints, AssertedPrints, LaterPrints

\* Row and record agree: on the dispute, on who resolved it, on the status and on
\* the blocks; in a row, party and block of a step go together.
RowTells(a, true) ==
    /\ a.disputer = true.disputer /\ a.disputedAtBlock = true.disputedAt
    /\ a.settledAtBlock = true.settledAt
    /\ (a.status = STATUS_OPEN) <=> (true.status = "open")
    /\ (a.status = STATUS_DISPUTED) <=> (true.status = "disputed")
    /\ (a.status = STATUS_SETTLED) <=> (true.status = "settled")
    /\ (a.status \in TerminalStatuses) <=> (true.status \in Outcome)
    /\ true.status = "disputed" => a.disputer # None
    /\ (a.status \in TerminalStatuses /\ a.disputer # None) <=> (true.resolver # None)
    /\ (true.settler # None) <=> (true.status = "settled")
    /\ true.resolvedAt # None => true.resolvedAt \in {a.settledAtBlock, a.rejectedAtBlock,
                                                      a.unresolvedAtBlock}

Paired(row) ==
    /\ (row.disputer = None) <=> (row.disputedAt = None)
    /\ (row.settler = None) <=> (row.settledAt = None)
    /\ (row.resolver = None) <=> (row.resolvedAt = None)

LEMMA RecordTells ==
    ASSUME NEW h, Life(h)
    PROVE  RowTells(Rebuilt(h), Rows!TrueRow(h)) /\ Paired(Rows!TrueRow(h))
<1> DEFINE a == Rebuilt(h)
           t == Told(h)
           true == Rows!TrueRow(h)
<1>1. /\ Table!Life(t) /\ Len(t) = Len(h) /\ Len(h) \in 1..3
      /\ \A k \in 1..Len(h) : /\ t[k].event = h[k].event
                               /\ t[k].by = h[k].by
                               /\ t[k].at = h[k].at
  BY ToldLife, ToldShape DEF Life
<1>2. true = Table!TrueRow(t)
  BY SameTrueRow
<1>3. /\ true.disputer = IF Table!Disputed(t) THEN t[2].by ELSE None
      /\ true.disputedAt = IF Table!Disputed(t) THEN t[2].at ELSE None
      /\ true.settler = IF Table!SettledLast(t) THEN t[Len(t)].by ELSE None
      /\ true.settledAt = IF Table!SettledLast(t) THEN t[Len(t)].at ELSE None
      /\ true.resolver = IF Len(t) = 3 THEN t[3].by ELSE None
      /\ true.resolvedAt = IF Len(t) = 3 THEN t[3].at ELSE None
      /\ true.status = IF Len(t) = 1 THEN "open" ELSE t[Len(t)].event
  <2>1. Table!Life(t)
    BY <1>1
  <2> HIDE DEF t, true
  <2>2. LET r == Table!TrueRow(t)
        IN  /\ r.disputer = IF Table!Disputed(t) THEN t[2].by ELSE None
            /\ r.disputedAt = IF Table!Disputed(t) THEN t[2].at ELSE None
            /\ r.settler = IF Table!SettledLast(t) THEN t[Len(t)].by ELSE None
            /\ r.settledAt = IF Table!SettledLast(t) THEN t[Len(t)].at ELSE None
            /\ r.resolver = IF Len(t) = 3 THEN t[3].by ELSE None
            /\ r.resolvedAt = IF Len(t) = 3 THEN t[3].at ELSE None
            /\ r.status = IF Len(t) = 1 THEN "open" ELSE t[Len(t)].event
    BY <2>1, NoneIsNull, Table!TrueColumns, Zenon
  <2>3. QED
    BY <1>2, <2>2
<1>4. /\ a.disputer = ByOf(h, "disputed") /\ a.disputedAtBlock = AtOf(h, "disputed")
      /\ a.settledAtBlock = AtOf(h, "settled") /\ a.rejectedAtBlock = AtOf(h, "rejected")
      /\ a.unresolvedAtBlock = AtOf(h, "unresolved")
      /\ a.status = StatusOfEvent(h[Len(h)].event)
  BY RebuiltFields
<1>5. \A k \in 1..Len(h) : h[k].by # None /\ h[k].at # None
  BY EventNotNone
<1>6. /\ \A name : \A k \in 1..Len(h) :
            h[k].event = name => AtOf(h, name) = h[k].at /\ ByOf(h, name) = h[k].by
      /\ \A name : (\A k \in 1..Len(h) : h[k].event # name)
            => AtOf(h, name) = None /\ ByOf(h, name) = None
  BY EventTells
<1>7. /\ h[1].event = "asserted"
      /\ Len(h) > 1 => h[2].event \in {"disputed", "settled"}
      /\ Len(h) > 2 => h[2].event = "disputed" /\ h[3].event \in Outcome
  BY DEF Life, AssertedPrints
<1> HIDE DEF a, t, true
<1>8. CASE Len(h) = 1
  <2>1. ~ Table!Disputed(t) /\ ~ Table!SettledLast(t)
    BY <1>1, <1>8 DEF Table!Disputed, Table!SettledLast
  <2>2. \A name : name # "asserted" => AtOf(h, name) = None /\ ByOf(h, name) = None
    BY <1>6, <1>7, <1>8
  <2>3. /\ a.disputer = None /\ a.disputedAtBlock = None /\ a.settledAtBlock = None
        /\ a.status = STATUS_OPEN
    BY <1>4, <1>7, <1>8, <2>2 DEF StatusOfEvent
  <2>4. /\ true.disputer = None /\ true.disputedAt = None /\ true.settler = None
        /\ true.settledAt = None /\ true.resolver = None /\ true.resolvedAt = None
        /\ true.status = "open"
    <3>1. Len(t) = 1 /\ Len(t) # 3
      BY <1>1, <1>8
    <3>2. QED
      BY <1>3, <2>1, <3>1
  <2>5. QED
    BY <2>3, <2>4
    DEF RowTells, Paired, a, true, Outcome, TerminalStatuses, STATUS_OPEN, STATUS_DISPUTED,
        STATUS_SETTLED, STATUS_REJECTED, STATUS_UNRESOLVED
<1>9. CASE Len(h) = 2 /\ h[2].event = "disputed"
  <2>1. Table!Disputed(t) /\ ~ Table!SettledLast(t)
    BY <1>1, <1>9 DEF Table!Disputed, Table!SettledLast
  <2>2. /\ AtOf(h, "disputed") = h[2].at /\ ByOf(h, "disputed") = h[2].by
        /\ AtOf(h, "settled") = None
    BY <1>6, <1>7, <1>9
  <2>3. /\ a.disputer = h[2].by /\ a.disputedAtBlock = h[2].at /\ a.settledAtBlock = None
        /\ a.status = STATUS_DISPUTED
    BY <1>4, <1>9, <2>2 DEF StatusOfEvent
  <2>4. /\ true.disputer = h[2].by /\ true.disputedAt = h[2].at /\ true.settler = None
        /\ true.settledAt = None /\ true.resolver = None /\ true.resolvedAt = None
        /\ true.status = "disputed" /\ h[2].by # None /\ h[2].at # None
    BY <1>1, <1>3, <1>5, <1>9, <2>1
  <2>5. QED
    BY <2>3, <2>4
    DEF RowTells, Paired, a, true, Outcome, TerminalStatuses, STATUS_OPEN, STATUS_DISPUTED,
        STATUS_SETTLED, STATUS_REJECTED, STATUS_UNRESOLVED
<1>10. CASE Len(h) = 2 /\ h[2].event = "settled"
  <2>1. ~ Table!Disputed(t) /\ Table!SettledLast(t)
    BY <1>1, <1>10 DEF Table!Disputed, Table!SettledLast
  <2>2. /\ AtOf(h, "disputed") = None /\ ByOf(h, "disputed") = None
        /\ AtOf(h, "settled") = h[2].at
    BY <1>6, <1>7, <1>10
  <2>3. /\ a.disputer = None /\ a.disputedAtBlock = None /\ a.settledAtBlock = h[2].at
        /\ a.status = STATUS_SETTLED
    BY <1>4, <1>10, <2>2 DEF StatusOfEvent
  <2>4. /\ true.disputer = None /\ true.disputedAt = None /\ true.settler = h[2].by
        /\ true.settledAt = h[2].at /\ true.resolver = None /\ true.resolvedAt = None
        /\ true.status = "settled" /\ h[2].by # None /\ h[2].at # None
    BY <1>1, <1>3, <1>5, <1>10, <2>1
  <2>5. QED
    BY <2>3, <2>4
    DEF RowTells, Paired, a, true, Outcome, TerminalStatuses, STATUS_OPEN, STATUS_DISPUTED,
        STATUS_SETTLED, STATUS_REJECTED, STATUS_UNRESOLVED
<1>11. CASE Len(h) = 3
  <2>0. h[2].event = "disputed" /\ h[3].event \in Outcome
    BY <1>7, <1>11
  <2>1. Table!Disputed(t) /\ (Table!SettledLast(t) <=> h[3].event = "settled")
    BY <1>1, <1>11, <2>0 DEF Table!Disputed, Table!SettledLast
  <2>2. /\ AtOf(h, "disputed") = h[2].at /\ ByOf(h, "disputed") = h[2].by
        /\ \A name \in Outcome : AtOf(h, name) = IF h[3].event = name THEN h[3].at ELSE None
    BY <1>6, <1>7, <1>11, <2>0 DEF Outcome
  <2>3. /\ a.disputer = h[2].by /\ a.disputedAtBlock = h[2].at
        /\ a.settledAtBlock = IF h[3].event = "settled" THEN h[3].at ELSE None
        /\ a.rejectedAtBlock = IF h[3].event = "rejected" THEN h[3].at ELSE None
        /\ a.unresolvedAtBlock = IF h[3].event = "unresolved" THEN h[3].at ELSE None
        /\ a.status = StatusOfEvent(h[3].event)
    BY <1>4, <1>11, <2>2 DEF Outcome
  <2>4. /\ true.disputer = h[2].by /\ true.disputedAt = h[2].at
        /\ true.settler = IF h[3].event = "settled" THEN h[3].by ELSE None
        /\ true.settledAt = IF h[3].event = "settled" THEN h[3].at ELSE None
        /\ true.resolver = h[3].by /\ true.resolvedAt = h[3].at
        /\ true.status = h[3].event
        /\ h[2].by # None /\ h[2].at # None /\ h[3].by # None /\ h[3].at # None
    BY <1>1, <1>3, <1>5, <1>11, <2>1
  <2>5. QED
    BY <2>0, <2>3, <2>4
    DEF RowTells, Paired, a, true, Outcome, StatusOfEvent, TerminalStatuses, STATUS_OPEN,
        STATUS_DISPUTED, STATUS_SETTLED, STATUS_REJECTED, STATUS_UNRESOLVED
<1>12. QED
  BY <1>1, <1>7, <1>8, <1>9, <1>10, <1>11

-----------------------------------------------------------------------------
(* JavaScript's numbers *)

\* A set of numbers up to a bound that is not empty has a greatest.
LEMMA GreatestExists ==
    ASSUME NEW n \in Nat, NEW S \in SUBSET (0..n), S # {}
    PROVE  \E x \in S : \A y \in S : y <= x
<1> DEFINE T == {n - x : x \in S}
<1>1. T \in SUBSET Nat /\ T # {}
  <2>1. \A x \in S : x \in 0..n /\ n - x \in Nat
    OBVIOUS
  <2>2. QED
    BY <2>1
<1> DEFINE R == OpToRel(<, Nat)
<1>2. \A x, y \in Nat : y < x => <<y, x>> \in R
  BY Zenon DEF OpToRel
<1>3. IsWellFoundedOn(R, Nat)
  BY NatLessThanWellFounded, Zenon
<1> HIDE DEF R
<1>4. PICK t \in T : \A y \in T : ~ (<<y, t>> \in R)
  BY <1>1, <1>3, WFMin
<1>5. PICK x \in S : t = n - x
  BY <1>4
<1>6. ASSUME NEW y \in S PROVE y <= x
  <2>1. n - y \in T /\ n - y \in Nat /\ n - x \in Nat
    OBVIOUS
  <2>2. ~ (n - y < n - x)
    BY <1>2, <1>4, <1>5, <2>1
  <2>3. QED
    BY <2>2
<1>7. QED
  BY <1>6

\* Between integers above MaxSafe, doubles are a whole number apart, of which a
\* number has at least (MaxSafe + 1) / 2.
LEMMA SpacingFits ==
    ASSUME NEW n \in Nat, n > MaxSafe
    PROVE  Spacing(n) \in 2..n /\ Spacing(n) * (MaxSafe + 1) <= 2 * n
<1> DEFINE Fitting == {u \in 1..n : (\E k \in 1..u : u = 2^k) /\ u * (MaxSafe + 1) <= 2 * n}
<1>1. MaxSafe \in Nat /\ MaxSafe >= 1 /\ n >= 2
  BY AppAssumption
<1>2. 2 \in Fitting
  <2>1. 2 = 2^1 /\ 1 \in 1..2
    OBVIOUS
  <2>2. 2 \in 1..n /\ 2 * (MaxSafe + 1) <= 2 * n
    BY <1>1
  <2>3. QED
    BY <2>1, <2>2
<1>3. Fitting \in SUBSET (0..n)
  OBVIOUS
<1>4. \E u \in Fitting : \A v \in Fitting : v <= u
  <2> HIDE DEF Fitting
  <2>1. QED
    BY <1>2, <1>3, GreatestExists
<1>5. Spacing(n) = CHOOSE u \in Fitting : \A v \in Fitting : v <= u
  BY DEF Spacing
<1>6. Spacing(n) \in Fitting /\ 2 <= Spacing(n)
  <2> HIDE DEF Fitting
  <2>1. QED
    BY <1>2, <1>4, <1>5
<1>7. QED
  BY <1>6

\* A number up to MaxSafe is itself.
LEMMA ExactNumber ==
    ASSUME NEW n \in Nat, n <= MaxSafe
    PROVE  ToNumber(n) = n
  BY DEF ToNumber

\* What two numbers make of a product is no less when either is no less.
LEMMA ProductMonotone ==
    ASSUME NEW a \in Nat, NEW b \in Nat, NEW c \in Nat, NEW d \in Nat, a <= b, c <= d
    PROVE  a * c <= b * d /\ a * c \in Nat /\ b * d \in Nat
  OBVIOUS

\* A number above MaxSafe may be rounded, but not below it.
LEMMA LargeNumber ==
    ASSUME NEW n \in Nat, n > MaxSafe
    PROVE  ToNumber(n) \in Nat /\ ToNumber(n) > MaxSafe
<1> DEFINE u == Spacing(n)
           q == n \div u
           half == (MaxSafe + 1) \div 2
<1>1. MaxSafe \in Nat /\ u \in Nat /\ u >= 2 /\ u * (MaxSafe + 1) <= 2 * n
  BY SpacingFits, AppAssumption
<1>2. half \in Nat /\ MaxSafe + 1 = 2 * half
  BY AppAssumption
<1>3. ToNumber(n) = q * u \/ ToNumber(n) = (q + 1) * u
  <2>1. ~ (n <= MaxSafe)
    BY <1>1
  <2>2. QED
    BY <2>1 DEF ToNumber
<1> HIDE DEF u, half
<1>4. q \in Nat /\ n < (q + 1) * u
  BY <1>1
<1> HIDE DEF q
<1>5. half * u <= n
  BY <1>1, <1>2
<1>6. half <= q
  <2>1. SUFFICES ASSUME q < half PROVE FALSE
    BY <1>2, <1>4
  <2>2. (q + 1) * u <= half * u
    BY <1>1, <1>2, <1>4, <2>1, ProductMonotone
  <2>3. QED
    BY <1>1, <1>2, <1>4, <1>5, <2>2
<1>7. half * 2 <= q * u /\ half * 2 <= (q + 1) * u /\ q * u \in Nat /\ (q + 1) * u \in Nat
  BY <1>1, <1>2, <1>4, <1>6, ProductMonotone
<1>8. QED
  BY <1>1, <1>2, <1>3, <1>7

-----------------------------------------------------------------------------
(* The invariant *)

\* An item is the listing of an assertion, with a row that invents nothing and has
\* party and block of each step together.
ItemOK(item) ==
    /\ item.id \in DOMAIN history
    /\ item = Listed(item.id, item.row)
    /\ item.row \in Table!Row
    /\ Table!Truthful(item.row, Told(history[item.id]))
    /\ Paired(item.row)

ListedOnce(l) == \A j, k \in DOMAIN l : l[j].id = l[k].id => j = k

AppInv ==
    /\ list \in Seq(Items)
    /\ ListedOnce(list)
    /\ \A item \in Items : ItemOK(item)
    /\ fetching \subseteq Refs(history)

\* An event of the contract.
LEMMA RefOf ==
    ASSUME NEW h, NEW ref
    PROVE  ref \in Refs(h) <=> \E id \in DOMAIN h : \E k \in DOMAIN h[id] : ref = <<id, k>>
  BY DEF Refs

\* The contract goes on; the list stays true, and notifications come.
LEMMA ChainKeepsPage ==
    ASSUME TypeOK, HistoryInv, AppInv, [Next]_vars, list' = list,
           fetching' \subseteq fetching \cup Refs(history')
    PROVE  AppInv'
<1>1. Items' = Items
  BY DEF Items
<1>2. ASSUME NEW item \in Items PROVE ItemOK(item)'
  <2> DEFINE id == item.id
  <2>1. ItemOK(item)
    BY DEF AppInv
  <2>2. id \in DOMAIN history /\ item.row \in Table!Row
    BY <2>1 DEF ItemOK
  <2>3. /\ id \in DOMAIN history' /\ Life(history[id])
        /\ \A k \in DOMAIN history[id] : history'[id][k] = history[id][k]
        /\ Table!Truthful(item.row, Told(history[id]))
              => Table!Truthful(item.row, Told(history'[id]))
    BY <2>2, EventsGoOn
  <2>4. history'[id][1] = history[id][1]
    BY <2>3, ToldLife
  <2>5. Listed(id, item.row)' = Listed(id, item.row)
    BY <2>4 DEF Listed
  <2>6. QED
    BY <2>1, <2>3, <2>5 DEF ItemOK
<1>3. Refs(history) \subseteq Refs(history')
  BY RefOf, EventsGoOn
<1>4. QED
  BY <1>1, <1>2, <1>3 DEF AppInv, ListedOnce

\* The page learns of an assertion that is not listed.
LEMMA AddedKeepsPage ==
    ASSUME AppInv, NEW item, ItemOK(item), item.id \notin ListedIds,
           list' = Append(list, item) \/ list' = <<item>> \o list,
           history' = history, fetching' \subseteq fetching
    PROVE  AppInv' /\ Kept
<1> DEFINE S == Items \cup {item}
<1>1. list \in Seq(S) /\ item \in S /\ Len(list) \in Nat /\ DOMAIN list = 1..Len(list)
  BY DEF AppInv
<1>2. list' \in Seq(S) /\ Len(list') = Len(list) + 1
  <2>1. CASE list' = Append(list, item)
    BY <1>1, <2>1
  <2>2. CASE list' = <<item>> \o list
    BY <1>1, <2>2
  <2>3. QED
    BY <2>1, <2>2
<1>3. PICK at \in DOMAIN list', from \in [DOMAIN list -> Nat] :
         /\ list'[at] = item
         /\ \A k \in DOMAIN list : from[k] \in DOMAIN list' /\ list'[from[k]] = list[k]
         /\ \A j \in DOMAIN list' \ {at} : \E k \in DOMAIN list : j = from[k]
  <2>1. CASE list' = Append(list, item)
    <3> DEFINE f == [k \in DOMAIN list |-> k]
    <3>1. /\ Len(list) + 1 \in DOMAIN list' /\ list'[Len(list) + 1] = item
          /\ f \in [DOMAIN list -> Nat]
          /\ \A k \in DOMAIN list : f[k] \in DOMAIN list' /\ list'[f[k]] = list[k]
      BY <1>1, <1>2, <2>1
    <3>2. ASSUME NEW j \in DOMAIN list' \ {Len(list) + 1}
          PROVE  \E k \in DOMAIN list : j = f[k]
      <4>1. j \in DOMAIN list /\ j = f[j]
        BY <1>1, <1>2
      <4>2. QED
        BY <4>1
    <3> HIDE DEF f
    <3>3. QED
      BY <3>1, <3>2
  <2>2. CASE list' = <<item>> \o list
    <3> DEFINE f == [k \in DOMAIN list |-> k + 1]
    <3>1. /\ 1 \in DOMAIN list' /\ list'[1] = item
          /\ f \in [DOMAIN list -> Nat]
          /\ \A k \in DOMAIN list : f[k] \in DOMAIN list' /\ list'[f[k]] = list[k]
      BY <1>1, <1>2, <2>2
    <3>2. ASSUME NEW j \in DOMAIN list' \ {1}
          PROVE  \E k \in DOMAIN list : j = f[k]
      <4>1. j - 1 \in DOMAIN list /\ j = f[j - 1]
        BY <1>1, <1>2
      <4>2. QED
        BY <4>1
    <3> HIDE DEF f
    <3>3. QED
      BY <3>1, <3>2
  <2>3. QED
    BY <2>1, <2>2
<1>4. Items' = S
  <2>1. Items' = {list'[k] : k \in DOMAIN list'} /\ Items = {list[k] : k \in DOMAIN list}
    BY DEF Items
  <2>2. ASSUME NEW x \in S PROVE x \in Items'
    BY <1>3, <2>1
  <2>3. ASSUME NEW x \in Items' PROVE x \in S
    BY <1>3, <2>1
  <2>4. QED
    BY <2>2, <2>3
<1>5. list' \in Seq(Items')
  BY <1>2, <1>4
<1>6. ListedOnce(list')
  <2>1. \A k \in DOMAIN list : list[k].id # item.id
    BY DEF ListedIds
  <2>2. \A j, k \in DOMAIN list : list[j].id = list[k].id => j = k
    BY DEF AppInv, ListedOnce
  <2>3. ASSUME NEW j \in DOMAIN list', NEW k \in DOMAIN list', list'[j].id = list'[k].id
        PROVE  j = k
    <3>1. CASE j = at /\ k = at
      BY <3>1
    <3>2. CASE j # at /\ k # at
      BY <1>3, <2>2, <2>3, <3>2
    <3>3. CASE (j = at /\ k # at) \/ (j # at /\ k = at)
      BY <1>3, <2>1, <2>3, <3>3
    <3>4. QED
      BY <3>1, <3>2, <3>3
  <2>4. QED
    BY <2>3 DEF ListedOnce
<1>7. \A x \in Items' : ItemOK(x)'
  BY <1>4 DEF AppInv, ItemOK, Listed
<1>8. fetching' \subseteq Refs(history')
  BY DEF AppInv
<1>9. Kept
  <2>1. \A x \in Items : \E k \in DOMAIN list' : list'[k] = x
    BY <1>3 DEF Items
  <2>2. QED
    BY <2>1 DEF Kept
<1>10. QED
  BY <1>5, <1>6, <1>7, <1>8, <1>9 DEF AppInv

\* Rows of listed assertions change.
LEMMA ChangedKeepsPage ==
    ASSUME AppInv, NEW rows,
           list' = [k \in DOMAIN list |-> [list[k] EXCEPT !.row = rows[k]]],
           \A k \in DOMAIN list :
              /\ rows[k] \in Table!Row
              /\ Table!Truthful(rows[k], Told(history[list[k].id]))
              /\ Table!Keeps(list[k].row, rows[k])
              /\ Paired(rows[k]),
           history' = history, fetching' \subseteq fetching
    PROVE  AppInv' /\ Kept
<1>1. /\ Len(list) \in Nat /\ DOMAIN list = 1..Len(list)
      /\ \A k \in DOMAIN list : ItemOK(list[k])
  BY DEF AppInv, Items
<1>2. ASSUME NEW k \in DOMAIN list
      PROVE  list'[k] = Listed(list[k].id, rows[k])
  <2>1. list[k] = Listed(list[k].id, list[k].row)
    BY <1>1 DEF ItemOK
  <2>2. QED
    BY <2>1 DEF Listed
<1>3. DOMAIN list' = DOMAIN list
  OBVIOUS
<1>4. ASSUME NEW k \in DOMAIN list
      PROVE  list'[k].id = list[k].id /\ list'[k].row = rows[k]
  BY <1>2 DEF Listed
<1>5. Items' = {list'[k] : k \in DOMAIN list}
  BY <1>3 DEF Items
<1>6. list' \in Seq(Items')
  BY <1>1, <1>3, <1>5
<1>7. ListedOnce(list')
  BY <1>3, <1>4 DEF AppInv, ListedOnce
<1>8. ASSUME NEW x \in Items' PROVE ItemOK(x)'
  <2>1. PICK k \in DOMAIN list : x = list'[k]
    BY <1>5
  <2>2. x = Listed(list[k].id, rows[k]) /\ x.id = list[k].id /\ x.row = rows[k]
    BY <1>2, <1>4, <2>1
  <2>3. x.id \in DOMAIN history
    BY <1>1, <2>2 DEF ItemOK
  <2>4. x.row \in Table!Row /\ Table!Truthful(x.row, Told(history[x.id])) /\ Paired(x.row)
    BY <2>2
  <2>5. Listed(x.id, x.row)' = Listed(x.id, x.row)
    BY DEF Listed
  <2>6. QED
    BY <2>2, <2>3, <2>4, <2>5 DEF ItemOK
<1>9. fetching' \subseteq Refs(history')
  BY DEF AppInv
<1>10. Kept
  <2>1. ASSUME NEW k \in DOMAIN list
        PROVE  /\ k \in DOMAIN list' /\ list'[k].id = list[k].id
               /\ \A c \in DOMAIN list[k].row \ {"status"} :
                     list[k].row[c] # None => list'[k].row[c] = list[k].row[c]
    <3>1. DOMAIN list[k].row = Table!Columns
      <4>1. list[k].row \in Table!Row
        BY <1>1 DEF ItemOK
      <4>2. QED
        BY <4>1 DEF Table!Row, Table!Columns
    <3>2. QED
      BY <1>3, <1>4, <3>1 DEF Table!Keeps
  <2>2. ASSUME NEW item \in Items
        PROVE  \E k \in DOMAIN list' :
                  /\ list'[k].id = item.id
                  /\ \A c \in DOMAIN item.row \ {"status"} :
                        item.row[c] # None => list'[k].row[c] = item.row[c]
    <3>1. PICK k \in DOMAIN list : item = list[k]
      BY DEF Items
    <3>2. QED
      BY <2>1, <3>1
  <2>3. QED
    BY <2>2 DEF Kept
<1>11. QED
  BY <1>5, <1>6, <1>7, <1>8, <1>9, <1>10 DEF AppInv

\* What a statement fills in of a step it fills in together.
PairedColumns(columns) ==
    /\ "disputer" \in DOMAIN columns <=> "disputedAt" \in DOMAIN columns
    /\ "settler" \in DOMAIN columns <=> "settledAt" \in DOMAIN columns
    /\ "resolver" \in DOMAIN columns <=> "resolvedAt" \in DOMAIN columns

\* Such a statement leaves the columns of every step together.
LEMMA ReplacedPaired ==
    ASSUME NEW h, NEW row \in Table!Row, Paired(row),
           NEW columns, Table!Reports(columns, h), PairedColumns(columns)
    PROVE  Paired(Table!Replaced(row, columns))
<1> DEFINE new == Table!Replaced(row, columns)
<1>1. DOMAIN row = Table!Columns
  BY DEF Table!Row, Table!Columns
<1>2. \A c \in Table!Columns : new[c] = IF c \in DOMAIN columns THEN columns[c] ELSE row[c]
  BY <1>1 DEF Table!Replaced
<1>3. \A c \in DOMAIN columns \ {"status"} : columns[c] # None
  BY DEF Table!Reports
<1> HIDE DEF new
<1>4. /\ (new.disputer = None) <=> (new.disputedAt = None)
      /\ (new.settler = None) <=> (new.settledAt = None)
      /\ (new.resolver = None) <=> (new.resolvedAt = None)
  BY <1>2, <1>3 DEF Table!Columns, Paired, PairedColumns
<1>5. QED
  BY <1>4 DEF Paired, new

\* Statements that report an event change the row of its assertion.
LEMMA MappedKeepsPage ==
    ASSUME HistoryInv, AppInv, NEW id \in DOMAIN assertionMap, NEW columns,
           \A k \in DOMAIN list :
              list[k].id = id => /\ Table!Reports(columns[k], Told(history[id]))
                                 /\ PairedColumns(columns[k]),
           list' = [k \in DOMAIN list |->
                      IF list[k].id = id
                      THEN [list[k] EXCEPT !.row = Rows!Replaced(@, columns[k])]
                      ELSE list[k]],
           history' = history, fetching' \subseteq fetching
    PROVE  AppInv' /\ Kept
<1> DEFINE rows == [k \in DOMAIN list |->
                      IF list[k].id = id THEN Table!Replaced(list[k].row, columns[k])
                      ELSE list[k].row]
<1>1. ASSUME NEW k \in DOMAIN list
      PROVE  /\ list[k] = Listed(list[k].id, list[k].row)
             /\ list[k].row \in Table!Row
             /\ Table!Truthful(list[k].row, Told(history[list[k].id]))
             /\ Paired(list[k].row)
  BY DEF AppInv, Items, ItemOK
<1>2. ASSUME NEW k \in DOMAIN list
      PROVE  /\ rows[k] \in Table!Row
             /\ Table!Truthful(rows[k], Told(history[list[k].id]))
             /\ Table!Keeps(list[k].row, rows[k])
             /\ Paired(rows[k])
  <2>1. CASE list[k].id = id
    <3>1. /\ Table!Replaced(list[k].row, columns[k]) \in Table!Row
          /\ Table!Truthful(Table!Replaced(list[k].row, columns[k]), Told(history[id]))
          /\ Table!Keeps(list[k].row, Table!Replaced(list[k].row, columns[k]))
      BY <1>1, <2>1, NoneIsNull, Table!ReportKeepsTruth
    <3>2. Paired(Table!Replaced(list[k].row, columns[k]))
      BY <1>1, <2>1, ReplacedPaired
    <3>3. QED
      BY <2>1, <3>1, <3>2
  <2>2. CASE list[k].id # id
    BY <1>1, <2>2 DEF Table!Keeps
  <2>3. QED
    BY <2>1, <2>2
<1>3. ASSUME NEW k \in DOMAIN list
      PROVE  list'[k] = [list[k] EXCEPT !.row = rows[k]]
  <2>1. CASE list[k].id = id
    BY <2>1 DEF Rows!Replaced, Table!Replaced
  <2>2. CASE list[k].id # id
    <3>1. list'[k] = list[k] /\ rows[k] = list[k].row
      BY <2>2
    <3>2. list[k] = [list[k] EXCEPT !.row = list[k].row]
      BY <1>1 DEF Listed
    <3>3. QED
      BY <3>1, <3>2
  <2>3. QED
    BY <2>1, <2>2
<1> HIDE DEF rows
<1>4. list' = [k \in DOMAIN list |-> [list[k] EXCEPT !.row = rows[k]]]
  BY <1>3
<1>5. QED
  BY <1>2, <1>4, ChangedKeepsPage

\* What the index answers with is a row, and a truthful one.
LEMMA IndexRowOK ==
    ASSUME TypeOK, HistoryInv, NEW id \in DOMAIN history, NEW row \in IndexRows(id)
    PROVE  row \in Table!Row /\ Table!Truthful(row, Told(history[id])) /\ Paired(row)
<1> DEFINE h == history[id]
<1>1. Life(h)
  BY DEF TypeOK, HistoryInv
<1>2. Rows!TrueRow(h) \in Table!Row
  BY <1>1, NoneIsNull, ToldLife, SameTrueRow, Table!TrueColumns
<1>3. row \in Rows!PartialRows(h) /\ Rows!Truthful(row, h)
  BY DEF IndexRows
<1> HIDE DEF h
<1>4. row \in Table!Row
  <2> DEFINE true == Rows!TrueRow(h)
  <2>1. \E steps : \E s \in Table!Status :
           row = [Rows!Shown(true, steps) EXCEPT !.status = s] /\ "asserted" \in steps
    BY <1>3 DEF Rows!PartialRows, Rows!Status, Table!Status
  <2> HIDE DEF true
  <2>2. ASSUME NEW steps, "asserted" \in steps PROVE Rows!Shown(true, steps) \in Table!Row
    BY <1>2, <2>2 DEF Rows!Shown, Rows!StepOf, Table!Row, true
  <2>3. \A r \in Table!Row, s \in Table!Status : [r EXCEPT !.status = s] \in Table!Row
    BY DEF Table!Row, Table!Status
  <2>4. QED
    BY <2>1, <2>2, <2>3
<1>5. Paired(row)
  <2> DEFINE true == Rows!TrueRow(h)
  <2>1. \E steps : \E s \in Table!Status : row = [Rows!Shown(true, steps) EXCEPT !.status = s]
    BY <1>3 DEF Rows!PartialRows, Rows!Status, Table!Status
  <2>2. true \in Table!Row /\ Paired(true)
    BY <1>1, <1>2, RecordTells
  <2> HIDE DEF true
  <2>3. \A steps : Paired(Rows!Shown(true, steps))
    BY <2>2 DEF Rows!Shown, Rows!StepOf, Table!Row, Paired
  <2>4. \A steps : Rows!Shown(true, steps) = [c \in DOMAIN true |-> Rows!Shown(true, steps)[c]]
    BY DEF Rows!Shown
  <2>5. QED
    BY <2>1, <2>2, <2>3, <2>4 DEF Table!Row, Paired
<1>6. QED
  BY <1>1, <1>3, <1>4, <1>5, SameTruth DEF h

\* A load.
LEMMA LoadKeepsPage ==
    ASSUME TypeOK, HistoryInv, AppInv, NEW id \in DOMAIN history,
           NEW row \in IndexRows(id), Load(id, row)
    PROVE  AppInv' /\ Kept
<1>1. ItemOK(Listed(id, row)) /\ Listed(id, row).id = id
  BY IndexRowOK DEF ItemOK, Listed
<1>2. /\ id \notin ListedIds /\ list' = Append(list, Listed(id, row))
      /\ history' = history /\ fetching' = fetching
  BY DEF Load, vars
<1>3. QED
  BY <1>1, <1>2, AddedKeepsPage

\* An event comes.
LEMMA ReceivedKeepsPage ==
    ASSUME TypeOK, HistoryInv, AppInv, NEW ref \in fetching, Received(ref)
    PROVE  AppInv' /\ Kept
<1>a. PICK id \in DOMAIN history : \E n \in DOMAIN history[id] : ref = <<id, n>>
  BY RefOf DEF AppInv
<1>1. PICK n \in DOMAIN history[id] : ref = <<id, n>>
  BY <1>a
<1> DEFINE h == history[id]
           t == Told(h)
           e == h[n]
<1>2. /\ Life(h) /\ id \in DOMAIN assertionMap
      /\ Table!Life(t) /\ DOMAIN t = DOMAIN h /\ DOMAIN h = 1..Len(h) /\ 1 \in DOMAIN h
      /\ t[n].event = e.event /\ t[n].by = e.by /\ t[n].at = e.at
  BY <1>1, ToldLife DEF TypeOK, HistoryInv
<1>3. history' = history /\ fetching' \subseteq fetching
  BY DEF Received, vars
<1>4. \/ e.event = "asserted"   /\ list' = OnAsserted(id, e)
      \/ e.event = "settled"    /\ list' = OnSettled(id, e)
      \/ e.event = "disputed"   /\ list' = OnDisputed(id, e)
      \/ e.event = "rejected"   /\ list' = OnRejected(id, e)
      \/ e.event = "unresolved" /\ list' = OnUnresolved(id, e)
  BY <1>1 DEF Received, EventOf
<1>5. /\ e.event = "disputed" => Table!Reports(Table!DisputedColumns(t[n]), t)
      /\ e.event = "rejected" => Table!Reports(Table!ResolvedColumns(t[n], "rejected"), t)
      /\ e.event = "unresolved" => Table!Reports(Table!ResolvedColumns(t[n], "unresolved"), t)
      /\ \A row \in Table!Row :
            (e.event = "settled" /\ Table!Truthful(row, t))
                => Table!Reports(Table!SettledColumns(t[n], row), t)
  BY <1>2, NoneIsNull, Table!StatementsReport
<1>6. \A k \in DOMAIN list :
         /\ list[k].row \in Table!Row
         /\ list[k].id = id => Table!Truthful(list[k].row, t)
  BY DEF AppInv, Items, ItemOK
<1>7. CASE e.event = "asserted" /\ list' = OnAsserted(id, e)
  <2>1. CASE id \in ListedIds
    <3>1. list' = list
      BY <1>7, <2>1 DEF OnAsserted
    <3>2. AppInv'
      BY <1>3, <3>1 DEF AppInv, ListedOnce, Items, ItemOK, Listed
    <3>3. QED
      BY <3>1, <3>2 DEF Kept, Items
  <2>2. CASE id \notin ListedIds
    <3>1. h[1].event = "asserted"
      BY <1>2 DEF Life, AssertedPrints
    <3>2. n = 1
      BY <1>2, <1>7, <3>1, NoneTwice
    <3>3. Rows!InsertedRow(e) = Table!InsertedRow(t[1])
      BY <1>2, <3>2 DEF Rows!InsertedRow, Table!InsertedRow
    <3>4. Rows!InsertedRow(e) \in Table!Row /\ Table!Truthful(Rows!InsertedRow(e), t)
      BY <1>2, <3>3, NoneIsNull, Table!InsertIsTruthful
    <3>8. Paired(Rows!InsertedRow(e))
      BY DEF Paired, Rows!InsertedRow
    <3>5. /\ ItemOK(Listed(id, Rows!InsertedRow(e)))
          /\ Listed(id, Rows!InsertedRow(e)).id = id
      BY <3>4, <3>8 DEF ItemOK, Listed
    <3>6. list' = <<Listed(id, Rows!InsertedRow(e))>> \o list
      BY <1>7, <2>2 DEF OnAsserted
    <3> HIDE DEF e, h, t
    <3>7. QED
      BY <1>3, <2>2, <3>5, <3>6, AddedKeepsPage
  <2>3. QED
    BY <2>1, <2>2
<1>8. CASE e.event = "disputed" /\ list' = OnDisputed(id, e)
  <2> DEFINE columns == [k \in DOMAIN list |-> Table!DisputedColumns(t[n])]
  <2>1. \A k \in DOMAIN list :
           list[k].id = id => Table!Reports(columns[k], t) /\ PairedColumns(columns[k])
    BY <1>5, <1>8 DEF PairedColumns, Table!DisputedColumns
  <2>2. list' = [k \in DOMAIN list |->
                   IF list[k].id = id
                   THEN [list[k] EXCEPT !.row = Rows!Replaced(@, columns[k])]
                   ELSE list[k]]
    BY <1>2, <1>8 DEF OnDisputed, MapRow, Table!DisputedColumns
  <2> HIDE DEF columns
  <2>3. QED
    BY <1>2, <1>3, <2>1, <2>2, MappedKeepsPage
<1>9. CASE e.event = "rejected" /\ list' = OnRejected(id, e)
  <2> DEFINE columns == [k \in DOMAIN list |-> Table!ResolvedColumns(t[n], "rejected")]
  <2>1. \A k \in DOMAIN list :
           list[k].id = id => Table!Reports(columns[k], t) /\ PairedColumns(columns[k])
    BY <1>5, <1>9 DEF PairedColumns, Table!ResolvedColumns
  <2>2. list' = [k \in DOMAIN list |->
                   IF list[k].id = id
                   THEN [list[k] EXCEPT !.row = Rows!Replaced(@, columns[k])]
                   ELSE list[k]]
    BY <1>2, <1>9 DEF OnRejected, MapRow, Table!ResolvedColumns
  <2> HIDE DEF columns
  <2>3. QED
    BY <1>2, <1>3, <2>1, <2>2, MappedKeepsPage
<1>10. CASE e.event = "unresolved" /\ list' = OnUnresolved(id, e)
  <2> DEFINE columns == [k \in DOMAIN list |-> Table!ResolvedColumns(t[n], "unresolved")]
  <2>1. \A k \in DOMAIN list :
           list[k].id = id => Table!Reports(columns[k], t) /\ PairedColumns(columns[k])
    BY <1>5, <1>10 DEF PairedColumns, Table!ResolvedColumns
  <2>2. list' = [k \in DOMAIN list |->
                   IF list[k].id = id
                   THEN [list[k] EXCEPT !.row = Rows!Replaced(@, columns[k])]
                   ELSE list[k]]
    BY <1>2, <1>10 DEF OnUnresolved, MapRow, Table!ResolvedColumns
  <2> HIDE DEF columns
  <2>3. QED
    BY <1>2, <1>3, <2>1, <2>2, MappedKeepsPage
<1>11. CASE e.event = "settled" /\ list' = OnSettled(id, e)
  <2> DEFINE columns == [k \in DOMAIN list |-> Table!SettledColumns(t[n], list[k].row)]
  <2>1. \A k \in DOMAIN list :
           list[k].id = id => Table!Reports(columns[k], t) /\ PairedColumns(columns[k])
    BY <1>5, <1>6, <1>11 DEF PairedColumns, Table!SettledColumns
  <2>2. ASSUME NEW k \in DOMAIN list
        PROVE  columns[k] = IF list[k].row.status = "disputed"
                            THEN [status |-> "settled", settler |-> e.by, settledAt |-> e.at,
                                  resolver |-> e.by, resolvedAt |-> e.at]
                            ELSE [status |-> "settled", settler |-> e.by, settledAt |-> e.at]
    BY <1>2 DEF Table!SettledColumns, Table!Resolves
  <2>3. list' = [k \in DOMAIN list |->
                   IF list[k].id = id
                   THEN [list[k] EXCEPT !.row = Rows!Replaced(@, columns[k])]
                   ELSE list[k]]
    <3> HIDE DEF columns
    <3>1. QED
      BY <1>11, <2>2 DEF OnSettled, MapRow
  <2> HIDE DEF columns
  <2>4. QED
    BY <1>2, <1>3, <2>1, <2>3, MappedKeepsPage
<1>12. QED
  BY <1>4, <1>7, <1>8, <1>9, <1>10, <1>11

\* A list that does not change keeps everything.
LEMMA SameListKept == list' = list => Kept
  BY DEF Kept, Items

\* Every step of the page or the contract.
LEMMA NextKeepsPage ==
    ASSUME TypeOK, HistoryInv, AppInv, [AppNext]_appVars
    PROVE  AppInv' /\ Kept /\ [Next]_vars
<1>1. CASE ChainStep
  <2>1. /\ Next /\ list' = list
        /\ fetching' \subseteq fetching \cup Refs(history')
    BY <1>1 DEF ChainStep
  <2>2. QED
    BY <2>1, ChainKeepsPage, SameListKept
<1>2. CASE UNCHANGED vars /\ list' = list /\ fetching' \subseteq fetching
  <2>1. /\ [Next]_vars /\ fetching' \subseteq fetching \cup Refs(history')
    BY <1>2
  <2>2. QED
    BY <1>2, <2>1, ChainKeepsPage, SameListKept
<1>3. CASE Subscribe \/ Unsubscribe \/ ArbiterPolled
  BY <1>2, <1>3 DEF Subscribe, Unsubscribe, ArbiterPolled
<1>4. ASSUME NEW h \in 0..MaxHeight, BlockSeen(h) PROVE AppInv' /\ Kept /\ [Next]_vars
  BY <1>2, <1>4 DEF BlockSeen
<1>5. ASSUME NEW ref \in fetching, Lost(ref) PROVE AppInv' /\ Kept /\ [Next]_vars
  BY <1>2, <1>5 DEF Lost
<1>6. ASSUME NEW ref \in fetching, Received(ref) PROVE AppInv' /\ Kept /\ [Next]_vars
  <2>1. UNCHANGED vars
    BY <1>6 DEF Received
  <2>2. QED
    BY <1>6, <2>1, ReceivedKeepsPage
<1>7. ASSUME NEW id \in DOMAIN history, NEW row \in IndexRows(id), Load(id, row)
      PROVE  AppInv' /\ Kept /\ [Next]_vars
  <2>1. UNCHANGED vars
    BY <1>7 DEF Load
  <2>2. QED
    BY <1>7, <2>1, LoadKeepsPage
<1>8. CASE UNCHANGED appVars
  BY <1>2, <1>8 DEF appVars, page
<1>9. QED
  BY <1>1, <1>3, <1>4, <1>5, <1>6, <1>7, <1>8 DEF AppNext

-----------------------------------------------------------------------------
(* What is listed *)

\* An item's block and liveness are the contract's, the latter as a number.
LEMMA ItemTerms ==
    ASSUME TypeOK, HistoryInv, NEW item, ItemOK(item)
    PROVE  LET a == assertionMap[item.id]
           IN  /\ a \in Assertions /\ a.liveness \in Nat /\ a.assertedAtBlock \in Nat
               /\ item.row.assertedAt = a.assertedAtBlock
               /\ item.liveness = ToNumber(a.liveness)
<1> DEFINE id == item.id
           a  == assertionMap[id]
           h  == history[id]
<1>1. /\ id \in DOMAIN assertionMap /\ Life(h) /\ a = Rebuilt(h)
      /\ a \in Assertions
  BY DEF ItemOK, TypeOK, HistoryInv
<1>2. /\ a.liveness = h[1].liveness /\ a.assertedAtBlock = h[1].at
      /\ a.liveness \in Nat /\ a.assertedAtBlock \in Nat
  BY <1>1 DEF Rebuilt, Assertions
<1>3. item.row.assertedAt = h[1].at
  <2>1. item.row \in Table!Row /\ Table!Truthful(item.row, Told(h))
    BY DEF ItemOK
  <2>2. item.row.assertedAt \in {None, Table!TrueRow(Told(h)).assertedAt}
        /\ item.row.assertedAt # None
    <3>1. "assertedAt" \in DOMAIN item.row \ {"status"} /\ item.row.assertedAt \in Nat
      BY <2>1 DEF Table!Row
    <3>2. QED
      BY <2>1, <3>1, NoneIsNull DEF Table!Truthful
  <2>3. Table!TrueRow(Told(h)).assertedAt = Told(h)[1].at /\ Told(h)[1].at = h[1].at
    BY <1>1, NoneIsNull, ToldLife DEF Table!TrueRow
  <2>4. QED
    BY <2>2, <2>3
<1>4. item.liveness = ToNumber(a.liveness)
  BY <1>2 DEF ItemOK, Listed
<1>5. QED
  BY <1>1, <1>2, <1>3, <1>4

\* The expiry block of an item is that of the contract, within JavaScript's range;
\* beyond, however it is rounded, it is beyond that range too.
LEMMA ItemExpiry ==
    ASSUME TypeOK, HistoryInv, NEW item, ItemOK(item)
    PROVE  LET a == assertionMap[item.id]
           IN  /\ Expiry(a) \in Nat /\ ExpiryBlock(item) \in Nat
               /\ Expiry(a) <= MaxSafe => ExpiryBlock(item) = Expiry(a)
               /\ Expiry(a) > MaxSafe => ExpiryBlock(item) > MaxSafe
<1> DEFINE a == assertionMap[item.id]
           A == a.assertedAtBlock
           L == a.liveness
<1>1. /\ A \in Nat /\ L \in Nat /\ MaxSafe \in Nat /\ Expiry(a) = A + L
      /\ ExpiryBlock(item) = ToNumber(A + ToNumber(L))
  BY ItemTerms, AppAssumption DEF Expiry, ExpiryBlock
<1> HIDE DEF a, A, L
<1>2. CASE L <= MaxSafe
  <2>1. ToNumber(L) = L
    BY <1>1, <1>2, ExactNumber
  <2>2. CASE A + L <= MaxSafe
    <3>1. ToNumber(A + L) = A + L
      BY <1>1, <2>2, ExactNumber
    <3>2. QED
      BY <1>1, <2>1, <2>2, <3>1 DEF a
  <2>3. CASE A + L > MaxSafe
    <3>1. ToNumber(A + L) \in Nat /\ ToNumber(A + L) > MaxSafe
      BY <1>1, <2>3, LargeNumber
    <3>2. QED
      BY <1>1, <2>1, <2>3, <3>1 DEF a
  <2>4. QED
    BY <1>1, <2>2, <2>3
<1>3. CASE L > MaxSafe
  <2>1. ToNumber(L) \in Nat /\ ToNumber(L) > MaxSafe
    BY <1>1, <1>3, LargeNumber
  <2>2. A + ToNumber(L) \in Nat /\ A + ToNumber(L) > MaxSafe
    BY <1>1, <2>1
  <2>3. ToNumber(A + ToNumber(L)) \in Nat /\ ToNumber(A + ToNumber(L)) > MaxSafe
    BY <2>2, LargeNumber
  <2>4. QED
    BY <1>1, <1>3, <2>3 DEF a
<1>4. QED
  BY <1>1, <1>2, <1>3

-----------------------------------------------------------------------------
(* The theorems *)

\* Nothing is listed at first.
LEMMA InitPage == AppInit => AppInv
  BY DEF AppInit, AppInv, ListedOnce, Items, ItemOK

\* The contract's invariants and the list's.
AppState == TypeOK /\ HistoryInv /\ AppInv

\* Wherever page and contract get together.
THEOREM AppTheorem == AppSpec => []AppState
<1>1. AppInit => AppState
  BY InitPage, InitHistory, InitTypeOK DEF AppInit, AppState
<1>2. AppState /\ [AppNext]_appVars => AppState'
  BY NextKeepsPage, NextKeepsTypes, NextKeepsHistory DEF AppState
<1>3. QED
  BY <1>1, <1>2, PTL DEF AppSpec

\* The page is no part of the contract: with it, the contract only ever takes its
\* own steps, so that its theorems hold of the composition as well.
THEOREM AppContractTheorem == AppSpec => Spec
<1>1. AppInit => Init
  BY DEF AppInit
<1>2. AppState /\ [AppNext]_appVars => [Next]_vars
  BY NextKeepsPage DEF AppState
<1>3. QED
  BY <1>1, <1>2, AppTheorem, PTL DEF AppSpec, Spec

\* No assertion is listed twice, and what is listed of it, its expiry block
\* included, is the chain's, in whatever order loads and events come.
THEOREM ListTheorem == AppSpec => []ListTruthful
<1>1. AppState => ListTruthful
  <2> SUFFICES ASSUME AppState PROVE ListTruthful
    OBVIOUS
  <2>1. ASSUME NEW item \in Items
        PROVE  /\ Exists(item.id)
               /\ Rows!Truthful(item.row, history[item.id])
               /\ Expiry(assertionMap[item.id]) <= MaxSafe
                     => ExpiryBlock(item) = Expiry(assertionMap[item.id])
    <3>1. ItemOK(item)
      BY DEF AppState, AppInv
    <3>2. Exists(item.id) /\ Life(history[item.id])
      BY <3>1 DEF ItemOK, AppState, TypeOK, HistoryInv, Exists
    <3>3. Rows!Truthful(item.row, history[item.id])
      BY <3>1, <3>2, SameTruth DEF ItemOK
    <3>4. QED
      BY <3>1, <3>2, <3>3, ItemExpiry DEF AppState
  <2>2. ListedOnce(list)
    BY DEF AppState, AppInv
  <2>3. QED
    BY <2>1, <2>2 DEF ListTruthful, ListedOnce
<1>2. QED
  BY <1>1, AppTheorem, PTL

\* What the page has learnt of an assertion it does not unlearn, whatever comes
\* late, twice or from an older load.
THEOREM ListKeptTheorem == AppSpec => ListKept
<1>1. AppState /\ [AppNext]_appVars => [Kept]_appVars
  BY NextKeepsPage DEF AppState
<1>2. QED
  BY <1>1, AppTheorem, PTL DEF AppSpec, ListKept

-----------------------------------------------------------------------------
(* The buttons *)

\* The page's block is none that is still to come, and the flag is a flag.
ScreenInv == currentBlock \in 0..Tip /\ isArbiter \in BOOLEAN

\* The contract's block only grows.
LEMMA HeightGrows ==
    ASSUME TypeOK, [Next]_vars
    PROVE  height \in Nat /\ height >= 1 /\ height' \in Nat /\ height' >= height
<1>1. height \in Nat /\ height >= 1
  BY EnvironmentAssumption, AppAssumption DEF TypeOK
<1>2. height' = height \/ height' = height + 1
  BY StepPrints DEF Printed
<1>3. QED
  BY <1>1, <1>2

\* A block that has been mined stays mined.
LEMMA MinedStaysMined ==
    ASSUME NEW h \in Nat, NEW k \in Nat, k >= h
    PROVE  \A n \in 0..(h - 1) : n \in 0..(k - 1)
  OBVIOUS

\* What comes late to the page is no later than the chain.
LEMMA NextKeepsScreen == TypeOK /\ ScreenInv /\ [AppNext]_appVars /\ [Next]_vars => ScreenInv'
<1> SUFFICES ASSUME TypeOK, ScreenInv, [AppNext]_appVars, [Next]_vars PROVE ScreenInv'
  OBVIOUS
<1>1. height \in Nat /\ height >= 1 /\ height' \in Nat /\ height' >= height
  BY HeightGrows
<1>2. currentBlock \in 0..(height - 1) /\ isArbiter \in BOOLEAN
  BY DEF ScreenInv, Tip
<1>3. CASE UNCHANGED <<currentBlock, isArbiter>>
  <2>1. currentBlock' = currentBlock /\ isArbiter' = isArbiter
    BY <1>3
  <2>2. currentBlock \in 0..(height - 1)
    BY <1>2
  <2>3. \A n \in 0..(height - 1) : n \in 0..(height' - 1)
    BY <1>1, MinedStaysMined
  <2>4. QED
    BY <1>2, <2>1, <2>2, <2>3 DEF ScreenInv, Tip
<1>4. ASSUME NEW h \in 0..MaxHeight, BlockSeen(h) PROVE ScreenInv'
  <2>1. h <= height - 1 /\ h \in Nat
    BY <1>1, <1>4, EnvironmentAssumption DEF BlockSeen, Tip
  <2>2. /\ currentBlock' = IF h > currentBlock THEN h ELSE currentBlock
        /\ height' = height /\ isArbiter' = isArbiter
    BY <1>4 DEF BlockSeen, vars
  <2>3. QED
    BY <1>1, <1>2, <2>1, <2>2 DEF ScreenInv, Tip
<1>5. CASE ArbiterPolled
  BY <1>1, <1>2, <1>5 DEF ArbiterPolled, IsArbiter, ScreenInv, Tip, vars
<1>6. CASE ChainStep \/ Subscribe \/ Unsubscribe
  BY <1>3, <1>6 DEF ChainStep, Subscribe, Unsubscribe
<1>7. ASSUME NEW id \in DOMAIN history, NEW row \in IndexRows(id), Load(id, row)
      PROVE  ScreenInv'
  BY <1>3, <1>7 DEF Load
<1>8. ASSUME NEW ref \in fetching, Received(ref) \/ Lost(ref) PROVE ScreenInv'
  BY <1>3, <1>8 DEF Received, Lost
<1>9. CASE UNCHANGED appVars
  BY <1>3, <1>9 DEF appVars, page
<1>10. QED
  BY <1>4, <1>5, <1>6, <1>7, <1>8, <1>9 DEF AppNext

\* The page shows no block that is still to come.
THEOREM ScreenTheorem == AppSpec => []ScreenInv
<1>1. AppInit => ScreenInv
  <2>1. AppInit => height = InitHeight /\ currentBlock = 0 /\ isArbiter = FALSE
    BY DEF AppInit, Init
  <2>2. 0 \in 0..(InitHeight - 1)
    BY EnvironmentAssumption, AppAssumption
  <2>3. QED
    BY <2>1, <2>2 DEF ScreenInv, Tip
<1>2. AppState /\ ScreenInv /\ [AppNext]_appVars => ScreenInv'
  BY NextKeepsScreen, NextKeepsPage DEF AppState
<1>3. QED
  BY <1>1, <1>2, AppTheorem, PTL DEF AppSpec

\* How many blocks are left tells whether the window is over, as far as the page
\* knows the chain.
LEMMA BlocksLeftTell ==
    ASSUME TypeOK, HistoryInv, ScreenInv, NEW item, ItemOK(item)
    PROVE  LET a == assertionMap[item.id]
           IN  /\ BlocksLeft(item) = 0 \/ BlocksLeft(item) > 0
               /\ BlocksLeft(item) = 0 => IsWindowClosed(Expiry(a))
               /\ IsWindowOpen(Expiry(a)) => BlocksLeft(item) > 0
               /\ currentBlock = Tip =>
                     /\ BlocksLeft(item) > 0 <=> IsWindowOpen(Expiry(a))
                     /\ BlocksLeft(item) = 0 <=> IsWindowClosed(Expiry(a))
               /\ (BlocksLeft(item) > 0 /\ Expiry(a) <= MaxSafe) =>
                     ClosingBlock(item) = Expiry(a)
<1> DEFINE E == Expiry(assertionMap[item.id])
           X == ExpiryBlock(item)
<1>1. /\ E \in Nat /\ X \in Nat /\ MaxSafe \in Nat
      /\ E <= MaxSafe => X = E
      /\ E > MaxSafe => X > MaxSafe
  BY ItemExpiry, AppAssumption
<1>2. height \in Nat /\ height <= MaxSafe /\ currentBlock \in 0..(height - 1)
  BY EnvironmentAssumption, AppAssumption DEF TypeOK, ScreenInv, Tip
<1> HIDE DEF E, X
<1>3. BlocksLeft(item) = IF X - currentBlock > 0 THEN X - currentBlock ELSE 0
  BY DEF BlocksLeft, X
<1>4. BlocksLeft(item) \in Nat /\ ClosingBlock(item) = currentBlock + BlocksLeft(item)
  BY <1>1, <1>2, <1>3 DEF ClosingBlock
<1>5. (BlocksLeft(item) > 0 <=> X > currentBlock) /\ (BlocksLeft(item) = 0 <=> X <= currentBlock)
  BY <1>1, <1>2, <1>3
<1>6. (BlocksLeft(item) > 0 /\ E <= MaxSafe) => ClosingBlock(item) = E
  BY <1>1, <1>2, <1>3, <1>4
<1>7. QED
  BY <1>1, <1>2, <1>4, <1>5, <1>6 DEF IsWindowOpen, IsWindowClosed, Tip, E

\* However late the page hears of blocks and of steps, and however a long liveness
\* has been rounded, it offers no settlement in the window, and a dispute of what
\* it lists as open until the window is over.
THEOREM ButtonsTheorem == AppSpec => []ButtonsSafe
<1>1. AppState /\ ScreenInv => ButtonsSafe
  <2> SUFFICES ASSUME AppState, ScreenInv, NEW item \in Items
               PROVE  LET a == assertionMap[item.id]
                      IN  /\ OffersSettle(item) => IsWindowClosed(Expiry(a))
                          /\ (item.row.status = "open" /\ IsWindowOpen(Expiry(a)))
                                => OffersDispute(item)
    BY DEF ButtonsSafe
  <2>1. ItemOK(item) /\ TypeOK /\ HistoryInv
    BY DEF AppState, AppInv
  <2>2. QED
    BY <2>1, BlocksLeftTell DEF OffersSettle, OffersDispute
<1>2. QED
  BY <1>1, AppTheorem, ScreenTheorem, PTL

\* No event is of the genesis block, so that no block of a row is taken for missing.
LEMMA NoBlockZero ==
    ASSUME TypeOK, HistoryInv, NEW item, ItemOK(item)
    PROVE  LET true == Rows!TrueRow(history[item.id])
           IN  true.disputedAt # 0 /\ true.settledAt # 0 /\ true.resolvedAt # 0
<1> DEFINE h == history[item.id]
           t == Told(h)
<1>1. /\ Life(h) /\ \A k \in 1..Len(h) : h[k].at \in InitHeight..height
  BY DEF ItemOK, TypeOK, HistoryInv
<1>2. \A n \in InitHeight..height : n # 0
  BY EnvironmentAssumption, AppAssumption
<1>3. /\ Table!Life(t) /\ Len(t) = Len(h) /\ Len(h) \in 1..3
      /\ \A k \in 1..Len(h) : t[k].at = h[k].at
  BY <1>1, ToldLife, ToldShape DEF Life
<1>4. Rows!TrueRow(h) = Table!TrueRow(t)
  BY <1>1, SameTrueRow
<1>5. \A k \in 1..Len(h) : t[k].at # 0
  BY <1>1, <1>2, <1>3
<1>6. None # 0
  BY PrincipalAssumption
<1> HIDE DEF h, t
<1>7. /\ Table!TrueRow(t).disputedAt = IF Table!Disputed(t) THEN t[2].at ELSE None
      /\ Table!TrueRow(t).settledAt = IF Table!SettledLast(t) THEN t[Len(t)].at ELSE None
      /\ Table!TrueRow(t).resolvedAt = IF Len(t) = 3 THEN t[3].at ELSE None
  BY <1>3, NoneIsNull, Table!TrueColumns
<1>8. Table!Disputed(t) => 2 \in 1..Len(h)
  BY <1>3 DEF Table!Disputed
<1>9. Table!TrueRow(t).disputedAt # 0
  BY <1>5, <1>6, <1>7, <1>8
<1>10. Table!TrueRow(t).settledAt # 0 /\ Table!TrueRow(t).resolvedAt # 0
  <2>1. t[Len(t)].at # 0 /\ (Len(t) = 3 => t[3].at # 0)
    BY <1>3, <1>5
  <2>2. QED
    BY <1>6, <1>7, <2>1
<1>11. QED
  BY <1>4, <1>9, <1>10 DEF h

\* An item's row and the record it is about: the chain's row tells the record, and
\* what the item's row has filled in is the chain's.
LEMMA ItemRow ==
    ASSUME TypeOK, HistoryInv, NEW item, ItemOK(item)
    PROVE  LET h == history[item.id]
               true == Rows!TrueRow(h)
           IN  /\ item.id \in DOMAIN assertionMap /\ Life(h)
               /\ RowTells(assertionMap[item.id], true)
               /\ Paired(item.row) /\ Paired(true)
               /\ item.row.disputer \in {None, true.disputer}
               /\ item.row.disputedAt \in {None, true.disputedAt}
               /\ item.row.settler \in {None, true.settler}
               /\ item.row.settledAt \in {None, true.settledAt}
               /\ item.row.resolver \in {None, true.resolver}
               /\ item.row.resolvedAt \in {None, true.resolvedAt}
               /\ item.row.status \in Table!Status
               /\ item.row.status = "disputed" => item.row.disputer # None
               /\ item.row.status = "settled" =>
                     item.row.settler # None /\ Rows!Happened(h, "settled")
               /\ item.row.status \in {"rejected", "unresolved"} => item.row.resolver # None
<1> DEFINE h == history[item.id]
           row == item.row
<1>1. /\ item.id \in DOMAIN assertionMap /\ Life(h) /\ assertionMap[item.id] = Rebuilt(h)
      /\ row \in Table!Row /\ Table!Truthful(row, Told(h)) /\ Paired(row)
  BY DEF ItemOK, TypeOK, HistoryInv
<1>2. RowTells(Rebuilt(h), Rows!TrueRow(h)) /\ Paired(Rows!TrueRow(h))
  BY <1>1, RecordTells
<1>3. Rows!Truthful(row, h)
  BY <1>1, SameTruth
<1>4. {"disputer", "disputedAt", "settler", "settledAt", "resolver", "resolvedAt"}
         \subseteq DOMAIN row \ {"status"} /\ row.status \in Table!Status
  BY <1>1 DEF Table!Row
<1> HIDE DEF h, row
<1>5. /\ \A c \in DOMAIN row \ {"status"} : row[c] \in {None, Rows!TrueRow(h)[c]}
      /\ row.status = "open" \/ Rows!Happened(h, row.status)
      /\ row.status = "disputed" => row.disputer # None
      /\ row.status = "settled" => row.settler # None
      /\ row.status \in {"rejected", "unresolved"} => row.resolver # None
  BY <1>3 DEF Rows!Truthful
<1>6. /\ row.disputer \in {None, Rows!TrueRow(h).disputer}
      /\ row.disputedAt \in {None, Rows!TrueRow(h).disputedAt}
      /\ row.settler \in {None, Rows!TrueRow(h).settler}
      /\ row.settledAt \in {None, Rows!TrueRow(h).settledAt}
      /\ row.resolver \in {None, Rows!TrueRow(h).resolver}
      /\ row.resolvedAt \in {None, Rows!TrueRow(h).resolvedAt}
  BY <1>4, <1>5
<1>7. row.status = "settled" => row.settler # None /\ Rows!Happened(h, "settled")
  BY <1>5
<1>8. QED
  BY <1>1, <1>2, <1>4, <1>5, <1>6, <1>7 DEF h, row

\* With the chain's row and block the page offers to settle and to dispute exactly
\* what the contract's checks let pass in the next block, but for a dispute of an
\* assertion whose expiry block overflows, which it offers and the contract aborts;
\* with the chain's arbiter flag, to resolve as well.
THEOREM ExactTheorem == AppSpec => []ButtonsExact
<1>1. AppState /\ ScreenInv => ButtonsExact
  <2> SUFFICES ASSUME AppState, ScreenInv, NEW item \in Items, UpToDate(item)
               PROVE  LET a == assertionMap[item.id]
                      IN  /\ OffersSettle(item) = CanSettle(item.id)
                          /\ OffersDispute(item) =
                                \/ CanDispute(item.id)
                                \/ a.status = STATUS_OPEN /\ ~ HasExpiry(a)
                          /\ isArbiter = IsArbiter(User) =>
                                OffersResolve(item) = CanResolve(User, item.id)
    BY DEF ButtonsExact
  <2> DEFINE a == assertionMap[item.id]
  <2>1. ItemOK(item) /\ TypeOK /\ HistoryInv
    BY DEF AppState, AppInv
  <2>2. item.row = Rows!TrueRow(history[item.id]) /\ currentBlock = Tip
    BY DEF UpToDate
  <2>3. /\ item.id \in DOMAIN assertionMap
        /\ (a.status = STATUS_OPEN) <=> (item.row.status = "open")
        /\ (a.status = STATUS_DISPUTED) <=> (item.row.status = "disputed")
        /\ item.row.status = "disputed" => a.disputer # None
    BY <2>1, <2>2, ItemRow DEF RowTells
  <2>4. /\ BlocksLeft(item) > 0 <=> IsWindowOpen(Expiry(a))
        /\ BlocksLeft(item) = 0 <=> IsWindowClosed(Expiry(a))
    BY <2>1, <2>2, BlocksLeftTell
  <2>5. HasExpiry(a) \/ (IsWindowOpen(Expiry(a)) /\ ~ IsWindowClosed(Expiry(a)))
    <3>1. height \in Nat /\ height <= MaxUint /\ Expiry(a) \in Nat /\ MaxUint \in Nat
      BY <2>1, ItemExpiry, EnvironmentAssumption, AppAssumption, ParameterAssumption
      DEF TypeOK
    <3>2. QED
      BY <3>1 DEF HasExpiry, IsWindowOpen, IsWindowClosed
  <2> HIDE DEF a
  <2>6. CanSettle(item.id) <=>
            a.status = STATUS_OPEN /\ HasExpiry(a) /\ IsWindowClosed(Expiry(a))
    BY <2>3, Zenon DEF CanSettle, Exists, a
  <2>7. CanDispute(item.id) <=>
            a.status = STATUS_OPEN /\ HasExpiry(a) /\ IsWindowOpen(Expiry(a))
    BY <2>3, Zenon DEF CanDispute, Exists, a
  <2>8. OffersSettle(item) <=> CanSettle(item.id)
    BY <2>3, <2>4, <2>5, <2>6 DEF OffersSettle
  <2>9. OffersDispute(item) <=>
            \/ CanDispute(item.id)
            \/ a.status = STATUS_OPEN /\ ~ HasExpiry(a)
    BY <2>3, <2>4, <2>5, <2>7 DEF OffersDispute
  <2>10. isArbiter = IsArbiter(User) => OffersResolve(item) = CanResolve(User, item.id)
    BY <2>3 DEF OffersResolve, CanResolve, Exists, a
  <2>11. OffersSettle(item) \in BOOLEAN /\ CanSettle(item.id) \in BOOLEAN
         /\ OffersDispute(item) \in BOOLEAN
    BY DEF OffersSettle, OffersDispute, CanSettle
  <2>12. QED
    BY <2>8, <2>9, <2>10, <2>11 DEF a
<1>2. QED
  BY <1>1, AppTheorem, ScreenTheorem, PTL

\* What the card and its sheet tell is the contract's: when the window closes, when
\* the dispute and the outcome were and whose they are.
THEOREM CardTheorem == AppSpec => []CardTells
<1>1. AppState /\ ScreenInv => CardTells
  <2> SUFFICES ASSUME AppState, ScreenInv, NEW item \in Items
               PROVE  LET a == assertionMap[item.id]
                      IN  /\ Badge(item) # item.row.status => IsWindowClosed(Expiry(a))
                          /\ (OffersDispute(item) /\ Expiry(a) <= MaxSafe)
                                => ClosingBlock(item) = Expiry(a)
                          /\ item.row.status \notin {"open", "disputed"} =>
                                FooterBlock(item) \in {a.settledAtBlock, a.rejectedAtBlock,
                                                       a.unresolvedAtBlock} \ {None}
                          /\ (item.row.status = "disputed" /\ ~ isArbiter) =>
                                FooterBlock(item) = a.disputedAtBlock
                          /\ NamesDisputer(item) => a.disputer = item.row.disputer
                          /\ NamesSettler(item)  => a.status = STATUS_SETTLED
                          /\ NamesResolver(item) =>
                                a.status \in TerminalStatuses /\ a.disputer # None
                          /\ item.row = Rows!TrueRow(history[item.id]) =>
                                /\ NamesDisputer(item) = (a.disputer # None)
                                /\ NamesSettler(item)  = (a.status = STATUS_SETTLED)
                                /\ NamesResolver(item) =
                                      (a.status \in TerminalStatuses /\ a.disputer # None)
    BY DEF CardTells
  <2> DEFINE a == assertionMap[item.id]
             h == history[item.id]
             row == item.row
             true == Rows!TrueRow(h)
  <2>1. ItemOK(item) /\ TypeOK /\ HistoryInv
    BY DEF AppState, AppInv
  <2>2. /\ RowTells(a, true) /\ Paired(row) /\ Paired(true)
        /\ row.disputer \in {None, true.disputer}
        /\ row.disputedAt \in {None, true.disputedAt}
        /\ row.settler \in {None, true.settler}
        /\ row.settledAt \in {None, true.settledAt}
        /\ row.resolver \in {None, true.resolver}
        /\ row.resolvedAt \in {None, true.resolvedAt}
        /\ row.status \in Table!Status
        /\ row.status = "disputed" => row.disputer # None
        /\ row.status = "settled" => row.settler # None /\ Rows!Happened(h, "settled")
        /\ row.status \in {"rejected", "unresolved"} => row.resolver # None
    BY <2>1, ItemRow
  <2>3. /\ BlocksLeft(item) = 0 => IsWindowClosed(Expiry(a))
        /\ (BlocksLeft(item) > 0 /\ Expiry(a) <= MaxSafe) => ClosingBlock(item) = Expiry(a)
    BY <2>1, BlocksLeftTell
  <2>4. /\ true.disputedAt # 0 /\ true.settledAt # 0 /\ true.resolvedAt # 0
    BY <2>1, NoBlockZero
  <2> HIDE DEF a, h, row, true
  <2>5. /\ Badge(item) # row.status => IsWindowClosed(Expiry(a))
        /\ (OffersDispute(item) /\ Expiry(a) <= MaxSafe) => ClosingBlock(item) = Expiry(a)
    BY <2>3 DEF Badge, OffersSettle, OffersDispute, row
  <2>6. ASSUME row.status \notin {"open", "disputed"}
        PROVE  FooterBlock(item) \in {a.settledAtBlock, a.rejectedAtBlock,
                                      a.unresolvedAtBlock} \ {None}
    <3>1. row.status \in {"settled", "rejected", "unresolved"}
      BY <2>2, <2>6 DEF Table!Status
    <3>2. CASE row.status = "settled"
      <4>1. FooterBlock(item) = row.settledAt
        BY <3>2 DEF FooterBlock, row
      <4>2. row.settledAt # None /\ row.settledAt = a.settledAtBlock
        BY <2>2, <3>2 DEF Paired, RowTells
      <4>3. QED
        BY <4>1, <4>2
    <3>3. CASE row.status \in {"rejected", "unresolved"}
      <4>1. FooterBlock(item) = row.resolvedAt
        BY <3>3 DEF FooterBlock, row
      <4>2. row.resolvedAt # None /\ row.resolvedAt = true.resolvedAt
        BY <2>2, <3>3 DEF Paired
      <4>3. QED
        BY <2>2, <4>1, <4>2 DEF RowTells
    <3>4. QED
      BY <3>1, <3>2, <3>3
  <2>7. ASSUME row.status = "disputed", ~ isArbiter
        PROVE  FooterBlock(item) = a.disputedAtBlock
    <3>1. FooterBlock(item) = row.disputedAt
      BY <2>7 DEF FooterBlock, row
    <3>2. row.disputedAt # None
      BY <2>2, <2>7 DEF Paired
    <3>3. QED
      BY <2>2, <3>1, <3>2 DEF RowTells
  <2>8. NamesDisputer(item) => a.disputer = row.disputer
    BY <2>2 DEF NamesDisputer, RowTells, row
  <2>9. NamesSettler(item) => a.status = STATUS_SETTLED
    BY <2>2 DEF NamesSettler, RowTells, row
  <2>10. NamesResolver(item) => a.status \in TerminalStatuses /\ a.disputer # None
    BY <2>2 DEF NamesResolver, RowTells, row
  <2>11. ASSUME row = true
         PROVE  /\ NamesDisputer(item) = (a.disputer # None)
                /\ NamesSettler(item)  = (a.status = STATUS_SETTLED)
                /\ NamesResolver(item) = (a.status \in TerminalStatuses /\ a.disputer # None)
    <3>1. /\ NamesDisputer(item) <=> row.disputer # None
          /\ NamesResolver(item) <=> row.resolver # None
      BY <2>2, <2>4, <2>11 DEF NamesDisputer, NamesResolver, Paired, row
    <3>2. NamesSettler(item) <=> row.settler # None /\ row.status = "settled"
      BY <2>2, <2>4, <2>11 DEF NamesSettler, Paired, row
    <3>3. /\ a.disputer = row.disputer
          /\ a.status = STATUS_SETTLED <=> row.settler # None /\ row.status = "settled"
          /\ (a.status \in TerminalStatuses /\ a.disputer # None) <=> row.resolver # None
      BY <2>2, <2>11 DEF RowTells
    <3>4. NamesDisputer(item) \in BOOLEAN /\ NamesResolver(item) \in BOOLEAN
          /\ NamesSettler(item) \in BOOLEAN
      BY DEF NamesDisputer, NamesResolver, NamesSettler
    <3>5. QED
      BY <3>1, <3>2, <3>3, <3>4
  <2>12. QED
    BY <2>5, <2>6, <2>7, <2>8, <2>9, <2>10, <2>11 DEF a, h, row, true
<1>2. QED
  BY <1>1, AppTheorem, ScreenTheorem, PTL

=============================================================================
