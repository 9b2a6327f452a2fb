--------------------------- MODULE AssertionRows ---------------------------
(***************************************************************************)
(* The assertions table of the API (packages/api/src/lib/db/schema) and    *)
(* what each webhook event does to it.  A row says who did what and at     *)
(* which block; the transaction id of a step goes with its block and the   *)
(* terms (identifier, claim, bond, liveness) with the asserter.            *)
(***************************************************************************)
EXTENDS Integers, Sequences

CONSTANTS Parties, Blocks,
          Null           \* SQL NULL

ASSUME RowAssumption == Null \notin Parties \cup Blocks

Status == {"open", "disputed", "settled", "rejected", "unresolved"}

TerminalStatus == {"settled", "rejected", "unresolved"}

Row == [asserter : Parties,         assertedAt : Blocks,
        disputer : Parties \cup {Null}, disputedAt : Blocks \cup {Null},
        settler  : Parties \cup {Null}, settledAt  : Blocks \cup {Null},
        resolver : Parties \cup {Null}, resolvedAt : Blocks \cup {Null},
        status   : Status]

NoRows == [id \in {} |-> Null]

\* The row an insert makes: the columns not given are null or their default.
InsertedRow(e) ==
    [asserter |-> e.by, assertedAt |-> e.at,
     disputer |-> Null, disputedAt |-> Null,
     settler  |-> Null, settledAt  |-> Null,
     resolver |-> Null, resolvedAt |-> Null,
     status   |-> "open"]

Replaced(row, columns) ==
    [c \in DOMAIN row |-> IF c \in DOMAIN columns THEN columns[c] ELSE row[c]]

\* UPDATE ... WHERE id = : no row, no effect.
Update(table, id, columns) ==
    [i \in DOMAIN table |-> IF i = id THEN Replaced(table[i], columns) ELSE table[i]]

\* Mutant: on conflict nothing is done.
OnAssertedOnce(table, id, e) ==
    IF id \in DOMAIN table THEN table
    ELSE [i \in DOMAIN table \cup {id} |-> IF i = id THEN InsertedRow(e) ELSE table[i]]

\* asserted: insert, or on conflict set the columns of the assertion itself,
\* which leaves the status and the later steps of an existing row alone.
OnAsserted(table, id, e) ==
    IF id \in DOMAIN table
    THEN Update(table, id, [asserter |-> e.by, assertedAt |-> e.at])
    ELSE [i \in DOMAIN table \cup {id} |-> IF i = id THEN InsertedRow(e) ELSE table[i]]

OnDisputed(table, id, e) ==
    Update(table, id, [disputer |-> e.by, disputedAt |-> e.at, status |-> "disputed"])

\* Mutant: the test is inverted.
ResolvesUndisputed(seen) == seen.status # "disputed"

\* settled: the row read before the update decides whether an arbiter did it.
Resolves(seen) == seen.status = "disputed"

\* Mutant: the update writes back the whole row that was read.
OnSettledWholeRow(table, id, e, seen) ==
    Update(table, id, Replaced(seen, [settler |-> e.by, settledAt |-> e.at,
                                      status |-> "settled"]))

OnSettled(table, id, e, seen) ==
    LET settlement == [settler |-> e.by, settledAt |-> e.at, status |-> "settled"]
        resolution == [settler |-> e.by, settledAt |-> e.at, status |-> "settled",
                       resolver |-> e.by, resolvedAt |-> e.at]
    IN  Update(table, id, IF Resolves(seen) THEN resolution ELSE settlement)

OnRejected(table, id, e) ==
    Update(table, id, [resolver |-> e.by, resolvedAt |-> e.at, status |-> "rejected"])

OnUnresolved(table, id, e) ==
    Update(table, id, [resolver |-> e.by, resolvedAt |-> e.at, status |-> "unresolved"])

-----------------------------------------------------------------------------
(* What the chain says of an assertion, from its events so far: the row a   *)
(* reader of the contract itself would write.                               *)

Happened(events, name) == \E k \in DOMAIN events : events[k].event = name

EventNamed(events, name) == events[CHOOSE k \in DOMAIN events : events[k].event = name]

ByOrNull(events, name) == IF Happened(events, name) THEN EventNamed(events, name).by ELSE Null
AtOrNull(events, name) == IF Happened(events, name) THEN EventNamed(events, name).at ELSE Null

\* The arbiter's step: an outcome that follows a dispute.
Ruling(events) ==
    {k \in DOMAIN events : k > 1 /\ events[k - 1].event = "disputed"}

TrueRow(events) ==
    LET last == events[Len(events)].event
    IN  [asserter |-> events[1].by, assertedAt |-> events[1].at,
         disputer |-> ByOrNull(events, "disputed"),
         disputedAt |-> AtOrNull(events, "disputed"),
         settler |-> ByOrNull(events, "settled"),
         settledAt |-> AtOrNull(events, "settled"),
         resolver |-> IF Ruling(events) = {} THEN Null ELSE events[Len(events)].by,
         resolvedAt |-> IF Ruling(events) = {} THEN Null ELSE events[Len(events)].at,
         status |-> IF last = "asserted" THEN "open" ELSE last]

\* The step that fills a column.
StepOf(c) ==
    CASE c \in {"disputer", "disputedAt"} -> "disputed"
      [] c \in {"settler", "settledAt"}   -> "settled"
      [] c \in {"resolver", "resolvedAt"} -> "resolved"
      [] OTHER                            -> "asserted"

\* A row as it is when only some of the steps were seen.
Shown(row, steps) == [c \in DOMAIN row |-> IF StepOf(c) \in steps THEN row[c] ELSE Null]

\* The rows an index that loses or reorders events can hold: some of the later
\* steps are filled in, the status is that of one of the events it saw.
PartialRows(events) ==
    LET Possible(steps) ==
            /\ "asserted" \in steps
            /\ "resolved" \in steps /\ Happened(events, "settled")
                   => {"disputed", "settled"} \subseteq steps
    IN  {[Shown(TrueRow(events), steps) EXCEPT !.status = s] :
            steps \in {t \in SUBSET {"asserted", "disputed", "settled", "resolved"} :
                          Possible(t)},
            s \in Status}

\* A row invents nothing: each column it has filled is the chain's, its status is
\* one the assertion has had, and what the status says happened is filled in.
Truthful(row, events) ==
    LET true == TrueRow(events)
    IN  /\ \A c \in DOMAIN row \ {"status"} : row[c] \in {Null, true[c]}
        /\ row.status = "open" \/ Happened(events, row.status)
        /\ (row.status = "open") = ({row.disputer, row.settler, row.resolver} = {Null})
        /\ row.status = "disputed" => row.disputer # Null
        /\ row.status = "settled" => row.settler # Null
        /\ row.status \in {"rejected", "unresolved"} => row.resolver # Null

=============================================================================
