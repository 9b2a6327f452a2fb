------------------------- MODULE ChainhookPipeline -------------------------
(***************************************************************************)
(* From the chain to the assertions table by way of Chainhooks: POST       *)
(* /webhook/chainhooks of packages/api/src/handlers/webhook.ts receives    *)
(* the contract's events in chain order, several at a time, and handles    *)
(* them one after the other.  There is no transaction around the batch: a  *)
(* database error in the middle leaves the first part applied, the handler *)
(* returns nothing, and Chainhooks (external) delivers the batch again.    *)
(***************************************************************************)
EXTENDS AssertionRows, FiniteSets

CONSTANTS Ids,
          MaxFailures    \* bound: requests that fail, in all

ASSUME FailuresAssumption == MaxFailures \in Nat

VARIABLES
    feed,      \* the chain: the events printed about each assertion
    log,       \* the same events, of all assertions, in chain order
    cursor,    \* external: how much of the log Chainhooks has got through
    batch,     \* the request being handled: its next event and its last; or none
    seen,      \* the row read by the settled case before its UPDATE; or none
    retry,     \* external: the last event of a delivery to be repeated; or 0
    failures,  \* requests that have failed
    table      \* the assertions table

vars == <<feed, log, cursor, batch, seen, retry, failures, table>>

Chain == INSTANCE EventFeed

\* An event is referred to by its assertion and its place in that one's feed.
Refs(f) == UNION {{id} \X DOMAIN f[id] : id \in DOMAIN f}

NoBatch == [next |-> 0, last |-> 0]

Init ==
    /\ Chain!Init
    /\ log = <<>> /\ cursor = 0
    /\ batch = NoBatch /\ seen = Null
    /\ retry = 0 /\ failures = 0
    /\ table = NoRows

\* A transaction prints an event.
Printed ==
    /\ Chain!Next
    /\ \E ref \in Refs(feed') \ Refs(feed) : log' = Append(log, ref)
    /\ UNCHANGED <<cursor, batch, seen, retry, failures, table>>

\* External: Chainhooks delivers what it has not got through, up to some block,
\* and repeats a delivery that failed as it was.
Deliver(last) ==
    /\ batch = NoBatch
    /\ last \in (cursor + 1)..Len(log)
    /\ retry # 0 => last = retry
    /\ batch' = [next |-> cursor + 1, last |-> last]
    /\ UNCHANGED <<feed, log, cursor, seen, retry, failures, table>>

-----------------------------------------------------------------------------
(* The handler: one event after the other *)

Handling == batch # NoBatch /\ batch.next <= batch.last
Id       == log[batch.next][1]
Event    == feed[Id][log[batch.next][2]]

\* Mutant: the loop advances twice.
NextEventTwice ==
    /\ batch' = [batch EXCEPT !.next = @ + 2]
    /\ UNCHANGED <<feed, log, cursor, retry, failures>>

NextEvent ==
    /\ batch' = [batch EXCEPT !.next = @ + 1]
    /\ UNCHANGED <<feed, log, cursor, retry, failures>>

HandleAsserted ==
    /\ Handling /\ Event.event = "asserted"
    /\ table' = OnAsserted(table, Id, Event)
    /\ NextEvent
    /\ UNCHANGED seen

HandleDisputed ==
    /\ Handling /\ Event.event = "disputed"
    /\ table' = OnDisputed(table, Id, Event)
    /\ NextEvent
    /\ UNCHANGED seen

HandleRejected ==
    /\ Handling /\ Event.event = "rejected"
    /\ table' = OnRejected(table, Id, Event)
    /\ NextEvent
    /\ UNCHANGED seen

HandleUnresolved ==
    /\ Handling /\ Event.event = "unresolved"
    /\ table' = OnUnresolved(table, Id, Event)
    /\ NextEvent
    /\ UNCHANGED seen

\* The settled case reads the row first and leaves the event when there is none.
SelectForSettled ==
    /\ Handling /\ Event.event = "settled"
    /\ seen = Null
    /\ IF Id \in DOMAIN table
       THEN /\ seen' = table[Id]
            /\ UNCHANGED <<feed, log, cursor, retry, failures, batch>>
       ELSE /\ NextEvent
            /\ UNCHANGED seen
    /\ UNCHANGED table

UpdateForSettled ==
    /\ Handling /\ Event.event = "settled"
    /\ seen # Null
    /\ table' = OnSettled(table, Id, Event, seen)
    /\ seen' = Null
    /\ NextEvent

\* All events handled: the answer is 200 and Chainhooks moves on.
Respond ==
    /\ batch # NoBatch /\ batch.next > batch.last
    /\ cursor' = batch.last
    /\ batch' = NoBatch
    /\ retry' = 0
    /\ UNCHANGED <<feed, log, seen, failures, table>>

\* Mutant: the catch block answers 200 too, and Chainhooks moves on.
FailAnswered ==
    /\ batch # NoBatch
    /\ failures < MaxFailures
    /\ failures' = failures + 1
    /\ cursor' = batch.last
    /\ batch' = NoBatch
    /\ seen' = Null
    /\ UNCHANGED <<feed, log, retry, table>>

\* A statement throws, the worker stops or the answer is lost: what has been
\* applied stays applied and the delivery will be repeated.
Fail ==
    /\ batch # NoBatch
    /\ failures < MaxFailures
    /\ failures' = failures + 1
    /\ retry' = batch.last
    /\ batch' = NoBatch
    /\ seen' = Null
    /\ UNCHANGED <<feed, log, cursor, table>>

Handle ==
    \/ HandleAsserted \/ HandleDisputed \/ HandleRejected \/ HandleUnresolved
    \/ SelectForSettled \/ UpdateForSettled
    \/ Respond

Next ==
    \/ Printed
    \/ \E last \in 1..Len(log) : Deliver(last)
    \/ Handle
    \/ Fail

Spec == Init /\ [][Next]_vars

\* Chainhooks goes on delivering and a request that does not fail is handled to
\* its end; nothing obliges anybody to make or to dispute an assertion.
Fairness ==
    /\ WF_vars(\E last \in 1..Len(log) : Deliver(last))
    /\ WF_vars(Handle)

LiveSpec == Spec /\ Fairness

-----------------------------------------------------------------------------
(* Properties *)

\* The cursor, the batch and the retry stay within the log, and the rows are rows.
TypeOK ==
    /\ cursor \in 0..Len(log)
    /\ batch = NoBatch \/ (batch.next \in (cursor + 1)..(batch.last + 1)
                           /\ batch.last \in (cursor + 1)..Len(log))
    /\ retry = 0 \/ retry \in (cursor + 1)..Len(log)
    /\ seen \in Row \cup {Null}
    /\ failures \in 0..MaxFailures
    /\ table \in [DOMAIN table -> Row]

\* The rows of the first n events of the log: how many of them are about an id,
\* and the rows a reader of the contract would write after them.
CountOf(id, n) == Cardinality({k \in 1..n : log[k][1] = id})

TableAt(n) ==
    [id \in {log[k][1] : k \in 1..n} |-> TrueRow(SubSeq(feed[id], 1, CountOf(id, n)))]

\* Between deliveries the table is exactly the chain up to the cursor, even after
\* deliveries that failed half way and were applied a second time.
AppliedUpToCursor ==
    (batch = NoBatch /\ retry = 0) => table = TableAt(cursor)

\* At no moment, repeated delivery or not, does the table invent anything.
RowsTruthful ==
    \A id \in DOMAIN table : id \in DOMAIN feed /\ Truthful(table[id], feed[id])

\* The table catches up with the chain and stays with it.
Converges == <>[](table = TableAt(Len(log)))

=============================================================================
