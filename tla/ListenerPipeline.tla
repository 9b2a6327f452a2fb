-------------------------- MODULE ListenerPipeline --------------------------
(***************************************************************************)
(* From the chain to the assertions table by way of the event listener:    *)
(* packages/sdk/src/event.ts fetches the events of each transaction it is  *)
(* notified of, packages/event-listener/src/index.ts posts each event to   *)
(* the API, and POST /webhook of packages/api/src/handlers/webhook.ts      *)
(* writes the row.  Fetches, posts and handlers all run concurrently: no   *)
(* step waits for the same step of an earlier event, and nothing that      *)
(* fails is tried again.                                                   *)
(***************************************************************************)
EXTENDS AssertionRows, FiniteSets

CONSTANT Ids

VARIABLES
    feed,        \* the chain: the events printed about each assertion
    subscribed,  \* the listener process is up and subscribed
    fetching,    \* events whose GET /tx/events is under way
    posting,     \* events whose POST has not reached the handler
    selected,    \* settled handlers between their SELECT and their UPDATE
    table        \* the assertions table

pipeline == <<fetching, posting, selected>>
vars == <<feed, subscribed, fetching, posting, selected, table>>

Chain == INSTANCE EventFeed

\* An event is referred to by its assertion and its place in that one's feed.
Refs(f) == UNION {{id} \X DOMAIN f[id] : id \in DOMAIN f}
EventOf(ref) == feed[ref[1]][ref[2]]
Named(ref, name) == EventOf(ref).event = name

Init ==
    /\ Chain!Init
    /\ subscribed = TRUE
    /\ fetching = {} /\ posting = {} /\ selected = {}
    /\ table = NoRows

\* A transaction prints an event; the subscriber, if there is one, is notified
\* of the transaction and asks for its events.
Printed ==
    /\ Chain!Next
    /\ fetching' = IF subscribed THEN fetching \cup (Refs(feed') \ Refs(feed)) ELSE fetching
    /\ UNCHANGED <<subscribed, posting, selected, table>>

\* The answer to a GET comes, in any order, and the event is posted.
Fetched(ref) ==
    /\ ref \in fetching
    /\ fetching' = fetching \ {ref}
    /\ posting' = posting \cup {ref}
    /\ UNCHANGED <<feed, subscribed, selected, table>>

\* A GET fails or brings no data: the event is never seen again.
FetchFailed(ref) ==
    /\ ref \in fetching
    /\ fetching' = fetching \ {ref}
    /\ UNCHANGED <<feed, subscribed, posting, selected, table>>

\* A POST fails before the handler has run; the listener logs it and goes on.
PostFailed(ref) ==
    /\ ref \in posting
    /\ posting' = posting \ {ref}
    /\ UNCHANGED <<feed, subscribed, fetching, selected, table>>

\* SIGINT or SIGTERM: unsubscribe and exit, which drops the GETs under way.
Exit ==
    /\ subscribed
    /\ subscribed' = FALSE
    /\ fetching' = {}
    /\ UNCHANGED <<feed, posting, selected, table>>

\* A new process subscribes; it is notified of later transactions only.
Restart ==
    /\ ~ subscribed
    /\ subscribed' = TRUE
    /\ UNCHANGED <<feed, fetching, posting, selected, table>>

\* The handlers that are one SQL statement.
HandleAsserted(ref) ==
    /\ Named(ref, "asserted")
    /\ table' = OnAsserted(table, ref[1], EventOf(ref))

HandleDisputed(ref) ==
    /\ Named(ref, "disputed")
    /\ table' = OnDisputed(table, ref[1], EventOf(ref))

HandleRejected(ref) ==
    /\ Named(ref, "rejected")
    /\ table' = OnRejected(table, ref[1], EventOf(ref))

\* Mutant: the case is a copy of the one above it.
HandleUnresolvedAsRejected(ref) ==
    /\ Named(ref, "unresolved")
    /\ table' = OnRejected(table, ref[1], EventOf(ref))

HandleUnresolved(ref) ==
    /\ Named(ref, "unresolved")
    /\ table' = OnUnresolved(table, ref[1], EventOf(ref))

Handle(ref) ==
    /\ ref \in posting
    /\ posting' = posting \ {ref}
    /\ \/ HandleAsserted(ref)
       \/ HandleDisputed(ref)
       \/ HandleRejected(ref)
       \/ HandleUnresolved(ref)
    /\ UNCHANGED <<feed, subscribed, fetching, selected>>

\* Mutant: the handler goes on without a row.
SelectForSettledUnchecked(ref) ==
    /\ ref \in posting
    /\ Named(ref, "settled")
    /\ posting' = posting \ {ref}
    /\ selected' = selected \cup
          {<<ref, IF ref[1] \in DOMAIN table THEN table[ref[1]] ELSE Null>>}
    /\ UNCHANGED <<feed, subscribed, fetching, table>>

\* The settled handler is two: it reads the row and stops when there is none ...
SelectForSettled(ref) ==
    /\ ref \in posting
    /\ Named(ref, "settled")
    /\ posting' = posting \ {ref}
    /\ selected' = IF ref[1] \in DOMAIN table
                   THEN selected \cup {<<ref, table[ref[1]]>>}
                   ELSE selected
    /\ UNCHANGED <<feed, subscribed, fetching, table>>

\* ... and updates it later, by what it read.
UpdateForSettled(s) ==
    LET ref == s[1]
    IN  /\ s \in selected
        /\ selected' = selected \ {s}
        /\ table' = OnSettled(table, ref[1], EventOf(ref), s[2])
        /\ UNCHANGED <<feed, subscribed, fetching, posting>>

\* The worker stops between the two statements.
HandlerFailed(s) ==
    /\ s \in selected
    /\ selected' = selected \ {s}
    /\ UNCHANGED <<feed, subscribed, fetching, posting, table>>

Next ==
    \/ Printed \/ Exit \/ Restart
    \/ \E ref \in fetching : Fetched(ref) \/ FetchFailed(ref)
    \/ \E ref \in posting : PostFailed(ref) \/ Handle(ref) \/ SelectForSettled(ref)
    \/ \E s \in selected : UpdateForSettled(s) \/ HandlerFailed(s)

Spec == Init /\ [][Next]_vars

-----------------------------------------------------------------------------
(* Properties *)

\* Every step under way is about an event the chain has printed.
TypeOK ==
    /\ subscribed \in BOOLEAN
    /\ fetching \subseteq Refs(feed)
    /\ posting \subseteq Refs(feed)
    /\ \A s \in selected : s[1] \in Refs(feed) /\ s[2] \in Row
    /\ table \in [DOMAIN table -> Row]

\* Whatever is lost and in whatever order the rest arrives, the table invents
\* nothing: rows exist only for assertions made, every filled column is the
\* chain's, and a resolver is named only if an arbiter ruled.
RowsTruthful ==
    \A id \in DOMAIN table : id \in DOMAIN feed /\ Truthful(table[id], feed[id])

\* A column once filled is never emptied or overwritten: a late event or a
\* settled handler writing by a row it read long ago loses no earlier step.
ColumnsKept ==
    \A id \in DOMAIN table :
        /\ id \in DOMAIN table'
        /\ \A c \in DOMAIN table[id] \ {"status"} :
              table[id][c] # Null => table'[id][c] = table[id][c]

WriteOnce == [][ColumnsKept]_vars

\* The table has taken in exactly the first n events of an assertion.
UpTo(id, n) ==
    IF n = 0 THEN id \notin DOMAIN table
    ELSE id \in DOMAIN table /\ table[id] = TrueRow(SubSeq(feed[id], 1, n))

\* Order is all it takes: a row that is exact stays so when the next event of its
\* assertion is handled, for the settled case if the row has not changed since
\* the SELECT.  What leaves a row behind is an event lost or overtaken.
StepExact ==
    /\ \A ref \in posting :
          (Handle(ref) /\ UpTo(ref[1], ref[2] - 1)) => UpTo(ref[1], ref[2])'
    /\ \A s \in selected :
          LET ref == s[1]
          IN  (/\ UpdateForSettled(s) /\ UpTo(ref[1], ref[2] - 1)
               /\ table[ref[1]] = s[2]) => UpTo(ref[1], ref[2])'

OrderSuffices == [][StepExact]_vars

\* packages/docs/using/settling.md:36: the three outcomes are final and nothing
\* can follow; a row that has recorded an outcome goes on showing one.
OutcomeStaysShown ==
    \A id \in DOMAIN table :
        (table[id].settler # Null \/ table[id].resolver # Null)
            => table[id].status \in TerminalStatus

=============================================================================
