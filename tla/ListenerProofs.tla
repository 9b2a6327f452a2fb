--------------------------- MODULE ListenerProofs ---------------------------
(***************************************************************************)
(* What the table promises behind the event listener, for any assertions,  *)
(* parties and blocks, and whatever is lost, overtaken or interleaved.     *)
(***************************************************************************)
EXTENDS ListenerPipeline, AssertionRowsProofs

\* An event that has been printed.
LEMMA RefOf ==
    ASSUME NEW f, NEW r
    PROVE  r \in Refs(f) <=> \E id \in DOMAIN f : \E k \in DOMAIN f[id] : r = <<id, k>>
  BY DEF Refs

\* A transaction adds an event to the feed of one assertion.
LEMMA FeedGrows ==
    ASSUME LivesIn(feed), Chain!Next
    PROVE  LivesIn(feed') /\ Grows(feed, feed')
<1>1. ASSUME NEW id, NEW by \in Parties, NEW at \in Blocks, Chain!Start(id, by, at)
      PROVE  LivesIn(feed') /\ Grows(feed, feed')
  <2> DEFINE e == Chain!Entry("asserted", by, at)
  <2>1. e \in Prints /\ e.event = "asserted"
    BY DEF Prints, Chain!Entry
  <2> HIDE DEF e
  <2>2. QED
    BY <1>1, <2>1, Started DEF Chain!Start, e
<1>2. ASSUME NEW id \in DOMAIN feed, NEW by \in Parties, NEW at \in Blocks,
             Chain!Continue(id, by, at)
      PROVE  LivesIn(feed') /\ Grows(feed, feed')
  <2> DEFINE last == feed[id][Len(feed[id])].event
  <2>1. PICK name \in Chain!Successors(last) :
           feed' = [feed EXCEPT ![id] = Append(@, Chain!Entry(name, by, at))]
    BY <1>2 DEF Chain!Continue
  <2> DEFINE e == Chain!Entry(name, by, at)
  <2>2. \/ last = "asserted" /\ name \in {"disputed", "settled"}
        \/ last = "disputed" /\ name \in TerminalStatus
    BY <2>1 DEF Chain!Successors, TerminalStatus
  <2>3. e \in Prints /\ e.event = name
    BY <2>2 DEF Prints, Chain!Entry, TerminalStatus
  <2> HIDE DEF e
  <2>4. feed' = [feed EXCEPT ![id] = Append(@, e)]
    BY <2>1 DEF e
  <2>5. QED
    BY <2>2, <2>3, <2>4, Continued
<1>3. QED
  BY <1>1, <1>2 DEF Chain!Next

-----------------------------------------------------------------------------
(* The invariant *)

\* What a settled handler has read is as truthful as the table itself.
ListenerInv ==
    /\ subscribed \in BOOLEAN
    /\ LivesIn(feed)
    /\ fetching \subseteq Refs(feed)
    /\ posting \subseteq Refs(feed)
    /\ \A s \in selected :
          /\ s[1] \in Refs(feed) /\ Named(s[1], "settled")
          /\ s[2] \in Row /\ Truthful(s[2], feed[s[1][1]])
    /\ TableTruthful(table, feed)

\* A new event changes nothing that is under way.
LEMMA PrintKeeps == ListenerInv /\ Printed => ListenerInv'
<1> SUFFICES ASSUME ListenerInv, Printed PROVE ListenerInv'
  OBVIOUS
<1>1. LivesIn(feed) /\ LivesIn(feed') /\ Grows(feed, feed')
  BY FeedGrows DEF ListenerInv, Printed
<1>2. Refs(feed) \subseteq Refs(feed')
  BY <1>1, RefOf, GrowthKeeps
<1>3. UNCHANGED <<subscribed, posting, selected, table>>
      /\ fetching' \subseteq fetching \cup Refs(feed')
  BY DEF Printed
<1>4. TableTruthful(table, feed')
  BY <1>1, GrowthKeepsTable DEF ListenerInv
<1>5. ASSUME NEW s \in selected
      PROVE  /\ s[1] \in Refs(feed') /\ Named(s[1], "settled")'
             /\ s[2] \in Row /\ Truthful(s[2], feed'[s[1][1]])
  <2>1. PICK id \in DOMAIN feed : \E k \in DOMAIN feed[id] : s[1] = <<id, k>>
    BY RefOf DEF ListenerInv
  <2>2. PICK k \in DOMAIN feed[id] : s[1] = <<id, k>>
    BY <2>1
  <2>3. /\ s[1][1] = id /\ s[1][2] = k /\ s[2] \in Row /\ Truthful(s[2], feed[id])
        /\ feed[id][k].event = "settled"
    BY <2>2 DEF ListenerInv, Named, EventOf
  <2>4. feed'[id][k] = feed[id][k] /\ Truthful(s[2], feed'[id])
    BY <1>1, <2>3, GrowthKeeps
  <2>5. QED
    BY <1>2, <2>3, <2>4 DEF ListenerInv, Named, EventOf
<1>6. QED
  BY <1>1, <1>2, <1>3, <1>4, <1>5 DEF ListenerInv

\* The handlers of one statement.
LEMMA HandleIs ==
    ASSUME NEW ref, Handle(ref)
    PROVE  /\ feed' = feed
           /\ EventOf(ref).event # "settled"
           /\ \A seen : table' = Handled(table, ref[1], EventOf(ref), seen)
<1>1. CASE HandleAsserted(ref)
  BY <1>1 DEF HandleAsserted, Named, Handled, Handle
<1>2. CASE HandleDisputed(ref)
  BY <1>2 DEF HandleDisputed, Named, Handled, Handle
<1>3. CASE HandleRejected(ref)
  BY <1>3 DEF HandleRejected, Named, Handled, Handle
<1>4. CASE HandleUnresolved(ref)
  BY <1>4 DEF HandleUnresolved, Named, Handled, Handle
<1>5. QED
  BY <1>1, <1>2, <1>3, <1>4 DEF Handle

\* They keep the table truthful and lose nothing.
LEMMA HandleKeeps ==
    ASSUME ListenerInv, NEW ref, Handle(ref)
    PROVE  TableTruthful(table', feed) /\ TableKeeps(table, table')
<1>1. PICK id \in DOMAIN feed : \E k \in DOMAIN feed[id] : ref = <<id, k>>
  BY RefOf DEF ListenerInv, Handle
<1>2. PICK k \in DOMAIN feed[id] : ref = <<id, k>>
  BY <1>1
<1> DEFINE e == feed[id][k]
<1>3. EventOf(ref) = e /\ ref[1] = id
  BY <1>2 DEF EventOf
<1> HIDE DEF e
<1>4. /\ e.event # "settled"
      /\ \A seen : table' = Handled(table, id, e, seen)
  BY <1>3, HandleIs
<1>5. TableTruthful(table, feed) /\ LivesIn(feed)
  BY DEF ListenerInv
<1>6. QED
  BY <1>4, <1>5, HandlersKeepTable DEF e

\* The settled handler's update, by a row it may have read long ago.
LEMMA UpdateKeeps ==
    ASSUME ListenerInv, NEW s, UpdateForSettled(s)
    PROVE  TableTruthful(table', feed) /\ TableKeeps(table, table')
<1>1. s \in selected /\ table' = OnSettled(table, s[1][1], EventOf(s[1]), s[2])
  BY DEF UpdateForSettled
<1>2. PICK id \in DOMAIN feed : \E k \in DOMAIN feed[id] : s[1] = <<id, k>>
  BY <1>1, RefOf DEF ListenerInv
<1>3. PICK k \in DOMAIN feed[id] : s[1] = <<id, k>>
  BY <1>2
<1>4. s[1][1] = id /\ EventOf(s[1]) = feed[id][k]
  BY <1>3 DEF EventOf
<1>5. s[2] \in Row /\ Truthful(s[2], feed[id]) /\ TableTruthful(table, feed) /\ LivesIn(feed)
  BY <1>1, <1>4 DEF ListenerInv
<1>6. feed[id][k].event = "settled"
  BY <1>1, <1>4 DEF ListenerInv, Named
<1>7. table' = Handled(table, id, feed[id][k], s[2])
  BY <1>1, <1>4, <1>6 DEF Handled
<1>8. QED
  BY <1>5, <1>6, <1>7, HandlersKeepTable

\* The steps that touch neither the feed nor the table.
LEMMA MovingKeeps ==
    ASSUME ListenerInv,
           \/ Exit \/ Restart
           \/ \E ref \in fetching : Fetched(ref) \/ FetchFailed(ref)
           \/ \E ref \in posting : PostFailed(ref)
           \/ \E s \in selected : HandlerFailed(s)
    PROVE  ListenerInv' /\ UNCHANGED <<feed, table>>
<1>1. /\ UNCHANGED <<feed, table>>
      /\ subscribed' \in BOOLEAN
      /\ fetching' \subseteq fetching /\ posting' \subseteq posting \cup fetching
      /\ selected' \subseteq selected
  BY DEF ListenerInv, Exit, Restart, Fetched, FetchFailed, PostFailed, HandlerFailed
<1>2. QED
  BY <1>1 DEF ListenerInv, Named, EventOf

\* The row that the settled handler reads.
LEMMA SelectKeeps ==
    ASSUME ListenerInv, NEW ref, SelectForSettled(ref)
    PROVE  ListenerInv' /\ UNCHANGED <<feed, table>>
<1>1. /\ UNCHANGED <<feed, subscribed, fetching, table>>
      /\ posting' \subseteq posting
      /\ ref \in Refs(feed) /\ Named(ref, "settled")
  BY DEF SelectForSettled, ListenerInv
<1>2. \A s \in selected' :
         s \in selected \/ (s = <<ref, table[ref[1]]>> /\ ref[1] \in DOMAIN table)
  BY DEF SelectForSettled
<1>3. ASSUME NEW s \in selected'
      PROVE  /\ s[1] \in Refs(feed) /\ Named(s[1], "settled")
             /\ s[2] \in Row /\ Truthful(s[2], feed[s[1][1]])
  BY <1>1, <1>2 DEF ListenerInv, TableTruthful
<1>4. QED
  BY <1>1, <1>3 DEF ListenerInv, Named, EventOf

\* What the pipeline does to the table, whichever step it takes.
LEMMA NextKeepsListener ==
    ListenerInv /\ [Next]_vars => ListenerInv' /\ (table' = table \/ TableKeeps(table, table'))
<1> SUFFICES ASSUME ListenerInv, [Next]_vars
             PROVE  ListenerInv' /\ (table' = table \/ TableKeeps(table, table'))
  OBVIOUS
<1>1. CASE Printed
  BY <1>1, PrintKeeps DEF Printed
<1>2. ASSUME NEW ref \in posting, Handle(ref)
      PROVE  ListenerInv' /\ TableKeeps(table, table')
  <2>1. TableTruthful(table', feed) /\ TableKeeps(table, table')
    BY <1>2, HandleKeeps
  <2>2. UNCHANGED <<feed, subscribed, fetching, selected>> /\ posting' \subseteq posting
    BY <1>2 DEF Handle
  <2>3. QED
    BY <2>1, <2>2 DEF ListenerInv, Named, EventOf
<1>3. ASSUME NEW s \in selected, UpdateForSettled(s)
      PROVE  ListenerInv' /\ TableKeeps(table, table')
  <2>1. TableTruthful(table', feed) /\ TableKeeps(table, table')
    BY <1>3, UpdateKeeps
  <2>2. UNCHANGED <<feed, subscribed, fetching, posting>> /\ selected' \subseteq selected
    BY <1>3 DEF UpdateForSettled
  <2>3. QED
    BY <2>1, <2>2 DEF ListenerInv, Named, EventOf
<1>4. CASE UNCHANGED vars
  BY <1>4 DEF vars, ListenerInv, Named, EventOf
<1>5. QED
  BY <1>1, <1>2, <1>3, <1>4, MovingKeeps, SelectKeeps DEF Next

\* The invariant of the pipeline.
THEOREM ListenerTheorem == Spec => []ListenerInv
<1>1. Init => ListenerInv
  <2> SUFFICES ASSUME Init PROVE ListenerInv
    OBVIOUS
  <2>1. DOMAIN feed = {} /\ DOMAIN table = {} /\ table \in [DOMAIN table -> Row]
    BY DEF Init, Chain!Init, NoRows
  <2>2. fetching = {} /\ posting = {} /\ selected = {} /\ subscribed \in BOOLEAN
    BY DEF Init
  <2>3. QED
    BY <2>1, <2>2 DEF ListenerInv, LivesIn, TableTruthful
<1>2. QED
  BY <1>1, NextKeepsListener, PTL DEF Spec

\* Every step under way is about an event the chain has printed, and rows are rows.
THEOREM ListenerTypeTheorem == Spec => []TypeOK
<1>1. ListenerInv => TypeOK
  BY DEF ListenerInv, TypeOK, TableTruthful
<1>2. QED
  BY <1>1, ListenerTheorem, PTL

\* Whatever is lost and in whatever order the rest arrives, the table invents nothing.
THEOREM ListenerTruthTheorem == Spec => []RowsTruthful
<1>1. ListenerInv => RowsTruthful
  BY DEF ListenerInv, RowsTruthful, TableTruthful
<1>2. QED
  BY <1>1, ListenerTheorem, PTL

\* A column once filled is never emptied or overwritten, not even by a settled
\* handler that goes by a row it read long ago.
THEOREM WriteOnceTheorem == Spec => WriteOnce
<1>1. ListenerInv /\ [Next]_vars => [ColumnsKept]_vars
  <2> SUFFICES ASSUME ListenerInv, [Next]_vars PROVE ColumnsKept
    OBVIOUS
  <2>1. \A id \in DOMAIN table : DOMAIN table[id] = Columns
    BY RowColumns DEF ListenerInv, TableTruthful
  <2>2. QED
    BY <2>1, NextKeepsListener DEF ColumnsKept, TableKeeps, Keeps
<1>2. QED
  BY <1>1, ListenerTheorem, PTL DEF Spec, WriteOnce

-----------------------------------------------------------------------------
(* Order is all it takes *)

\* A row that is exact stays so when its next event is handled.
LEMMA StepsAreExact == ListenerInv => StepExact
<1> SUFFICES ASSUME ListenerInv PROVE StepExact
  OBVIOUS
<1>1. ASSUME NEW ref \in posting, Handle(ref), UpTo(ref[1], ref[2] - 1)
      PROVE  UpTo(ref[1], ref[2])'
  <2>1. PICK id \in DOMAIN feed : \E k \in DOMAIN feed[id] : ref = <<id, k>>
    BY RefOf DEF ListenerInv
  <2>2. PICK k \in DOMAIN feed[id] : ref = <<id, k>>
    BY <2>1
  <2>3. Life(feed[id]) /\ k \in 1..3
    BY Places DEF ListenerInv, LivesIn
  <2> DEFINE e == feed[id][k]
  <2>4. EventOf(ref) = e /\ ref[1] = id /\ ref[2] = k
    BY <2>2 DEF EventOf
  <2> HIDE DEF e
  <2>5. feed' = feed /\ e.event # "settled"
        /\ \A seen : table' = Handled(table, id, e, seen)
    BY <1>1, <2>4, HandleIs
  <2>6. Exact(table, id, feed[id], k - 1)
    BY <1>1, <2>4 DEF UpTo, Exact
  <2>7. Exact(table', id, feed[id], k)
    <3>1. Fresh(table, id, e, Null)
      BY <2>5 DEF Fresh
    <3>2. Exact(Handled(table, id, e, Null), id, feed[id], k)
      BY <2>3, <2>6, <3>1, HandledInOrder DEF e
    <3>3. QED
      BY <2>5, <3>2
  <2>8. QED
    BY <2>4, <2>5, <2>7 DEF UpTo, Exact
<1>2. ASSUME NEW s \in selected, UpdateForSettled(s), UpTo(s[1][1], s[1][2] - 1),
             table[s[1][1]] = s[2]
      PROVE  UpTo(s[1][1], s[1][2])'
  <2>1. PICK id \in DOMAIN feed : \E k \in DOMAIN feed[id] : s[1] = <<id, k>>
    BY RefOf DEF ListenerInv
  <2>2. PICK k \in DOMAIN feed[id] : s[1] = <<id, k>>
    BY <2>1
  <2>3. Life(feed[id]) /\ k \in 1..3
    BY Places DEF ListenerInv, LivesIn
  <2>4. EventOf(s[1]) = feed[id][k] /\ s[1][1] = id /\ s[1][2] = k
    BY <2>2 DEF EventOf
  <2>5. feed[id][k].event = "settled"
    BY <2>4 DEF ListenerInv, Named
  <2>6. feed' = feed /\ table' = Handled(table, id, feed[id][k], s[2])
    BY <1>2, <2>4, <2>5 DEF UpdateForSettled, Handled
  <2>7. Exact(table, id, feed[id], k - 1) /\ Fresh(table, id, feed[id][k], s[2])
    BY <1>2, <2>4 DEF UpTo, Exact, Fresh
  <2>8. Exact(table', id, feed[id], k)
    BY <2>3, <2>6, <2>7, HandledInOrder
  <2>9. QED
    BY <2>4, <2>6, <2>8 DEF UpTo, Exact
<1>3. QED
  BY <1>1, <1>2 DEF StepExact

\* If the events of an assertion are handled in order, its row is exact: what
\* leaves a row behind is an event lost or overtaken, never the handlers.
THEOREM OrderTheorem == Spec => OrderSuffices
<1>1. ListenerInv /\ [Next]_vars => [StepExact]_vars
  BY StepsAreExact
<1>2. QED
  BY <1>1, ListenerTheorem, PTL DEF Spec, OrderSuffices

=============================================================================
