------------------------------- MODULE CooApp -------------------------------
(***************************************************************************)
(* The web app's assertion list and the contract it is about, together.    *)
(* components/verify/assertion-list.tsx merges what the API returned with  *)
(* the events the SDK fetches; assertion-card.tsx offers a Dispute, Settle *)
(* or Resolve button by the listed status and the latest block the page    *)
(* has seen.  The chain (CooCore) meanwhile moves on by itself: what the   *)
(* page knows may be old, and events may come late, out of order or never. *)
(***************************************************************************)
EXTENDS CooCore

CONSTANTS
    User,              \* the principal whose wallet is connected
    MaxSafe            \* JavaScript's MAX_SAFE_INTEGER, 2^53 - 1

\* The genesis block, number 0, holds no contract call.
ASSUME AppAssumption ==
    /\ InitHeight >= 1
    /\ User \in Principals
    /\ MaxSafe \in Nat /\ MaxSafe % 2 = 1
    /\ \E k \in 1..53 : MaxSafe + 1 = 2^k
    /\ MaxHeight <= MaxSafe /\ MaxSafe <= MaxUint

VARIABLES
    list,          \* AssertionList's assertions, from top to bottom
    currentBlock,  \* AssertionList's currentBlock
    subscribed,    \* the page is subscribed to the contract's events
    fetching,      \* events whose GET /tx/events is under way
    isArbiter      \* ArbiterProvider's isArbiter

page == <<list, currentBlock, subscribed, fetching, isArbiter>>
appVars == <<vars, page>>

Rows == INSTANCE AssertionRows WITH
    Parties <- Principals, Blocks <- Nat, Null <- None

Refs(h) == UNION {{id} \X DOMAIN h[id] : id \in DOMAIN h}
EventOf(ref) == history[ref[1]][ref[2]]

\* The last block mined; height is that of the block being made.
Tip == height - 1

\* Mutant: the number is kept in 32 bits, so to speak.
ToInt(n) == n % (MaxSafe + 1)

\* How far apart the doubles around an integer above MaxSafe are: the greatest
\* power of two of which the integer has MaxSafe + 1 halves.
Spacing(n) ==
    LET Fitting == {u \in 1..n : (\E k \in 1..u : u = 2^k) /\ u * (MaxSafe + 1) <= 2 * n}
    IN  CHOOSE u \in Fitting : \A v \in Fitting : v <= u

\* The double nearest to an integer, ties to even; exact up to MaxSafe.
ToNumber(n) ==
    LET u    == Spacing(n)
        q    == n \div u
        rest == 2 * (n % u)
    IN  IF n <= MaxSafe THEN n
        ELSE IF rest > u \/ (rest = u /\ q % 2 = 1) THEN (q + 1) * u ELSE q * u

\* An assertion as the API and the events describe it, both with a number made
\* of the printed uint.
Listed(id, row) ==
    [id |-> id, liveness |-> ToNumber(history[id][1].liveness), row |-> row]
ListedIds == {list[k].id : k \in DOMAIN list}

AppInit ==
    /\ Init
    /\ list = <<>>
    /\ currentBlock = 0
    /\ subscribed = FALSE
    /\ fetching = {}
    /\ isArbiter = FALSE

\* A transaction or a block on the chain.  The SDK is notified of each new event
\* of the contract and asks for it.
ChainStep ==
    /\ Next
    /\ fetching' = IF subscribed THEN fetching \cup (Refs(history') \ Refs(history))
                                 ELSE fetching
    /\ UNCHANGED <<list, currentBlock, subscribed, isArbiter>>

\* The web socket is open and the effect subscribes.
Subscribe ==
    /\ ~ subscribed
    /\ subscribed' = TRUE
    /\ UNCHANGED <<vars, list, currentBlock, fetching, isArbiter>>

\* The effect is cleaned up; the answers under way still come.
Unsubscribe ==
    /\ subscribed
    /\ subscribed' = FALSE
    /\ UNCHANGED <<vars, list, currentBlock, fetching, isArbiter>>

\* Mutant: a refetch replaces the row of an assertion that is already listed.
LoadReplaces(id, row) ==
    /\ list' = IF id \in ListedIds
               THEN [k \in DOMAIN list |->
                        IF list[k].id = id THEN Listed(id, row) ELSE list[k]]
               ELSE Append(list, Listed(id, row))
    /\ UNCHANGED <<vars, currentBlock, subscribed, fetching, isArbiter>>

\* The API answers GET /assertions with a row it held at some moment.  It is
\* taken only when the assertion is not listed yet, at the end of the list.
Load(id, row) ==
    /\ id \notin ListedIds
    /\ list' = Append(list, Listed(id, row))
    /\ UNCHANGED <<vars, currentBlock, subscribed, fetching, isArbiter>>

\* The rows the index may answer with: of one of its assertions, after some of
\* the events, by any of the two webhooks (their RowsTruthful is all that is
\* assumed of them).
IndexRows(id) ==
    {row \in Rows!PartialRows(history[id]) : Rows!Truthful(row, history[id])}

\* The list with the row of one assertion changed.
MapRow(id, Change(_)) ==
    [k \in DOMAIN list |->
        IF list[k].id = id THEN [list[k] EXCEPT !.row = Change(@)] ELSE list[k]]

\* Mutant: an assertion that a load has brought already is listed once more.
OnAssertedAgain(id, e) == <<Listed(id, Rows!InsertedRow(e))>> \o list

OnAsserted(id, e) ==
    IF id \in ListedIds THEN list
    ELSE <<Listed(id, Rows!InsertedRow(e))>> \o list

OnSettled(id, e) ==
    MapRow(id, LAMBDA row :
        Rows!Replaced(row,
            IF row.status = "disputed"
            THEN [status |-> "settled", settler |-> e.by, settledAt |-> e.at,
                  resolver |-> e.by, resolvedAt |-> e.at]
            ELSE [status |-> "settled", settler |-> e.by, settledAt |-> e.at]))

OnDisputed(id, e) ==
    MapRow(id, LAMBDA row :
        Rows!Replaced(row, [status |-> "disputed", disputer |-> e.by, disputedAt |-> e.at]))

OnRejected(id, e) ==
    MapRow(id, LAMBDA row :
        Rows!Replaced(row, [status |-> "rejected", resolver |-> e.by, resolvedAt |-> e.at]))

OnUnresolved(id, e) ==
    MapRow(id, LAMBDA row :
        Rows!Replaced(row, [status |-> "unresolved", resolver |-> e.by, resolvedAt |-> e.at]))

\* An event arrives, in any order, and the list takes it in at once.  It may come
\* again when an earlier subscription has never ended (SubscriptionHook).
Received(ref) ==
    LET id == ref[1]
        e  == EventOf(ref)
    IN  /\ ref \in fetching
        /\ fetching' \in {fetching, fetching \ {ref}}
        /\ \/ e.event = "asserted"   /\ list' = OnAsserted(id, e)
           \/ e.event = "settled"    /\ list' = OnSettled(id, e)
           \/ e.event = "disputed"   /\ list' = OnDisputed(id, e)
           \/ e.event = "rejected"   /\ list' = OnRejected(id, e)
           \/ e.event = "unresolved" /\ list' = OnUnresolved(id, e)
        /\ UNCHANGED <<vars, currentBlock, subscribed, isArbiter>>

\* The GET fails; nothing asks again.
Lost(ref) ==
    /\ ref \in fetching
    /\ fetching' = fetching \ {ref}
    /\ UNCHANGED <<vars, list, currentBlock, subscribed, isArbiter>>

\* A block height arrives from the query or the socket, late or not.
BlockSeen(h) ==
    /\ h \in InitHeight - 1..Tip
    /\ currentBlock' = IF h > currentBlock THEN h ELSE currentBlock
    /\ UNCHANGED <<vars, list, subscribed, fetching, isArbiter>>

\* The poll every five minutes whether the connected wallet is an arbiter.
ArbiterPolled ==
    /\ isArbiter' = IsArbiter(User)
    /\ UNCHANGED <<vars, list, currentBlock, subscribed, fetching>>

AppNext ==
    \/ ChainStep
    \/ Subscribe \/ Unsubscribe
    \/ \E id \in DOMAIN history : \E row \in IndexRows(id) : Load(id, row)
    \/ \E ref \in fetching : Received(ref) \/ Lost(ref)
    \/ \E h \in 0..MaxHeight : BlockSeen(h)
    \/ ArbiterPolled

AppSpec == AppInit /\ [][AppNext]_appVars

-----------------------------------------------------------------------------
(* The card's buttons *)

ExpiryBlock(item) == ToNumber(item.row.assertedAt + item.liveness)

\* Mutant: the block after the latest one is taken for gone as well.
BlocksLeftShort(item) ==
    LET remaining == ExpiryBlock(item) - currentBlock - 1
    IN  IF remaining > 0 THEN remaining ELSE 0

\* useAssertionCountdown, for an open row.
BlocksLeft(item) ==
    LET remaining == ExpiryBlock(item) - currentBlock
    IN  IF remaining > 0 THEN remaining ELSE 0

OffersDispute(item) == item.row.status = "open" /\ BlocksLeft(item) > 0
OffersSettle(item)  == item.row.status = "open" /\ BlocksLeft(item) = 0

\* Mutant: everybody is shown the arbiter's buttons.
OffersResolveToAll(item) == item.row.status = "disputed"

OffersResolve(item) == item.row.status = "disputed" /\ isArbiter

\* The badge on top of the card and of its sheet.
Badge(item) == IF OffersSettle(item) THEN "awaiting settlement" ELSE item.row.status

\* The card's footer dates the dispute or the outcome; an arbiter sees buttons
\* in place of the dispute's date.
FooterBlock(item) ==
    CASE item.row.status = "disputed" /\ ~ isArbiter       -> item.row.disputedAt
      [] item.row.status = "settled"                       -> item.row.settledAt
      [] item.row.status \in {"rejected", "unresolved"}    -> item.row.resolvedAt
      [] OTHER                                             -> None

\* AssertionDetail: the block it says the window closes at, and the parties it
\* names, each section under its own condition.
ClosingBlock(item) == currentBlock + BlocksLeft(item)

NamesDisputer(item) == item.row.disputer # None /\ item.row.disputedAt \notin {None, 0}
NamesResolver(item) == item.row.resolver # None /\ item.row.resolvedAt \notin {None, 0}

\* Mutant: an arbiter is shown as the resolver only.
NamesSettlerUndisputed(item) == item.row.settler # None /\ item.row.resolver = None

NamesSettler(item) ==
    /\ item.row.settler # None /\ item.row.status = "settled"
    /\ item.row.settledAt \notin {None, 0}

-----------------------------------------------------------------------------
(* Properties *)

Items == {list[k] : k \in DOMAIN list}

\* No assertion is listed twice, however loads and live events overlap and repeat,
\* and what is listed of it is the chain's; its expiry block, too, as long as a
\* JavaScript number can hold it.
ListTruthful ==
    /\ \A j, k \in DOMAIN list : list[j].id = list[k].id => j = k
    /\ \A item \in Items :
          /\ Exists(item.id)
          /\ Rows!Truthful(item.row, history[item.id])
          /\ Expiry(assertionMap[item.id]) <= MaxSafe
                => ExpiryBlock(item) = Expiry(assertionMap[item.id])

\* However old the page's block, and however the liveness has been rounded to a
\* JavaScript number, it never offers to settle before the window is over, and as
\* long as the contract would take a dispute of an assertion that the page lists
\* as open, the page offers one.
ButtonsSafe ==
    \A item \in Items :
        LET a == assertionMap[item.id]
        IN  /\ OffersSettle(item) => IsWindowClosed(Expiry(a))
            /\ (item.row.status = "open" /\ IsWindowOpen(Expiry(a))) => OffersDispute(item)

\* The row and the block are those of the chain.
UpToDate(item) ==
    /\ item.row = Rows!TrueRow(history[item.id])
    /\ currentBlock = Tip

\* The same boundary in two languages: with the row and the block of the chain,
\* the page offers to settle exactly when the contract's checks let settle pass in
\* the next block, and to dispute exactly when they let dispute pass, or when the
\* expiry block overflows: then the page, whose numbers do not, offers a dispute
\* the contract always aborts (DisputableWithinWindow).  To resolve, it takes the
\* arbiter flag as well to be the chain's; when the last poll is older than the
\* owner's decision, nothing is said.
ButtonsExact ==
    \A item \in Items :
        LET a == assertionMap[item.id]
        IN  UpToDate(item) =>
            /\ OffersSettle(item) = CanSettle(item.id)
            /\ OffersDispute(item) =
                  (CanDispute(item.id) \/ (a.status = STATUS_OPEN /\ ~ HasExpiry(a)))
            /\ isArbiter = IsArbiter(User) =>
                  OffersResolve(item) = CanResolve(User, item.id)

\* What card and sheet tell, from rows that may lack steps: a badge other than
\* the status appears only once the window is over; an outcome or a dispute comes
\* with the block the contract recorded for it; the sheet names nobody
\* the contract does not, and with a complete row names everybody.
CardTells ==
    \A item \in Items :
        LET a == assertionMap[item.id]
        IN  /\ Badge(item) # item.row.status => IsWindowClosed(Expiry(a))
            /\ (OffersDispute(item) /\ Expiry(a) <= MaxSafe) => ClosingBlock(item) = Expiry(a)
            /\ item.row.status \notin {"open", "disputed"} =>
                  FooterBlock(item) \in {a.settledAtBlock, a.rejectedAtBlock,
                                         a.unresolvedAtBlock} \ {None}
            /\ (item.row.status = "disputed" /\ ~ isArbiter) =>
                  FooterBlock(item) = a.disputedAtBlock
            /\ NamesDisputer(item) => a.disputer = item.row.disputer
            /\ NamesSettler(item)  => a.status = STATUS_SETTLED
            /\ NamesResolver(item) => a.status \in TerminalStatuses /\ a.disputer # None
            /\ item.row = Rows!TrueRow(history[item.id]) =>
                  /\ NamesDisputer(item) = (a.disputer # None)
                  /\ NamesSettler(item)  = (a.status = STATUS_SETTLED)
                  /\ NamesResolver(item) = (a.status \in TerminalStatuses /\ a.disputer # None)

\* Whatever arrives in whatever order, a listed assertion stays listed and what
\* the page has learnt of it is not lost: a refetch of older rows, in particular,
\* does not undo a live event.
Kept ==
    \A item \in Items :
        \E k \in DOMAIN list' :
            /\ list'[k].id = item.id
            /\ \A c \in DOMAIN item.row \ {"status"} :
                  item.row[c] # None => list'[k].row[c] = item.row[c]

ListKept == [][Kept]_appVars

=============================================================================
