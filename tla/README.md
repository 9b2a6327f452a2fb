# Verification of the Clarity Optimistic Oracle

TLA+ models, TLC configurations and TLAPS proofs about the program in this
repository: the oracle contract `contracts/coo/contracts/core.clar` and the
off-chain programs that index, show and change what happens on it.

Run a model with `tlc -config X.cfg M`, check the proofs of a module with
`tlapm MProofs.tla`.

## 1. The system

Anybody posts a claim with an sBTC bond (`assert`). Until the end of the
liveness window anybody may match the bond (`dispute`); after it anybody may
return the bond (`settle`). A disputed assertion waits for an arbiter, who finds
for the asserter, for the disputer, or for nobody (`resolve`).

| Part | State it keeps | Operations | Interacts through |
|---|---|---|---|
| Oracle contract (`core.clar`) | `assertion-map`, `arbiter-map`, its sBTC balance | `add-arbiter`, `remove-arbiter`, `assert`, `settle`, `dispute`, `resolve` | token calls, printed events |
| sBTC token (external) | the ledger | `transfer` | called by the contract and by holders |
| SDK subscriber (`packages/sdk/src/event.ts`) | a socket subscription, GETs under way | notify, fetch, hand over each event | the chain's API; the listener and the app |
| Event listener (`packages/event-listener`) | its subscription, POSTs under way | post each event, exit | SDK; `POST /webhook` |
| API, `POST /webhook` | the `assertions` table (D1) | one case per event | the listener |
| API, `POST /webhook/chainhooks` | the same table | a batch of events in chain order | Chainhooks, which repeats failed deliveries |
| API, `GET /assertions` | none | the rows | the app |
| App: list, card and sheet | list of assertions, current block, arbiter flag | merge a load, take in an event, advance the block, offer buttons, tell parties and blocks | API, SDK, read-only calls |
| App: subscription hooks | a ref to the subscription, the effect that is running | subscribe, unsubscribe | SDK over one web socket |
| App: transactions and wallet | connection, pending mutations, the assert form | connect, disconnect, contract calls with post-conditions | the wallet, its browser storage, the mempool |
| Utils `computeAssertionId` | none | derive an id | tests |
| Landing page, documentation, UI kit, generated types | none | presentation | none |

What is hard here:

- **The contract** is sequential (a transaction is atomic), but its state is
  shared by everybody over a long time: all bonds lie in *one* balance, the
  window is cut by a block height that moves between calls, arbiters come and
  go, and one principal may play several roles.
- **The listener's route** is concurrent and unreliable: one GET per
  transaction, one POST per event, no ordering, no retry, and the `settled`
  handler is two SQL statements.
- **The Chainhooks route** is ordered, but a batch is not a transaction: it can
  fail half way and then comes again as a whole.
- **A reorganising chain** rolls back blocks the table has taken in, and the
  handler does not read the rollback.
- **The page** computes buttons from an old block, an old arbiter flag and rows
  merged from two sources, while the chain goes on.
- **The hooks** store a handle when an asynchronous answer comes and use it in a
  cleanup that may come earlier.
- **A transaction** is prepared from what the page showed at a click, signed some
  time later with any account, and mined in yet another state; connecting,
  disconnecting and reloading go on meanwhile.

What makes each part correct: the contract never owes more than it has, pays
each bond once and to the right party, keeps dispute and settlement apart, never
touches a finished record, and tells everything in its prints; the index never
invents or loses what it has recorded and, on the ordered route, catches up with
the chain; the page lists every assertion once and never offers a settlement
while a dispute is possible; a running subscription is not ended by a stale
cleanup; and however often a user clicks, a call takes effect once, is not aborted
by its own post-condition, and if it pays a bond, makes asserter or disputer the
account that the page showed. The hazards behind these statements, each with its
line, are in `PROJECT.json`; the properties of section 3 answer them.

## 2. The modules

| Module | Models | Uses |
|---|---|---|
| `CooCore` | the contract, with the token's ledger and the block height as environment | `Escrow`, `EventFeed` (refinement) |
| `Escrow` | abstract: one money box per assertion, no pool | |
| `EventFeed` | abstract: the life cycle of an assertion as a feed of events | |
| `AssertionRows` | the table's columns, what each event does to a row, the row the chain itself implies (`TrueRow`) and those that lag behind it (`PartialRows`) | |
| `ListenerPipeline` | SDK, event listener and `POST /webhook` | `AssertionRows`, `EventFeed` |
| `ChainhookPipeline` | `POST /webhook/chainhooks` and its deliveries | `AssertionRows`, `EventFeed` |
| `ChainhookReorgs` | the same over a chain that reorganises | `ChainhookPipeline` |
| `CooApp` | the page's list, card and sheet composed with the contract | `CooCore`, `AssertionRows` |
| `SubscriptionHook` | the subscribe hooks and the effects that drive them | |
| `Wallet` | the wallet provider and the header | |
| `CooTransactions` | the assert dialog, the card's handlers, the mutations, signing and the mempool, composed with wallet and contract | `CooCore`, `Wallet` |
| `MCCooCore`, `MCCooApp`, `MCCooTransactions` | small instances | |
| `CooCoreProofs`, `CooPromisesProofs` | types, solvency, payouts, windows, finality; the prints, the ids and both refinements | `CooCore` |
| `AssertionRowsProofs` | lemmas about rows | `AssertionRows` |
| `ListenerProofs`, `ChainhookProofs` | theorems about the two pipelines | `AssertionRowsProofs` |
| `CooAppProofs` | theorems about list, buttons and card | `CooApp`, `CooPromisesProofs`, `AssertionRowsProofs` |
| `CooTransactionsProofs` | theorems about page, wallet and mempool | `CooTransactions`, `CooCoreProofs` |
| `SubscriptionProofs` | theorems about the hooks | `SubscriptionHook` |

The chain is composed with the rest in two ways. `CooApp` and `CooTransactions`
extend `CooCore`: the page's steps interleave with real contract steps. The two pipelines take the
abstract `EventFeed` as their chain; `CooCore` is shown to implement it, so what
holds over any feed holds over the contract's.

### CooCore

| Code | Model |
|---|---|
| `stacks-block-height` | `height`: what a transaction of the block being made sees; the tip is `height - 1` |
| `sbtc-token` balances | `balance`, with the contract's own under `Core` |
| `arbiter-map` | `arbiterMap`: the principals mapped to true; the code stores no other value |
| `assertion-map` | `assertionMap`: a function from ids to records, field by field |
| `print` | `history`: per assertion, the events printed so far |
| an `(err ...)` or an abort | no step: the transaction is rolled back |

Each public function is one action whose guard lists the code's checks in their
order; `resolve` is the disjunction of its three branches. The checks that the page
is compared with have names: `CanAssert` (the form), `CanSettle`, `CanDispute` and
`CanResolve` (the buttons). `sha256` is injective
(`Sha256`), and `DeriveAssertionId` joins identifier and claim without a
separator, as the code does. The uint addition and multiplication of the code
fail beyond `MaxUint` (`HasExpiry`, the first conjunct of `PayBothBonds`).
`MineBlock` and `TokenTransfer` are the environment: blocks are mined, and
holders move sBTC, also to the contract. `history` is kept for the properties
about prints; no guard reads it. `caller` is `contract-caller`;
a contract that asserts or disputes does so in its own name, because the token
lets only the holder move a holder's sBTC.

`Escrow` says what the pooling should not be noticed to do: a deal has its own
box, the stake returns to its maker, or one taker matches it and the box goes to
the party the outcome names, or to both. `EventFeed` says that the prints of an
assertion are asserted, at most one disputed, at most one outcome, in order and
at non-decreasing heights. `CooCore` implements both (`ImplementsEscrow`,
`ImplementsFeed`).

### AssertionRows, ListenerPipeline, ChainhookPipeline

A row keeps, for each of the four steps of an assertion, who and at which block;
the transaction id of a step goes with the block, and identifier, claim, bond and
liveness go with the asserter, since each group is always written together. The
`On...` operators are the SQL statements, common to both webhooks.

`ListenerPipeline` has an event in `fetching` while its GET is out, in `posting`
while its POST is, and a `settled` handler in `selected` between `SELECT` and
`UPDATE`. All three are sets: nothing orders them. GETs, POSTs and half-done
handlers may be lost, and the process may exit and come back.

`ChainhookPipeline` keeps the chain's `log` and the delivery's `cursor`. A
`batch` is handled event by event; `Fail` is an exception, a stopped worker or a
lost answer at any point, after which the same delivery comes again.
`ChainhookReorgs` adds one action: the chain drops everything after some event,
and Chainhooks goes on from there. It does so between deliveries only.

### CooApp

`ChainStep` is any contract step; with it the SDK starts to fetch each new event.
`Load` is `GET /assertions`: any row that satisfies `Truthful` may come, which is
what the pipelines guarantee (`RowsTruthful`) and nothing more, so the page is
checked over either webhook and over an index that lags or has lost events.
`Received` and `Lost` are the answers of the GETs, `BlockSeen` any block height
seen late or not, `ArbiterPolled` the five-minute poll. An event may be received
again, because a subscription that has leaked (see below) delivers it twice.
`ToNumber` is what `Number.parseInt` makes of a uint: exact up to `MaxSafe`, and
above it the nearest double, ties to even (`Spacing` is how far apart the doubles
lie there). The button conditions `OffersDispute`,
`OffersSettle`, `OffersResolve`, the badge and the footer are those of
`assertion-card.tsx`; `ClosingBlock` and the `Names...` operators are the
conditions of the sections in `assertion-detail.tsx`.

### SubscriptionHook

`useSubscribeAssertionEvent` and `useSubscribeBlock` are the same code and one
module. A handle is named by the effect whose `subscribe` obtained it. `calls` and
`closing` are the awaited requests; `Subscribed` and `Unsubscribed` are what the
code does after the await: overwrite the ref, and empty it, whatever it holds.
`Rendered` is the only place where the socket's state is read. `Mount(TRUE)` is a
development build, which runs each effect twice. The socket opens once and may
close; nothing opens another one.

### Wallet and CooTransactions

| Code | Model |
|---|---|
| `WalletProvider`'s `connected`, `connecting`, `stxAddress` | the same names |
| the wallet library's local storage | `storage`, which a reload reads back |
| open calls of `stacksConnect` | `asked`: how many; the header and any transaction may ask |
| a mutation between click and answer | a member of `flows`, in the stage "connect" or "request"; `awaited` is false once the page has been reloaded |
| a signed transaction | a member of `mempool`; `confirmed` once it has taken effect |
| the assert dialog's form | `draft` |

`Start` fixes the post-condition's principal and amount at the click, as the code
does, before it awaits `connect`; `Resumed` is what comes after: with the old
address, so that a click of an unconnected user is lost. The wallet may sign a
request with any account. A transaction is carried out if the contract accepts
the call and the transfers are exactly those of the post-condition
(`PostConditionsHold`, mode "deny"); it may fail at any time. `PostConditionsFit`
is therefore about steps: the contract may also take the call without the
condition (another application sends it, `ElsewhereStep`), so that every way
in which it accepts one is there to be compared with the condition. The card is modelled
by what `CooApp` lets it show, a Dispute button on an old listing included.

## 3. What is checked

| Run | Shows | Bounds |
|---|---|---|
| `core_safety` | `TypeOK`, `Solvent`, `PayoutsCovered`, `WindowRespected`, `EventsDetermineRecord`, `Finality` | 3 principals (owner, one candidate arbiter, one other), 2 assertions, heights 1 to 3, bonds 0 to 2, liveness 0, 1, default and one that overflows |
| `core_promises` | `ImplementsEscrow`, `ImplementsFeed`, `BondsReleased` | 2 principals, 2 assertions, heights 1 and 2, bonds 1 and 2, direct token transfers, the only arbiter dismissed and admitted at will |
| `core_overflow` | finding: `DisputableWithinWindow` fails | as `core_safety` |
| `core_content_address` | finding: `IdNamesContent` fails | two identifiers and two claims, one pair joining to the same bytes |
| `listener` | `TypeOK`, `RowsTruthful`, `WriteOnce`, `OrderSuffices` | 1 assertion, 2 parties, 2 blocks |
| `listener_late_dispute` | finding: `OutcomeStaysShown` fails | the same |
| `chainhook_batches` | `TypeOK`, `AppliedUpToCursor`, `RowsTruthful`, `Converges` | 2 assertions, 2 failures, batches of any length |
| `chainhook_reorgs` | `SurvivorsShown` | 1 assertion, 2 parties, 2 reorganisations of any depth, 1 failure |
| `app_list` | `ListTruthful`, `ButtonsSafe`, `ButtonsExact`, `CardTells`, `ListKept` | 1 assertion over heights 1 to 3, numbers exact up to 3, a custom liveness of 5 that must be rounded |
| `transactions` | `TxTypeOK`, `PageMatchesStorage`, `ConnectButtonFree`, `PostConditionsFit`, `FormFitsContract`, `ShownPartyRecorded`, `OneEffect`, `DraftSentOnce` | 2 accounts, 1 assertion, 2 clicks, 1 draft, heights 1 to 3, bonds 0 and 1, liveness 0, 1 or none |
| `subscription_hook` | `HookTypeOK`, `RunningListens`, `LeaksCounted`, `LateDataListens` | 2 mounts, each single or double |
| `subscription_unheard` | finding: `MountedListens` fails | the same |

Why the bounds are enough. Two assertions are what it takes for one to be paid
with the other's bond. Three heights with a window of one block hold a dispute
before, at and after the expiry block, and an assertion made in a later block
than another. Three principals let asserter, disputer and arbiter be different
or the same. `Funds` lets a principal run out, so that transfers are refused. In
the pipelines the handlers read and write one row each, so that one assertion
has all the interleavings of its own events; two show that rows do not mix.
`MaxUint = 6` puts the overflow within reach. In `transactions` a liveness of 1 is
the least that the form lets through, 0 is below it, and none stands for the default. `MaxSafe = 3` does the same for the
rounding: 5 is the first liveness a number of that size cannot hold, and it
lies on a tie. Two reorganisations let a step of the first chain survive a second
one. Two clicks are what it takes to send something twice, and two accounts to
sign with another one than the page shows; the owner has one sat, so that a
transfer can be refused. Two mounts let an answer for one list arrive while
another is mounted. Where a property is also a theorem (section 4), it holds for
every bound. Deadlock checking is off: every model stops at its bounds (the last
block, the last assertion), which is no statement about the code.

Bounds by name: `MaxHeight`, `MaxAssertions` and `Funds` (contract),
`MaxFailures` (Chainhooks), `MaxReorgs` (reorganisations), `MaxDrafts` and
`MaxClicks` (page), `MaxMounts` (lists put on the page), `MaxSafe` (numbers), and
the sets given to `Principals`, `Accounts`, `Bonds`, `Livenesses`, `Candidates`,
`Amounts`, `Ids`, `Parties` and `Blocks`.

Each property of a passing run has a mutant (`PROJECT.json`, "mutants"): a
changed definition, kept beside the real one and commented "Mutant", under which
the run finds the property violated.

`ButtonsExact` says of a page that has the record and the block of the tip that its
Settle and Dispute buttons are those the contract's checks let pass, with one
exception it names: where the expiry block overflows (finding 1), the page, whose
numbers do not overflow, offers a dispute that the contract aborts. Its Resolve
button also depends on the arbiter flag, which is polled every five minutes;
nothing is said of it while the flag is old. `ShownPartyRecorded` is about the two
calls that pay a bond; `settle` and `resolve` move the contract's money only, and
record whoever signed them.

### Fairness

- Contract: blocks go on being mined (the chain's own promise); *somebody*
  settles an assertion that stays ready for it (anybody may, and the asserter
  has the bond to gain); *some* arbiter rules on a dispute that is open to
  a ruling again and again (strong, because dismissals may interrupt the
  chance); and the owner appoints an arbiter when there is none. The last two are
  promises of the people the contract trusts, not of its code: without them
  the bonds of a dispute stay locked for ever, which is what `core.clar:300`
  means. Nothing obliges anybody to assert or to dispute.
- Chainhooks: deliveries go on, and a request that does not fail is handled to
  its end; the number of failures is bounded.
- Hooks: the socket opens (or closes), requests over an open socket are
  answered, and the list's query of the current block succeeds in the end, at the
  latest when a later refetch does. If it brings a later list no height that the
  cache did not hold, nothing renders and nothing is claimed. Nothing obliges
  React to render the list again: that is what the fourth finding is about.
- The listener, the list and the transactions get no fairness: they may lose
  anything, the user may never answer, and only safety is claimed of them.

### Findings

1. A custom liveness has no upper bound. With one near 2^128 the expiry block
   overflows and both `dispute` and `settle` abort for ever, although
   `packages/docs/using/disputing.md` lists nothing that is missing.
2. Identifier and claim are joined without a separator, so the id does not
   determine them, which `docs/ARCHITECTURE.md:43` says it does.
3. On the listener's route a late `disputed` event turns a finished row back into
   a disputed one, against `packages/docs/using/settling.md:36`.
4. Whether the web socket is open is read while rendering, and nothing renders
   the list when it opens (`use-subscribe-assertion.tsx:36`). A list whose data
   were all there before never subscribes, although `assertion-list.tsx:175`
   says that assertions will appear. `LateDataListens` is what does hold: a
   list that still waits for the block when the socket opens comes to listen.

## 4. What is proved

Each theorem holds for all values of the constants that satisfy the named
assumptions of its module, so for any number of principals, assertions, blocks,
failures, clicks and mounts.

| Module | Assumptions |
|---|---|
| `CooCore` | `PrincipalAssumption`, `ParameterAssumption`, `InputAssumption`, `EnvironmentAssumption`: the contract is not one of the callers, the owner is one of them, the minimum bond is positive, inputs are byte strings and uints |
| `AssertionRows` | `RowAssumption`: null is neither a party nor a block |
| `ChainhookPipeline` | `FailuresAssumption`: the bound is a number |
| `Wallet`, `CooTransactions` | `WalletAssumption`, `PageAssumption`: accounts are principals, null is not one, the form's minima are not below the contract's (`assert-dialog.tsx:20-31`, `core.clar:10-11`) |
| `CooApp` | `AppAssumption`: the user is a principal, `MaxSafe` is odd and one less than a power of two up to 2^53, block heights are not above it, `MaxUint` is not below it, and the contract is not called in the genesis block |
| `SubscriptionHook` | `HookAssumption`: an empty ref is no handle |

| Module | Theorem | Statement |
|---|---|---|
| `CooCoreProofs` | `TypeCorrect` | `Spec => []TypeOK` |
| | `SolvencyTheorem` | `Spec => []Solvent` |
| | `WindowTheorem` | `Spec => []WindowRespected` |
| | `PayoutsTheorem` | `Spec => []PayoutsCovered` |
| | `FinalityTheorem` | `Spec => Finality` |
| `CooPromisesProofs` | `EventsTheorem` | `Spec => []EventsDetermineRecord` |
| | `FeedTheorem` | `Spec => ImplementsFeed` |
| | `EscrowTheorem` | `Spec => ImplementsEscrow` |
| | `IdTheorem`, `ContentTheorem` | `Spec => []IdsInv`, `Spec => [](FixedLength => IdNamesContent)` |
| `ListenerProofs` | `ListenerTypeTheorem`, `ListenerTruthTheorem` | `Spec => []TypeOK`, `Spec => []RowsTruthful` |
| | `WriteOnceTheorem`, `OrderTheorem` | `Spec => WriteOnce`, `Spec => OrderSuffices` |
| `ChainhookProofs` | `ChainhookTypeTheorem`, `ChainhookTruthTheorem` | `Spec => []TypeOK`, `Spec => []RowsTruthful` |
| | `ExactlyOnceTheorem` | `Spec => []AppliedUpToCursor` |
| | `SurvivorsTheorem` | `ReorgSpec => []SurvivorsShown` |
| `CooAppProofs` | `AppContractTheorem` | `AppSpec => Spec` |
| | `ListTheorem`, `ListKeptTheorem` | `AppSpec => []ListTruthful`, `AppSpec => ListKept` |
| | `ButtonsTheorem`, `ExactTheorem`, `CardTheorem` | `[]ButtonsSafe`, `[]ButtonsExact`, `[]CardTells` |
| `CooTransactionsProofs` | `ContractTheorem` | `TxSpec => Spec` |
| | `TxTypeTheorem`, `StorageTheorem`, `ConnectButtonTheorem` | `[]TxTypeOK`, `[]PageMatchesStorage`, `[]ConnectButtonFree` |
| | `OneEffectTheorem`, `ShownPartyTheorem`, `DraftTheorem` | `[]OneEffect`, `[]ShownPartyRecorded`, `[]DraftSentOnce` |
| | `PostConditionTheorem`, `FormTheorem` | `TxSpec => PostConditionsFit`, `[]FormFitsContract` |
| `SubscriptionProofs` | `HookTypeTheorem`, `RunningTheorem`, `LeaksTheorem` | `[]HookTypeOK`, `[]RunningListens`, `[]LeaksCounted` |

No invariant and no action property of a passing run is left without a theorem.

### The contract

*Types.* `TypeOK` is inductive as it stands: one lemma per public function, all
of them from `TransferKeepsType` and `WriteKeepsTypes`.

*Solvency.* `Solvent` compares the balance with a sum over all records. The sum is
the cardinality of a set, `LockedSats`, with one element per locked sat, so that
the library's theorems on finite sets apply and no recursion over the records
is needed. `SolvencyInv` adds that this set is finite, without which its
cardinality means nothing. `LockedSatsOfMapSet` says that writing one record
changes the sum by the difference of that record alone; with it each function
reduces to arithmetic on one record and one or two transfers. `PayoutsCovered`
looks at the same from the side of a payout: one assertion's own claim is part of
the sum (`OwnClaimCovered`), and the timeline says that a disputed record has
a disputer, so that each transfer a status can call for, the second one of an
unresolved dispute included, is one the token accepts.

*Window.* `WindowRespected` (a dispute inside the window, an undisputed settlement
after it, and each resolution between its dispute and the present) is inductive
together with `TypeOK`: `StepWrites`
shows that each step writes at most one record, in one of five ways, and
`WrittenTimeline` and `TimePasses` that written and untouched records agree
with their status.

*Finality.* An action property, from `WindowRespected` and the same `StepWrites`.

*Prints.* `EventsDetermineRecord` alone is not inductive: what the next event
adds depends on which events there are. `HistoryInv` says that the events of an
assertion are a `Life` (asserted, then disputed or settled, then an outcome), at
heights up to the present, and that the record is what they tell. `StepPrints`
says that every step of the contract prints at most one event, that goes with
the record it writes.

*Refinement.* `FeedTheorem` and `EscrowTheorem` show the two mappings of `CooCore`
step by step: initial states map to initial states, each function to a step of
the abstract specification, and what that one does not see, such as blocks and
arbiters, to a stutter. For the feed this needs `HistoryInv`, for the
escrow `WindowRespected`, which ties a record's disputer to its status: the box of
an assertion, its taker and the payee all follow from the two.

*Ids.* `IdsInv` says that the event which made an assertion tells its id. The
finding about ids is that more than one submission can have the same one;
`ContentTheorem` shows its extent: with identifiers of one length (`FixedLength`)
an id names one identifier and one claim (`JoinedApart`), so nothing but the
missing separator is in the way.

### The index

*Listener.* `ListenerInv` adds to the types that every feed is a `Life`, and that
not only the rows of the table are truthful but also each row a `settled` handler
has read and not yet used (`TableTruthful`): the update goes by that old row, and
is right only because what it says has gone on being true.

*Chainhooks.* After a failure half way the table is ahead of the cursor, and when
the delivery comes again it is applied to rows that have seen later events
already. `DeliveryInv` keeps the furthest event ever handled since the last
answer: up to the cursor the columns are those of the chain, up to the furthest
event they may be, and the status is that of some event in between (`AsOf`). Once
the repeated batch has come as far as the first one did, nothing is left of the
failure.

*Reorganisations.* None of that holds once the chain rolls back: columns may be
those of dropped blocks. What remains is `ReorgInv`: every event that the answered
deliveries and the one under way have handled is *told* by its row (`Tells`: the
columns it writes hold what it says, and so does the status after an outcome).
`StatementTells` shows that a statement tells its own event and leaves told what
the events before it said, because no two events of a `Life` write the same
column with different values; a rollback only takes events away from what must
be told. Nothing is claimed of what a failed delivery has done besides.

### The page

*List.* `AppContractTheorem` makes every theorem of the contract one of the
composition. `AppInv` says that each row listed, and each event on its way,
tells only what the contract has recorded, and that ids are listed once.
`SameTruth` carries the lemmas about rows from the index's terms to the contract's.
Rows are moreover `Paired`: a party never stands without its block.

*Buttons and card.* `ScreenInv` says that the page's block never runs ahead of the
tip. The lemmas on rounding do the rest: `SpacingFits` (there is a greatest power
of two that fits, because the numbers are well founded), `ExactNumber` (up to
`MaxSafe`) and `LargeNumber` (above it a number stays above `MaxSafe`). Since
heights stay below `MaxSafe`, a rounded expiry block lies beyond every block
there can be, and so does the exact one: rounding never moves the boundary
into the reach of the page. An expiry block above `MaxUint` is above `MaxSafe`, too,
so that the page's window is open for it while the contract's checks abort: this is
the exception in `ExactTheorem`.

*Transactions.* `PageInv` gathers what is known of a flow at each stage. `EffectInv`
ties each confirmed transaction to the record it has changed, from which
`OneEffect` and `ShownPartyRecorded` follow: statuses never go back, and asserter
and disputer stay. That the asserter is the payer of the post-condition is the lemma
`AsserterIsPayer`: a bond is positive, so an `assert` takes it from the signer, and
the condition permits that of the payer only. `DraftInv`
says that all that is under way about one draft is one transaction, that a draft
which has left the wallet is no longer in the form, and that a flow of the draft
still in the form is waited for, so that the button is disabled.

*Post-conditions and form.* `SentInv` says of everything under way that it has
passed the form, names the right payer and is made to pay what the record still
says. It is kept while flows wait in the wallet and transactions in the mempool
because the contract is final about the terms of a record (`StepIsFinal`), and it
outlives reloads. `ConditionMet` then compares, function by function, the
transfers of the contract with the condition: in `SenderPays` a permitted transfer
costs its sender the amount and nobody else anything, also if the contract pays
twice and to one and the same party (`BothArePaid`). Neither statement needs
ENABLED: the first is about the steps that are taken, the second compares guards
(`CanAssert`).

*Hooks.* `HookInv` says that calls have effects of their own, that a call for the
mounted list belongs to an effect that runs or has seen the socket close, and
that nothing that is being ended belongs to the running effect. The last part is
`RunningListens` seen from the other side. For the leaks `LeakInv` says whose fault
each one is: a leaked handle's own cleanup came too early, or that of the effect
before it, whose late handle took its place in the ref and was ended instead. That
assigns to each leaked handle an overtaken effect of its own, and an injection
between finite sets compares their sizes.

### Only model-checked

- Liveness: `BondsReleased`, `Converges`, `LateDataListens`. The prover does not
  handle fairness. `PayoutsTheorem`, `ExactlyOnceTheorem` and `RunningTheorem` are
  what is proved on the way to them: that the money is there, that a finished
  delivery has left the table exact, and that a subscription once obtained is kept.
- The four findings, each a counterexample on a small instance. One of them states
  what is ENABLED (`DisputableWithinWindow`).

No module declares a recursive operator.

## 5. What is not modelled

- Serialisation (Clarity values, hex, JSON); authorisation and validation of the
  webhooks. What the conversion of a uint to a number does to a liveness is
  modelled (`ToNumber`); bonds are shown and never computed with, except in the
  dispute's and resolution's amounts, where a bond above 2^53 does not exist
  (there are 21 * 10^14 sats).
- `claim`'s limit of 2048 bytes and the number inputs of the assert dialog: fractions
  and unsafe numbers are refused before a transaction is built.
- `restrict-assets?`: it permits exactly the transfer that follows it.
- The `arbiter-added` and `arbiter-removed` prints, which nothing consumes.
- Reorganisations in the middle of a delivery, and on the listener's route, which
  is never told of any.
- A server that answers an unsubscription with an error; the socket library's own
  reconnection (the app opens one socket).
- A second tab, which shares the wallet's storage: connecting or disconnecting there
  leaves this page's state as it was until it is reloaded. `PageMatchesStorage` is
  about one page.
- A query of the current block that goes on failing: it renders nothing new, and the
  list is left as in finding 4.
- The header's balances and navigation, and a wallet that has no STX address.
- `created_at` and the order of `GET /assertions`.
- Presentation: the landing page, the documentation site, the UI kit; generated
  types and deployment plans. They keep no state that the rest reads.

## 6. What could come next

1. Both webhooks at once on one table, which nothing in the code prevents.
2. Reorganisations in the middle of a repeated delivery.
3. One theorem from the contract to the table: `FeedTheorem` and the theorems about
   the pipelines put together in a module that takes `CooCore` as the chain.
