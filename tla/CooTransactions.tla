-------------------------- MODULE CooTransactions --------------------------
(***************************************************************************)
(* The page's transactions, from a click to the block: the assert dialog,  *)
(* the card's handlers, the mutations of hooks/use-assertion.tsx with the  *)
(* post-conditions they attach, the wallet that signs with whatever        *)
(* account the user picks, and the mempool.  The contract (CooCore) goes   *)
(* on meanwhile, so a transaction meets another state than the user saw.   *)
(***************************************************************************)
EXTENDS CooCore, Wallet

CONSTANTS
    Statement,         \* the identifier of every assertion made on the page
    FormMinBond, FormMinLiveness,   \* assertSchema's limits
    MaxDrafts,         \* bound: drafts typed into the dialog
    MaxClicks          \* bound: clicks that start a transaction

ASSUME PageAssumption ==
    /\ Accounts \subseteq Principals
    /\ NoAddress \notin Principals \cup {Core}
    /\ Statement \in Identifiers
    /\ FormMinBond \in Nat /\ FormMinLiveness \in Nat
    /\ FormMinBond >= MIN_BOND_SATS /\ FormMinLiveness >= MIN_LIVENESS

VARIABLES
    draft,       \* what the assert dialog's form holds: a draft's number, bond and
                 \* liveness; or None, when it is empty or the dialog closed
    drafts,      \* drafts typed so far
    clicks,      \* transactions started so far
    flows,       \* transactions on their way to the wallet or waiting there
    mempool,     \* signed transactions
    confirmed    \* transactions that took effect

dialog == <<draft, drafts>>
page   == <<walletVars, dialog, clicks, flows>>
txVars == <<vars, page, mempool, confirmed>>

Outcomes == {"settled", "rejected", "unresolved"}

TxInit ==
    /\ Init
    /\ WalletInit
    /\ draft = None /\ drafts = 0
    /\ clicks = 0 /\ flows = {}
    /\ mempool = {} /\ confirmed = {}

-----------------------------------------------------------------------------
(* The mutations *)

\* One mutation per card and function, whatever the outcome, and one in the
\* dialog; its buttons are disabled while it is pending.
SameButton(c, d) == c.fn = d.fn /\ (c.fn # "assert" => c.id = d.id)

\* Mutant: the buttons stay enabled.
NeverPending(call) == FALSE

IsPending(call) == \E f \in flows : f.awaited /\ SameButton(f.call, call)

\* A click.  Without a connection connect is called first, otherwise the request
\* is in the wallet at once.  The post-condition is about one principal and one
\* amount, fixed here: the address in particular is that of the last render.
Start(call, payer, amount) ==
    /\ clicks < MaxClicks
    /\ ~ IsPending(call)
    /\ clicks' = clicks + 1
    /\ flows' = flows \cup
          {[n |-> clicks', call |-> call, payer |-> payer, amount |-> amount,
            stage |-> IF connected THEN "request" ELSE "connect", awaited |-> TRUE]}
    /\ IF connected THEN UNCHANGED walletVars ELSE Connect
    /\ UNCHANGED <<vars, dialog, mempool, confirmed>>

\* A liveness of zero would be passed as none.
LivenessArg(live) == IF live = 0 THEN None ELSE live

CreateAssertion(claim, d) ==
    Start([fn |-> "assert", claim |-> claim, bond |-> d.bond,
           liveness |-> LivenessArg(d.liveness), draft |-> d.number],
          stxAddress, d.bond)

DisputeAssertion(id) ==
    Start([fn |-> "dispute", id |-> id], stxAddress, assertionMap[id].bondSats)

SettleAssertion(id) ==
    Start([fn |-> "settle", id |-> id], Core, assertionMap[id].bondSats)

\* Mutant: one bond for every function.
ResolveAssertionOneBond(id, outcome) ==
    Start([fn |-> "resolve", id |-> id, outcome |-> outcome],
          Core, assertionMap[id].bondSats)

ResolveAssertion(id, outcome) ==
    Start([fn |-> "resolve", id |-> id, outcome |-> outcome],
          Core, 2 * assertionMap[id].bondSats)

\* Mutant: without an address the request goes out without a post-condition.
ResumedAnyway(f) == flows' = (flows \ {f}) \cup {[f EXCEPT !.stage = "request"]}

\* connect has returned, whether the user connected or not.  The address is
\* still that of the click, and a post-condition about null throws: the card
\* and the dialog log it, and nothing is sent.
Resumed(f) ==
    flows' = (flows \ {f}) \cup
                {g \in {[f EXCEPT !.stage = "request"]} : g.payer # NoAddress}

ConnectAnswered(f) ==
    /\ f \in flows /\ f.stage = "connect"
    /\ (\E a \in Accounts : ConnectDone(a)) \/ ConnectFailed
    /\ Resumed(f)
    /\ UNCHANGED <<vars, dialog, clicks, mempool, confirmed>>

HeaderConnects ==
    /\ ConnectOffered
    /\ Connect
    /\ UNCHANGED <<vars, dialog, clicks, flows, mempool, confirmed>>

HeaderAnswered ==
    /\ asked > Cardinality({f \in flows : f.stage = "connect"})
    /\ (\E a \in Accounts : ConnectDone(a)) \/ ConnectFailed
    /\ UNCHANGED <<vars, dialog, clicks, flows, mempool, confirmed>>

HeaderDisconnects ==
    /\ Disconnect
    /\ UNCHANGED <<vars, dialog, clicks, flows, mempool, confirmed>>

\* External: the user approves a request in the wallet, with any account.  The
\* page, if it still waits, reports success; the dialog then empties its form
\* and closes, whatever has been typed since.
Signed(f, account) ==
    /\ f \in flows /\ f.stage = "request"
    /\ flows' = flows \ {f}
    /\ mempool' = mempool \cup
          {[n |-> f.n, call |-> f.call, payer |-> f.payer, amount |-> f.amount,
            signer |-> account]}
    /\ IF f.awaited /\ f.call.fn = "assert"
       THEN draft' = None
       ELSE UNCHANGED draft
    /\ UNCHANGED <<vars, walletVars, drafts, clicks, confirmed>>

\* The user refuses, or the wallet fails; the form stays as it is.
Refused(f) ==
    /\ f \in flows /\ f.stage = "request"
    /\ flows' = flows \ {f}
    /\ UNCHANGED <<vars, walletVars, dialog, clicks, mempool, confirmed>>

\* The page is loaded again: its mutations and drafts are lost, but the wallet
\* still holds the requests it was given.
Reloaded ==
    /\ WalletReload
    /\ draft' = None
    /\ flows' = {[f EXCEPT !.awaited = FALSE] : f \in {g \in flows : g.stage = "request"}}
    /\ UNCHANGED <<vars, drafts, clicks, mempool, confirmed>>

-----------------------------------------------------------------------------
(* The assert dialog and the card *)

\* The user opens the dialog, if it is not open, and fills in the form; he may
\* while a submission is in the wallet.
Typed(bond, live) ==
    /\ drafts < MaxDrafts
    /\ drafts' = drafts + 1
    /\ draft' = [number |-> drafts', bond |-> bond, liveness |-> live]
    /\ UNCHANGED <<vars, walletVars, clicks, flows, mempool, confirmed>>

\* Closing the dialog forgets the draft.
CloseDialog ==
    /\ draft # None
    /\ draft' = None
    /\ UNCHANGED <<vars, walletVars, drafts, clicks, flows, mempool, confirmed>>

\* Mutant: no minimum for the bond.
FormAcceptsAnyBond(d) ==
    d.liveness # None => d.liveness >= FormMinLiveness

\* assertSchema.
FormAccepts(d) ==
    /\ d.bond >= FormMinBond
    /\ d.liveness # None => d.liveness >= FormMinLiveness

Submit(claim) ==
    /\ draft # None
    /\ FormAccepts(draft)
    /\ CreateAssertion(claim, draft)

\* The page may list an assertion as it was some time ago (CooApp): a Dispute
\* button whatever has happened since, Settle only once the window is over, and
\* Resolve, to whom it takes for an arbiter, once there was a dispute.
ClickDispute(id) == DisputeAssertion(id)

ClickSettle(id) ==
    /\ IsWindowClosed(Expiry(assertionMap[id]))
    /\ SettleAssertion(id)

ClickResolve(id, outcome) ==
    /\ assertionMap[id].disputer # None
    /\ connected
    /\ ResolveAssertion(id, outcome)

-----------------------------------------------------------------------------
(* The chain *)

\* What the contract does with a call.
Call(tx) ==
    LET c == tx.call
    IN  \/ /\ c.fn = "assert"
           /\ Assert(tx.signer, Statement, c.claim, c.bond, c.liveness)
        \/ c.fn = "dispute" /\ Dispute(tx.signer, c.id)
        \/ c.fn = "settle"  /\ Settle(tx.signer, c.id)
        \/ /\ c.fn = "resolve"
           /\ \/ c.outcome = "settled"    /\ ResolveSettled(tx.signer, c.id)
              \/ c.outcome = "rejected"   /\ ResolveRejected(tx.signer, c.id)
              \/ c.outcome = "unresolved" /\ ResolveUnresolved(tx.signer, c.id)

Spent(p) == IF balance'[p] < balance[p] THEN balance[p] - balance'[p] ELSE 0

\* Mutant: mode "allow" without the condition.
Anything(tx) == TRUE

\* External: mode "deny".  The payer sends exactly the amount, nobody else sends.
PostConditionsHold(tx) ==
    \A p \in Principals \cup {Core} : Spent(p) = IF p = tx.payer THEN tx.amount ELSE 0

Effective(tx) == Call(tx) /\ PostConditionsHold(tx)

Mined(tx) ==
    /\ tx \in mempool
    /\ Effective(tx)
    /\ mempool' = mempool \ {tx}
    /\ confirmed' = confirmed \cup {tx}
    /\ UNCHANGED page

\* The contract refuses it, a post-condition aborts it, or it is never mined.
Failed(tx) ==
    /\ tx \in mempool
    /\ mempool' = mempool \ {tx}
    /\ UNCHANGED <<vars, page, confirmed>>

\* Other users, other applications of the same ones, and blocks.
ElsewhereStep == Next /\ UNCHANGED <<page, mempool, confirmed>>

TxNext ==
    \/ ElsewhereStep
    \/ HeaderConnects \/ HeaderAnswered \/ HeaderDisconnects \/ Reloaded
    \/ CloseDialog
    \/ \E b \in Bonds, l \in Livenesses \cup {None} : Typed(b, l)
    \/ \E c \in Claims : Submit(c)
    \/ \E id \in DOMAIN assertionMap :
          \/ ClickDispute(id) \/ ClickSettle(id)
          \/ \E outcome \in Outcomes : ClickResolve(id, outcome)
    \/ \E f \in flows :
          ConnectAnswered(f) \/ Refused(f) \/ \E a \in Accounts : Signed(f, a)
    \/ \E tx \in mempool : Mined(tx) \/ Failed(tx)

TxSpec == TxInit /\ [][TxNext]_txVars

-----------------------------------------------------------------------------
(* Properties *)

TxTypeOK ==
    /\ TypeOK
    /\ \A f \in flows :
          /\ f.stage = "request" => f.payer # NoAddress
          /\ f.stage = "connect" => f.awaited /\ asked > 0
          /\ f.n \in 1..clicks
    /\ \A tx \in mempool \cup confirmed :
          tx.payer \in Accounts \cup {Core} /\ tx.signer \in Accounts
    /\ draft # None => draft.number \in 1..drafts

\* Signed with the account it was prepared for, a transaction that the contract
\* would carry out is not undone by its own post-condition, whatever has become
\* of the assertion in the meantime: a step that is the contract's answer to its
\* call, with the condition attached or not (ElsewhereStep), meets the condition.
ConditionsMet ==
    \A tx \in mempool :
        (tx.payer \in {tx.signer, Core} /\ Call(tx)) => PostConditionsHold(tx)

PostConditionsFit == [][ConditionsMet]_txVars

\* The id an assert gets when it is carried out at height h.
AssertedId(c, h) ==
    DeriveAssertionId(Statement, c.claim, c.bond, ResolvedLiveness(c.liveness), h)

\* What the form lets through the contract takes: an assert whose author has
\* the bond is refused only as a duplicate.
FormFitsContract ==
    \A tx \in mempool :
        LET c == tx.call
        IN  /\ c.fn = "assert"
            /\ balance[tx.signer] >= c.bond
            /\ ~ Exists(AssertedId(c, height))
            /\ Cardinality(DOMAIN assertionMap) < MaxAssertions
            => CanAssert(tx.signer, Statement, c.claim, c.bond, c.liveness)

\* Whom the contract holds the bond of is the account the page showed when the
\* user clicked, though the wallet may have signed with another one: the asserter
\* of what the dialog asserted, the disputer of what a card disputed.  settle and
\* resolve move the contract's money only, so that whoever signs them is recorded
\* as the settler or resolver, shown or not.
ShownPartyRecorded ==
    \A tx \in confirmed :
        LET c == tx.call
        IN  /\ c.fn = "assert" =>
                  \E h \in InitHeight..height :
                      /\ Exists(AssertedId(c, h))
                      /\ assertionMap[AssertedId(c, h)].asserter = tx.payer
            /\ c.fn = "dispute" =>
                  Exists(c.id) /\ assertionMap[c.id].disputer = tx.payer

\* However often a user clicks, on whatever listing, and reloads in between, at
\* most one transaction of a kind takes effect on an assertion.
OneEffect ==
    \A t, u \in confirmed :
        (t.call.fn # "assert" /\ SameButton(t.call, u.call)) => t = u

\* A draft is sent at most once, unless the user types it again.
DraftSentOnce ==
    \A t, u \in {f \in flows : f.stage = "request"} \cup mempool \cup confirmed :
        (/\ t.call.fn = "assert" /\ u.call.fn = "assert"
         /\ t.call.draft = u.call.draft) => t.n = u.n

=============================================================================
