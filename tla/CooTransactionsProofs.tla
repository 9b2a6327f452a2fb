----------------------- MODULE CooTransactionsProofs -----------------------
(***************************************************************************)
(* Theorems about the page's transactions, for any number of accounts,     *)
(* clicks, drafts and assertions: whatever the page, the wallet and the    *)
(* mempool do, the contract only ever takes its own steps, and what it     *)
(* records is what the user saw and meant once.                            *)
(***************************************************************************)
EXTENDS CooTransactions, CooCoreProofs

-----------------------------------------------------------------------------
(* The wallet *)

\* The flag and the count of open calls go together.
WalletInv == asked \in Nat /\ PageMatchesStorage /\ ConnectButtonFree

\* A call of connect opens.
LEMMA ConnectKeepsWallet == WalletInv /\ Connect => WalletInv'
<1> SUFFICES ASSUME WalletInv, Connect PROVE WalletInv'
  OBVIOUS
<1>1. asked' \in Nat /\ asked' > 0
  BY DEF WalletInv, Connect
<1>2. PageMatchesStorage'
  BY DEF WalletInv, Connect, PageMatchesStorage, ShowStored
<1>3. QED
  BY <1>1, <1>2 DEF WalletInv, ConnectButtonFree

\* A call of connect ends, one way or the other.
LEMMA AnswerKeepsWallet ==
    ASSUME WalletInv, (\E a \in Accounts : ConnectDone(a)) \/ ConnectFailed
    PROVE  WalletInv'
<1>1. asked' \in Nat
  BY DEF WalletInv, ConnectDone, ConnectFailed
<1>2. ConnectButtonFree'
  <2>1. connecting' = FALSE
    BY DEF ConnectDone, ConnectFailed
  <2>2. QED
    BY <2>1, Zenon DEF ConnectButtonFree
<1>3. ASSUME NEW a \in Accounts, ConnectDone(a) PROVE PageMatchesStorage'
  <2>1. a # NoAddress
    BY WalletAssumption
  <2>2. storage' = a /\ connected' = TRUE /\ stxAddress' = a
    BY <1>3 DEF ConnectDone
  <2>3. connected' = (storage' # NoAddress)
    BY <2>1, <2>2, Zenon
  <2>4. QED
    BY <2>2, <2>3, Zenon DEF PageMatchesStorage, ShowStored
<1>4. ASSUME ConnectFailed PROVE PageMatchesStorage'
  <2>1. connected' = connected /\ stxAddress' = stxAddress /\ storage' = storage
    BY <1>4 DEF ConnectFailed
  <2>2. QED
    BY <2>1 DEF WalletInv, PageMatchesStorage, ShowStored
<1>5. PageMatchesStorage'
  BY <1>3, <1>4
<1>6. QED
  BY <1>1, <1>2, <1>5 DEF WalletInv

\* Disconnecting clears the page and the storage together.
LEMMA DisconnectKeepsWallet == WalletInv /\ Disconnect => WalletInv'
<1> SUFFICES ASSUME WalletInv, Disconnect PROVE WalletInv'
  OBVIOUS
<1>1. connected' = (storage' # NoAddress)
  BY Zenon DEF Disconnect
<1>2. PageMatchesStorage'
  BY <1>1, Zenon DEF Disconnect, PageMatchesStorage, ShowStored
<1>3. asked' \in Nat /\ ConnectButtonFree'
  BY DEF WalletInv, Disconnect, ConnectButtonFree
<1>4. QED
  BY <1>2, <1>3 DEF WalletInv

\* A reload shows what the storage holds.
LEMMA ReloadKeepsWallet == WalletInv /\ WalletReload => WalletInv'
  BY DEF WalletInv, WalletReload, PageMatchesStorage, ShowStored, ConnectButtonFree

-----------------------------------------------------------------------------
(* The shape of what is under way *)

DraftOK ==
    /\ drafts \in Nat
    /\ draft # None =>
          /\ draft.number \in 1..drafts
          /\ draft.bond \in Bonds
          /\ draft.liveness \in Livenesses \cup {None}

CallOK(c, typed) ==
    c.fn = "assert" =>
        /\ c.claim \in Claims
        /\ c.bond \in Bonds
        /\ c.liveness \in Livenesses \cup {None}
        /\ c.draft \in 1..typed

FlowOK(f, typed, started) ==
    /\ DOMAIN f = {"n", "call", "payer", "amount", "stage", "awaited"}
    /\ CallOK(f.call, typed)
    /\ f.payer \in Accounts \cup {Core, NoAddress}
    /\ f.stage \in {"connect", "request"}
    /\ f.stage = "request" => f.payer # NoAddress
    /\ f.stage = "connect" => f.awaited
    /\ f.n \in 1..started

TransactionOK(t, typed) ==
    /\ CallOK(t.call, typed)
    /\ t.payer \in Accounts \cup {Core}
    /\ t.signer \in Accounts

\* Calls of connect that belong to a transaction.
Connecting(fs) == {f \in fs : f.stage = "connect"}

PageInv ==
    /\ WalletInv
    /\ DraftOK
    /\ clicks \in Nat
    /\ \A f \in flows : FlowOK(f, drafts, clicks)
    /\ IsFiniteSet(Connecting(flows))
    /\ asked >= Cardinality(Connecting(flows))
    /\ \A t \in mempool \cup confirmed : TransactionOK(t, drafts)

\* A transaction under way that has not asked the wallet waits for connect.
LEMMA ConnectingAsked ==
    ASSUME PageInv, NEW f \in flows, f.stage = "connect"
    PROVE  asked > 0
<1>1. f \in Connecting(flows)
  BY DEF Connecting
<1>2. Cardinality(Connecting(flows)) # 0
  BY <1>1, FS_EmptySet DEF PageInv
<1>3. QED
  BY <1>2, FS_CardinalityType DEF PageInv, WalletInv

\* A click starts a transaction that has the shape of one.
LEMMA StartKeepsPage ==
    ASSUME PageInv, NEW call, NEW payer, NEW amount, Start(call, payer, amount),
           CallOK(call, drafts), payer \in {stxAddress, Core}
    PROVE  PageInv'
<1> DEFINE f == [n |-> clicks', call |-> call, payer |-> payer, amount |-> amount,
                 stage |-> IF connected THEN "request" ELSE "connect", awaited |-> TRUE]
<1>1. /\ clicks' = clicks + 1 /\ clicks \in Nat
      /\ flows' = flows \cup {f}
      /\ UNCHANGED <<draft, drafts, mempool, confirmed>>
  BY DEF Start, PageInv, dialog
<1>2. stxAddress \in Accounts \cup {NoAddress} /\ (connected => stxAddress # NoAddress)
  BY WalletAssumption DEF PageInv, WalletInv, PageMatchesStorage, ShowStored
<1>3. WalletInv' /\ asked' = IF connected THEN asked ELSE asked + 1
  <2>1. CASE connected
    BY <2>1 DEF Start, walletVars, PageInv, WalletInv, PageMatchesStorage, ShowStored,
                ConnectButtonFree
  <2>2. CASE ~ connected
    BY <2>2, ConnectKeepsWallet DEF Start, Connect, PageInv
  <2>3. QED
    BY <2>1, <2>2
<1>4. FlowOK(f, drafts', clicks')
  <2>1. payer # NoAddress \/ ~ connected
    BY <1>2, PageAssumption
  <2>2. payer \in Accounts \cup {Core, NoAddress}
    BY <1>2
  <2>3. clicks' \in 1..clicks'
    BY <1>1
  <2>4. CallOK(call, drafts')
    BY <1>1
  <2>5. QED
    BY <2>1, <2>2, <2>3, <2>4 DEF FlowOK
<1>5. f.stage = IF connected THEN "request" ELSE "connect"
  OBVIOUS
<1> HIDE DEF f
<1>6. \A g \in flows : FlowOK(g, drafts', clicks')
  BY <1>1 DEF PageInv, FlowOK
<1>7. /\ IsFiniteSet(Connecting(flows)) /\ Cardinality(Connecting(flows)) \in Nat
      /\ asked >= Cardinality(Connecting(flows)) /\ asked \in Nat
  BY FS_CardinalityType DEF PageInv, WalletInv
<1>8. IsFiniteSet(Connecting(flows')) /\ asked' >= Cardinality(Connecting(flows'))
  <2>1. CASE connected
    <3>1. Connecting(flows') = Connecting(flows)
      BY <1>1, <1>5, <2>1 DEF Connecting
    <3>2. QED
      BY <1>3, <1>7, <2>1, <3>1
  <2>2. CASE ~ connected
    <3>1. Connecting(flows') = Connecting(flows) \cup {f}
      BY <1>1, <1>5, <2>2 DEF Connecting
    <3>2. /\ IsFiniteSet(Connecting(flows'))
          /\ Cardinality(Connecting(flows')) <= Cardinality(Connecting(flows)) + 1
      BY <1>7, <3>1, FS_AddElement
    <3>3. Cardinality(Connecting(flows')) \in Nat
      BY <3>2, FS_CardinalityType
    <3>4. QED
      BY <1>3, <1>7, <2>2, <3>2, <3>3
  <2>3. QED
    BY <2>1, <2>2
<1>9. QED
  BY <1>1, <1>3, <1>4, <1>6, <1>8 DEF PageInv, DraftOK

\* What was well formed stays so when more drafts have been typed.
LEMMA StaysOK ==
    ASSUME NEW typed \in Nat, NEW more \in Nat, typed <= more
    PROVE  /\ \A c : CallOK(c, typed) => CallOK(c, more)
           /\ \A f, k : FlowOK(f, typed, k) => FlowOK(f, more, k)
           /\ \A t : TransactionOK(t, typed) => TransactionOK(t, more)
<1>1. \A c : CallOK(c, typed) => CallOK(c, more)
  BY DEF CallOK
<1>2. QED
  BY <1>1 DEF FlowOK, TransactionOK

\* The steps that touch neither the transactions under way nor their number.
LEMMA WalletStepKeepsPage ==
    ASSUME PageInv, WalletInv', asked' >= Cardinality(Connecting(flows)),
           UNCHANGED <<dialog, clicks, flows, mempool, confirmed>>
    PROVE  PageInv'
  BY DEF PageInv, DraftOK, dialog

\* The header's steps.
LEMMA HeaderKeepsPage ==
    ASSUME PageInv, HeaderConnects \/ HeaderAnswered \/ HeaderDisconnects
    PROVE  PageInv'
<1> DEFINE k == Cardinality(Connecting(flows))
<1>1. WalletInv /\ asked \in Nat /\ k \in Nat /\ asked >= k
  BY FS_CardinalityType DEF PageInv, WalletInv
<1>2. UNCHANGED <<dialog, clicks, flows, mempool, confirmed>>
  BY DEF HeaderConnects, HeaderAnswered, HeaderDisconnects
<1>3. CASE HeaderConnects
  <2>1. WalletInv' /\ asked' = asked + 1
    BY <1>1, <1>3, ConnectKeepsWallet DEF HeaderConnects, Connect
  <2>2. asked' >= k
    BY <1>1, <2>1
  <2>3. QED
    BY <1>2, <2>1, <2>2, WalletStepKeepsPage
<1>4. CASE HeaderAnswered
  <2>1. WalletInv'
    BY <1>1, <1>4, AnswerKeepsWallet DEF HeaderAnswered
  <2>2. asked' = asked - 1
    BY <1>4 DEF HeaderAnswered, ConnectDone, ConnectFailed
  <2>3. asked > k
    BY <1>4 DEF HeaderAnswered, Connecting
  <2>4. asked' >= k
    BY <1>1, <2>2, <2>3
  <2>5. QED
    BY <1>2, <2>1, <2>4, WalletStepKeepsPage
<1>5. CASE HeaderDisconnects
  <2>1. WalletInv' /\ asked' = asked
    BY <1>1, <1>5, DisconnectKeepsWallet DEF HeaderDisconnects, Disconnect
  <2>2. QED
    BY <1>1, <1>2, <2>1, WalletStepKeepsPage
<1>6. QED
  BY <1>3, <1>4, <1>5

\* A reload leaves requests that nobody on the page waits for.
LEMMA ReloadKeepsPage == PageInv /\ Reloaded => PageInv'
<1> SUFFICES ASSUME PageInv, Reloaded PROVE PageInv'
  OBVIOUS
<1> DEFINE kept == {g \in flows : g.stage = "request"}
           Alone(f) == [f EXCEPT !.awaited = FALSE]
<1>1. /\ flows' = {Alone(f) : f \in kept}
      /\ draft' = None
      /\ UNCHANGED <<drafts, clicks, mempool, confirmed>>
  BY DEF Reloaded
<1>2. WalletInv' /\ asked' = 0
  BY ReloadKeepsWallet DEF Reloaded, WalletReload, PageInv
<1>3. ASSUME NEW f \in kept
      PROVE  /\ FlowOK(Alone(f), drafts, clicks)
             /\ Alone(f).stage = "request"
  <2>1. FlowOK(f, drafts, clicks) /\ f.stage = "request"
    BY DEF PageInv
  <2>2. /\ DOMAIN Alone(f) = DOMAIN f
        /\ Alone(f).n = f.n /\ Alone(f).call = f.call /\ Alone(f).payer = f.payer
        /\ Alone(f).stage = f.stage
    BY <2>1 DEF FlowOK
  <2> HIDE DEF Alone
  <2>3. QED
    BY <2>1, <2>2 DEF FlowOK
<1> HIDE DEF Alone
<1>4. \A g \in flows' : FlowOK(g, drafts, clicks) /\ g.stage = "request"
  BY <1>1, <1>3
<1>5. IsFiniteSet(Connecting(flows')) /\ asked' >= Cardinality(Connecting(flows'))
  <2>1. Connecting(flows') = {}
    BY <1>4 DEF Connecting
  <2>2. QED
    BY <1>2, <2>1, FS_EmptySet
<1>6. DraftOK'
  BY <1>1 DEF PageInv, DraftOK
<1>7. QED
  BY <1>1, <1>2, <1>4, <1>5, <1>6 DEF PageInv

\* The form's steps.
LEMMA FormKeepsPage ==
    ASSUME PageInv,
           CloseDialog \/ \E b \in Bonds, l \in Livenesses \cup {None} : Typed(b, l)
    PROVE  PageInv'
<1>1. UNCHANGED <<walletVars, clicks, flows, mempool, confirmed>>
  BY DEF CloseDialog, Typed
<1>2. WalletInv' /\ UNCHANGED asked
  BY <1>1 DEF walletVars, PageInv, WalletInv, PageMatchesStorage, ShowStored, ConnectButtonFree
<1>3. drafts \in Nat /\ drafts' \in Nat /\ drafts <= drafts' /\ DraftOK'
  BY DEF CloseDialog, Typed, PageInv, DraftOK
<1>4. /\ \A f \in flows : FlowOK(f, drafts', clicks)
      /\ \A t \in mempool \cup confirmed : TransactionOK(t, drafts')
  BY <1>3, StaysOK DEF PageInv
<1>5. QED
  BY <1>1, <1>2, <1>3, <1>4 DEF PageInv

\* Once connect has answered, a request waits in the wallet or nothing does.
LEMMA ConnectAnswerKeepsPage ==
    ASSUME PageInv, NEW f \in flows, ConnectAnswered(f)
    PROVE  PageInv'
<1> DEFINE g == [f EXCEPT !.stage = "request"]
           k == Cardinality(Connecting(flows))
<1>1. /\ f.stage = "connect"
      /\ (\E a \in Accounts : ConnectDone(a)) \/ ConnectFailed
      /\ flows' = (flows \ {f}) \cup {h \in {g} : h.payer # NoAddress}
      /\ UNCHANGED <<dialog, clicks, mempool, confirmed>>
  BY DEF ConnectAnswered, Resumed
<1>2. WalletInv' /\ asked' = asked - 1
  BY <1>1, AnswerKeepsWallet DEF PageInv, ConnectDone, ConnectFailed
<1>3. FlowOK(f, drafts, clicks)
  BY DEF PageInv
<1>4. /\ DOMAIN g = DOMAIN f
      /\ g.n = f.n /\ g.call = f.call /\ g.payer = f.payer /\ g.stage = "request"
  BY <1>3 DEF FlowOK
<1> HIDE DEF g
<1>5. g.payer # NoAddress => FlowOK(g, drafts, clicks)
  BY <1>3, <1>4 DEF FlowOK
<1>6. \A h \in flows' : FlowOK(h, drafts, clicks)
  BY <1>1, <1>5 DEF PageInv
<1>7. Connecting(flows') = Connecting(flows) \ {f} /\ f \in Connecting(flows)
  BY <1>1, <1>4 DEF Connecting
<1>8. IsFiniteSet(Connecting(flows')) /\ Cardinality(Connecting(flows')) = k - 1
  BY <1>7, FS_RemoveElement DEF PageInv
<1>9. asked' >= Cardinality(Connecting(flows'))
  <2>1. k \in Nat /\ asked \in Nat /\ asked >= k
    BY FS_CardinalityType DEF PageInv, WalletInv
  <2>2. QED
    BY <1>2, <1>8, <2>1
<1>10. DraftOK'
  BY <1>1 DEF dialog, PageInv, DraftOK
<1>11. QED
  BY <1>1, <1>2, <1>6, <1>8, <1>9, <1>10 DEF PageInv, dialog

\* What leaves the wallet leaves the page's transactions.
LEMMA RequestGone ==
    ASSUME PageInv, NEW f \in flows, f.stage = "request", flows' = flows \ {f},
           UNCHANGED <<walletVars, clicks, drafts>>
    PROVE  /\ WalletInv'
           /\ \A h \in flows' : FlowOK(h, drafts', clicks')
           /\ IsFiniteSet(Connecting(flows'))
           /\ asked' >= Cardinality(Connecting(flows'))
<1>1. WalletInv' /\ UNCHANGED asked
  BY DEF walletVars, PageInv, WalletInv, PageMatchesStorage, ShowStored, ConnectButtonFree
<1>2. Connecting(flows') = Connecting(flows)
  BY DEF Connecting
<1>3. QED
  BY <1>1, <1>2 DEF PageInv

\* A refused request is gone.
LEMMA RefusalKeepsPage ==
    ASSUME PageInv, NEW f \in flows, Refused(f)
    PROVE  PageInv'
<1>1. /\ f.stage = "request" /\ flows' = flows \ {f}
      /\ UNCHANGED <<walletVars, clicks, drafts, draft, mempool, confirmed>>
  BY DEF Refused, dialog
<1>2. DraftOK'
  BY <1>1 DEF PageInv, DraftOK
<1>3. QED
  BY <1>1, <1>2, RequestGone DEF PageInv

\* A signed one is a transaction by one of the wallet's accounts.
LEMMA SignatureKeepsPage ==
    ASSUME PageInv, NEW f \in flows, NEW a \in Accounts, Signed(f, a)
    PROVE  PageInv'
<1> DEFINE t == [n |-> f.n, call |-> f.call, payer |-> f.payer, amount |-> f.amount,
                 signer |-> a]
<1>1. /\ f.stage = "request" /\ flows' = flows \ {f}
      /\ mempool' = mempool \cup {t}
      /\ draft' = draft \/ draft' = None
      /\ UNCHANGED <<walletVars, clicks, drafts, confirmed>>
  BY DEF Signed
<1>2. DraftOK'
  BY <1>1 DEF PageInv, DraftOK
<1>3. TransactionOK(t, drafts)
  BY <1>1 DEF PageInv, FlowOK, TransactionOK
<1> HIDE DEF t
<1>4. \A u \in mempool' \cup confirmed' : TransactionOK(u, drafts')
  BY <1>1, <1>3 DEF PageInv
<1>5. QED
  BY <1>1, <1>2, <1>4, RequestGone DEF PageInv

\* The clicks of the dialog and of the card.
LEMMA ClickKeepsPage ==
    ASSUME PageInv,
           \/ \E c \in Claims : Submit(c)
           \/ \E id \in DOMAIN assertionMap :
                 \/ ClickDispute(id) \/ ClickSettle(id)
                 \/ \E outcome \in Outcomes : ClickResolve(id, outcome)
    PROVE  PageInv'
<1>1. ASSUME NEW c \in Claims, Submit(c) PROVE PageInv'
  <2> DEFINE call == [fn |-> "assert", claim |-> c, bond |-> draft.bond,
                      liveness |-> LivenessArg(draft.liveness), draft |-> draft.number]
  <2>1. Start(call, stxAddress, draft.bond)
    BY <1>1 DEF Submit, CreateAssertion
  <2>2. /\ draft.number \in 1..drafts /\ draft.bond \in Bonds
        /\ LivenessArg(draft.liveness) \in Livenesses \cup {None}
    BY <1>1 DEF Submit, PageInv, DraftOK, LivenessArg
  <2>3. CallOK(call, drafts)
    BY <2>2 DEF CallOK
  <2> HIDE DEF call
  <2>4. QED
    BY <2>1, <2>3, StartKeepsPage
<1>2. ASSUME NEW id, ClickDispute(id) PROVE PageInv'
  <2> DEFINE call == [fn |-> "dispute", id |-> id]
  <2>1. Start(call, stxAddress, assertionMap[id].bondSats)
    BY <1>2 DEF ClickDispute, DisputeAssertion
  <2>2. CallOK(call, drafts)
    BY DEF CallOK
  <2> HIDE DEF call
  <2>3. QED
    BY <2>1, <2>2, StartKeepsPage
<1>3. ASSUME NEW id, ClickSettle(id) PROVE PageInv'
  <2> DEFINE call == [fn |-> "settle", id |-> id]
  <2>1. Start(call, Core, assertionMap[id].bondSats)
    BY <1>3 DEF ClickSettle, SettleAssertion
  <2>2. CallOK(call, drafts)
    BY DEF CallOK
  <2> HIDE DEF call
  <2>3. QED
    BY <2>1, <2>2, StartKeepsPage
<1>4. ASSUME NEW id, NEW outcome, ClickResolve(id, outcome) PROVE PageInv'
  <2> DEFINE call == [fn |-> "resolve", id |-> id, outcome |-> outcome]
  <2>1. Start(call, Core, 2 * assertionMap[id].bondSats)
    BY <1>4 DEF ClickResolve, ResolveAssertion
  <2>2. CallOK(call, drafts)
    BY DEF CallOK
  <2> HIDE DEF call
  <2>3. QED
    BY <2>1, <2>2, StartKeepsPage
<1>5. QED
  BY <1>1, <1>2, <1>3, <1>4

\* The chain's steps leave the page alone and confirm what was in the mempool.
LEMMA ChainKeepsPage ==
    ASSUME PageInv, UNCHANGED page, mempool' \subseteq mempool,
           confirmed' \subseteq mempool \cup confirmed
    PROVE  PageInv'
<1>1. UNCHANGED <<connected, connecting, stxAddress, storage, asked, draft, drafts, clicks, flows>>
  BY DEF page, dialog, walletVars
<1>2. WalletInv'
  BY <1>1 DEF PageInv, WalletInv, PageMatchesStorage, ShowStored, ConnectButtonFree
<1>3. DraftOK'
  BY <1>1 DEF PageInv, DraftOK
<1>4. QED
  BY <1>1, <1>2, <1>3 DEF PageInv

\* The shape of the page's transactions is inductive.
LEMMA NextKeepsPage == PageInv /\ [TxNext]_txVars => PageInv'
<1> SUFFICES ASSUME PageInv, [TxNext]_txVars PROVE PageInv'
  OBVIOUS
<1>1. CASE ElsewhereStep \/ UNCHANGED txVars
  BY <1>1, ChainKeepsPage DEF ElsewhereStep, txVars
<1>2. ASSUME NEW tx \in mempool, Mined(tx) \/ Failed(tx) PROVE PageInv'
  BY <1>2, ChainKeepsPage DEF Mined, Failed
<1>3. ASSUME NEW f \in flows,
             ConnectAnswered(f) \/ Refused(f) \/ \E a \in Accounts : Signed(f, a)
      PROVE  PageInv'
  BY <1>3, ConnectAnswerKeepsPage, RefusalKeepsPage, SignatureKeepsPage
<1>4. QED
  BY <1>1, <1>2, <1>3, HeaderKeepsPage, ReloadKeepsPage, FormKeepsPage, ClickKeepsPage
  DEF TxNext

\* At first nothing is under way.
LEMMA InitPage == TxInit => PageInv
<1> SUFFICES ASSUME TxInit PROVE PageInv
  OBVIOUS
<1>1. WalletInv
  BY DEF TxInit, WalletInit, WalletInv, PageMatchesStorage, ShowStored, ConnectButtonFree
<1>2. Connecting({}) = {}
  BY DEF Connecting
<1>3. QED
  BY <1>1, <1>2, FS_EmptySet DEF TxInit, PageInv, WalletInv, DraftOK

-----------------------------------------------------------------------------
(* The contract under the page *)

\* Whatever is sent from the page, the contract takes one of its own steps or none.
LEMMA StepIsContractStep == PageInv /\ [TxNext]_txVars => [Next]_vars
<1> SUFFICES ASSUME PageInv, [TxNext]_txVars PROVE [Next]_vars
  OBVIOUS
<1>1. ASSUME NEW tx \in mempool, Mined(tx) PROVE Next
  <2>1. tx.signer \in Principals /\ CallOK(tx.call, drafts) /\ Call(tx)
    BY <1>1, PageAssumption DEF PageInv, TransactionOK, Mined, Effective
  <2>2. CASE tx.call.fn = "assert"
    <3>1. /\ Assert(tx.signer, Statement, tx.call.claim, tx.call.bond, tx.call.liveness)
          /\ tx.call.claim \in Claims /\ tx.call.bond \in Bonds
          /\ tx.call.liveness \in Livenesses \cup {None}
          /\ Statement \in Identifiers
      BY <2>1, <2>2, PageAssumption DEF Call, CallOK
    <3>2. QED
      BY <2>1, <3>1 DEF Next
  <2>3. CASE tx.call.fn # "assert"
    <3>1. \/ Settle(tx.signer, tx.call.id) \/ Dispute(tx.signer, tx.call.id)
          \/ Resolve(tx.signer, tx.call.id)
      BY <2>1, <2>3 DEF Call, Resolve
    <3>2. tx.call.id \in DOMAIN assertionMap
      BY <3>1 DEF Settle, CanSettle, Dispute, CanDispute, Resolve, ResolveSettled, ResolveRejected,
                  ResolveUnresolved, CanResolve, Exists
    <3>3. QED
      BY <2>1, <3>1, <3>2 DEF Next
  <2>4. QED
    BY <2>2, <2>3
<1>2. CASE ElsewhereStep
  BY <1>2 DEF ElsewhereStep
<1>3. CASE UNCHANGED txVars
  BY <1>3 DEF txVars
<1>4. ASSUME \/ HeaderConnects \/ HeaderAnswered \/ HeaderDisconnects \/ Reloaded
             \/ CloseDialog
             \/ \E b \in Bonds, l \in Livenesses \cup {None} : Typed(b, l)
      PROVE  UNCHANGED vars
  BY <1>4 DEF HeaderConnects, HeaderAnswered, HeaderDisconnects, Reloaded, CloseDialog, Typed
<1>5. ASSUME \/ \E c \in Claims : Submit(c)
             \/ \E id \in DOMAIN assertionMap :
                   \/ ClickDispute(id) \/ ClickSettle(id)
                   \/ \E outcome \in Outcomes : ClickResolve(id, outcome)
      PROVE  UNCHANGED vars
  BY <1>5 DEF Submit, CreateAssertion, ClickDispute, DisputeAssertion, ClickSettle,
              SettleAssertion, ClickResolve, ResolveAssertion, Start
<1>6. ASSUME NEW f \in flows,
             ConnectAnswered(f) \/ Refused(f) \/ \E a \in Accounts : Signed(f, a)
      PROVE  UNCHANGED vars
  BY <1>6 DEF ConnectAnswered, Refused, Signed
<1>7. ASSUME NEW tx \in mempool, Failed(tx) PROVE UNCHANGED vars
  BY <1>7 DEF Failed
<1>8. QED
  BY <1>1, <1>2, <1>3, <1>4, <1>5, <1>6, <1>7 DEF TxNext

\* The whole system of page, wallet and mempool keeps its shape.
THEOREM PageTheorem == TxSpec => []PageInv
  BY InitPage, NextKeepsPage, PTL DEF TxSpec

\* The page implements the contract: every theorem about the contract holds of
\* it under the page, the wallet and the mempool as well.
THEOREM ContractTheorem == TxSpec => Spec
<1>1. TxInit => Init
  BY DEF TxInit
<1>2. QED
  BY <1>1, StepIsContractStep, PageTheorem, PTL DEF TxSpec, Spec

\* The page always shows the account that is stored.
THEOREM StorageTheorem == TxSpec => []PageMatchesStorage
<1>1. PageInv => PageMatchesStorage
  BY DEF PageInv, WalletInv
<1>2. QED
  BY <1>1, PageTheorem, PTL

\* The connect button is disabled only while a call of connect is open.
THEOREM ConnectButtonTheorem == TxSpec => []ConnectButtonFree
<1>1. PageInv => ConnectButtonFree
  BY DEF PageInv, WalletInv
<1>2. QED
  BY <1>1, PageTheorem, PTL

\* Every map of the contract and every transaction under way is well typed.
THEOREM TxTypeTheorem == TxSpec => []TxTypeOK
<1>1. TypeOK /\ PageInv => TxTypeOK
  <2> SUFFICES ASSUME TypeOK, PageInv PROVE TxTypeOK
    OBVIOUS
  <2>1. ASSUME NEW f \in flows
        PROVE  /\ f.stage = "request" => f.payer # NoAddress
               /\ f.stage = "connect" => f.awaited /\ asked > 0
               /\ f.n \in 1..clicks
    BY ConnectingAsked DEF PageInv, FlowOK
  <2>2. \A tx \in mempool \cup confirmed :
           tx.payer \in Accounts \cup {Core} /\ tx.signer \in Accounts
    BY DEF PageInv, TransactionOK
  <2>3. draft # None => draft.number \in 1..drafts
    BY DEF PageInv, DraftOK
  <2>4. QED
    BY <2>1, <2>2, <2>3 DEF TxTypeOK
<1>2. QED
  BY <1>1, PageTheorem, ContractTheorem, TypeCorrect, PTL

-----------------------------------------------------------------------------
(* One effect *)

\* What callers submit are numbers.
LEMMA InputsAreNumbers ==
    /\ \A b \in Bonds : b \in Nat
    /\ \A l \in Livenesses : l \in Nat
  BY InputAssumption, ParameterAssumption

\* What a confirmed transaction has left in the contract for good.
EffectOf(t) ==
    /\ t.call.fn = "assert" =>
          \E h \in InitHeight..height :
              /\ AssertedId(t.call, h) \in DOMAIN assertionMap
              /\ assertionMap[AssertedId(t.call, h)].asserter = t.payer
    /\ t.call.fn = "dispute" =>
          /\ t.call.id \in DOMAIN assertionMap
          /\ assertionMap[t.call.id].disputer = t.payer
          /\ t.payer # None
    /\ t.call.fn \in {"settle", "resolve"} =>
          /\ t.call.id \in DOMAIN assertionMap
          /\ assertionMap[t.call.id].status \in TerminalStatuses

EffectInv == \A t \in confirmed : EffectOf(t)

\* A dispute that its post-condition lets through is signed by whom it names.
LEMMA DisputerIsPayer ==
    ASSUME TypeOK, NEW tx, NEW id, tx.signer \in Principals,
           Dispute(tx.signer, id), PostConditionsHold(tx)
    PROVE  /\ tx.payer = tx.signer
           /\ assertionMap'[id].disputer = tx.payer
           /\ id \in DOMAIN assertionMap'
           /\ assertionMap[id].status = STATUS_OPEN
<1> DEFINE a == assertionMap[id]
<1>1. a \in Assertions /\ a.bondSats \in Nat \ {0} /\ id \in DOMAIN assertionMap
  BY DEF Dispute, CanDispute, Exists, TypeOK, Assertions
<1>2. balance'[tx.signer] = balance[tx.signer] - a.bondSats /\ balance[tx.signer] \in Nat
  BY <1>1, PrincipalAssumption DEF Dispute, CanDispute, CanTransfer, Transfer, TypeOK
<1>3. Spent(tx.signer) = a.bondSats
  BY <1>1, <1>2 DEF Spent
<1>4. tx.payer = tx.signer
  BY <1>1, <1>3 DEF PostConditionsHold
<1>5. /\ a.status = STATUS_OPEN
      /\ assertionMap'[id] = [a EXCEPT !.disputer = tx.signer, !.status = STATUS_DISPUTED,
                                       !.disputedAtBlock = height]
      /\ id \in DOMAIN assertionMap'
  BY <1>1 DEF Dispute, CanDispute, MapSet
<1>6. assertionMap'[id].disputer = tx.signer
  BY <1>1, <1>5 DEF Assertions
<1>7. QED
  BY <1>4, <1>5, <1>6

\* An assert that its post-condition lets through is signed by whom it names.
LEMMA AsserterIsPayer ==
    ASSUME TypeOK, NEW tx, tx.signer \in Principals, tx.call.bond \in Nat,
           PostConditionsHold(tx),
           Assert(tx.signer, Statement, tx.call.claim, tx.call.bond, tx.call.liveness)
    PROVE  /\ height' = height /\ height \in InitHeight..height
           /\ AssertedId(tx.call, height) \in DOMAIN assertionMap'
           /\ assertionMap'[AssertedId(tx.call, height)].asserter = tx.payer
<1> DEFINE n  == tx.call.bond
           id == AssertedId(tx.call, height)
<1>1. /\ CanTransfer(balance, n, tx.signer, Core) /\ height' = height
      /\ balance' = Transfer(balance, n, tx.signer, Core)
      /\ id \in DOMAIN assertionMap' /\ assertionMap'[id].asserter = tx.signer
  BY DEF Assert, CanAssert, MapSet, AssertedId
<1>2. height \in InitHeight..height
  BY EnvironmentAssumption DEF TypeOK
<1>3. /\ n > 0 /\ balance[tx.signer] >= n /\ balance[tx.signer] \in Nat
      /\ balance'[tx.signer] = balance[tx.signer] - n
  BY <1>1, PrincipalAssumption DEF CanTransfer, Transfer, TypeOK
<1>4. Spent(tx.signer) # 0
  BY <1>3 DEF Spent
<1>5. tx.payer = tx.signer
  BY <1>4 DEF PostConditionsHold
<1>6. QED
  BY <1>1, <1>2, <1>5

\* settle and resolve end an assertion.
LEMMA PayoutEnds ==
    ASSUME TypeOK, NEW c, NEW id,
           \/ Settle(c, id) \/ ResolveSettled(c, id)
           \/ ResolveRejected(c, id) \/ ResolveUnresolved(c, id)
    PROVE  /\ id \in DOMAIN assertionMap'
           /\ assertionMap'[id].status \in TerminalStatuses
           /\ assertionMap[id].status \in {STATUS_OPEN, STATUS_DISPUTED}
<1> DEFINE a == assertionMap[id]
<1>1. a \in Assertions
  BY DEF Settle, CanSettle, ResolveSettled, ResolveRejected, ResolveUnresolved, CanResolve, Exists,
         TypeOK
<1>2. a.status \in {STATUS_OPEN, STATUS_DISPUTED}
  BY DEF Settle, CanSettle, ResolveSettled, ResolveRejected, ResolveUnresolved, CanResolve
<1>3. id \in DOMAIN assertionMap'
  BY DEF Settle, CanSettle, ResolveSettled, ResolveRejected, ResolveUnresolved, MapSet
<1>4. CASE Settle(c, id) \/ ResolveSettled(c, id)
  <2>1. assertionMap'[id] = [a EXCEPT !.status = STATUS_SETTLED, !.settledAtBlock = height]
    BY <1>4 DEF Settle, CanSettle, ResolveSettled, MapSet
  <2>2. QED
    BY <1>1, <1>2, <1>3, <2>1 DEF Assertions, TerminalStatuses
<1>5. CASE ResolveRejected(c, id)
  <2>1. assertionMap'[id] = [a EXCEPT !.status = STATUS_REJECTED, !.rejectedAtBlock = height]
    BY <1>5 DEF ResolveRejected, MapSet
  <2>2. QED
    BY <1>1, <1>2, <1>3, <2>1 DEF Assertions, TerminalStatuses
<1>6. CASE ResolveUnresolved(c, id)
  <2>1. assertionMap'[id] = [a EXCEPT !.status = STATUS_UNRESOLVED,
                                      !.unresolvedAtBlock = height]
    BY <1>6 DEF ResolveUnresolved, MapSet
  <2>2. QED
    BY <1>1, <1>2, <1>3, <2>1 DEF Assertions, TerminalStatuses
<1>7. QED
  BY <1>4, <1>5, <1>6

\* A transaction takes effect only where none of its kind has before.
LEMMA MinedTakesEffect ==
    ASSUME TypeOK, WindowRespected, PageInv, EffectInv, NEW tx \in mempool, Mined(tx)
    PROVE  /\ EffectOf(tx)'
           /\ \A u \in confirmed :
                 tx.call.fn # "assert" => ~ SameButton(tx.call, u.call)
<1>1. tx.signer \in Principals /\ Call(tx) /\ PostConditionsHold(tx)
  BY PageAssumption DEF PageInv, TransactionOK, Mined, Effective
<1>2. STATUS_OPEN \notin TerminalStatuses /\ STATUS_DISPUTED \notin TerminalStatuses
  BY DEF TerminalStatuses, STATUS_OPEN, STATUS_DISPUTED, STATUS_SETTLED, STATUS_REJECTED,
         STATUS_UNRESOLVED
<1>3. CASE tx.call.fn = "assert"
  <2>1. Assert(tx.signer, Statement, tx.call.claim, tx.call.bond, tx.call.liveness)
    BY <1>1, <1>3 DEF Call
  <2>2. /\ height' = height /\ height \in InitHeight..height
        /\ AssertedId(tx.call, height) \in DOMAIN assertionMap'
        /\ assertionMap'[AssertedId(tx.call, height)].asserter = tx.payer
    <3>1. tx.call.bond \in Nat
      <4>1. TransactionOK(tx, drafts)
        BY DEF PageInv
      <4>2. tx.call.bond \in Bonds
        BY <1>3, <4>1 DEF TransactionOK, CallOK
      <4>3. QED
        BY <4>2, InputsAreNumbers
    <3>2. QED
      BY <1>1, <2>1, <3>1, AsserterIsPayer
  <2>3. QED
    BY <1>3, <2>2 DEF EffectOf, AssertedId
<1>4. CASE tx.call.fn = "dispute"
  <2>1. Dispute(tx.signer, tx.call.id)
    BY <1>1, <1>4 DEF Call
  <2>2. /\ tx.payer = tx.signer
        /\ assertionMap'[tx.call.id].disputer = tx.payer
        /\ tx.call.id \in DOMAIN assertionMap'
        /\ assertionMap[tx.call.id].status = STATUS_OPEN
    BY <1>1, <2>1, DisputerIsPayer
  <2>3. tx.payer # None
    BY <1>1, <2>2, PrincipalAssumption
  <2>4. EffectOf(tx)'
    BY <1>4, <2>2, <2>3 DEF EffectOf
  <2>5. ASSUME NEW u \in confirmed, SameButton(tx.call, u.call) PROVE FALSE
    <3>1. u.call.fn = "dispute" /\ u.call.id = tx.call.id
      BY <1>4, <2>5 DEF SameButton
    <3>2. tx.call.id \in DOMAIN assertionMap /\ assertionMap[tx.call.id].disputer # None
      BY <3>1 DEF EffectInv, EffectOf
    <3>3. QED
      BY <2>2, <3>2 DEF WindowRespected, Timeline
  <2>6. QED
    BY <2>4, <2>5
<1>5. CASE tx.call.fn \in {"settle", "resolve"}
  <2>1. /\ tx.call.id \in DOMAIN assertionMap'
        /\ assertionMap'[tx.call.id].status \in TerminalStatuses
        /\ assertionMap[tx.call.id].status \in {STATUS_OPEN, STATUS_DISPUTED}
    <3>1. \/ Settle(tx.signer, tx.call.id) \/ ResolveSettled(tx.signer, tx.call.id)
          \/ ResolveRejected(tx.signer, tx.call.id) \/ ResolveUnresolved(tx.signer, tx.call.id)
      BY <1>1, <1>5 DEF Call
    <3>2. QED
      BY <3>1, PayoutEnds
  <2>2. EffectOf(tx)'
    BY <1>5, <2>1 DEF EffectOf
  <2>3. ASSUME NEW u \in confirmed, SameButton(tx.call, u.call) PROVE FALSE
    <3>1. u.call.fn \in {"settle", "resolve"} /\ u.call.id = tx.call.id
      BY <1>5, <2>3 DEF SameButton
    <3>2. assertionMap[tx.call.id].status \in TerminalStatuses
      BY <3>1 DEF EffectInv, EffectOf
    <3>3. QED
      BY <1>2, <2>1, <3>2
  <2>4. QED
    BY <2>2, <2>3
<1>6. QED
  BY <1>1, <1>3, <1>4, <1>5 DEF Call

\* What has taken effect stays, and nothing takes effect twice.
LEMMA NextKeepsEffects ==
    TypeOK /\ WindowRespected /\ PageInv /\ EffectInv /\ OneEffect /\ [TxNext]_txVars
        => EffectInv' /\ OneEffect'
<1> SUFFICES ASSUME TypeOK, WindowRespected, PageInv, EffectInv, OneEffect, [TxNext]_txVars
             PROVE  EffectInv' /\ OneEffect'
  OBVIOUS
<1>1. Final
  BY StepIsContractStep, StepIsFinal
<1>2. ASSUME NEW t \in confirmed PROVE EffectOf(t)'
  <2>1. EffectOf(t)
    BY DEF EffectInv
  <2>2. t.call.fn = "assert" =>
           \E h \in InitHeight..height' :
               /\ AssertedId(t.call, h) \in DOMAIN assertionMap'
               /\ assertionMap'[AssertedId(t.call, h)].asserter = t.payer
    <3>1. HAVE t.call.fn = "assert"
    <3>2. PICK h \in InitHeight..height :
             /\ AssertedId(t.call, h) \in DOMAIN assertionMap
             /\ assertionMap[AssertedId(t.call, h)].asserter = t.payer
      BY <2>1, <3>1 DEF EffectOf
    <3>3. h \in InitHeight..height'
      <4>1. height' = height \/ height' = height + 1
        BY StepIsContractStep, StepWrites DEF Written
      <4>2. QED
        BY <3>2, <4>1, EnvironmentAssumption DEF TypeOK
    <3>4. /\ AssertedId(t.call, h) \in DOMAIN assertionMap'
          /\ assertionMap'[AssertedId(t.call, h)].asserter
                = assertionMap[AssertedId(t.call, h)].asserter
      BY <1>1, <3>2 DEF Final
    <3>5. QED
      BY <3>2, <3>3, <3>4
  <2>3. QED
    BY <1>1, <2>1, <2>2 DEF EffectOf, Final
<1>3. CASE confirmed' = confirmed
  BY <1>2, <1>3 DEF EffectInv, OneEffect
<1>4. ASSUME NEW tx \in mempool, Mined(tx) PROVE EffectInv' /\ OneEffect'
  <2>1. confirmed' = confirmed \cup {tx}
    BY <1>4 DEF Mined
  <2>2. EffectOf(tx)' /\ \A u \in confirmed :
                            tx.call.fn # "assert" => ~ SameButton(tx.call, u.call)
    BY <1>4, MinedTakesEffect
  <2>3. EffectInv'
    BY <1>2, <2>1, <2>2 DEF EffectInv
  <2>4. \A u \in confirmed : u.call.fn # "assert" => ~ SameButton(u.call, tx.call)
    BY <2>2 DEF SameButton
  <2>5. OneEffect'
    BY <2>1, <2>2, <2>4 DEF OneEffect
  <2>6. QED
    BY <2>3, <2>5
<1>5. confirmed' = confirmed \/ \E tx \in mempool : Mined(tx)
  BY DEF TxNext, txVars, ElsewhereStep, HeaderConnects, HeaderAnswered, HeaderDisconnects,
         Reloaded, CloseDialog, Typed, Submit, CreateAssertion, ClickDispute,
         DisputeAssertion, ClickSettle, SettleAssertion, ClickResolve, ResolveAssertion,
         Start, ConnectAnswered, Refused, Signed, Failed
<1>6. QED
  BY <1>3, <1>4, <1>5

\* What is confirmed has had its effect once.
LEMMA EffectsKept == TxSpec => [](EffectInv /\ OneEffect)
<1>1. TxInit => EffectInv /\ OneEffect
  BY DEF TxInit, EffectInv, OneEffect
<1>2. QED
  BY <1>1, NextKeepsEffects, PageTheorem, ContractTheorem, TypeCorrect, WindowTheorem, PTL
  DEF TxSpec

\* However often a user clicks, on whatever listing, with whatever reloads and
\* accounts, at most one transaction of a kind takes effect on an assertion.
THEOREM OneEffectTheorem == TxSpec => []OneEffect
  BY EffectsKept, PTL

\* The asserter and the disputer on record are the account the page showed at the
\* click, whatever account the wallet signed with: whoever else signs would have
\* paid in its place, which the post-condition forbids.
THEOREM ShownPartyTheorem == TxSpec => []ShownPartyRecorded
<1>1. EffectInv => ShownPartyRecorded
  BY DEF EffectInv, EffectOf, ShownPartyRecorded, Exists
<1>2. QED
  BY <1>1, EffectsKept, PTL

-----------------------------------------------------------------------------
(* A draft is sent once *)

Asserts(t) == t.call.fn = "assert"
OfDraft(t) == draft # None /\ t.call.draft = draft.number

\* What is under way or done stems from different drafts; what has left the wallet
\* is no longer in the form, and what has not is waited for while it still is.
DraftInv ==
    /\ \A t, u \in flows \cup mempool \cup confirmed :
          (Asserts(t) /\ Asserts(u) /\ t.call.draft = u.call.draft) => t.n = u.n
    /\ \A t \in mempool \cup confirmed : Asserts(t) => ~ OfDraft(t)
    /\ \A f \in flows : (Asserts(f) /\ OfDraft(f)) => f.awaited

\* A transaction that moves on, from the page to the wallet, the mempool or the chain.
Continues(t, f) == t.n = f.n /\ t.call = f.call

\* Steps that start no transaction and fill in no form.
LEMMA MovingOnKeepsDrafts ==
    ASSUME DraftInv, draft' \in {draft, None},
           \A t \in flows' : \E f \in flows :
               Continues(t, f) /\ (draft' = None \/ t.awaited = f.awaited),
           \A t \in mempool' \cup confirmed' :
               \/ \E u \in mempool \cup confirmed : Continues(t, u)
               \/ \E f \in flows :
                     Continues(t, f) /\ (draft' = None \/ ~ f.awaited \/ ~ Asserts(f))
    PROVE  DraftInv'
<1>1. \A t \in flows' \cup mempool' \cup confirmed' :
         \E u \in flows \cup mempool \cup confirmed : Continues(t, u)
  OBVIOUS
<1>2. ASSUME NEW t \in flows' \cup mempool' \cup confirmed',
             NEW u \in flows' \cup mempool' \cup confirmed',
             Asserts(t), Asserts(u), t.call.draft = u.call.draft
      PROVE  t.n = u.n
  BY <1>1, <1>2 DEF DraftInv, Asserts, Continues
<1>3. ASSUME NEW t \in mempool' \cup confirmed', Asserts(t) PROVE ~ OfDraft(t)'
  BY <1>3 DEF DraftInv, Asserts, OfDraft, Continues
<1>4. ASSUME NEW f \in flows', Asserts(f), OfDraft(f)' PROVE f.awaited
  <2>1. draft' = draft /\ draft' # None
    BY <1>4 DEF OfDraft
  <2>2. PICK g \in flows : Continues(f, g) /\ f.awaited = g.awaited
    BY <2>1
  <2>3. g.awaited
    BY <1>4, <2>1, <2>2 DEF DraftInv, Asserts, OfDraft, Continues
  <2>4. QED
    BY <2>2, <2>3, Zenon
<1>5. QED
  BY <1>2, <1>3, <1>4 DEF DraftInv, Asserts, OfDraft

\* A transaction is started when nothing like it is waited for.
LEMMA StartKeepsDrafts ==
    ASSUME DraftInv, NEW call, NEW payer, NEW amount, Start(call, payer, amount),
           call.fn = "assert" => draft # None /\ call.draft = draft.number
    PROVE  DraftInv'
<1> DEFINE f == [n |-> clicks', call |-> call, payer |-> payer, amount |-> amount,
                 stage |-> IF connected THEN "request" ELSE "connect", awaited |-> TRUE]
<1>1. /\ flows' = flows \cup {f}
      /\ UNCHANGED <<draft, mempool, confirmed>>
      /\ ~ IsPending(call)
  BY DEF Start, dialog
<1>2. f.call = call /\ f.awaited
  OBVIOUS
<1> HIDE DEF f
<1>3. ASSUME NEW t \in flows \cup mempool \cup confirmed, Asserts(t), Asserts(f)
      PROVE  t.call.draft # f.call.draft
  <2>1. OfDraft(f)
    BY <1>2, <1>3 DEF Asserts, OfDraft
  <2>2. CASE t \in mempool \cup confirmed
    BY <1>3, <2>1, <2>2 DEF DraftInv, OfDraft
  <2>3. CASE t \in flows
    <3>1. SameButton(t.call, call)
      BY <1>2, <1>3 DEF SameButton, Asserts
    <3>2. ~ t.awaited
      BY <1>1, <2>3, <3>1 DEF IsPending
    <3>3. QED
      BY <1>3, <2>1, <2>3, <3>2 DEF DraftInv, OfDraft
  <2>4. QED
    BY <2>2, <2>3
<1>4. ASSUME NEW t \in flows' \cup mempool' \cup confirmed',
             NEW u \in flows' \cup mempool' \cup confirmed',
             Asserts(t), Asserts(u), t.call.draft = u.call.draft
      PROVE  t.n = u.n
  <2>1. t \in flows \cup mempool \cup confirmed \cup {f}
    BY <1>1
  <2>2. u \in flows \cup mempool \cup confirmed \cup {f}
    BY <1>1
  <2>3. QED
    BY <1>3, <1>4, <2>1, <2>2 DEF DraftInv
<1>5. \A g \in flows' : (Asserts(g) /\ OfDraft(g)') => g.awaited
  BY <1>1, <1>2 DEF DraftInv, OfDraft
<1>6. QED
  BY <1>1, <1>4, <1>5 DEF DraftInv, Asserts, OfDraft

\* The steps of the page's transactions keep drafts apart.
LEMMA NextKeepsDrafts == PageInv /\ DraftInv /\ [TxNext]_txVars => DraftInv'
<1> SUFFICES ASSUME PageInv, DraftInv, [TxNext]_txVars PROVE DraftInv'
  OBVIOUS
<1>1. ASSUME UNCHANGED <<draft, flows>>,
             mempool' \subseteq mempool, confirmed' \subseteq mempool \cup confirmed
      PROVE  DraftInv'
  BY <1>1, MovingOnKeepsDrafts DEF Continues
<1>2. CASE \/ ElsewhereStep \/ UNCHANGED txVars
           \/ HeaderConnects \/ HeaderAnswered \/ HeaderDisconnects
           \/ \E tx \in mempool : Mined(tx) \/ Failed(tx)
  BY <1>1, <1>2 DEF ElsewhereStep, txVars, page, dialog, HeaderConnects, HeaderAnswered,
                    HeaderDisconnects, Mined, Failed
<1>3. CASE CloseDialog
  BY <1>3, MovingOnKeepsDrafts DEF CloseDialog, Continues
<1>4. ASSUME NEW b, NEW l, Typed(b, l) PROVE DraftInv'
  <2>1. /\ draft'.number = drafts + 1
        /\ UNCHANGED <<flows, mempool, confirmed>>
    BY <1>4 DEF Typed
  <2>2. \A t \in flows \cup mempool \cup confirmed : Asserts(t) => t.call.draft \in 1..drafts
    BY DEF PageInv, FlowOK, TransactionOK, CallOK, Asserts
  <2>3. drafts \in Nat
    BY DEF PageInv, DraftOK
  <2>4. \A t \in flows \cup mempool \cup confirmed : Asserts(t) => ~ OfDraft(t)'
    BY <2>1, <2>2, <2>3 DEF OfDraft
  <2>5. QED
    BY <2>1, <2>4 DEF DraftInv, Asserts, OfDraft
<1>5. ASSUME NEW c, Submit(c) PROVE DraftInv'
  <2> DEFINE call == [fn |-> "assert", claim |-> c, bond |-> draft.bond,
                      liveness |-> LivenessArg(draft.liveness), draft |-> draft.number]
  <2>1. Start(call, stxAddress, draft.bond) /\ draft # None
    BY <1>5 DEF Submit, CreateAssertion
  <2>2. call.draft = draft.number
    OBVIOUS
  <2> HIDE DEF call
  <2>3. QED
    BY <2>1, <2>2, StartKeepsDrafts
<1>6. ASSUME NEW id, NEW outcome,
             ClickDispute(id) \/ ClickSettle(id) \/ ClickResolve(id, outcome)
      PROVE  DraftInv'
  <2>1. PICK call, payer, amount : Start(call, payer, amount) /\ call.fn # "assert"
    <3>1. CASE ClickDispute(id)
      <4>1. Start([fn |-> "dispute", id |-> id], stxAddress, assertionMap[id].bondSats)
        BY <3>1 DEF ClickDispute, DisputeAssertion
      <4>2. [fn |-> "dispute", id |-> id].fn # "assert"
        OBVIOUS
      <4>3. QED
        BY <4>1, <4>2
    <3>2. CASE ClickSettle(id)
      <4>1. Start([fn |-> "settle", id |-> id], Core, assertionMap[id].bondSats)
        BY <3>2 DEF ClickSettle, SettleAssertion
      <4>2. [fn |-> "settle", id |-> id].fn # "assert"
        OBVIOUS
      <4>3. QED
        BY <4>1, <4>2
    <3>3. CASE ClickResolve(id, outcome)
      <4>1. Start([fn |-> "resolve", id |-> id, outcome |-> outcome],
                  Core, 2 * assertionMap[id].bondSats)
        BY <3>3 DEF ClickResolve, ResolveAssertion
      <4>2. [fn |-> "resolve", id |-> id, outcome |-> outcome].fn # "assert"
        OBVIOUS
      <4>3. QED
        BY <4>1, <4>2
    <3>4. QED
      BY <1>6, <3>1, <3>2, <3>3
  <2>2. QED
    BY <2>1, StartKeepsDrafts
<1>7. ASSUME NEW f \in flows, ConnectAnswered(f) PROVE DraftInv'
  <2> DEFINE g == [f EXCEPT !.stage = "request"]
  <2>1. /\ flows' = (flows \ {f}) \cup {h \in {g} : h.payer # NoAddress}
        /\ UNCHANGED <<draft, mempool, confirmed>>
    BY <1>7 DEF ConnectAnswered, Resumed, dialog
  <2>2. FlowOK(f, drafts, clicks)
    BY DEF PageInv
  <2>3. Continues(g, f) /\ g.awaited = f.awaited
    BY <2>2 DEF FlowOK, Continues
  <2> HIDE DEF g
  <2>4. \A t \in flows' : \E h \in flows : Continues(t, h) /\ t.awaited = h.awaited
    BY <2>1, <2>3 DEF Continues
  <2>5. QED
    BY <2>1, <2>4, MovingOnKeepsDrafts DEF Continues
<1>8. ASSUME NEW f \in flows, NEW a \in Accounts, Signed(f, a) PROVE DraftInv'
  <2> DEFINE t == [n |-> f.n, call |-> f.call, payer |-> f.payer, amount |-> f.amount,
                   signer |-> a]
  <2>1. /\ flows' = flows \ {f} /\ mempool' = mempool \cup {t} /\ UNCHANGED confirmed
        /\ draft' = None \/ (draft' = draft /\ (~ f.awaited \/ ~ Asserts(f)))
    BY <1>8 DEF Signed, Asserts
  <2>2. Continues(t, f)
    BY DEF Continues
  <2> HIDE DEF t
  <2>3. draft' = None \/ ~ f.awaited \/ ~ Asserts(f)
    BY <2>1
  <2>4. QED
    BY <2>1, <2>2, <2>3, MovingOnKeepsDrafts DEF Continues
<1>9. ASSUME NEW f \in flows, Refused(f) PROVE DraftInv'
  BY <1>9, MovingOnKeepsDrafts DEF Refused, dialog, Continues
<1>10. CASE Reloaded
  <2> DEFINE Alone(f) == [f EXCEPT !.awaited = FALSE]
  <2>1. /\ flows' = {Alone(f) : f \in {g \in flows : g.stage = "request"}}
        /\ draft' = None /\ UNCHANGED <<mempool, confirmed>>
    BY <1>10 DEF Reloaded
  <2>2. ASSUME NEW f \in flows PROVE Continues(Alone(f), f)
    <3>1. FlowOK(f, drafts, clicks)
      BY DEF PageInv
    <3>2. QED
      BY <3>1 DEF FlowOK, Continues
  <2> HIDE DEF Alone
  <2>3. QED
    BY <2>1, <2>2, MovingOnKeepsDrafts DEF Continues
<1>11. QED
  BY <1>2, <1>3, <1>4, <1>5, <1>6, <1>7, <1>8, <1>9, <1>10 DEF TxNext

\* A draft is sent at most once unless the user types it again, however he clicks,
\* retries, reloads or reopens the dialog.
THEOREM DraftTheorem == TxSpec => []DraftSentOnce
<1>1. TxInit => DraftInv
  BY DEF TxInit, DraftInv
<1>2. DraftInv => DraftSentOnce
  BY DEF DraftInv, DraftSentOnce, Asserts
<1>3. QED
  BY <1>1, <1>2, NextKeepsDrafts, PageTheorem, PTL DEF TxSpec

-----------------------------------------------------------------------------
(* What a transaction is made to pay *)

\* A transaction sends its own bond or, for as long as the assertion is on record,
\* as many bonds of it as the call moves, from the author's account or the contract's.
AmountFits(t) ==
    LET c == t.call
    IN  /\ c.fn \in {"assert", "dispute", "settle", "resolve"}
        /\ c.fn = "assert" => t.amount = c.bond
        /\ c.fn # "assert" =>
              /\ c.id \in DOMAIN assertionMap
              /\ t.amount = IF c.fn = "resolve" THEN 2 * assertionMap[c.id].bondSats
                                               ELSE assertionMap[c.id].bondSats
        /\ (t.payer = Core) <=> c.fn \in {"settle", "resolve"}

\* What is sent has been through the form.
FormPassed(c) ==
    c.fn = "assert" =>
        /\ c.bond >= FormMinBond
        /\ c.liveness # None => c.liveness >= FormMinLiveness

SentInv == \A t \in flows \cup mempool : AmountFits(t) /\ FormPassed(t.call)

\* The terms a transaction was started with stay with it.
SameTerms(t, u) == t.call = u.call /\ t.payer = u.payer /\ t.amount = u.amount

\* No transaction's terms become wrong: the bond of an assertion never changes.
LEMMA TermsStayRight ==
    ASSUME Final, NEW t, NEW u, SameTerms(t, u), AmountFits(u), FormPassed(u.call)
    PROVE  AmountFits(t)' /\ FormPassed(t.call)
<1>1. \A id \in DOMAIN assertionMap :
         /\ id \in DOMAIN assertionMap'
         /\ assertionMap'[id].bondSats = assertionMap[id].bondSats
  BY DEF Final
<1>2. QED
  BY <1>1 DEF SameTerms, AmountFits, FormPassed

\* Steps that start nothing.
LEMMA MovingOnKeepsTerms ==
    ASSUME SentInv, Final,
           \A t \in flows' \cup mempool' : \E u \in flows \cup mempool : SameTerms(t, u)
    PROVE  SentInv'
  BY TermsStayRight DEF SentInv, FormPassed

\* A transaction is started on right terms.
LEMMA StartKeepsTerms ==
    ASSUME SentInv, NEW call, NEW payer, NEW amount, Start(call, payer, amount),
           AmountFits([call |-> call, payer |-> payer, amount |-> amount]), FormPassed(call)
    PROVE  SentInv'
<1> DEFINE f == [n |-> clicks', call |-> call, payer |-> payer, amount |-> amount,
                 stage |-> IF connected THEN "request" ELSE "connect", awaited |-> TRUE]
<1>1. /\ flows' = flows \cup {f}
      /\ UNCHANGED <<vars, mempool>>
  BY DEF Start
<1>2. AmountFits(f) /\ FormPassed(f.call)
  BY DEF AmountFits
<1> HIDE DEF f
<1>3. \A t : AmountFits(t)' <=> AmountFits(t)
  BY <1>1 DEF AmountFits, vars
<1>4. QED
  BY <1>1, <1>2, <1>3 DEF SentInv, FormPassed

\* The clicks of the dialog and the card.
LEMMA ClickKeepsTerms ==
    ASSUME TypeOK, PageInv, SentInv,
           \/ \E c \in Claims : Submit(c)
           \/ \E id \in DOMAIN assertionMap :
                 \/ ClickDispute(id) \/ ClickSettle(id)
                 \/ \E outcome \in Outcomes : ClickResolve(id, outcome)
    PROVE  SentInv'
<1>1. stxAddress # Core
  BY PrincipalAssumption, PageAssumption, WalletAssumption
  DEF PageInv, WalletInv, PageMatchesStorage, ShowStored
<1>2. ASSUME NEW c \in Claims, Submit(c) PROVE SentInv'
  <2> DEFINE call == [fn |-> "assert", claim |-> c, bond |-> draft.bond,
                      liveness |-> LivenessArg(draft.liveness), draft |-> draft.number]
             t == [call |-> call, payer |-> stxAddress, amount |-> draft.bond]
  <2>1. Start(call, stxAddress, draft.bond) /\ FormAccepts(draft)
    BY <1>2 DEF Submit, CreateAssertion
  <2>2. AmountFits(t)
    BY <1>1 DEF AmountFits
  <2>3. FormPassed(call)
    BY <2>1 DEF FormPassed, FormAccepts, LivenessArg
  <2> HIDE DEF call
  <2>4. QED
    BY <2>1, <2>2, <2>3, StartKeepsTerms
<1>3. ASSUME NEW id \in DOMAIN assertionMap, ClickDispute(id) PROVE SentInv'
  <2> DEFINE call == [fn |-> "dispute", id |-> id]
             t == [call |-> call, payer |-> stxAddress, amount |-> assertionMap[id].bondSats]
  <2>1. Start(call, stxAddress, assertionMap[id].bondSats)
    BY <1>3 DEF ClickDispute, DisputeAssertion
  <2>2. AmountFits(t) /\ FormPassed(call)
    BY <1>1 DEF AmountFits, FormPassed
  <2> HIDE DEF call
  <2>3. QED
    BY <2>1, <2>2, StartKeepsTerms
<1>4. ASSUME NEW id \in DOMAIN assertionMap, ClickSettle(id) PROVE SentInv'
  <2> DEFINE call == [fn |-> "settle", id |-> id]
             t == [call |-> call, payer |-> Core, amount |-> assertionMap[id].bondSats]
  <2>1. Start(call, Core, assertionMap[id].bondSats)
    BY <1>4 DEF ClickSettle, SettleAssertion
  <2>2. AmountFits(t) /\ FormPassed(call)
    BY DEF AmountFits, FormPassed
  <2> HIDE DEF call
  <2>3. QED
    BY <2>1, <2>2, StartKeepsTerms
<1>5. ASSUME NEW id \in DOMAIN assertionMap, NEW outcome, ClickResolve(id, outcome)
      PROVE  SentInv'
  <2> DEFINE call == [fn |-> "resolve", id |-> id, outcome |-> outcome]
             t == [call |-> call, payer |-> Core, amount |-> 2 * assertionMap[id].bondSats]
  <2>1. Start(call, Core, 2 * assertionMap[id].bondSats)
    BY <1>5 DEF ClickResolve, ResolveAssertion
  <2>2. AmountFits(t) /\ FormPassed(call)
    BY DEF AmountFits, FormPassed
  <2> HIDE DEF call
  <2>3. QED
    BY <2>1, <2>2, StartKeepsTerms
<1>6. QED
  BY <1>2, <1>3, <1>4, <1>5

\* The terms of what is under way are right wherever it has got to.
LEMMA NextKeepsTerms ==
    TypeOK /\ WindowRespected /\ PageInv /\ SentInv /\ [TxNext]_txVars => SentInv'
<1> SUFFICES ASSUME TypeOK, WindowRespected, PageInv, SentInv, [TxNext]_txVars PROVE SentInv'
  OBVIOUS
<1>1. Final
  BY StepIsContractStep, StepIsFinal
<1>2. ASSUME flows' \subseteq flows, mempool' \subseteq mempool PROVE SentInv'
  BY <1>1, <1>2, MovingOnKeepsTerms DEF SameTerms
<1>3. CASE \/ ElsewhereStep \/ UNCHANGED txVars
           \/ HeaderConnects \/ HeaderAnswered \/ HeaderDisconnects \/ CloseDialog
           \/ \E b \in Bonds, l \in Livenesses \cup {None} : Typed(b, l)
           \/ \E tx \in mempool : Mined(tx) \/ Failed(tx)
           \/ \E f \in flows : Refused(f)
  BY <1>2, <1>3 DEF ElsewhereStep, txVars, page, HeaderConnects, HeaderAnswered,
                    HeaderDisconnects, CloseDialog, Typed, Mined, Failed, Refused
<1>4. CASE Reloaded
  <2> DEFINE Alone(f) == [f EXCEPT !.awaited = FALSE]
  <2>1. /\ flows' = {Alone(f) : f \in {g \in flows : g.stage = "request"}}
        /\ UNCHANGED mempool
    BY <1>4 DEF Reloaded
  <2>2. ASSUME NEW f \in flows PROVE SameTerms(Alone(f), f)
    <3>1. FlowOK(f, drafts, clicks)
      BY DEF PageInv
    <3>2. QED
      BY <3>1 DEF FlowOK, SameTerms
  <2> HIDE DEF Alone
  <2>3. QED
    BY <1>1, <2>1, <2>2, MovingOnKeepsTerms DEF SameTerms
<1>5. ASSUME NEW f \in flows, ConnectAnswered(f) PROVE SentInv'
  <2> DEFINE g == [f EXCEPT !.stage = "request"]
  <2>1. /\ flows' = (flows \ {f}) \cup {h \in {g} : h.payer # NoAddress}
        /\ UNCHANGED mempool
    BY <1>5 DEF ConnectAnswered, Resumed
  <2>2. FlowOK(f, drafts, clicks)
    BY DEF PageInv
  <2>3. SameTerms(g, f)
    BY <2>2 DEF FlowOK, SameTerms
  <2> HIDE DEF g
  <2>4. QED
    BY <1>1, <2>1, <2>3, MovingOnKeepsTerms DEF SameTerms
<1>6. ASSUME NEW f \in flows, NEW a \in Accounts, Signed(f, a) PROVE SentInv'
  <2> DEFINE t == [n |-> f.n, call |-> f.call, payer |-> f.payer, amount |-> f.amount,
                   signer |-> a]
  <2>1. flows' = flows \ {f} /\ mempool' = mempool \cup {t}
    BY <1>6 DEF Signed
  <2>2. SameTerms(t, f)
    BY DEF SameTerms
  <2> HIDE DEF t
  <2>3. QED
    BY <1>1, <2>1, <2>2, MovingOnKeepsTerms DEF SameTerms
<1>7. QED
  BY <1>3, <1>4, <1>5, <1>6, ClickKeepsTerms DEF TxNext

\* What is under way is on right terms.
THEOREM TermsTheorem == TxSpec => []SentInv
<1>1. TxInit => SentInv
  BY DEF TxInit, SentInv
<1>2. QED
  BY <1>1, NextKeepsTerms, PageTheorem, ContractTheorem, TypeCorrect, WindowTheorem, PTL
  DEF TxSpec

\* In a single transfer the sender pays, and nobody else.
LEMMA SenderPays ==
    ASSUME TypeOK, NEW amount \in Nat, NEW sender \in Principals \cup {Core},
           NEW recipient \in Principals \cup {Core},
           CanTransfer(balance, amount, sender, recipient),
           balance' = Transfer(balance, amount, sender, recipient)
    PROVE  \A p \in Principals \cup {Core} : Spent(p) = IF p = sender THEN amount ELSE 0
<1>1. /\ balance \in [Principals \cup {Core} -> Nat] /\ sender # recipient /\ amount > 0
      /\ balance[sender] >= amount
  BY DEF TypeOK, CanTransfer
<1>2. ASSUME NEW p \in Principals \cup {Core}
      PROVE  /\ balance[p] \in Nat
             /\ balance'[p] = IF p = sender THEN balance[p] - amount
                              ELSE IF p = recipient THEN balance[p] + amount
                              ELSE balance[p]
  BY <1>1 DEF Transfer
<1>3. ASSUME NEW p \in Principals \cup {Core}
      PROVE  Spent(p) = IF p = sender THEN amount ELSE 0
  <2>1. CASE p = sender
    BY <1>1, <1>2, <2>1 DEF Spent
  <2>2. CASE p # sender
    <3>1. ~ (balance'[p] < balance[p])
      BY <1>2, <2>2
    <3>2. QED
      BY <2>2, <3>1 DEF Spent
  <2>3. QED
    BY <2>1, <2>2
<1>4. QED
  BY <1>3

\* When an arbiter cannot tell, the contract pays both parties one bond each.
LEMMA BothArePaid ==
    ASSUME TypeOK, NEW c, NEW id, ResolveUnresolved(c, id)
    PROVE  \A p \in Principals \cup {Core} :
              Spent(p) = IF p = Core THEN 2 * assertionMap[id].bondSats ELSE 0
<1> DEFINE a == assertionMap[id]
           b == a.bondSats
           afterFirst == Transfer(balance, b, Core, a.asserter)
<1>1. /\ a \in Assertions /\ a.disputer # None
      /\ CanTransfer(balance, b, Core, a.asserter)
      /\ CanTransfer(afterFirst, b, Core, a.disputer)
      /\ balance' = Transfer(afterFirst, b, Core, a.disputer)
  BY DEF ResolveUnresolved, CanResolve, Exists, TypeOK
<1>2. /\ b \in Nat \ {0} /\ a.asserter \in Principals /\ a.disputer \in Principals
      /\ balance \in [Principals \cup {Core} -> Nat]
  BY <1>1 DEF Assertions, TypeOK
<1> HIDE DEF a, b
<1>3. ASSUME NEW p \in Principals \cup {Core}
      PROVE  /\ balance[p] \in Nat
             /\ p = Core => /\ afterFirst[p] = balance[p] - b
                            /\ balance'[p] = afterFirst[p] - b
             /\ p # Core => /\ afterFirst[p] \in {balance[p], balance[p] + b}
                            /\ balance'[p] \in {afterFirst[p], afterFirst[p] + b}
  BY <1>1, <1>2, PrincipalAssumption DEF Transfer
<1> HIDE DEF afterFirst
<1>4. ASSUME NEW p \in Principals \cup {Core}
      PROVE  Spent(p) = IF p = Core THEN 2 * b ELSE 0
  <2>1. CASE p = Core
    <3>1. balance'[p] = balance[p] - 2 * b /\ balance'[p] < balance[p]
      BY <1>2, <1>3, <2>1
    <3>2. QED
      BY <1>2, <1>3, <2>1, <3>1 DEF Spent
  <2>2. CASE p # Core
    <3>1. ~ (balance'[p] < balance[p])
      BY <1>2, <1>3, <2>2
    <3>2. QED
      BY <2>2, <3>1 DEF Spent
  <2>3. QED
    BY <2>1, <2>2
<1>5. QED
  BY <1>4 DEF a, b

\* Hence a transaction whose call is one transfer of its amount by its payer meets
\* its condition.
LEMMA TransferFits ==
    ASSUME TypeOK, NEW t, t.amount \in Nat, t.payer \in Principals \cup {Core},
           NEW recipient \in Principals \cup {Core},
           CanTransfer(balance, t.amount, t.payer, recipient),
           balance' = Transfer(balance, t.amount, t.payer, recipient)
    PROVE  PostConditionsHold(t)
  BY SenderPays DEF PostConditionsHold

\* Who and what a recorded assertion names.
LEMMA RecordedTerms ==
    ASSUME TypeOK, NEW id \in DOMAIN assertionMap
    PROVE  /\ assertionMap[id].bondSats \in Nat
           /\ assertionMap[id].asserter \in Principals
           /\ assertionMap[id].disputer # None => assertionMap[id].disputer \in Principals
  BY DEF TypeOK, Assertions

\* What the contract moves for a call is what the call's transaction is made to pay.
LEMMA ConditionMet ==
    ASSUME TypeOK, PageInv, SentInv, NEW tx \in mempool,
           tx.payer \in {tx.signer, Core}, Call(tx)
    PROVE  PostConditionsHold(tx)
<1> DEFINE id == tx.call.id
           a  == assertionMap[id]
<1>1. /\ AmountFits(tx) /\ CallOK(tx.call, drafts)
      /\ tx.signer \in Principals
  BY PageAssumption DEF SentInv, PageInv, TransactionOK
<1>2. tx.payer \in Principals \cup {Core}
  BY <1>1
<1>3. tx.call.fn # "assert" =>
         /\ id \in DOMAIN assertionMap
         /\ tx.amount = IF tx.call.fn = "resolve" THEN 2 * a.bondSats ELSE a.bondSats
  BY <1>1 DEF AmountFits
<1>4. tx.call.fn # "assert" =>
         /\ a.bondSats \in Nat /\ a.asserter \in Principals
         /\ a.disputer # None => a.disputer \in Principals
  BY <1>3, RecordedTerms
<1>5. tx.call.fn \in {"assert", "dispute"} => tx.payer = tx.signer
  BY <1>1 DEF AmountFits
<1>6. tx.call.fn \in {"settle", "resolve"} => tx.payer = Core
  BY <1>1 DEF AmountFits
<1>7. CASE tx.call.fn = "assert"
  <2>1. tx.call.bond \in Bonds /\ tx.amount = tx.call.bond
    BY <1>1, <1>7 DEF CallOK, AmountFits
  <2>2. tx.amount \in Nat
    BY <2>1, InputsAreNumbers
  <2>3. Assert(tx.signer, Statement, tx.call.claim, tx.call.bond, tx.call.liveness)
    BY <1>7 DEF Call
  <2>4. /\ CanTransfer(balance, tx.amount, tx.payer, Core)
        /\ balance' = Transfer(balance, tx.amount, tx.payer, Core)
    BY <1>5, <1>7, <2>1, <2>3 DEF Assert, CanAssert
  <2>5. QED
    BY <1>2, <2>2, <2>4, TransferFits
<1>8. CASE tx.call.fn = "dispute"
  <2>1. Dispute(tx.signer, id)
    BY <1>8 DEF Call
  <2>2. tx.amount = a.bondSats /\ tx.amount \in Nat
    BY <1>3, <1>4, <1>8
  <2>3. /\ CanTransfer(balance, tx.amount, tx.payer, Core)
        /\ balance' = Transfer(balance, tx.amount, tx.payer, Core)
    BY <1>5, <1>8, <2>1, <2>2 DEF Dispute, CanDispute
  <2>4. QED
    BY <1>2, <2>2, <2>3, TransferFits
<1>9. CASE tx.call.fn = "settle"
  <2>1. Settle(tx.signer, id)
    BY <1>9 DEF Call
  <2>2. tx.amount = a.bondSats /\ tx.amount \in Nat /\ a.asserter \in Principals \cup {Core}
    BY <1>3, <1>4, <1>9
  <2>3. /\ CanTransfer(balance, tx.amount, tx.payer, a.asserter)
        /\ balance' = Transfer(balance, tx.amount, tx.payer, a.asserter)
    BY <1>6, <1>9, <2>1, <2>2 DEF Settle, CanSettle
  <2>4. QED
    BY <1>2, <2>2, <2>3, TransferFits
<1>10. CASE tx.call.fn = "resolve"
  <2>1. tx.amount = 2 * a.bondSats /\ tx.payer = Core
    BY <1>3, <1>6, <1>10
  <2>2. tx.amount \in Nat
    BY <1>4, <1>10, <2>1
  <2>3. ASSUME NEW winner \in Principals, PayBothBonds(id, winner)
        PROVE  PostConditionsHold(tx)
    <3>1. winner \in Principals \cup {Core}
      OBVIOUS
    <3>2. /\ CanTransfer(balance, tx.amount, tx.payer, winner)
          /\ balance' = Transfer(balance, tx.amount, tx.payer, winner)
      BY <2>1, <2>3 DEF PayBothBonds
    <3>3. QED
      BY <1>2, <2>2, <3>1, <3>2, TransferFits
  <2>4. CASE ResolveSettled(tx.signer, id)
    <3>1. PayBothBonds(id, a.asserter)
      BY <2>4 DEF ResolveSettled
    <3>2. a.asserter \in Principals
      BY <1>4, <1>10
    <3>3. QED
      BY <2>3, <3>1, <3>2
  <2>5. CASE ResolveRejected(tx.signer, id)
    <3>1. PayBothBonds(id, a.disputer) /\ a.disputer # None
      BY <2>5 DEF ResolveRejected, CanResolve
    <3>2. a.disputer \in Principals
      BY <1>4, <1>10, <3>1
    <3>3. QED
      BY <2>3, <3>1, <3>2
  <2>6. CASE ResolveUnresolved(tx.signer, id)
    BY <2>1, <2>6, BothArePaid DEF PostConditionsHold
  <2>7. QED
    BY <1>10, <2>4, <2>5, <2>6 DEF Call
<1>11. QED
  BY <1>7, <1>8, <1>9, <1>10 DEF Call

\* A transaction signed with the account it was prepared for is never undone by the
\* post-condition the page attached, however late it comes.
THEOREM PostConditionTheorem == TxSpec => PostConditionsFit
<1>1. TypeOK /\ PageInv /\ SentInv => ConditionsMet
  BY ConditionMet DEF ConditionsMet
<1>2. TypeOK /\ PageInv /\ SentInv /\ [TxNext]_txVars => [ConditionsMet]_txVars
  BY <1>1
<1>3. QED
  BY <1>2, PageTheorem, TermsTheorem, ContractTheorem, TypeCorrect, PTL
  DEF TxSpec, PostConditionsFit

\* An assert that the form let through is refused by the contract only as a duplicate.
THEOREM FormTheorem == TxSpec => []FormFitsContract
<1>1. TypeOK /\ PageInv /\ SentInv => FormFitsContract
  <2> SUFFICES ASSUME TypeOK, PageInv, SentInv, NEW tx \in mempool,
                      tx.call.fn = "assert", balance[tx.signer] >= tx.call.bond,
                      ~ Exists(AssertedId(tx.call, height)),
                      Cardinality(DOMAIN assertionMap) < MaxAssertions
               PROVE  CanAssert(tx.signer, Statement, tx.call.claim, tx.call.bond,
                                tx.call.liveness)
    BY DEF FormFitsContract
  <2>1. /\ FormPassed(tx.call) /\ CallOK(tx.call, drafts)
        /\ tx.signer \in Principals
    BY PageAssumption DEF SentInv, PageInv, TransactionOK
  <2>2. /\ tx.call.bond \in Nat /\ tx.call.liveness \in Nat \cup {None}
        /\ tx.call.bond >= FormMinBond
        /\ tx.call.liveness # None => tx.call.liveness >= FormMinLiveness
    BY <2>1, InputsAreNumbers DEF FormPassed, CallOK
  <2>3. tx.call.bond >= MIN_BOND_SATS /\ tx.call.bond > 0
    BY <2>2, ParameterAssumption, PageAssumption
  <2>4. tx.call.liveness # None => ResolvedLiveness(tx.call.liveness) >= MIN_LIVENESS
    BY <2>2, ParameterAssumption, PageAssumption DEF ResolvedLiveness
  <2>5. CanTransfer(balance, tx.call.bond, tx.signer, Core)
    BY <2>1, <2>3, PrincipalAssumption DEF CanTransfer
  <2>6. QED
    BY <2>3, <2>4, <2>5 DEF CanAssert, AssertedId
<1>2. QED
  BY <1>1, PageTheorem, TermsTheorem, ContractTheorem, TypeCorrect, PTL

=============================================================================
