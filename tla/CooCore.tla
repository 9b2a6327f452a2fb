------------------------------ MODULE CooCore ------------------------------
(***************************************************************************)
(* The Clarity Optimistic Oracle contract, contracts/coo/contracts/core.clar. *)
(*                                                                         *)
(* Anybody posts an assertion with an sBTC bond.  Until its window ends    *)
(* anybody may dispute it with a matching bond; after that anybody may     *)
(* settle it.  A disputed assertion is resolved by an arbiter.  All bonds  *)
(* sit together in the one sBTC balance of the contract.                   *)
(*                                                                         *)
(* A transaction is one atomic step: any error response or runtime abort   *)
(* rolls it back, so a refused call is a stuttering step and every action  *)
(* below is the successful run of one public function.                     *)
(***************************************************************************)
EXTENDS Integers, Sequences, FiniteSets

CONSTANTS
    Principals,        \* accounts and contracts that hold sBTC and call the contract
    Core,              \* the contract's own principal (current-contract)
    CONTRACT_OWNER,    \* the deployer
    DEFAULT_LIVENESS, MIN_LIVENESS, MIN_BOND_SATS,
    MaxUint,           \* the largest Clarity uint, 2^128 - 1 on chain
    None,              \* Clarity's none
    Identifiers, Claims,   \* the byte strings callers submit
    Bonds, Livenesses,     \* the bonds and custom liveness values callers submit
    Candidates,        \* the addresses the owner considers as arbiters
    Amounts,           \* the amounts holders move by calling the token directly
    InitialBalance,    \* sBTC of each principal when the contract is deployed
    InitHeight,        \* block height at deployment
    MaxHeight,         \* bound: blocks are mined up to this height only
    MaxAssertions      \* bound: assertions made in all

STATUS_OPEN       == 0
STATUS_DISPUTED   == 1
STATUS_SETTLED    == 2
STATUS_REJECTED   == 3
STATUS_UNRESOLVED == 4

TerminalStatuses == {STATUS_SETTLED, STATUS_REJECTED, STATUS_UNRESOLVED}
Statuses == {STATUS_OPEN, STATUS_DISPUTED} \cup TerminalStatuses

Byte == 0..255

ASSUME PrincipalAssumption ==
    /\ Core \notin Principals
    /\ CONTRACT_OWNER \in Principals
    /\ None \notin Principals \cup Nat

ASSUME ParameterAssumption ==
    /\ MaxUint \in Nat
    /\ DEFAULT_LIVENESS \in 0..MaxUint
    /\ MIN_LIVENESS \in Nat
    /\ MIN_BOND_SATS \in Nat \ {0}

ASSUME InputAssumption ==
    /\ Identifiers \subseteq Seq(Byte)
    /\ Claims \subseteq Seq(Byte)
    /\ Bonds \subseteq 0..MaxUint
    /\ Livenesses \subseteq 0..MaxUint
    /\ Candidates \subseteq Principals
    /\ Amounts \subseteq Nat

ASSUME EnvironmentAssumption ==
    /\ InitialBalance \in [Principals -> Nat]
    /\ InitHeight \in Nat
    /\ MaxHeight \in Nat
    /\ InitHeight <= MaxHeight
    /\ MaxAssertions \in Nat

VARIABLES
    height,        \* stacks-block-height seen by the transactions of the next block
    balance,       \* the sBTC token's ledger
    arbiterMap,    \* the principals arbiter-map maps to true
    assertionMap,  \* assertion-map
    history        \* for each assertion, the events printed about it so far

vars == <<height, balance, arbiterMap, assertionMap, history>>

-----------------------------------------------------------------------------
(* Identifiers and records *)

\* sha256 has no collisions as far as the contract is concerned: a digest is
\* told apart from another by what was hashed.
Sha256(preimage) == [sha256 |-> preimage]

\* The identifier and the claim are buffers of any length and are joined with
\* no separator; the three uints have a fixed width and stay apart.
DeriveAssertionId(identifier, claim, bond, live, block) ==
    Sha256(<<identifier \o claim, bond, live, block>>)

\* Every id a submission can get.
AssertionIds ==
    {DeriveAssertionId(i, c, b, l, h) :
        i \in Identifiers, c \in Claims, b \in Bonds,
        l \in Livenesses \cup {DEFAULT_LIVENESS}, h \in InitHeight..MaxHeight}

OptionalUint == Nat \cup {None}

Assertions ==
    [asserter          : Principals,
     disputer          : Principals \cup {None},
     claimHash         : [sha256 : Seq(Byte)],
     bondSats          : Nat \ {0},
     liveness          : Nat,
     status            : Statuses,
     assertedAtBlock   : Nat,
     disputedAtBlock   : OptionalUint,
     settledAtBlock    : OptionalUint,
     rejectedAtBlock   : OptionalUint,
     unresolvedAtBlock : OptionalUint]

Exists(id) == id \in DOMAIN assertionMap

MapSet(map, key, value) ==
    [k \in DOMAIN map \cup {key} |-> IF k = key THEN value ELSE map[k]]

\* Mutant: the print statement is missing.
PrintNothing(id, event) == UNCHANGED history

\* The print of an event, kept with the earlier events about the same assertion.
PrintEvent(id, event) ==
    history' = MapSet(history, id,
                      IF id \in DOMAIN history THEN Append(history[id], event)
                                               ELSE <<event>>)

Event(name, by, at) == [event |-> name, by |-> by, at |-> at]

-----------------------------------------------------------------------------
(* The dispute window *)

Expiry(a) == a.assertedAtBlock + a.liveness

\* Clarity aborts the transaction when an addition leaves the uint range, so
\* a call that computes the expiry block succeeds only when it has one.
HasExpiry(a) == Expiry(a) <= MaxUint

\* Mutants: the window ends a block late, or is over a block late.
IsWindowOpenLate(expiryBlock)   == expiryBlock + 1 >= height
IsWindowClosedLate(expiryBlock) == height > expiryBlock + 1

IsWindowOpen(expiryBlock)   == expiryBlock >= height
IsWindowClosed(expiryBlock) == height > expiryBlock

IsArbiter(address) == address \in arbiterMap

-----------------------------------------------------------------------------
(* The sBTC token, external: a transfer is refused for amount zero, for     *)
(* sender equal to recipient and when the sender lacks the amount.          *)

CanTransfer(ledger, amount, sender, recipient) ==
    /\ amount > 0
    /\ sender # recipient
    /\ ledger[sender] >= amount

Transfer(ledger, amount, sender, recipient) ==
    [p \in DOMAIN ledger |->
        IF p = sender THEN ledger[p] - amount
        ELSE IF p = recipient THEN ledger[p] + amount
        ELSE ledger[p]]

-----------------------------------------------------------------------------
Init ==
    /\ height = InitHeight
    /\ balance = [p \in Principals \cup {Core} |->
                     IF p = Core THEN 0 ELSE InitialBalance[p]]
    /\ arbiterMap = {CONTRACT_OWNER}
    /\ assertionMap = [id \in {} |-> None]
    /\ history = [id \in {} |-> <<>>]

\* The owner admits an arbiter.
AddArbiter(caller, address) ==
    /\ caller = CONTRACT_OWNER
    /\ address \notin arbiterMap
    /\ arbiterMap' = arbiterMap \cup {address}
    /\ UNCHANGED <<height, balance, assertionMap, history>>

\* The owner dismisses an arbiter, himself and the last one included.
RemoveArbiter(caller, address) ==
    /\ caller = CONTRACT_OWNER
    /\ address \in arbiterMap
    /\ arbiterMap' = arbiterMap \ {address}
    /\ UNCHANGED <<height, balance, assertionMap, history>>

\* What the caller gave, or the default.
ResolvedLiveness(livenessArg) ==
    IF livenessArg = None THEN DEFAULT_LIVENESS ELSE livenessArg

\* What assert requires.  A custom liveness has a lower bound and no upper bound.
CanAssert(caller, identifier, claim, bond, livenessArg) ==
    LET resolved == ResolvedLiveness(livenessArg)
    IN  /\ livenessArg # None => resolved >= MIN_LIVENESS
        /\ bond >= MIN_BOND_SATS
        /\ ~ Exists(DeriveAssertionId(identifier, claim, bond, resolved, height))
        /\ Cardinality(DOMAIN assertionMap) < MaxAssertions
        /\ CanTransfer(balance, bond, caller, Core)

\* A new assertion of the caller; livenessArg is None when not given.
Assert(caller, identifier, claim, bond, livenessArg) ==
    LET resolved == ResolvedLiveness(livenessArg)
        id       == DeriveAssertionId(identifier, claim, bond, resolved, height)
    IN  /\ CanAssert(caller, identifier, claim, bond, livenessArg)
        /\ balance' = Transfer(balance, bond, caller, Core)
        /\ assertionMap' = MapSet(assertionMap, id,
              [asserter          |-> caller,
               disputer          |-> None,
               claimHash         |-> Sha256(claim),
               bondSats          |-> bond,
               liveness          |-> resolved,
               status            |-> STATUS_OPEN,
               assertedAtBlock   |-> height,
               disputedAtBlock   |-> None,
               settledAtBlock    |-> None,
               rejectedAtBlock   |-> None,
               unresolvedAtBlock |-> None])
        /\ PrintEvent(id, [event |-> "asserted", by |-> caller, at |-> height,
                           identifier |-> identifier, claim |-> claim,
                           bondSats |-> bond, liveness |-> resolved])
        /\ UNCHANGED <<height, arbiterMap>>

\* What settle and dispute require before any sBTC moves.  The window is not
\* asked about when the expiry block overflows: the call has aborted.
CanSettle(id) ==
    /\ Exists(id)
    /\ assertionMap[id].status = STATUS_OPEN
    /\ HasExpiry(assertionMap[id])
    /\ IsWindowClosed(Expiry(assertionMap[id]))

CanDispute(id) ==
    /\ Exists(id)
    /\ assertionMap[id].status = STATUS_OPEN
    /\ HasExpiry(assertionMap[id])
    /\ IsWindowOpen(Expiry(assertionMap[id]))

\* Anybody returns the bond of an assertion nobody disputed in its window.
Settle(caller, id) ==
    LET a == assertionMap[id]
    IN  /\ CanSettle(id)
        /\ assertionMap' = MapSet(assertionMap, id,
              [a EXCEPT !.status = STATUS_SETTLED, !.settledAtBlock = height])
        /\ CanTransfer(balance, a.bondSats, Core, a.asserter)
        /\ balance' = Transfer(balance, a.bondSats, Core, a.asserter)
        /\ PrintEvent(id, Event("settled", caller, height))
        /\ UNCHANGED <<height, arbiterMap>>

\* Mutant: the status is not checked, so what is resolved can be disputed again.
DisputeAgain(caller, id) ==
    LET a == assertionMap[id]
    IN  /\ Exists(id)
        /\ HasExpiry(a)
        /\ IsWindowOpen(Expiry(a))
        /\ CanTransfer(balance, a.bondSats, caller, Core)
        /\ balance' = Transfer(balance, a.bondSats, caller, Core)
        /\ assertionMap' = MapSet(assertionMap, id,
              [a EXCEPT !.disputer = caller, !.status = STATUS_DISPUTED,
                        !.disputedAtBlock = height])
        /\ PrintEvent(id, Event("disputed", caller, height))
        /\ UNCHANGED <<height, arbiterMap>>

\* Anybody, the asserter included, matches the bond within the window.
Dispute(caller, id) ==
    LET a == assertionMap[id]
    IN  /\ CanDispute(id)
        /\ CanTransfer(balance, a.bondSats, caller, Core)
        /\ balance' = Transfer(balance, a.bondSats, caller, Core)
        /\ assertionMap' = MapSet(assertionMap, id,
              [a EXCEPT !.disputer = caller, !.status = STATUS_DISPUTED,
                        !.disputedAtBlock = height])
        /\ PrintEvent(id, Event("disputed", caller, height))
        /\ UNCHANGED <<height, arbiterMap>>

\* Mutant: a resolved dispute can be resolved again.
CanResolveAgain(caller, id) ==
    /\ Exists(id)
    /\ IsArbiter(caller)
    /\ assertionMap[id].disputer # None

\* What every resolution requires before it looks at the outcome.
CanResolve(caller, id) ==
    /\ Exists(id)
    /\ IsArbiter(caller)
    /\ assertionMap[id].status = STATUS_DISPUTED
    /\ assertionMap[id].disputer # None

\* Mutant: the two parties are mixed up.
PayBothBondsToLoser(id, winner) ==
    LET a     == assertionMap[id]
        loser == IF winner = a.asserter THEN a.disputer ELSE a.asserter
    IN  /\ CanTransfer(balance, 2 * a.bondSats, Core, loser)
        /\ balance' = Transfer(balance, 2 * a.bondSats, Core, loser)

\* The arbiter finds for one party, who takes both bonds.
PayBothBonds(id, winner) ==
    LET a == assertionMap[id]
    IN  /\ 2 * a.bondSats <= MaxUint
        /\ CanTransfer(balance, 2 * a.bondSats, Core, winner)
        /\ balance' = Transfer(balance, 2 * a.bondSats, Core, winner)

ResolveSettled(caller, id) ==
    LET a == assertionMap[id]
    IN  /\ CanResolve(caller, id)
        /\ assertionMap' = MapSet(assertionMap, id,
              [a EXCEPT !.status = STATUS_SETTLED, !.settledAtBlock = height])
        /\ PayBothBonds(id, a.asserter)
        /\ PrintEvent(id, Event("settled", caller, height))
        /\ UNCHANGED <<height, arbiterMap>>

\* Mutant: the rejection prints the event of the branch above it.
ResolveRejectedPrintsSettled(caller, id) ==
    LET a == assertionMap[id]
    IN  /\ CanResolve(caller, id)
        /\ assertionMap' = MapSet(assertionMap, id,
              [a EXCEPT !.status = STATUS_REJECTED, !.rejectedAtBlock = height])
        /\ PayBothBonds(id, a.disputer)
        /\ PrintEvent(id, Event("settled", caller, height))
        /\ UNCHANGED <<height, arbiterMap>>

ResolveRejected(caller, id) ==
    LET a == assertionMap[id]
    IN  /\ CanResolve(caller, id)
        /\ assertionMap' = MapSet(assertionMap, id,
              [a EXCEPT !.status = STATUS_REJECTED, !.rejectedAtBlock = height])
        /\ PayBothBonds(id, a.disputer)
        /\ PrintEvent(id, Event("rejected", caller, height))
        /\ UNCHANGED <<height, arbiterMap>>

\* Mutant: each party is paid both bonds.
ResolveUnresolvedPaysAll(caller, id) ==
    LET a == assertionMap[id]
        afterFirst == Transfer(balance, 2 * a.bondSats, Core, a.asserter)
    IN  /\ CanResolve(caller, id)
        /\ assertionMap' = MapSet(assertionMap, id,
              [a EXCEPT !.status = STATUS_UNRESOLVED, !.unresolvedAtBlock = height])
        /\ CanTransfer(balance, 2 * a.bondSats, Core, a.asserter)
        /\ CanTransfer(afterFirst, 2 * a.bondSats, Core, a.disputer)
        /\ balance' = Transfer(afterFirst, 2 * a.bondSats, Core, a.disputer)
        /\ PrintEvent(id, Event("unresolved", caller, height))
        /\ UNCHANGED <<height, arbiterMap>>

\* Mutant: the outcome is dated by the end of the window.
ResolveUnresolvedAtExpiry(caller, id) ==
    LET a == assertionMap[id]
        afterFirst == Transfer(balance, a.bondSats, Core, a.asserter)
    IN  /\ CanResolve(caller, id)
        /\ assertionMap' = MapSet(assertionMap, id,
              [a EXCEPT !.status = STATUS_UNRESOLVED, !.unresolvedAtBlock = Expiry(a)])
        /\ CanTransfer(balance, a.bondSats, Core, a.asserter)
        /\ CanTransfer(afterFirst, a.bondSats, Core, a.disputer)
        /\ balance' = Transfer(afterFirst, a.bondSats, Core, a.disputer)
        /\ PrintEvent(id, Event("unresolved", caller, height))
        /\ UNCHANGED <<height, arbiterMap>>

\* The arbiter cannot tell: two transfers, the second on what the first left.
ResolveUnresolved(caller, id) ==
    LET a == assertionMap[id]
        afterFirst == Transfer(balance, a.bondSats, Core, a.asserter)
    IN  /\ CanResolve(caller, id)
        /\ assertionMap' = MapSet(assertionMap, id,
              [a EXCEPT !.status = STATUS_UNRESOLVED, !.unresolvedAtBlock = height])
        /\ CanTransfer(balance, a.bondSats, Core, a.asserter)
        /\ CanTransfer(afterFirst, a.bondSats, Core, a.disputer)
        /\ balance' = Transfer(afterFirst, a.bondSats, Core, a.disputer)
        /\ PrintEvent(id, Event("unresolved", caller, height))
        /\ UNCHANGED <<height, arbiterMap>>

Resolve(caller, id) ==
    \/ ResolveSettled(caller, id)
    \/ ResolveRejected(caller, id)
    \/ ResolveUnresolved(caller, id)

\* External: a block is mined.
MineBlock ==
    /\ height < MaxHeight
    /\ height' = height + 1
    /\ UNCHANGED <<balance, arbiterMap, assertionMap, history>>

\* External: a holder moves sBTC by calling the token directly; the contract
\* itself may be the recipient, and has no say in it.
TokenTransfer(sender, recipient, amount) ==
    /\ CanTransfer(balance, amount, sender, recipient)
    /\ balance' = Transfer(balance, amount, sender, recipient)
    /\ UNCHANGED <<height, arbiterMap, assertionMap, history>>

Next ==
    \/ \E c \in Principals, p \in Candidates : AddArbiter(c, p) \/ RemoveArbiter(c, p)
    \/ \E c \in Principals, i \in Identifiers, cl \in Claims,
          b \in Bonds, l \in Livenesses \cup {None} : Assert(c, i, cl, b, l)
    \/ \E c \in Principals, id \in DOMAIN assertionMap :
          Settle(c, id) \/ Dispute(c, id) \/ Resolve(c, id)
    \/ MineBlock
    \/ \E s \in Principals, r \in Principals \cup {Core}, n \in Amounts :
          TokenTransfer(s, r, n)

Spec == Init /\ [][Next]_vars

-----------------------------------------------------------------------------
(* Properties *)

\* Every map and ledger has the shape core.clar declares for it, and the
\* history has an entry for exactly the assertions on record.
TypeOK ==
    /\ height \in InitHeight..MaxHeight
    /\ balance \in [Principals \cup {Core} -> Nat]
    /\ arbiterMap \subseteq Principals
    /\ DOMAIN assertionMap \subseteq AssertionIds
    /\ assertionMap \in [DOMAIN assertionMap -> Assertions]
    /\ DOMAIN history = DOMAIN assertionMap

\* How many sats of the contract's balance assertion a has a claim to.
Locked(a) ==
    IF a.status = STATUS_OPEN THEN a.bondSats
    ELSE IF a.status = STATUS_DISPUTED THEN 2 * a.bondSats
    ELSE 0

\* All sats with a claim on them, each named by its assertion and a number.
LockedSats(map) == UNION {{id} \X (1..Locked(map[id])) : id \in DOMAIN map}

\* The one commingled sBTC balance always covers the bonds of every assertion
\* that is still open or disputed, so no payout of settle or resolve can fail
\* because another assertion was paid with its money.
Solvent == balance[Core] >= Cardinality(LockedSats(assertionMap))

\* No assertion is stuck for want of money: whatever has been paid for others,
\* every transfer its status can still call for, the second one of an unresolved
\* dispute included, would be accepted by the token.
PayoutsCovered ==
    \A id \in DOMAIN assertionMap :
        LET a == assertionMap[id]
            afterFirst == Transfer(balance, a.bondSats, Core, a.asserter)
        IN  /\ a.status \in {STATUS_OPEN, STATUS_DISPUTED} =>
                  CanTransfer(balance, a.bondSats, Core, a.asserter)
            /\ a.status = STATUS_DISPUTED =>
                  /\ CanTransfer(balance, 2 * a.bondSats, Core, a.asserter)
                  /\ CanTransfer(balance, 2 * a.bondSats, Core, a.disputer)
                  /\ CanTransfer(afterFirst, a.bondSats, Core, a.disputer)

\* Who and when agree with the status: a dispute happened inside the window, an
\* undisputed settlement strictly after it, each of the three resolutions not
\* before its dispute, and nothing in the future; exactly one outcome block is
\* set by the end.
Timeline(a) ==
    /\ a.assertedAtBlock <= height
    /\ (a.disputer = None) = (a.disputedAtBlock = None)
    /\ a.disputedAtBlock # None =>
          a.disputedAtBlock \in a.assertedAtBlock..height /\ a.disputedAtBlock <= Expiry(a)
    /\ a.status = STATUS_OPEN => a.disputer = None
    /\ a.status \in {STATUS_DISPUTED, STATUS_REJECTED, STATUS_UNRESOLVED} => a.disputer # None
    /\ (a.settledAtBlock # None)    = (a.status = STATUS_SETTLED)
    /\ (a.rejectedAtBlock # None)   = (a.status = STATUS_REJECTED)
    /\ (a.unresolvedAtBlock # None) = (a.status = STATUS_UNRESOLVED)
    /\ a.status = STATUS_SETTLED =>
          /\ a.settledAtBlock <= height
          /\ IF a.disputer = None THEN a.settledAtBlock > Expiry(a)
                                  ELSE a.settledAtBlock >= a.disputedAtBlock
    /\ a.status = STATUS_REJECTED   => a.rejectedAtBlock   \in a.disputedAtBlock..height
    /\ a.status = STATUS_UNRESOLVED => a.unresolvedAtBlock \in a.disputedAtBlock..height

WindowRespected == \A id \in DOMAIN assertionMap : Timeline(assertionMap[id])

\* What an indexer that sees only the prints can rebuild of an assertion.
AtOf(h, name) ==
    IF \E k \in 1..Len(h) : h[k].event = name
    THEN h[CHOOSE k \in 1..Len(h) : h[k].event = name].at
    ELSE None

ByOf(h, name) ==
    IF \E k \in 1..Len(h) : h[k].event = name
    THEN h[CHOOSE k \in 1..Len(h) : h[k].event = name].by
    ELSE None

StatusOfEvent(name) ==
    CASE name = "asserted" -> STATUS_OPEN
      [] name = "disputed" -> STATUS_DISPUTED
      [] name = "settled"  -> STATUS_SETTLED
      [] name = "rejected" -> STATUS_REJECTED
      [] OTHER             -> STATUS_UNRESOLVED

Rebuilt(h) ==
    [asserter          |-> h[1].by,
     disputer          |-> ByOf(h, "disputed"),
     claimHash         |-> Sha256(h[1].claim),
     bondSats          |-> h[1].bondSats,
     liveness          |-> h[1].liveness,
     status            |-> StatusOfEvent(h[Len(h)].event),
     assertedAtBlock   |-> h[1].at,
     disputedAtBlock   |-> AtOf(h, "disputed"),
     settledAtBlock    |-> AtOf(h, "settled"),
     rejectedAtBlock   |-> AtOf(h, "rejected"),
     unresolvedAtBlock |-> AtOf(h, "unresolved")]

\* The printed events, in order, determine the stored record completely: the
\* off-chain index needs no read of the contract.
EventsDetermineRecord ==
    \A id \in DOMAIN assertionMap : assertionMap[id] = Rebuilt(history[id])

\* An assertion never disappears, its terms never change, and once settled,
\* rejected or unresolved its record never changes again (no second payout).
Final ==
    \A id \in DOMAIN assertionMap :
        LET a == assertionMap[id]
        IN  /\ id \in DOMAIN assertionMap'
            /\ \A f \in {"asserter", "claimHash", "bondSats", "liveness", "assertedAtBlock"} :
                  assertionMap'[id][f] = a[f]
            /\ a.status \in TerminalStatuses => assertionMap'[id] = a
            /\ a.disputer # None => assertionMap'[id].disputer = a.disputer

Finality == [][Final]_vars

\* Whom a status says the bonds went to.
Favours(status) ==
    CASE status = STATUS_SETTLED    -> "maker"
      [] status = STATUS_REJECTED   -> "taker"
      [] status = STATUS_UNRESOLVED -> "both"
      [] OTHER                      -> "none"

EscrowOf == INSTANCE Escrow WITH
    Parties  <- Principals,
    Deals    <- AssertionIds,
    Stakes   <- Bonds,
    Payments <- Amounts,
    Nobody   <- None,
    wallet   <- [p \in Principals |-> balance[p]],
    deal     <- [id \in DOMAIN assertionMap |->
                    [maker |-> assertionMap[id].asserter,
                     taker |-> assertionMap[id].disputer,
                     stake |-> assertionMap[id].bondSats,
                     box   |-> Locked(assertionMap[id]),
                     paid  |-> Favours(assertionMap[id].status)]]

\* Each assertion's money behaves as if it lay in a box of its own: settle and
\* resolve pay exactly the promised amounts to the parties the final status
\* names, out of the bonds of that very assertion, and no other call touches a
\* wallet but its caller's.
ImplementsEscrow == EscrowOf!Spec

FeedOf == INSTANCE EventFeed WITH
    Ids     <- AssertionIds,
    Parties <- Principals,
    Blocks  <- InitHeight..MaxHeight,
    feed    <- [id \in DOMAIN history |->
                   [k \in DOMAIN history[id] |->
                       Event(history[id][k].event, history[id][k].by, history[id][k].at)]]

\* The printed events form a legal feed: one life cycle per assertion, in order,
\* at blocks that never go back, none printed twice.
ImplementsFeed == FeedOf!Spec

\* Liveness assumes that blocks go on being mined, that somebody settles an
\* assertion that stays ready to be settled (anybody may), that some arbiter
\* rules on a dispute that is again and again open to a ruling, and that the
\* owner appoints an arbiter when there is none.
Fairness ==
    /\ WF_vars(MineBlock)
    /\ \A id \in AssertionIds :
          /\ WF_vars(\E c \in Principals : Settle(c, id))
          /\ SF_vars(\E c \in Principals : Resolve(c, id))
    /\ WF_vars(arbiterMap = {} /\ \E p \in Candidates : AddArbiter(CONTRACT_OWNER, p))

LiveSpec == Spec /\ Fairness

\* Bonds are not locked for ever: every assertion whose window can end within
\* the mined blocks, and has an expiry block at all, reaches a terminal status,
\* whatever disputes, token transfers and changes of arbiters come in between.
BondsReleased ==
    \A id \in AssertionIds :
        (Exists(id) /\ HasExpiry(assertionMap[id]) /\ Expiry(assertionMap[id]) < MaxHeight)
            ~> (Exists(id) /\ assertionMap[id].status \in TerminalStatuses)

\* packages/docs/using/disputing.md:11-15: what a dispute requires is an open
\* assertion, a window that has not passed, and enough sBTC to match the bond.
DisputableWithinWindow ==
    \A id \in DOMAIN assertionMap, p \in Principals :
        LET a == assertionMap[id]
        IN  /\ a.status = STATUS_OPEN
            /\ height <= Expiry(a)
            /\ balance[p] >= a.bondSats
            => ENABLED Dispute(p, id)

\* docs/ARCHITECTURE.md:43: assertions are content-addressable, so an id stands
\* for one identifier and one claim; a different submission has a different id.
IdNamesContent ==
    \A id \in DOMAIN assertionMap, i \in Identifiers, c \in Claims :
        LET a == assertionMap[id]
        IN  DeriveAssertionId(i, c, a.bondSats, a.liveness, a.assertedAtBlock) = id
            => /\ i = history[id][1].identifier
               /\ c = history[id][1].claim

=============================================================================
