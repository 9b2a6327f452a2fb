--------------------------- MODULE CooCoreProofs ---------------------------
(* Theorems about the contract for every value of the constants. *)
EXTENDS CooCore, FiniteSetTheorems, TLAPS

-----------------------------------------------------------------------------
(* The token ledger and the maps *)

\* A permitted transfer moves exactly the amount and touches no other holder.
LEMMA TransferEffect ==
    ASSUME NEW Holders, NEW ledger \in [Holders -> Nat],
           NEW sender \in Holders, NEW recipient \in Holders, NEW amount \in Nat,
           CanTransfer(ledger, amount, sender, recipient)
    PROVE  /\ Transfer(ledger, amount, sender, recipient) \in [Holders -> Nat]
           /\ Transfer(ledger, amount, sender, recipient)[sender] = ledger[sender] - amount
           /\ Transfer(ledger, amount, sender, recipient)[recipient] = ledger[recipient] + amount
           /\ \A p \in Holders \ {sender, recipient} :
                 Transfer(ledger, amount, sender, recipient)[p] = ledger[p]
  BY DEF CanTransfer, Transfer

-----------------------------------------------------------------------------
(* Counting the sats with a claim on them *)

\* The sats claimed by the assertions of a map other than one.
ClaimedByOthers(map, key) ==
    UNION {{k} \X (1..Locked(map[k])) : k \in DOMAIN map \ {key}}

\* An assertion has a claim to as many sats as Locked says.
LEMMA ClaimCardinality ==
    ASSUME NEW key, NEW n \in Nat
    PROVE  /\ IsFiniteSet({key} \X (1..n))
           /\ Cardinality({key} \X (1..n)) = n
<1>1. IsFiniteSet({key}) /\ Cardinality({key}) = 1
  BY FS_Singleton
<1>2. IsFiniteSet(1..n) /\ Cardinality(1..n) = n
  BY FS_Interval
<1>3. /\ IsFiniteSet({key} \X (1..n))
      /\ Cardinality({key} \X (1..n)) = Cardinality({key}) * Cardinality(1..n)
  BY <1>1, <1>2, FS_Product, Zenon
<1>4. QED
  BY <1>1, <1>2, <1>3

\* Taking one assertion out of the count leaves the claims of all the others.
LEMMA ClaimsSplit ==
    ASSUME NEW map, NEW key \in DOMAIN map
    PROVE  /\ LockedSats(map) = ClaimedByOthers(map, key) \cup ({key} \X (1..Locked(map[key])))
           /\ ClaimedByOthers(map, key) \cap ({key} \X (1..Locked(map[key]))) = {}
<1>1. ASSUME NEW x PROVE x \in LockedSats(map)
                            <=> \E k \in DOMAIN map : x \in {k} \X (1..Locked(map[k]))
  BY DEF LockedSats
<1>2. ASSUME NEW x PROVE x \in ClaimedByOthers(map, key)
                            <=> \E k \in DOMAIN map \ {key} : x \in {k} \X (1..Locked(map[k]))
  BY DEF ClaimedByOthers
<1>3. LockedSats(map) = ClaimedByOthers(map, key) \cup ({key} \X (1..Locked(map[key])))
  BY <1>1, <1>2
<1>4. ClaimedByOthers(map, key) \cap ({key} \X (1..Locked(map[key]))) = {}
  BY <1>2
<1>5. QED
  BY <1>3, <1>4

\* No claim of others names the assertion left out, whatever it is to claim.
LEMMA OthersDisjoint ==
    ASSUME NEW map, NEW key, NEW n
    PROVE  ClaimedByOthers(map, key) \cap ({key} \X (1..n)) = {}
  BY DEF ClaimedByOthers

\* Writing one assertion changes the count by the difference of its own claims
\* and by nothing else.
LEMMA LockedSatsOfMapSet ==
    ASSUME NEW map, NEW key, NEW a, Locked(a) \in Nat,
           key \in DOMAIN map => Locked(map[key]) \in Nat,
           IsFiniteSet(LockedSats(map))
    PROVE  /\ IsFiniteSet(LockedSats(MapSet(map, key, a)))
           /\ Cardinality(LockedSats(MapSet(map, key, a))) =
                 Cardinality(LockedSats(map)) + Locked(a)
                    - (IF key \in DOMAIN map THEN Locked(map[key]) ELSE 0)
<1> DEFINE others == ClaimedByOthers(map, key)
           new    == MapSet(map, key, a)
<1>1. /\ DOMAIN new = DOMAIN map \cup {key}
      /\ new[key] = a
      /\ \A k \in DOMAIN map \ {key} : new[k] = map[k]
  BY DEF MapSet
<1>2. ClaimedByOthers(new, key) = others
  <2>1. DOMAIN new \ {key} = DOMAIN map \ {key}
    BY <1>1
  <2>2. \A k \in DOMAIN map \ {key} :
           {k} \X (1..Locked(new[k])) = {k} \X (1..Locked(map[k]))
    BY <1>1
  <2>3. {{k} \X (1..Locked(new[k])) : k \in DOMAIN map \ {key}}
           = {{k} \X (1..Locked(map[k])) : k \in DOMAIN map \ {key}}
    BY <2>2
  <2>4. QED
    BY <2>1, <2>3 DEF ClaimedByOthers
<1>3. LockedSats(new) = others \cup ({key} \X (1..Locked(a)))
  BY <1>1, <1>2, ClaimsSplit
<1>4. others \cap ({key} \X (1..Locked(a))) = {}
  BY OthersDisjoint
<1>5. /\ IsFiniteSet(others)
      /\ Cardinality(others) =
            Cardinality(LockedSats(map))
               - (IF key \in DOMAIN map THEN Locked(map[key]) ELSE 0)
  <2>1. CASE key \in DOMAIN map
    <3> DEFINE own == {key} \X (1..Locked(map[key]))
    <3>1. LockedSats(map) = others \cup own /\ others \cap own = {}
      BY <2>1, ClaimsSplit
    <3>2. IsFiniteSet(others) /\ IsFiniteSet(own)
      BY <3>1, FS_Subset
    <3>3. Cardinality(own) = Locked(map[key])
      BY <2>1, ClaimCardinality
    <3>4. Cardinality(LockedSats(map)) =
             Cardinality(others) + Cardinality(own) - Cardinality({})
      BY <3>1, <3>2, FS_Union
    <3>5. Cardinality(others) \in Nat /\ Cardinality({}) = 0
      BY <3>2, FS_CardinalityType, FS_EmptySet
    <3>6. QED
      BY <2>1, <3>2, <3>3, <3>4, <3>5
  <2>2. CASE key \notin DOMAIN map
    <3>1. others = LockedSats(map)
      BY <2>2 DEF ClaimedByOthers, LockedSats
    <3>2. Cardinality(others) \in Nat
      BY <3>1, FS_CardinalityType
    <3>3. QED
      BY <2>2, <3>1, <3>2
  <2>3. QED
    BY <2>1, <2>2
<1>6. /\ IsFiniteSet({key} \X (1..Locked(a)))
      /\ Cardinality({key} \X (1..Locked(a))) = Locked(a)
  BY ClaimCardinality
<1>7. /\ IsFiniteSet(LockedSats(new))
      /\ Cardinality(LockedSats(new)) = Cardinality(others) + Locked(a) - Cardinality({})
  BY <1>3, <1>4, <1>5, <1>6, FS_Union
<1>8. /\ Cardinality({}) = 0
      /\ Cardinality(others) \in Nat
      /\ Cardinality(LockedSats(map)) \in Nat
  BY <1>5, FS_EmptySet, FS_CardinalityType
<1>9. QED
  BY <1>5, <1>7, <1>8

-----------------------------------------------------------------------------
(* Type correctness *)

\* A written assertion record and a printed event keep the two maps in shape.
LEMMA WriteKeepsTypes ==
    ASSUME TypeOK, NEW id \in AssertionIds, NEW a \in Assertions, NEW event,
           assertionMap' = MapSet(assertionMap, id, a), PrintEvent(id, event)
    PROVE  /\ DOMAIN assertionMap' \subseteq AssertionIds
           /\ assertionMap' \in [DOMAIN assertionMap' -> Assertions]
           /\ DOMAIN history' = DOMAIN assertionMap'
<1>1. DOMAIN history = DOMAIN assertionMap
  BY DEF TypeOK
<1>2. DOMAIN history' = DOMAIN history \cup {id}
  BY DEF PrintEvent, MapSet
<1>3. DOMAIN assertionMap' = DOMAIN assertionMap \cup {id}
  BY DEF MapSet
<1>4. assertionMap' \in [DOMAIN assertionMap' -> Assertions]
  BY <1>3 DEF TypeOK, MapSet
<1>5. QED
  BY <1>1, <1>2, <1>3, <1>4 DEF TypeOK

\* A permitted transfer keeps the ledger's type.
LEMMA TransferKeepsType ==
    ASSUME NEW ledger \in [Principals \cup {Core} -> Nat],
           NEW sender \in Principals \cup {Core}, NEW recipient \in Principals \cup {Core},
           NEW amount \in Nat, CanTransfer(ledger, amount, sender, recipient)
    PROVE  Transfer(ledger, amount, sender, recipient) \in [Principals \cup {Core} -> Nat]
  BY TransferEffect

\* The state after deployment (define-map and the map-set of the owner) is well typed.
THEOREM InitTypeOK == Init => TypeOK
  BY PrincipalAssumption, EnvironmentAssumption
  DEF Init, TypeOK

\* assert keeps every map and ledger in shape.
LEMMA AssertKeepsTypes ==
    ASSUME TypeOK, NEW c \in Principals, NEW i \in Identifiers, NEW cl \in Claims,
           NEW b \in Bonds, NEW l \in Livenesses \cup {None}, Assert(c, i, cl, b, l)
    PROVE  TypeOK'
<1> DEFINE resolved == ResolvedLiveness(l)
           id       == DeriveAssertionId(i, cl, b, resolved, height)
           a        == [asserter          |-> c,
                        disputer          |-> None,
                        claimHash         |-> Sha256(cl),
                        bondSats          |-> b,
                        liveness          |-> resolved,
                        status            |-> STATUS_OPEN,
                        assertedAtBlock   |-> height,
                        disputedAtBlock   |-> None,
                        settledAtBlock    |-> None,
                        rejectedAtBlock   |-> None,
                        unresolvedAtBlock |-> None]
<1>1. /\ resolved \in Livenesses \cup {DEFAULT_LIVENESS}
      /\ resolved \in Nat
      /\ b \in Nat \ {0}
      /\ height \in Nat
      /\ cl \in Seq(Byte)
  BY ParameterAssumption, InputAssumption, EnvironmentAssumption
  DEF Assert, CanAssert, ResolvedLiveness, TypeOK
<1>2. id \in AssertionIds
  <2>1. \A x \in Livenesses \cup {DEFAULT_LIVENESS} :
           DeriveAssertionId(i, cl, b, x, height) \in AssertionIds
    BY DEF AssertionIds, TypeOK
  <2>2. QED
    BY <1>1, <2>1
<1>3. a \in Assertions
  BY <1>1 DEF Assertions, OptionalUint, Statuses, STATUS_OPEN, Sha256
<1>4. /\ assertionMap' = MapSet(assertionMap, id, a)
      /\ PrintEvent(id, [event |-> "asserted", by |-> c, at |-> height,
                         identifier |-> i, claim |-> cl,
                         bondSats |-> b, liveness |-> resolved])
      /\ CanTransfer(balance, b, c, Core)
      /\ balance' = Transfer(balance, b, c, Core)
      /\ UNCHANGED <<height, arbiterMap>>
  BY DEF Assert, CanAssert, ResolvedLiveness
<1>5. balance' \in [Principals \cup {Core} -> Nat]
  BY <1>1, <1>4, TransferKeepsType DEF TypeOK
<1> HIDE DEF a, id, resolved
<1>6. QED
  BY <1>2, <1>3, <1>4, <1>5, WriteKeepsTypes DEF TypeOK

\* settle keeps every map and ledger in shape.
LEMMA SettleKeepsTypes ==
    ASSUME TypeOK, NEW c \in Principals, NEW id \in DOMAIN assertionMap, Settle(c, id)
    PROVE  TypeOK'
<1> DEFINE a == assertionMap[id]
           b == [a EXCEPT !.status = STATUS_SETTLED, !.settledAtBlock = height]
<1>1. a \in Assertions /\ id \in AssertionIds /\ height \in Nat
  BY EnvironmentAssumption DEF TypeOK
<1>2. b \in Assertions
  BY <1>1 DEF Assertions, OptionalUint, Statuses, TerminalStatuses, STATUS_SETTLED
<1>3. balance' \in [Principals \cup {Core} -> Nat]
  BY <1>1, TransferKeepsType DEF Settle, CanSettle, TypeOK, Assertions
<1>4. QED
  BY <1>1, <1>2, <1>3, WriteKeepsTypes DEF Settle, CanSettle, TypeOK

\* dispute keeps every map and ledger in shape.
LEMMA DisputeKeepsTypes ==
    ASSUME TypeOK, NEW c \in Principals, NEW id \in DOMAIN assertionMap, Dispute(c, id)
    PROVE  TypeOK'
<1> DEFINE a == assertionMap[id]
           b == [a EXCEPT !.disputer = c, !.status = STATUS_DISPUTED,
                          !.disputedAtBlock = height]
<1>1. a \in Assertions /\ id \in AssertionIds /\ height \in Nat
  BY EnvironmentAssumption DEF TypeOK
<1>2. b \in Assertions
  BY <1>1 DEF Assertions, OptionalUint, Statuses, STATUS_DISPUTED
<1>3. balance' \in [Principals \cup {Core} -> Nat]
  BY <1>1, TransferKeepsType DEF Dispute, CanDispute, TypeOK, Assertions
<1>4. QED
  BY <1>1, <1>2, <1>3, WriteKeepsTypes DEF Dispute, CanDispute, TypeOK

\* The payment of both bonds keeps the ledger's type.
LEMMA PayBothBondsType ==
    ASSUME TypeOK, NEW id \in DOMAIN assertionMap, NEW winner \in Principals,
           PayBothBonds(id, winner)
    PROVE  balance' \in [Principals \cup {Core} -> Nat]
<1>1. 2 * assertionMap[id].bondSats \in Nat
  BY DEF TypeOK, Assertions
<1>2. QED
  BY <1>1, TransferKeepsType DEF PayBothBonds, TypeOK

\* resolve keeps every map and ledger in shape, whatever the outcome.
LEMMA ResolveKeepsTypes ==
    ASSUME TypeOK, NEW c \in Principals, NEW id \in DOMAIN assertionMap, Resolve(c, id)
    PROVE  TypeOK'
<1> DEFINE a == assertionMap[id]
<1>1. a \in Assertions /\ id \in AssertionIds /\ height \in Nat
  BY EnvironmentAssumption DEF TypeOK
<1>2. CASE ResolveSettled(c, id)
  <2> DEFINE b == [a EXCEPT !.status = STATUS_SETTLED, !.settledAtBlock = height]
  <2>1. b \in Assertions
    BY <1>1 DEF Assertions, OptionalUint, Statuses, TerminalStatuses, STATUS_SETTLED
  <2>2. balance' \in [Principals \cup {Core} -> Nat]
    BY <1>1, <1>2, PayBothBondsType DEF ResolveSettled, Assertions
  <2>3. QED
    BY <1>1, <1>2, <2>1, <2>2, WriteKeepsTypes DEF ResolveSettled, TypeOK
<1>3. CASE ResolveRejected(c, id)
  <2> DEFINE b == [a EXCEPT !.status = STATUS_REJECTED, !.rejectedAtBlock = height]
  <2>1. b \in Assertions
    BY <1>1 DEF Assertions, OptionalUint, Statuses, TerminalStatuses, STATUS_REJECTED
  <2>2. balance' \in [Principals \cup {Core} -> Nat]
    BY <1>1, <1>3, PayBothBondsType DEF ResolveRejected, CanResolve, Assertions
  <2>3. QED
    BY <1>1, <1>3, <2>1, <2>2, WriteKeepsTypes DEF ResolveRejected, TypeOK
<1>4. CASE ResolveUnresolved(c, id)
  <2> DEFINE b == [a EXCEPT !.status = STATUS_UNRESOLVED, !.unresolvedAtBlock = height]
             afterFirst == Transfer(balance, a.bondSats, Core, a.asserter)
  <2>1. b \in Assertions
    BY <1>1 DEF Assertions, OptionalUint, Statuses, TerminalStatuses, STATUS_UNRESOLVED
  <2>2. /\ a.asserter \in Principals /\ a.disputer \in Principals /\ a.bondSats \in Nat
    BY <1>1, <1>4 DEF ResolveUnresolved, CanResolve, Assertions
  <2>3. afterFirst \in [Principals \cup {Core} -> Nat]
    BY <1>4, <2>2, TransferKeepsType DEF ResolveUnresolved, TypeOK
  <2>4. /\ CanTransfer(afterFirst, a.bondSats, Core, a.disputer)
        /\ balance' = Transfer(afterFirst, a.bondSats, Core, a.disputer)
    BY <1>4 DEF ResolveUnresolved
  <2>5. balance' \in [Principals \cup {Core} -> Nat]
    <3> HIDE DEF afterFirst
    <3>1. QED
      BY <2>2, <2>3, <2>4, TransferKeepsType
  <2>6. QED
    BY <1>1, <1>4, <2>1, <2>5, WriteKeepsTypes DEF ResolveUnresolved, TypeOK
<1>5. QED
  BY <1>2, <1>3, <1>4 DEF Resolve

\* Type correctness is inductive: one step per public function.
LEMMA NextKeepsTypes == TypeOK /\ [Next]_vars => TypeOK'
<1> SUFFICES ASSUME TypeOK, [Next]_vars PROVE TypeOK'
  OBVIOUS
<1>1. ASSUME NEW c \in Principals, NEW p \in Candidates, AddArbiter(c, p)
      PROVE  TypeOK'
  BY <1>1, InputAssumption DEF AddArbiter, TypeOK
<1>2. ASSUME NEW c \in Principals, NEW p \in Candidates, RemoveArbiter(c, p)
      PROVE  TypeOK'
  BY <1>2 DEF RemoveArbiter, TypeOK
<1>3. CASE MineBlock
  BY <1>3, EnvironmentAssumption DEF MineBlock, TypeOK
<1>4. ASSUME NEW s \in Principals, NEW r \in Principals \cup {Core}, NEW n \in Amounts,
             TokenTransfer(s, r, n)
      PROVE  TypeOK'
  <2>1. balance' \in [Principals \cup {Core} -> Nat]
    BY <1>4, InputAssumption, TransferKeepsType DEF TokenTransfer, TypeOK
  <2>2. QED
    BY <1>4, <2>1 DEF TokenTransfer, TypeOK
<1>5. CASE UNCHANGED vars
  BY <1>5 DEF vars, TypeOK
<1>6. QED
  BY <1>1, <1>2, <1>3, <1>4, <1>5, AssertKeepsTypes, SettleKeepsTypes,
     DisputeKeepsTypes, ResolveKeepsTypes DEF Next

\* Every reachable state is well typed, whatever the constants.
THEOREM TypeCorrect == Spec => []TypeOK
<1>1. Init => TypeOK
  BY InitTypeOK
<1>2. TypeOK /\ [Next]_vars => TypeOK'
  BY NextKeepsTypes
<1>3. QED
  BY <1>1, <1>2, PTL DEF Spec

-----------------------------------------------------------------------------
(* Solvency of the commingled balance *)

\* Solvent alone does not say that the claims can be counted.
SolvencyInv == IsFiniteSet(LockedSats(assertionMap)) /\ Solvent

\* What an assertion has a claim to is a natural number of sats.
LEMMA LockedType ==
    ASSUME NEW a \in Assertions
    PROVE  /\ Locked(a) \in Nat
           /\ a.status = STATUS_OPEN => Locked(a) = a.bondSats
           /\ a.status = STATUS_DISPUTED => Locked(a) = 2 * a.bondSats
           /\ a.status \in TerminalStatuses => Locked(a) = 0
  BY DEF Assertions, Locked, Statuses, TerminalStatuses, STATUS_OPEN,
         STATUS_DISPUTED, STATUS_SETTLED, STATUS_REJECTED, STATUS_UNRESOLVED

\* Solvency survives the writing of a record if the balance makes up for the
\* change of that record's own claim.
LEMMA WriteKeepsSolvency ==
    ASSUME TypeOK, SolvencyInv, NEW id, NEW a, Locked(a) \in Nat,
           id \in DOMAIN assertionMap => assertionMap[id] \in Assertions,
           assertionMap' = MapSet(assertionMap, id, a),
           balance'[Core] = balance[Core] + Locked(a)
              - (IF id \in DOMAIN assertionMap THEN Locked(assertionMap[id]) ELSE 0)
    PROVE  SolvencyInv'
<1> DEFINE old == IF id \in DOMAIN assertionMap THEN Locked(assertionMap[id]) ELSE 0
<1>1. old \in Nat
  BY LockedType
<1>2. id \in DOMAIN assertionMap => Locked(assertionMap[id]) \in Nat
  BY LockedType
<1>3. /\ IsFiniteSet(LockedSats(MapSet(assertionMap, id, a)))
      /\ Cardinality(LockedSats(MapSet(assertionMap, id, a))) =
            Cardinality(LockedSats(assertionMap)) + Locked(a) - old
  BY <1>2, LockedSatsOfMapSet DEF SolvencyInv
<1>4. Cardinality(LockedSats(assertionMap)) \in Nat
  BY FS_CardinalityType DEF SolvencyInv
<1>5. balance[Core] \in Nat /\ balance[Core] >= Cardinality(LockedSats(assertionMap))
  BY DEF SolvencyInv, Solvent, TypeOK
<1>6. balance'[Core] = balance[Core] + Locked(a) - old
  OBVIOUS
<1>7. IsFiniteSet(LockedSats(assertionMap'))
  BY <1>3
<1>8. Cardinality(LockedSats(assertionMap')) =
         Cardinality(LockedSats(assertionMap)) + Locked(a) - old
  BY <1>3
<1> HIDE DEF old
<1>9. balance'[Core] >= Cardinality(LockedSats(assertionMap'))
  BY <1>1, <1>4, <1>5, <1>6, <1>8
<1>10. QED
  BY <1>7, <1>9 DEF SolvencyInv, Solvent

\* What a permitted transfer does to the contract's own balance.
LEMMA TransferAtCore ==
    ASSUME NEW ledger \in [Principals \cup {Core} -> Nat], NEW amount \in Nat,
           NEW p \in Principals
    PROVE  /\ CanTransfer(ledger, amount, p, Core) =>
                 Transfer(ledger, amount, p, Core)[Core] = ledger[Core] + amount
           /\ CanTransfer(ledger, amount, Core, p) =>
                 Transfer(ledger, amount, Core, p)[Core] = ledger[Core] - amount
  BY PrincipalAssumption DEF CanTransfer, Transfer

\* With no assertion on record there is nothing to cover.
LEMMA InitSolvent == Init => SolvencyInv
<1> SUFFICES ASSUME Init PROVE SolvencyInv
  OBVIOUS
<1>1. LockedSats(assertionMap) = {}
  BY DEF Init, LockedSats
<1>2. balance[Core] = 0
  BY DEF Init
<1>3. QED
  BY <1>1, <1>2, FS_EmptySet DEF SolvencyInv, Solvent

\* assert brings in the bond it adds to the claims.
LEMMA AssertKeepsSolvency ==
    ASSUME TypeOK, SolvencyInv, NEW c \in Principals, NEW i \in Identifiers,
           NEW cl \in Claims, NEW b \in Bonds, NEW l \in Livenesses \cup {None},
           Assert(c, i, cl, b, l)
    PROVE  SolvencyInv'
<1> DEFINE resolved == ResolvedLiveness(l)
           id       == DeriveAssertionId(i, cl, b, resolved, height)
           a        == [asserter          |-> c,
                        disputer          |-> None,
                        claimHash         |-> Sha256(cl),
                        bondSats          |-> b,
                        liveness          |-> resolved,
                        status            |-> STATUS_OPEN,
                        assertedAtBlock   |-> height,
                        disputedAtBlock   |-> None,
                        settledAtBlock    |-> None,
                        rejectedAtBlock   |-> None,
                        unresolvedAtBlock |-> None]
<1>1. b \in Nat
  BY InputAssumption, ParameterAssumption
<1>2. Locked(a) = b
  BY DEF Locked
<1>3. /\ assertionMap' = MapSet(assertionMap, id, a)
      /\ id \notin DOMAIN assertionMap
      /\ CanTransfer(balance, b, c, Core)
      /\ balance' = Transfer(balance, b, c, Core)
  BY DEF Assert, CanAssert, ResolvedLiveness, Exists
<1>4. balance'[Core] = balance[Core] + b
  BY <1>1, <1>3, TransferAtCore DEF TypeOK
<1>5. balance[Core] + b = balance[Core] + b - 0
  BY <1>1, PrincipalAssumption DEF TypeOK
<1> HIDE DEF a, id, resolved
<1>6. QED
  BY <1>1, <1>2, <1>3, <1>4, <1>5, WriteKeepsSolvency

\* settle pays out the one bond whose claim it ends.
LEMMA SettleKeepsSolvency ==
    ASSUME TypeOK, SolvencyInv, NEW c \in Principals, NEW id \in DOMAIN assertionMap,
           Settle(c, id)
    PROVE  SolvencyInv'
<1> DEFINE a == assertionMap[id]
           b == [a EXCEPT !.status = STATUS_SETTLED, !.settledAtBlock = height]
<1>1. a \in Assertions /\ Locked(a) = a.bondSats /\ a.bondSats \in Nat
  BY LockedType DEF TypeOK, Settle, CanSettle, Assertions
<1>2. Locked(b) = 0
  BY <1>1 DEF Locked, Assertions, STATUS_OPEN, STATUS_DISPUTED, STATUS_SETTLED
<1>3. balance'[Core] = balance[Core] - a.bondSats
  <2>1. a.asserter \in Principals
    BY <1>1 DEF Assertions
  <2>2. /\ CanTransfer(balance, a.bondSats, Core, a.asserter)
        /\ balance' = Transfer(balance, a.bondSats, Core, a.asserter)
    BY DEF Settle, CanSettle
  <2>3. QED
    BY <1>1, <2>1, <2>2, TransferAtCore DEF TypeOK
<1>4. balance[Core] - a.bondSats = balance[Core] + 0 - a.bondSats
  BY <1>1 DEF TypeOK
<1>5. assertionMap' = MapSet(assertionMap, id, b)
  BY DEF Settle, CanSettle
<1> HIDE DEF b
<1>6. QED
  BY <1>1, <1>2, <1>3, <1>4, <1>5, WriteKeepsSolvency

\* dispute brings in the second bond it adds to the claims.
LEMMA DisputeKeepsSolvency ==
    ASSUME TypeOK, SolvencyInv, NEW c \in Principals, NEW id \in DOMAIN assertionMap,
           Dispute(c, id)
    PROVE  SolvencyInv'
<1> DEFINE a == assertionMap[id]
           b == [a EXCEPT !.disputer = c, !.status = STATUS_DISPUTED,
                          !.disputedAtBlock = height]
<1>1. a \in Assertions /\ Locked(a) = a.bondSats /\ a.bondSats \in Nat
  BY LockedType DEF TypeOK, Dispute, CanDispute, Assertions
<1>2. Locked(b) = 2 * a.bondSats
  BY <1>1 DEF Locked, Assertions, STATUS_OPEN, STATUS_DISPUTED
<1>3. balance'[Core] = balance[Core] + a.bondSats
  BY <1>1, TransferAtCore DEF Dispute, CanDispute, TypeOK
<1>4. balance[Core] + a.bondSats = balance[Core] + 2 * a.bondSats - a.bondSats
  BY <1>1 DEF TypeOK
<1>5. assertionMap' = MapSet(assertionMap, id, b) /\ 2 * a.bondSats \in Nat
  BY <1>1 DEF Dispute, CanDispute
<1> HIDE DEF b
<1>6. QED
  BY <1>1, <1>2, <1>3, <1>4, <1>5, WriteKeepsSolvency

\* resolve pays out, in one transfer or two, the two bonds whose claim it ends.
LEMMA ResolveKeepsSolvency ==
    ASSUME TypeOK, SolvencyInv, NEW c \in Principals, NEW id \in DOMAIN assertionMap,
           Resolve(c, id)
    PROVE  SolvencyInv'
<1> DEFINE a == assertionMap[id]
<1>1. a \in Assertions /\ Locked(a) = 2 * a.bondSats /\ a.bondSats \in Nat
  BY LockedType DEF TypeOK, Resolve, ResolveSettled, ResolveRejected,
                    ResolveUnresolved, CanResolve, Assertions
<1>2. a.asserter \in Principals /\ a.disputer \in Principals
  BY <1>1 DEF Resolve, ResolveSettled, ResolveRejected, ResolveUnresolved,
              CanResolve, Assertions
<1>3. balance'[Core] = balance[Core] - 2 * a.bondSats
  <2>1. ASSUME NEW winner \in Principals, PayBothBonds(id, winner)
        PROVE  balance'[Core] = balance[Core] - 2 * a.bondSats
    <3>1. 2 * a.bondSats \in Nat
      BY <1>1
    <3>2. /\ CanTransfer(balance, 2 * a.bondSats, Core, winner)
          /\ balance' = Transfer(balance, 2 * a.bondSats, Core, winner)
      BY <2>1 DEF PayBothBonds
    <3>3. QED
      BY <3>1, <3>2, TransferAtCore DEF TypeOK
  <2>2. CASE ResolveSettled(c, id)
    BY <1>2, <2>1, <2>2 DEF ResolveSettled
  <2>3. CASE ResolveRejected(c, id)
    BY <1>2, <2>1, <2>3 DEF ResolveRejected
  <2>4. CASE ResolveUnresolved(c, id)
    <3> DEFINE afterFirst == Transfer(balance, a.bondSats, Core, a.asserter)
    <3>1. /\ afterFirst \in [Principals \cup {Core} -> Nat]
          /\ afterFirst[Core] = balance[Core] - a.bondSats
      BY <1>1, <1>2, <2>4, TransferKeepsType, TransferAtCore
      DEF ResolveUnresolved, TypeOK
    <3>2. /\ CanTransfer(afterFirst, a.bondSats, Core, a.disputer)
          /\ balance' = Transfer(afterFirst, a.bondSats, Core, a.disputer)
      BY <2>4 DEF ResolveUnresolved
    <3>3. balance[Core] \in Nat
      BY DEF TypeOK
    <3> HIDE DEF afterFirst
    <3>4. balance'[Core] = afterFirst[Core] - a.bondSats
      BY <1>1, <1>2, <3>1, <3>2, TransferAtCore
    <3>5. QED
      BY <1>1, <3>1, <3>3, <3>4
  <2>5. QED
    BY <2>2, <2>3, <2>4 DEF Resolve
<1>4. PICK b : /\ assertionMap' = MapSet(assertionMap, id, b)
               /\ Locked(b) = 0
  <2>1. \A s \in TerminalStatuses :
           /\ Locked([a EXCEPT !.status = s, !.settledAtBlock = height]) = 0
           /\ Locked([a EXCEPT !.status = s, !.rejectedAtBlock = height]) = 0
           /\ Locked([a EXCEPT !.status = s, !.unresolvedAtBlock = height]) = 0
    BY <1>1 DEF Locked, Assertions, TerminalStatuses, STATUS_OPEN, STATUS_DISPUTED,
                STATUS_SETTLED, STATUS_REJECTED, STATUS_UNRESOLVED
  <2>2. {STATUS_SETTLED, STATUS_REJECTED, STATUS_UNRESOLVED} \subseteq TerminalStatuses
    BY DEF TerminalStatuses
  <2>3. CASE ResolveSettled(c, id)
    BY <2>1, <2>2, <2>3 DEF ResolveSettled
  <2>4. CASE ResolveRejected(c, id)
    BY <2>1, <2>2, <2>4 DEF ResolveRejected
  <2>5. CASE ResolveUnresolved(c, id)
    BY <2>1, <2>2, <2>5 DEF ResolveUnresolved
  <2>6. QED
    BY <2>3, <2>4, <2>5 DEF Resolve
<1>5. balance[Core] - 2 * a.bondSats = balance[Core] + 0 - 2 * a.bondSats
  BY <1>1 DEF TypeOK
<1>6. QED
  BY <1>1, <1>3, <1>4, <1>5, WriteKeepsSolvency

\* Solvency, with the finiteness of the claims, is inductive for well-typed states.
LEMMA NextKeepsSolvency == TypeOK /\ SolvencyInv /\ [Next]_vars => SolvencyInv'
<1> SUFFICES ASSUME TypeOK, SolvencyInv, [Next]_vars PROVE SolvencyInv'
  OBVIOUS
<1>1. ASSUME UNCHANGED assertionMap, balance'[Core] >= balance[Core],
             balance'[Core] \in Nat
      PROVE  SolvencyInv'
  <2>1. Cardinality(LockedSats(assertionMap)) \in Nat
    BY FS_CardinalityType DEF SolvencyInv
  <2>2. LockedSats(assertionMap') = LockedSats(assertionMap)
    BY <1>1
  <2>3. balance[Core] \in Nat
    BY DEF TypeOK
  <2>4. QED
    BY <1>1, <2>1, <2>2, <2>3 DEF SolvencyInv, Solvent
<1>2. balance[Core] \in Nat
  BY DEF TypeOK
<1>3. ASSUME NEW c \in Principals, NEW p \in Candidates,
             AddArbiter(c, p) \/ RemoveArbiter(c, p)
      PROVE  SolvencyInv'
  BY <1>1, <1>2, <1>3 DEF AddArbiter, RemoveArbiter
<1>4. CASE MineBlock
  BY <1>1, <1>2, <1>4 DEF MineBlock
<1>5. ASSUME NEW s \in Principals, NEW r \in Principals \cup {Core}, NEW n \in Amounts,
             TokenTransfer(s, r, n)
      PROVE  SolvencyInv'
  <2>1. balance'[Core] >= balance[Core] /\ balance'[Core] \in Nat
    BY <1>2, <1>5, PrincipalAssumption, InputAssumption
    DEF TokenTransfer, Transfer, TypeOK
  <2>2. QED
    BY <1>1, <1>5, <2>1 DEF TokenTransfer
<1>6. CASE UNCHANGED vars
  BY <1>1, <1>2, <1>6 DEF vars
<1>7. QED
  BY <1>3, <1>4, <1>5, <1>6, AssertKeepsSolvency, SettleKeepsSolvency,
     DisputeKeepsSolvency, ResolveKeepsSolvency DEF Next

\* The inductive invariant holds always.
LEMMA SolvencyInvariant == Spec => []SolvencyInv
  BY InitSolvent, NextKeepsSolvency, TypeCorrect, PTL DEF Spec

\* The contract can always pay every bond it holds, for any number of
\* assertions, principals and blocks.
THEOREM SolvencyTheorem == Spec => []Solvent
<1>1. SolvencyInv => Solvent
  BY DEF SolvencyInv
<1>2. QED
  BY <1>1, SolvencyInvariant, PTL

-----------------------------------------------------------------------------
(* The window and finality *)

\* What every step other than the passing of time does to the map: nothing, or
\* one new open assertion, or one of the four transitions of one record.
NewAssertion(id, a) ==
    /\ id \notin DOMAIN assertionMap
    /\ a.status = STATUS_OPEN
    /\ a.disputer = None
    /\ a.disputedAtBlock = None
    /\ a.settledAtBlock = None
    /\ a.rejectedAtBlock = None
    /\ a.unresolvedAtBlock = None
    /\ a.assertedAtBlock = height

Disputed(id, a) ==
    \E c \in Principals :
        /\ id \in DOMAIN assertionMap
        /\ assertionMap[id].status = STATUS_OPEN
        /\ height <= Expiry(assertionMap[id])
        /\ a = [assertionMap[id] EXCEPT !.disputer = c, !.status = STATUS_DISPUTED,
                                        !.disputedAtBlock = height]

Settled(id, a) ==
    /\ id \in DOMAIN assertionMap
    /\ \/ /\ assertionMap[id].status = STATUS_OPEN
          /\ height > Expiry(assertionMap[id])
       \/ assertionMap[id].status = STATUS_DISPUTED
    /\ a = [assertionMap[id] EXCEPT !.status = STATUS_SETTLED, !.settledAtBlock = height]

Rejected(id, a) ==
    /\ id \in DOMAIN assertionMap
    /\ assertionMap[id].status = STATUS_DISPUTED
    /\ a = [assertionMap[id] EXCEPT !.status = STATUS_REJECTED, !.rejectedAtBlock = height]

Unresolved(id, a) ==
    /\ id \in DOMAIN assertionMap
    /\ assertionMap[id].status = STATUS_DISPUTED
    /\ a = [assertionMap[id] EXCEPT !.status = STATUS_UNRESOLVED,
                                    !.unresolvedAtBlock = height]

Written(id, a) ==
    /\ assertionMap' = MapSet(assertionMap, id, a)
    /\ height' = height
    /\ \/ NewAssertion(id, a)
       \/ Disputed(id, a)
       \/ Settled(id, a)
       \/ Rejected(id, a)
       \/ Unresolved(id, a)

\* Every step writes no record at all or exactly one, in one of the ways of Written.
LEMMA StepWrites ==
    ASSUME TypeOK, [Next]_vars
    PROVE  \/ assertionMap' = assertionMap /\ height' \in {height, height + 1}
           \/ \E id, a : Written(id, a)
<1>1. ASSUME NEW c \in Principals, NEW p \in Candidates,
             AddArbiter(c, p) \/ RemoveArbiter(c, p)
      PROVE  assertionMap' = assertionMap /\ height' = height
  BY <1>1 DEF AddArbiter, RemoveArbiter
<1>2. CASE MineBlock
  BY <1>2 DEF MineBlock
<1>3. ASSUME NEW s \in Principals, NEW r \in Principals \cup {Core}, NEW n \in Amounts,
             TokenTransfer(s, r, n)
      PROVE  assertionMap' = assertionMap /\ height' = height
  BY <1>3 DEF TokenTransfer
<1>4. CASE UNCHANGED vars
  BY <1>4 DEF vars
<1>5. ASSUME NEW c \in Principals, NEW i \in Identifiers, NEW cl \in Claims,
             NEW b \in Bonds, NEW l \in Livenesses \cup {None}, Assert(c, i, cl, b, l)
      PROVE  \E id, a : Written(id, a)
  BY <1>5 DEF Assert, CanAssert, ResolvedLiveness, Exists, Written, NewAssertion
<1>6. ASSUME NEW c \in Principals, NEW id \in DOMAIN assertionMap, Settle(c, id)
      PROVE  \E a : Written(id, a)
  BY <1>6 DEF Settle, CanSettle, IsWindowClosed, Written, Settled
<1>7. ASSUME NEW c \in Principals, NEW id \in DOMAIN assertionMap, Dispute(c, id)
      PROVE  \E a : Written(id, a)
  <2>1. Expiry(assertionMap[id]) \in Nat /\ height \in Nat
    BY EnvironmentAssumption DEF TypeOK, Assertions, Expiry
  <2>2. height <= Expiry(assertionMap[id])
    BY <1>7, <2>1 DEF Dispute, CanDispute, IsWindowOpen
  <2>3. QED
    BY <1>7, <2>2 DEF Dispute, CanDispute, Written, Disputed
<1>8. ASSUME NEW c \in Principals, NEW id \in DOMAIN assertionMap, Resolve(c, id)
      PROVE  \E a : Written(id, a)
  <2>1. CASE ResolveSettled(c, id)
    BY <2>1 DEF ResolveSettled, CanResolve, Written, Settled
  <2>2. CASE ResolveRejected(c, id)
    BY <2>2 DEF ResolveRejected, CanResolve, Written, Rejected
  <2>3. CASE ResolveUnresolved(c, id)
    BY <2>3 DEF ResolveUnresolved, CanResolve, Written, Unresolved
  <2>4. QED
    BY <1>8, <2>1, <2>2, <2>3 DEF Resolve
<1>9. QED
  BY <1>1, <1>2, <1>3, <1>4, <1>5, <1>6, <1>7, <1>8 DEF Next

\* A record that agrees with its status still does when time has passed.
LEMMA TimePasses ==
    ASSUME NEW a \in Assertions, height \in Nat, height' \in {height, height + 1},
           Timeline(a)
    PROVE  Timeline(a)'
<1>1. a.disputedAtBlock # None => a.disputedAtBlock \in a.assertedAtBlock..height'
  BY DEF Timeline, Assertions
<1>2. a.status = STATUS_REJECTED => a.rejectedAtBlock \in a.disputedAtBlock..height'
  BY DEF Timeline, Assertions, OptionalUint
<1>3. a.status = STATUS_UNRESOLVED => a.unresolvedAtBlock \in a.disputedAtBlock..height'
  BY DEF Timeline, Assertions, OptionalUint
<1>4. QED
  BY <1>1, <1>2, <1>3 DEF Timeline, Assertions, OptionalUint

\* A written record agrees with its status.
LEMMA WrittenTimeline ==
    ASSUME TypeOK, WindowRespected, NEW id, NEW a \in Assertions, Written(id, a)
    PROVE  Timeline(a)'
<1> DEFINE old == assertionMap[id]
<1>1. height \in Nat /\ height' = height
  BY EnvironmentAssumption DEF TypeOK, Written
<1>2. id \in DOMAIN assertionMap => old \in Assertions /\ Timeline(old)
  BY DEF TypeOK, WindowRespected
<1>3. Timeline(a)' = Timeline(a)
  BY <1>1 DEF Timeline
<1>4. CASE NewAssertion(id, a)
  BY <1>1, <1>3, <1>4
  DEF NewAssertion, Timeline, STATUS_OPEN, STATUS_DISPUTED, STATUS_SETTLED,
      STATUS_REJECTED, STATUS_UNRESOLVED
<1>5. CASE Disputed(id, a)
  <2>1. PICK c \in Principals :
           a = [old EXCEPT !.disputer = c, !.status = STATUS_DISPUTED,
                           !.disputedAtBlock = height]
    BY <1>5 DEF Disputed
  <2>2. /\ a.disputer = c /\ a.status = STATUS_DISPUTED /\ a.disputedAtBlock = height
        /\ a.assertedAtBlock = old.assertedAtBlock /\ a.liveness = old.liveness
        /\ a.settledAtBlock = old.settledAtBlock
        /\ a.rejectedAtBlock = old.rejectedAtBlock
        /\ a.unresolvedAtBlock = old.unresolvedAtBlock
    BY <1>2, <1>5, <2>1 DEF Disputed, Assertions
  <2>3. c # None /\ height # None
    BY <1>1, PrincipalAssumption
  <2>4. old.status = STATUS_OPEN /\ height <= Expiry(old) /\ Timeline(old)
    BY <1>2, <1>5 DEF Disputed
  <2>5. height \in a.assertedAtBlock..height
    BY <1>1, <1>2, <1>5, <2>2, <2>4 DEF Disputed, Timeline, Assertions
  <2>6. Expiry(a) = Expiry(old)
    BY <2>2 DEF Expiry
  <2>7. QED
    BY <1>1, <1>3, <2>2, <2>3, <2>4, <2>5, <2>6
    DEF Timeline, STATUS_OPEN, STATUS_DISPUTED, STATUS_SETTLED, STATUS_REJECTED,
        STATUS_UNRESOLVED
<1>6. CASE Settled(id, a)
  <2>1. /\ a.status = STATUS_SETTLED /\ a.settledAtBlock = height
        /\ a.disputer = old.disputer /\ a.disputedAtBlock = old.disputedAtBlock
        /\ a.assertedAtBlock = old.assertedAtBlock /\ a.liveness = old.liveness
        /\ a.rejectedAtBlock = old.rejectedAtBlock
        /\ a.unresolvedAtBlock = old.unresolvedAtBlock
    BY <1>2, <1>6 DEF Settled, Assertions
  <2>2. Timeline(old) /\ height # None
    BY <1>1, <1>2, <1>6, PrincipalAssumption DEF Settled
  <2>3. Expiry(a) = Expiry(old)
    BY <2>1 DEF Expiry
  <2>4. IF a.disputer = None THEN height > Expiry(a) ELSE height >= a.disputedAtBlock
    BY <1>1, <1>2, <1>6, <2>1, <2>2, <2>3
    DEF Settled, Timeline, Assertions, STATUS_OPEN, STATUS_DISPUTED
  <2>5. QED
    BY <1>1, <1>3, <1>6, <2>1, <2>2, <2>3, <2>4
    DEF Settled, Timeline, STATUS_OPEN, STATUS_DISPUTED, STATUS_SETTLED,
        STATUS_REJECTED, STATUS_UNRESOLVED
<1>7. CASE Rejected(id, a)
  <2>1. /\ a.status = STATUS_REJECTED /\ a.rejectedAtBlock = height
        /\ a.disputer = old.disputer /\ a.disputedAtBlock = old.disputedAtBlock
        /\ a.assertedAtBlock = old.assertedAtBlock /\ a.liveness = old.liveness
        /\ a.settledAtBlock = old.settledAtBlock
        /\ a.unresolvedAtBlock = old.unresolvedAtBlock
    BY <1>2, <1>7 DEF Rejected, Assertions
  <2>2. Timeline(old) /\ old.status = STATUS_DISPUTED /\ height # None
    BY <1>1, <1>2, <1>7, PrincipalAssumption DEF Rejected
  <2>3. Expiry(a) = Expiry(old)
    BY <2>1 DEF Expiry
  <2>4. height \in a.disputedAtBlock..height
    BY <1>1, <1>2, <2>1, <2>2 DEF Timeline, Assertions, OptionalUint
  <2>5. QED
    BY <1>1, <1>3, <2>1, <2>2, <2>3, <2>4
    DEF Timeline, STATUS_OPEN, STATUS_DISPUTED, STATUS_SETTLED, STATUS_REJECTED,
        STATUS_UNRESOLVED
<1>8. CASE Unresolved(id, a)
  <2>1. /\ a.status = STATUS_UNRESOLVED /\ a.unresolvedAtBlock = height
        /\ a.disputer = old.disputer /\ a.disputedAtBlock = old.disputedAtBlock
        /\ a.assertedAtBlock = old.assertedAtBlock /\ a.liveness = old.liveness
        /\ a.settledAtBlock = old.settledAtBlock
        /\ a.rejectedAtBlock = old.rejectedAtBlock
    BY <1>2, <1>8 DEF Unresolved, Assertions
  <2>2. Timeline(old) /\ old.status = STATUS_DISPUTED /\ height # None
    BY <1>1, <1>2, <1>8, PrincipalAssumption DEF Unresolved
  <2>3. Expiry(a) = Expiry(old)
    BY <2>1 DEF Expiry
  <2>4. height \in a.disputedAtBlock..height
    BY <1>1, <1>2, <2>1, <2>2 DEF Timeline, Assertions, OptionalUint
  <2>5. QED
    BY <1>1, <1>3, <2>1, <2>2, <2>3, <2>4
    DEF Timeline, STATUS_OPEN, STATUS_DISPUTED, STATUS_SETTLED, STATUS_REJECTED,
        STATUS_UNRESOLVED
<1>9. QED
  BY <1>4, <1>5, <1>6, <1>7, <1>8 DEF Written

\* The agreement of status, parties and blocks is inductive for well-typed states.
LEMMA NextKeepsWindow == TypeOK /\ WindowRespected /\ [Next]_vars => WindowRespected'
<1> SUFFICES ASSUME TypeOK, WindowRespected, [Next]_vars,
                    NEW id \in DOMAIN assertionMap'
             PROVE  Timeline(assertionMap[id])'
  BY DEF WindowRespected
<1>1. TypeOK'
  BY NextKeepsTypes
<1>2. height \in Nat
  BY EnvironmentAssumption DEF TypeOK
<1>3. ASSUME NEW x, id \in DOMAIN assertionMap, assertionMap[id] = x,
             assertionMap'[id] = x, height' \in {height, height + 1}
      PROVE  Timeline(assertionMap[id])'
  <2>1. x \in Assertions /\ Timeline(x)
    BY <1>3 DEF TypeOK, WindowRespected
  <2>2. assertionMap'[id].assertedAtBlock = x.assertedAtBlock
    BY <1>3
  <2>3. QED
    BY <1>2, <1>3, <2>1, TimePasses DEF Timeline
<1>4. CASE assertionMap' = assertionMap /\ height' \in {height, height + 1}
  BY <1>3, <1>4
<1>5. ASSUME NEW key, NEW a, Written(key, a)
      PROVE  Timeline(assertionMap[id])'
  <2>1. CASE id = key
    <3>1. assertionMap'[id] = a
      BY <1>5, <2>1 DEF Written, MapSet
    <3>2. a \in Assertions
      BY <1>1, <3>1 DEF TypeOK
    <3>3. Timeline(a)'
      BY <1>5, <3>2, WrittenTimeline
    <3>4. QED
      BY <3>1, <3>3 DEF Timeline
  <2>2. CASE id # key
    <3>1. id \in DOMAIN assertionMap /\ assertionMap'[id] = assertionMap[id]
      BY <1>5, <2>2 DEF Written, MapSet
    <3>2. QED
      BY <1>3, <1>5, <3>1 DEF Written
  <2>3. QED
    BY <2>1, <2>2
<1>6. QED
  BY <1>4, <1>5, StepWrites

\* Disputes happen inside the window and undisputed settlements after it.
THEOREM WindowTheorem == Spec => []WindowRespected
<1>1. Init => WindowRespected
  BY DEF Init, WindowRespected
<1>2. TypeOK /\ WindowRespected /\ [Next]_vars => WindowRespected'
  BY NextKeepsWindow
<1>3. QED
  BY <1>1, <1>2, TypeCorrect, PTL DEF Spec

\* What one assertion has a claim to is among all the claims.
LEMMA OwnClaimCovered ==
    ASSUME TypeOK, SolvencyInv, NEW id \in DOMAIN assertionMap
    PROVE  balance[Core] >= Locked(assertionMap[id])
<1> DEFINE own == {id} \X (1..Locked(assertionMap[id]))
<1>1. Locked(assertionMap[id]) \in Nat
  BY LockedType DEF TypeOK
<1>2. IsFiniteSet(own) /\ Cardinality(own) = Locked(assertionMap[id])
  BY <1>1, ClaimCardinality
<1>3. own \subseteq LockedSats(assertionMap)
  BY ClaimsSplit
<1>4. Cardinality(own) <= Cardinality(LockedSats(assertionMap))
  BY <1>3, FS_Subset, Zenon DEF SolvencyInv
<1>5. Cardinality(LockedSats(assertionMap)) \in Nat /\ balance[Core] \in Nat
  BY FS_CardinalityType DEF SolvencyInv, TypeOK
<1> HIDE DEF own
<1>6. QED
  BY <1>1, <1>2, <1>4, <1>5 DEF SolvencyInv, Solvent

\* No payout is ever refused for want of money, however many assertions share the
\* balance and in whatever order they end.
THEOREM PayoutsTheorem == Spec => []PayoutsCovered
<1>1. TypeOK /\ SolvencyInv /\ WindowRespected => PayoutsCovered
  <2> SUFFICES ASSUME TypeOK, SolvencyInv, WindowRespected, NEW id \in DOMAIN assertionMap
               PROVE
        LET a == assertionMap[id]
            afterFirst == Transfer(balance, a.bondSats, Core, a.asserter)
        IN  /\ a.status \in {STATUS_OPEN, STATUS_DISPUTED} =>
                  CanTransfer(balance, a.bondSats, Core, a.asserter)
            /\ a.status = STATUS_DISPUTED =>
                  /\ CanTransfer(balance, 2 * a.bondSats, Core, a.asserter)
                  /\ CanTransfer(balance, 2 * a.bondSats, Core, a.disputer)
                  /\ CanTransfer(afterFirst, a.bondSats, Core, a.disputer)
    BY DEF PayoutsCovered
  <2> DEFINE a == assertionMap[id]
             afterFirst == Transfer(balance, a.bondSats, Core, a.asserter)
  <2>1. /\ a \in Assertions /\ Timeline(a)
        /\ balance \in [Principals \cup {Core} -> Nat]
    BY DEF TypeOK, WindowRespected
  <2>2. /\ a.bondSats \in Nat \ {0} /\ a.asserter \in Principals
        /\ a.status = STATUS_DISPUTED => a.disputer \in Principals
    BY <2>1 DEF Assertions, Timeline
  <2>3. /\ a.status = STATUS_OPEN => balance[Core] >= a.bondSats
        /\ a.status = STATUS_DISPUTED => balance[Core] >= 2 * a.bondSats
    BY <2>1, OwnClaimCovered, LockedType
  <2> HIDE DEF a
  <2>4. CASE a.status = STATUS_OPEN
    <3>1. a.status # STATUS_DISPUTED
      BY <2>4 DEF STATUS_OPEN, STATUS_DISPUTED
    <3>2. CanTransfer(balance, a.bondSats, Core, a.asserter)
      BY <2>2, <2>3, <2>4, PrincipalAssumption DEF CanTransfer
    <3>3. QED
      BY <3>1, <3>2 DEF a
  <2>5. CASE a.status = STATUS_DISPUTED
    <3>1. balance[Core] \in Nat
      BY <2>1
    <3>2. /\ balance[Core] >= a.bondSats
          /\ 2 * a.bondSats > 0 /\ balance[Core] >= 2 * a.bondSats
          /\ balance[Core] - a.bondSats >= a.bondSats
      BY <2>2, <2>3, <2>5, <3>1
    <3>3. Core # a.asserter /\ Core # a.disputer
      BY <2>2, <2>5, PrincipalAssumption
    <3>4. CanTransfer(balance, a.bondSats, Core, a.asserter)
      BY <2>2, <3>2, <3>3 DEF CanTransfer
    <3>5. afterFirst[Core] = balance[Core] - a.bondSats
      BY <2>1, <2>2, <3>4, TransferAtCore
    <3>6. CanTransfer(afterFirst, a.bondSats, Core, a.disputer)
      BY <2>2, <3>2, <3>3, <3>5 DEF CanTransfer
    <3>7. /\ CanTransfer(balance, 2 * a.bondSats, Core, a.asserter)
          /\ CanTransfer(balance, 2 * a.bondSats, Core, a.disputer)
      BY <3>2, <3>3 DEF CanTransfer
    <3>8. QED
      BY <3>4, <3>6, <3>7 DEF a
  <2>6. QED
    BY <2>4, <2>5 DEF a
<1>2. QED
  BY <1>1, TypeCorrect, SolvencyInvariant, WindowTheorem, PTL

\* A step from a state whose records agree with their status respects finality.
LEMMA StepIsFinal == TypeOK /\ WindowRespected /\ [Next]_vars => Final
<1> SUFFICES ASSUME TypeOK, WindowRespected, [Next]_vars,
                    NEW id \in DOMAIN assertionMap
             PROVE  /\ id \in DOMAIN assertionMap'
                    /\ \A f \in {"asserter", "claimHash", "bondSats", "liveness",
                                 "assertedAtBlock"} :
                          assertionMap'[id][f] = assertionMap[id][f]
                    /\ assertionMap[id].status \in TerminalStatuses =>
                          assertionMap'[id] = assertionMap[id]
                    /\ assertionMap[id].disputer # None =>
                          assertionMap'[id].disputer = assertionMap[id].disputer
  BY DEF Final
<1>1. assertionMap[id] \in Assertions /\ Timeline(assertionMap[id])
  BY DEF TypeOK, WindowRespected
<1>2. CASE assertionMap' = assertionMap
  BY <1>2
<1>3. ASSUME NEW key, NEW a, Written(key, a), key # id
      PROVE  id \in DOMAIN assertionMap' /\ assertionMap'[id] = assertionMap[id]
  BY <1>3 DEF Written, MapSet
<1>4. ASSUME NEW a, Written(id, a)
      PROVE  /\ id \in DOMAIN assertionMap'
             /\ assertionMap'[id] = a
             /\ assertionMap[id].status \notin TerminalStatuses
             /\ \A f \in {"asserter", "claimHash", "bondSats", "liveness",
                          "assertedAtBlock"} : a[f] = assertionMap[id][f]
             /\ assertionMap[id].disputer # None => a.disputer = assertionMap[id].disputer
  <2>1. id \in DOMAIN assertionMap' /\ assertionMap'[id] = a
    BY <1>4 DEF Written, MapSet
  <2>2. assertionMap[id].status \notin TerminalStatuses
    <3>1. assertionMap[id].status = STATUS_OPEN \/ assertionMap[id].status = STATUS_DISPUTED
      BY <1>4 DEF Written, NewAssertion, Disputed, Settled, Rejected, Unresolved
    <3>2. QED
      BY <3>1 DEF TerminalStatuses, STATUS_OPEN, STATUS_DISPUTED, STATUS_SETTLED,
                  STATUS_REJECTED, STATUS_UNRESOLVED
  <2>3. CASE Disputed(id, a)
    <3>1. assertionMap[id].disputer = None
      BY <1>1, <2>3 DEF Disputed, Timeline
    <3>2. QED
      BY <1>1, <2>1, <2>2, <2>3, <3>1 DEF Disputed, Assertions
  <2>4. CASE Settled(id, a)
    BY <1>1, <2>1, <2>2, <2>4 DEF Settled, Assertions
  <2>5. CASE Rejected(id, a)
    BY <1>1, <2>1, <2>2, <2>5 DEF Rejected, Assertions
  <2>6. CASE Unresolved(id, a)
    BY <1>1, <2>1, <2>2, <2>6 DEF Unresolved, Assertions
  <2>7. QED
    BY <1>4, <2>3, <2>4, <2>5, <2>6 DEF Written, NewAssertion
<1>5. QED
  BY <1>2, <1>3, <1>4, StepWrites

\* No step of any behaviour changes a terminal record or the terms of any record.
THEOREM FinalityTheorem == Spec => Finality
<1>1. TypeOK /\ WindowRespected /\ [Next]_vars => [Final]_vars
  BY StepIsFinal
<1>2. QED
  BY <1>1, TypeCorrect, WindowTheorem, PTL DEF Spec, Finality

=============================================================================
