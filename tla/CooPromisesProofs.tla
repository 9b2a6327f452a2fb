------------------------- MODULE CooPromisesProofs -------------------------
(***************************************************************************)
(* What the contract promises, for every value of the constants: its       *)
(* printed events tell the stored records and implement EventFeed, and its *)
(* one commingled balance behaves as boxes do, one for each assertion, so  *)
(* that it implements Escrow.                                              *)
(***************************************************************************)
EXTENDS CooCoreProofs, SequenceTheorems

-----------------------------------------------------------------------------
(* The life of an assertion, as its events tell it *)

AssertedPrints ==
    [event : {"asserted"}, by : Principals, at : Nat, identifier : Identifiers,
     claim : Claims, bondSats : Bonds, liveness : Nat]

LaterPrints ==
    [event : {"disputed", "settled", "rejected", "unresolved"},
     by : Principals, at : Nat]

Prints == AssertedPrints \cup LaterPrints

Outcome == {"settled", "rejected", "unresolved"}

Life(h) ==
    /\ h \in Seq(Prints)
    /\ Len(h) \in 1..3
    /\ h[1] \in AssertedPrints
    /\ Len(h) > 1 => h[2].event \in {"disputed", "settled"}
    /\ Len(h) > 2 => h[2].event = "disputed" /\ h[3].event \in Outcome

\* Life, the heights and the record go together; the record alone does not say
\* which events led to it.
HistoryInv ==
    \A id \in DOMAIN assertionMap :
        /\ Life(history[id])
        /\ \A k \in 1..Len(history[id]) : history[id][k].at \in InitHeight..height
        /\ assertionMap[id] = Rebuilt(history[id])

\* No event is printed twice about an assertion.
LEMMA NoneTwice ==
    ASSUME NEW h, Life(h), NEW j \in 1..Len(h), NEW k \in 1..Len(h),
           h[j].event = h[k].event
    PROVE  j = k
<1>1. h[1].event = "asserted"
  BY DEF Life, AssertedPrints
<1>2. Len(h) = 1 \/ Len(h) = 2 \/ Len(h) = 3
  BY DEF Life
<1>3. QED
  BY <1>1, <1>2 DEF Life, Outcome

\* What an event that occurs once says of its block and party.
LEMMA Found ==
    ASSUME NEW h, NEW k \in 1..Len(h),
           \A j \in 1..Len(h) : h[j].event = h[k].event => j = k
    PROVE  AtOf(h, h[k].event) = h[k].at /\ ByOf(h, h[k].event) = h[k].by
  BY DEF AtOf, ByOf

\* What an event that has not occurred says.
LEMMA NotFound ==
    ASSUME NEW h, NEW name, \A j \in 1..Len(h) : h[j].event # name
    PROVE  AtOf(h, name) = None /\ ByOf(h, name) = None
  BY DEF AtOf, ByOf

\* One more event of a life adds its own block and party and leaves the others.
LEMMA AppendTells ==
    ASSUME NEW h \in Seq(Prints), NEW e \in Prints, Life(h), Life(Append(h, e)), NEW name
    PROVE  /\ AtOf(Append(h, e), name) = IF name = e.event THEN e.at ELSE AtOf(h, name)
           /\ ByOf(Append(h, e), name) = IF name = e.event THEN e.by ELSE ByOf(h, name)
<1> DEFINE g == Append(h, e)
<1>1. /\ Len(g) = Len(h) + 1 /\ Len(h) \in Nat
      /\ \A k \in 1..Len(h) : g[k] = h[k]
      /\ g[Len(h) + 1] = e
  BY AppendProperties
<1>2. \A j, k \in 1..Len(g) : g[j].event = g[k].event => j = k
  BY NoneTwice
<1>3. \A j, k \in 1..Len(h) : h[j].event = h[k].event => j = k
  BY NoneTwice
<1> HIDE DEF g
<1>4. CASE name = e.event
  <2>1. Len(h) + 1 \in 1..Len(g)
    BY <1>1
  <2>2. AtOf(g, g[Len(h) + 1].event) = g[Len(h) + 1].at
        /\ ByOf(g, g[Len(h) + 1].event) = g[Len(h) + 1].by
    BY <1>2, <2>1, Found
  <2>3. QED
    BY <1>1, <1>4, <2>2 DEF g
<1>5. CASE name # e.event /\ \E k \in 1..Len(h) : h[k].event = name
  <2>1. PICK k \in 1..Len(h) : h[k].event = name
    BY <1>5
  <2>2. k \in 1..Len(g) /\ g[k] = h[k]
    BY <1>1
  <2>3. AtOf(g, g[k].event) = g[k].at /\ ByOf(g, g[k].event) = g[k].by
    BY <1>2, <2>2, Found
  <2>4. AtOf(h, h[k].event) = h[k].at /\ ByOf(h, h[k].event) = h[k].by
    BY <1>3, Found
  <2>5. QED
    BY <1>5, <2>1, <2>2, <2>3, <2>4 DEF g
<1>6. CASE name # e.event /\ \A k \in 1..Len(h) : h[k].event # name
  <2>1. \A j \in 1..Len(g) : g[j].event # name
    BY <1>1, <1>6
  <2>2. QED
    BY <1>6, <2>1, NotFound DEF g
<1>7. QED
  BY <1>4, <1>5, <1>6

Fields ==
    {"asserter", "disputer", "claimHash", "bondSats", "liveness", "status",
     "assertedAtBlock", "disputedAtBlock", "settledAtBlock", "rejectedAtBlock",
     "unresolvedAtBlock"}

\* A record as dispute, settle and the outcomes of resolve write it.
AsDisputed(a, by, at) ==
    [a EXCEPT !.disputer = by, !.status = STATUS_DISPUTED, !.disputedAtBlock = at]
AsSettled(a, at)    == [a EXCEPT !.status = STATUS_SETTLED, !.settledAtBlock = at]
AsRejected(a, at)   == [a EXCEPT !.status = STATUS_REJECTED, !.rejectedAtBlock = at]
AsUnresolved(a, at) == [a EXCEPT !.status = STATUS_UNRESOLVED, !.unresolvedAtBlock = at]

\* A rebuilt record has the fields of an assertion, so two of them are the same
\* when they agree on each field.
LEMMA RebuiltShape ==
    ASSUME NEW h
    PROVE  Rebuilt(h) = [f \in Fields |-> Rebuilt(h)[f]]
  BY DEF Rebuilt, Fields

\* What each field of a rebuilt record is taken from.
LEMMA RebuiltFields ==
    ASSUME NEW h
    PROVE  /\ Rebuilt(h).asserter = h[1].by
           /\ Rebuilt(h).disputer = ByOf(h, "disputed")
           /\ Rebuilt(h).claimHash = Sha256(h[1].claim)
           /\ Rebuilt(h).bondSats = h[1].bondSats
           /\ Rebuilt(h).liveness = h[1].liveness
           /\ Rebuilt(h).status = StatusOfEvent(h[Len(h)].event)
           /\ Rebuilt(h).assertedAtBlock = h[1].at
           /\ Rebuilt(h).disputedAtBlock = AtOf(h, "disputed")
           /\ Rebuilt(h).settledAtBlock = AtOf(h, "settled")
           /\ Rebuilt(h).rejectedAtBlock = AtOf(h, "rejected")
           /\ Rebuilt(h).unresolvedAtBlock = AtOf(h, "unresolved")
  BY DEF Rebuilt

\* The record an index rebuilds changes as the contract's record does.
LEMMA RebuiltAfter ==
    ASSUME NEW h \in Seq(Prints), NEW e \in LaterPrints, Life(h), Life(Append(h, e)),
           NEW old, old = Rebuilt(h)
    PROVE  /\ e.event = "disputed" => Rebuilt(Append(h, e)) = AsDisputed(old, e.by, e.at)
           /\ e.event = "settled" => Rebuilt(Append(h, e)) = AsSettled(old, e.at)
           /\ e.event = "rejected" => Rebuilt(Append(h, e)) = AsRejected(old, e.at)
           /\ e.event = "unresolved" => Rebuilt(Append(h, e)) = AsUnresolved(old, e.at)
<1> DEFINE g == Append(h, e)
<1>1. e \in Prints
  BY DEF Prints
<1>2. g[Len(g)].event = e.event /\ g[1] = h[1]
  BY <1>1, AppendProperties DEF Life
<1>3. /\ ByOf(g, "disputed")   = IF e.event = "disputed"   THEN e.by ELSE ByOf(h, "disputed")
      /\ AtOf(g, "disputed")   = IF e.event = "disputed"   THEN e.at ELSE AtOf(h, "disputed")
      /\ AtOf(g, "settled")    = IF e.event = "settled"    THEN e.at ELSE AtOf(h, "settled")
      /\ AtOf(g, "rejected")   = IF e.event = "rejected"   THEN e.at ELSE AtOf(h, "rejected")
      /\ AtOf(g, "unresolved") = IF e.event = "unresolved" THEN e.at ELSE AtOf(h, "unresolved")
  BY <1>1, AppendTells
<1> HIDE DEF g
<1> DEFINE new == Rebuilt(g)
<1>4. /\ old = [f \in Fields |-> old[f]]
      /\ new = [f \in Fields |-> new[f]]
  BY RebuiltShape
<1>5. /\ new.asserter = old.asserter
      /\ new.claimHash = old.claimHash
      /\ new.bondSats = old.bondSats
      /\ new.liveness = old.liveness
      /\ new.assertedAtBlock = old.assertedAtBlock
      /\ new.status = StatusOfEvent(e.event)
      /\ new.disputer = IF e.event = "disputed" THEN e.by ELSE old.disputer
      /\ new.disputedAtBlock = IF e.event = "disputed" THEN e.at ELSE old.disputedAtBlock
      /\ new.settledAtBlock = IF e.event = "settled" THEN e.at ELSE old.settledAtBlock
      /\ new.rejectedAtBlock = IF e.event = "rejected" THEN e.at ELSE old.rejectedAtBlock
      /\ new.unresolvedAtBlock = IF e.event = "unresolved" THEN e.at ELSE old.unresolvedAtBlock
  <2>1. /\ new.asserter = g[1].by /\ new.disputer = ByOf(g, "disputed")
        /\ new.claimHash = Sha256(g[1].claim) /\ new.bondSats = g[1].bondSats
        /\ new.liveness = g[1].liveness /\ new.status = StatusOfEvent(g[Len(g)].event)
        /\ new.assertedAtBlock = g[1].at /\ new.disputedAtBlock = AtOf(g, "disputed")
        /\ new.settledAtBlock = AtOf(g, "settled")
        /\ new.rejectedAtBlock = AtOf(g, "rejected")
        /\ new.unresolvedAtBlock = AtOf(g, "unresolved")
    BY RebuiltFields
  <2>2. /\ old.asserter = h[1].by /\ old.disputer = ByOf(h, "disputed")
        /\ old.claimHash = Sha256(h[1].claim) /\ old.bondSats = h[1].bondSats
        /\ old.liveness = h[1].liveness
        /\ old.assertedAtBlock = h[1].at /\ old.disputedAtBlock = AtOf(h, "disputed")
        /\ old.settledAtBlock = AtOf(h, "settled")
        /\ old.rejectedAtBlock = AtOf(h, "rejected")
        /\ old.unresolvedAtBlock = AtOf(h, "unresolved")
    BY RebuiltFields
  <2> HIDE DEF new
  <2>3. QED
    BY <1>2, <1>3, <2>1, <2>2
<1> HIDE DEF new
<1>6. ASSUME e.event = "disputed"
      PROVE  new = AsDisputed(old, e.by, e.at)
  <2> DEFINE r == AsDisputed(old, e.by, e.at)
  <2>1. r = [f \in Fields |-> r[f]]
    BY <1>4 DEF AsDisputed
  <2>2. \A f \in Fields : new[f] = r[f]
    BY <1>4, <1>5, <1>6 DEF Fields, StatusOfEvent, AsDisputed
  <2>3. QED
    BY <1>4, <2>1, <2>2
<1>7. ASSUME e.event = "settled"
      PROVE  new = AsSettled(old, e.at)
  <2> DEFINE r == AsSettled(old, e.at)
  <2>1. r = [f \in Fields |-> r[f]]
    BY <1>4 DEF AsSettled
  <2>2. \A f \in Fields : new[f] = r[f]
    BY <1>4, <1>5, <1>7 DEF Fields, StatusOfEvent, AsSettled
  <2>3. QED
    BY <1>4, <2>1, <2>2
<1>8. ASSUME e.event = "rejected"
      PROVE  new = AsRejected(old, e.at)
  <2> DEFINE r == AsRejected(old, e.at)
  <2>1. r = [f \in Fields |-> r[f]]
    BY <1>4 DEF AsRejected
  <2>2. \A f \in Fields : new[f] = r[f]
    BY <1>4, <1>5, <1>8 DEF Fields, StatusOfEvent, AsRejected
  <2>3. QED
    BY <1>4, <2>1, <2>2
<1>9. ASSUME e.event = "unresolved"
      PROVE  new = AsUnresolved(old, e.at)
  <2> DEFINE r == AsUnresolved(old, e.at)
  <2>1. r = [f \in Fields |-> r[f]]
    BY <1>4 DEF AsUnresolved
  <2>2. \A f \in Fields : new[f] = r[f]
    BY <1>4, <1>5, <1>9 DEF Fields, StatusOfEvent, AsUnresolved
  <2>3. QED
    BY <1>4, <2>1, <2>2
<1>10. QED
  BY <1>6, <1>7, <1>8, <1>9 DEF g, new, LaterPrints

-----------------------------------------------------------------------------
(* What every step prints *)

\* The id that an asserted event tells.
IdTold(e) == DeriveAssertionId(e.identifier, e.claim, e.bondSats, e.liveness, e.at)

\* One event about an assertion, printed in the block the record is written in:
\* the first one with the record it tells of, or a later one with the change.
Begins(id, e) ==
    /\ id \notin DOMAIN assertionMap
    /\ e \in AssertedPrints
    /\ id = IdTold(e)
    /\ assertionMap' = MapSet(assertionMap, id, Rebuilt(<<e>>))

GoesOn(id, e) ==
    LET a == assertionMap[id]
    IN  /\ id \in DOMAIN assertionMap
        /\ e \in LaterPrints
        /\ \/ /\ e.event = "disputed"
              /\ a.status = STATUS_OPEN
              /\ assertionMap' = MapSet(assertionMap, id, AsDisputed(a, e.by, e.at))
           \/ /\ e.event = "settled"
              /\ a.status \in {STATUS_OPEN, STATUS_DISPUTED}
              /\ assertionMap' = MapSet(assertionMap, id, AsSettled(a, e.at))
           \/ /\ e.event = "rejected"
              /\ a.status = STATUS_DISPUTED
              /\ assertionMap' = MapSet(assertionMap, id, AsRejected(a, e.at))
           \/ /\ e.event = "unresolved"
              /\ a.status = STATUS_DISPUTED
              /\ assertionMap' = MapSet(assertionMap, id, AsUnresolved(a, e.at))

Printed(id, e) ==
    /\ id \in AssertionIds
    /\ height' = height
    /\ e.at = height
    /\ PrintEvent(id, e)
    /\ Begins(id, e) \/ GoesOn(id, e)

\* The record assert writes is the one its event tells of.
LEMMA AssertPrints ==
    ASSUME TypeOK, NEW c \in Principals, NEW i \in Identifiers, NEW cl \in Claims,
           NEW b \in Bonds, NEW l \in Livenesses \cup {None}, Assert(c, i, cl, b, l)
    PROVE  \E id, e : Printed(id, e)
<1> DEFINE resolved == ResolvedLiveness(l)
           id       == DeriveAssertionId(i, cl, b, resolved, height)
           e        == [event |-> "asserted", by |-> c, at |-> height,
                        identifier |-> i, claim |-> cl,
                        bondSats |-> b, liveness |-> resolved]
           a        == [asserter          |-> c,
                        disputer          |-> None,
                        claimHash         |-> Sha256(cl),
                        bondSats          |-> b,
                        liveness          |-> resolved,
                        status            |-> STATUS_OPEN,
                        assertedAtBlock   |-> height,
                        disputedAtBlock   |-> None,
                        settledAtBlock    |-> None,
                        rejectedAtBlock   |-> None,
                        unresolvedAtBlock |-> None]
<1>1. /\ resolved \in Livenesses \cup {DEFAULT_LIVENESS}
      /\ resolved \in Nat
      /\ height \in Nat
  BY ParameterAssumption, InputAssumption, EnvironmentAssumption
  DEF Assert, CanAssert, ResolvedLiveness, TypeOK
<1>2. id \in AssertionIds
  <2>1. \A x \in Livenesses \cup {DEFAULT_LIVENESS} :
           DeriveAssertionId(i, cl, b, x, height) \in AssertionIds
    BY DEF AssertionIds, TypeOK
  <2>2. QED
    BY <1>1, <2>1
<1>3. e \in AssertedPrints
  BY <1>1 DEF AssertedPrints
<1>4. a = Rebuilt(<<e>>)
  <2> DEFINE h == <<e>>
  <2>1. Len(h) = 1 /\ h[1] = e
    OBVIOUS
  <2>2. /\ e.event = "asserted" /\ e.by = c /\ e.at = height /\ e.claim = cl
        /\ e.bondSats = b /\ e.liveness = resolved
    OBVIOUS
  <2>3. a = [f \in Fields |-> a[f]]
    BY DEF Fields
  <2>4. /\ a.asserter = c /\ a.disputer = None /\ a.claimHash = Sha256(cl)
        /\ a.bondSats = b /\ a.liveness = resolved /\ a.status = STATUS_OPEN
        /\ a.assertedAtBlock = height /\ a.disputedAtBlock = None
        /\ a.settledAtBlock = None /\ a.rejectedAtBlock = None
        /\ a.unresolvedAtBlock = None
    OBVIOUS
  <2> HIDE DEF h, a, e, resolved, id
  <2>5. \A name : name # "asserted" => AtOf(h, name) = None /\ ByOf(h, name) = None
    BY <2>1, <2>2, NotFound
  <2>6. \A f \in Fields : a[f] = Rebuilt(h)[f]
    <3> DEFINE r == Rebuilt(h)
    <3>1. /\ r.asserter = c /\ r.claimHash = Sha256(cl) /\ r.bondSats = b
          /\ r.liveness = resolved /\ r.assertedAtBlock = height
          /\ r.status = StatusOfEvent("asserted")
      BY <2>1, <2>2, RebuiltFields
    <3>2. /\ r.disputer = None /\ r.disputedAtBlock = None /\ r.settledAtBlock = None
          /\ r.rejectedAtBlock = None /\ r.unresolvedAtBlock = None
      BY <2>5, RebuiltFields
    <3> HIDE DEF r
    <3>3. \A f \in Fields : a[f] = r[f]
      BY <2>4, <3>1, <3>2 DEF Fields, StatusOfEvent
    <3>4. QED
      BY <3>3 DEF r
  <2>7. Rebuilt(h) = [f \in Fields |-> Rebuilt(h)[f]]
    BY RebuiltShape
  <2>8. QED
    BY <2>3, <2>6, <2>7 DEF h
<1>5. /\ id \notin DOMAIN assertionMap
      /\ assertionMap' = MapSet(assertionMap, id, a)
      /\ PrintEvent(id, e)
      /\ height' = height
  BY DEF Assert, CanAssert, ResolvedLiveness, Exists
<1>6. e.at = height /\ id = IdTold(e)
  BY DEF IdTold
<1> HIDE DEF a, e, id, resolved
<1>7. QED
  BY <1>2, <1>3, <1>4, <1>5, <1>6 DEF Printed, Begins

\* settle, dispute and resolve print the event of what they write.
LEMMA LaterCallsPrint ==
    ASSUME TypeOK, NEW c \in Principals, NEW id \in DOMAIN assertionMap,
           Settle(c, id) \/ Dispute(c, id) \/ Resolve(c, id)
    PROVE  \E e : Printed(id, e)
<1>1. id \in AssertionIds /\ height \in Nat
  BY EnvironmentAssumption DEF TypeOK
<1>2. ASSUME NEW name \in {"disputed", "settled", "rejected", "unresolved"}
      PROVE  /\ Event(name, c, height) \in LaterPrints
             /\ Event(name, c, height).event = name
             /\ Event(name, c, height).by = c
             /\ Event(name, c, height).at = height
  BY <1>1 DEF Event, LaterPrints
<1>3. CASE Settle(c, id)
  <2> DEFINE e == Event("settled", c, height)
  <2>1. e \in LaterPrints /\ e.event = "settled" /\ e.at = height
    BY <1>2
  <2>2. /\ PrintEvent(id, e) /\ height' = height
        /\ assertionMap[id].status = STATUS_OPEN
        /\ assertionMap' = MapSet(assertionMap, id, AsSettled(assertionMap[id], height))
    BY <1>3 DEF Settle, CanSettle, AsSettled
  <2> HIDE DEF e
  <2>3. QED
    BY <1>1, <2>1, <2>2 DEF Printed, GoesOn
<1>4. CASE Dispute(c, id)
  <2> DEFINE e == Event("disputed", c, height)
  <2>1. e \in LaterPrints /\ e.event = "disputed" /\ e.by = c /\ e.at = height
    BY <1>2
  <2>2. /\ PrintEvent(id, e) /\ height' = height
        /\ assertionMap[id].status = STATUS_OPEN
        /\ assertionMap' = MapSet(assertionMap, id, AsDisputed(assertionMap[id], c, height))
    BY <1>4 DEF Dispute, CanDispute, AsDisputed
  <2> HIDE DEF e
  <2>3. QED
    BY <1>1, <2>1, <2>2 DEF Printed, GoesOn
<1>5. CASE ResolveSettled(c, id)
  <2> DEFINE e == Event("settled", c, height)
  <2>1. e \in LaterPrints /\ e.event = "settled" /\ e.at = height
    BY <1>2
  <2>2. /\ PrintEvent(id, e) /\ height' = height
        /\ assertionMap[id].status = STATUS_DISPUTED
        /\ assertionMap' = MapSet(assertionMap, id, AsSettled(assertionMap[id], height))
    BY <1>5 DEF ResolveSettled, CanResolve, AsSettled
  <2> HIDE DEF e
  <2>3. QED
    BY <1>1, <2>1, <2>2 DEF Printed, GoesOn
<1>6. CASE ResolveRejected(c, id)
  <2> DEFINE e == Event("rejected", c, height)
  <2>1. e \in LaterPrints /\ e.event = "rejected" /\ e.at = height
    BY <1>2
  <2>2. /\ PrintEvent(id, e) /\ height' = height
        /\ assertionMap[id].status = STATUS_DISPUTED
        /\ assertionMap' = MapSet(assertionMap, id, AsRejected(assertionMap[id], height))
    BY <1>6 DEF ResolveRejected, CanResolve, AsRejected
  <2> HIDE DEF e
  <2>3. QED
    BY <1>1, <2>1, <2>2 DEF Printed, GoesOn
<1>7. CASE ResolveUnresolved(c, id)
  <2> DEFINE e == Event("unresolved", c, height)
  <2>1. e \in LaterPrints /\ e.event = "unresolved" /\ e.at = height
    BY <1>2
  <2>2. /\ PrintEvent(id, e) /\ height' = height
        /\ assertionMap[id].status = STATUS_DISPUTED
        /\ assertionMap' = MapSet(assertionMap, id, AsUnresolved(assertionMap[id], height))
    BY <1>7 DEF ResolveUnresolved, CanResolve, AsUnresolved
  <2> HIDE DEF e
  <2>3. QED
    BY <1>1, <2>1, <2>2 DEF Printed, GoesOn
<1>8. QED
  BY <1>3, <1>4, <1>5, <1>6, <1>7 DEF Resolve

\* A step that prints nothing writes no record, and the other way round.
LEMMA StepPrints ==
    ASSUME TypeOK, [Next]_vars
    PROVE  \/ /\ assertionMap' = assertionMap
              /\ history' = history
              /\ height' \in {height, height + 1}
           \/ \E id, e : Printed(id, e)
<1>1. ASSUME NEW c \in Principals, NEW p \in Candidates,
             AddArbiter(c, p) \/ RemoveArbiter(c, p)
      PROVE  assertionMap' = assertionMap /\ history' = history /\ height' = height
  BY <1>1 DEF AddArbiter, RemoveArbiter
<1>2. CASE MineBlock
  BY <1>2 DEF MineBlock
<1>3. ASSUME NEW s \in Principals, NEW r \in Principals \cup {Core}, NEW n \in Amounts,
             TokenTransfer(s, r, n)
      PROVE  assertionMap' = assertionMap /\ history' = history /\ height' = height
  BY <1>3 DEF TokenTransfer
<1>4. CASE UNCHANGED vars
  BY <1>4 DEF vars
<1>5. QED
  BY <1>1, <1>2, <1>3, <1>4, AssertPrints, LaterCallsPrint DEF Next

-----------------------------------------------------------------------------
(* The history invariant *)

\* The status of a record is that of its last event, so the events the contract's
\* guards let through continue a life.
LEMMA LifeGoesOn ==
    ASSUME NEW h, Life(h), NEW e \in LaterPrints,
           \/ e.event = "disputed" /\ Rebuilt(h).status = STATUS_OPEN
           \/ e.event = "settled" /\ Rebuilt(h).status \in {STATUS_OPEN, STATUS_DISPUTED}
           \/ e.event \in {"rejected", "unresolved"} /\ Rebuilt(h).status = STATUS_DISPUTED
    PROVE  Life(Append(h, e))
<1> DEFINE g == Append(h, e)
<1>1. h \in Seq(Prints) /\ e \in Prints
  BY DEF Life, Prints
<1>2. /\ g \in Seq(Prints)
      /\ Len(g) = Len(h) + 1
      /\ \A k \in 1..Len(h) : g[k] = h[k]
      /\ g[Len(h) + 1] = e
  BY <1>1, AppendProperties
<1>3. Len(h) = 1 \/ Len(h) = 2 \/ Len(h) = 3
  BY DEF Life
<1>4. h[1].event = "asserted" /\ h[1] \in AssertedPrints
  BY DEF Life, AssertedPrints
<1>5. Rebuilt(h).status = StatusOfEvent(h[Len(h)].event)
  BY RebuiltFields
<1> HIDE DEF g
<1>6. CASE Len(h) = 1
  <2>1. Rebuilt(h).status = STATUS_OPEN
    BY <1>4, <1>5, <1>6 DEF StatusOfEvent
  <2>2. e.event \in {"disputed", "settled"}
    BY <2>1 DEF STATUS_OPEN, STATUS_DISPUTED
  <2>3. Len(g) = 2 /\ g[1] = h[1] /\ g[2] = e
    BY <1>2, <1>6
  <2>4. QED
    BY <1>2, <1>4, <2>2, <2>3 DEF Life, g
<1>7. CASE Len(h) = 2
  <2>1. h[2].event \in {"disputed", "settled"}
    BY <1>7 DEF Life
  <2>2. h[2].event = "settled" => Rebuilt(h).status = STATUS_SETTLED
    BY <1>5, <1>7 DEF StatusOfEvent
  <2>3. h[2].event = "disputed" => Rebuilt(h).status = STATUS_DISPUTED
    BY <1>5, <1>7 DEF StatusOfEvent
  <2>4. h[2].event = "disputed" /\ e.event \in Outcome
    BY <2>1, <2>2, <2>3 DEF Outcome, STATUS_OPEN, STATUS_DISPUTED, STATUS_SETTLED
  <2>5. Len(g) = 3 /\ g[1] = h[1] /\ g[2] = h[2] /\ g[3] = e
    BY <1>2, <1>7
  <2>6. QED
    BY <1>2, <1>4, <2>4, <2>5 DEF Life, g
<1>8. CASE Len(h) = 3
  <2>1. h[3].event \in Outcome
    BY <1>8 DEF Life
  <2>2. Rebuilt(h).status \in {STATUS_SETTLED, STATUS_REJECTED, STATUS_UNRESOLVED}
    BY <1>5, <1>8, <2>1 DEF StatusOfEvent, Outcome
  <2>3. QED
    BY <2>2 DEF STATUS_OPEN, STATUS_DISPUTED, STATUS_SETTLED, STATUS_REJECTED,
                STATUS_UNRESOLVED
<1>9. QED
  BY <1>3, <1>6, <1>7, <1>8

\* The first event of an assertion starts a life.
LEMMA LifeBegins ==
    ASSUME NEW e \in AssertedPrints
    PROVE  Life(<<e>>)
<1>1. e \in Prints
  BY DEF Prints
<1>2. <<e>> \in Seq(Prints) /\ Len(<<e>>) = 1 /\ <<e>>[1] = e
  BY <1>1
<1>3. QED
  BY <1>2 DEF Life

\* What a printed event leaves of the history and of the record.
LEMMA PrintedEffect ==
    ASSUME TypeOK, HistoryInv, NEW id, NEW e, Printed(id, e)
    PROVE  /\ DOMAIN assertionMap' = DOMAIN assertionMap \cup {id}
           /\ \A x \in DOMAIN assertionMap \ {id} :
                 /\ assertionMap'[x] = assertionMap[x]
                 /\ history'[x] = history[x]
           /\ id \notin DOMAIN assertionMap => e \in AssertedPrints /\ history'[id] = <<e>>
           /\ id \in DOMAIN assertionMap =>
                 /\ e \in LaterPrints
                 /\ Life(history[id])
                 /\ history'[id] = Append(history[id], e)
           /\ Life(history'[id])
           /\ assertionMap'[id] = Rebuilt(history'[id])
<1>1. DOMAIN history = DOMAIN assertionMap
  BY DEF TypeOK
<1>2. /\ \A x \in DOMAIN history \ {id} : history'[x] = history[x]
      /\ id \in DOMAIN history => history'[id] = Append(history[id], e)
      /\ id \notin DOMAIN history => history'[id] = <<e>>
  BY DEF Printed, PrintEvent, MapSet
<1>3. CASE Begins(id, e)
  <2>1. /\ DOMAIN assertionMap' = DOMAIN assertionMap \cup {id}
        /\ assertionMap'[id] = Rebuilt(<<e>>)
        /\ \A x \in DOMAIN assertionMap \ {id} : assertionMap'[x] = assertionMap[x]
        /\ id \notin DOMAIN assertionMap
        /\ e \in AssertedPrints
    BY <1>3 DEF Begins, MapSet
  <2>2. QED
    BY <1>1, <1>2, <2>1, LifeBegins
<1>4. CASE GoesOn(id, e)
  <2> DEFINE h == history[id]
             a == assertionMap[id]
  <2>1. id \in DOMAIN assertionMap /\ e \in LaterPrints
    BY <1>4 DEF GoesOn
  <2>2. Life(h) /\ a = Rebuilt(h) /\ h \in Seq(Prints)
    BY <2>1 DEF HistoryInv, Life
  <2>3. \/ e.event = "disputed" /\ Rebuilt(h).status = STATUS_OPEN
        \/ e.event = "settled" /\ Rebuilt(h).status \in {STATUS_OPEN, STATUS_DISPUTED}
        \/ e.event \in {"rejected", "unresolved"} /\ Rebuilt(h).status = STATUS_DISPUTED
    BY <1>4, <2>2 DEF GoesOn
  <2>4. Life(Append(h, e))
    BY <2>1, <2>2, <2>3, LifeGoesOn
  <2> DEFINE new == Rebuilt(Append(h, e))
  <2> HIDE DEF a, h
  <2>5. /\ e.event = "disputed" => new = AsDisputed(a, e.by, e.at)
        /\ e.event = "settled" => new = AsSettled(a, e.at)
        /\ e.event = "rejected" => new = AsRejected(a, e.at)
        /\ e.event = "unresolved" => new = AsUnresolved(a, e.at)
    BY <2>1, <2>2, <2>4, RebuiltAfter
  <2>6. assertionMap' = MapSet(assertionMap, id, new)
    <3> HIDE DEF new
    <3>1. QED
      BY <1>4, <2>5 DEF GoesOn, a
  <2>7. /\ DOMAIN assertionMap' = DOMAIN assertionMap \cup {id}
        /\ assertionMap'[id] = new
        /\ \A x \in DOMAIN assertionMap \ {id} : assertionMap'[x] = assertionMap[x]
    BY <2>6 DEF MapSet
  <2>8. QED
    BY <1>1, <1>2, <2>1, <2>2, <2>4, <2>7 DEF h
<1>5. QED
  BY <1>3, <1>4 DEF Printed

\* The history invariant is inductive for well-typed states.
LEMMA NextKeepsHistory == TypeOK /\ HistoryInv /\ [Next]_vars => HistoryInv'
<1> SUFFICES ASSUME TypeOK, HistoryInv, [Next]_vars, NEW x \in DOMAIN assertionMap'
             PROVE  /\ Life(history'[x])
                    /\ \A k \in 1..Len(history'[x]) :
                          history'[x][k].at \in InitHeight..height'
                    /\ assertionMap'[x] = Rebuilt(history'[x])
  BY DEF HistoryInv, Life
<1>1. height \in Nat /\ InitHeight \in Nat /\ InitHeight <= height
  BY EnvironmentAssumption DEF TypeOK
<1>2. ASSUME x \in DOMAIN assertionMap, history'[x] = history[x],
             assertionMap'[x] = assertionMap[x], height' \in {height, height + 1}
      PROVE  /\ Life(history'[x])
             /\ \A k \in 1..Len(history'[x]) :
                   history'[x][k].at \in InitHeight..height'
             /\ assertionMap'[x] = Rebuilt(history'[x])
  <2>1. /\ Life(history[x])
        /\ \A k \in 1..Len(history[x]) : history[x][k].at \in InitHeight..height
        /\ assertionMap[x] = Rebuilt(history[x])
    BY <1>2 DEF HistoryInv
  <2>2. \A n \in InitHeight..height : n \in InitHeight..height'
    BY <1>1, <1>2
  <2>3. QED
    BY <1>2, <2>1, <2>2
<1>3. ASSUME NEW id, NEW e, Printed(id, e)
      PROVE  /\ Life(history'[x])
             /\ \A k \in 1..Len(history'[x]) :
                   history'[x][k].at \in InitHeight..height'
             /\ assertionMap'[x] = Rebuilt(history'[x])
  <2>1. e.at \in InitHeight..height' /\ height' = height
    BY <1>1, <1>3 DEF Printed
  <2>2. CASE x # id
    <3>1. x \in DOMAIN assertionMap /\ history'[x] = history[x]
          /\ assertionMap'[x] = assertionMap[x]
      <4>1. /\ DOMAIN assertionMap' = DOMAIN assertionMap \cup {id}
            /\ \A y \in DOMAIN assertionMap \ {id} :
                  /\ assertionMap'[y] = assertionMap[y]
                  /\ history'[y] = history[y]
        BY <1>3, PrintedEffect
      <4>2. QED
        BY <2>2, <4>1
    <3>2. QED
      BY <1>2, <2>1, <3>1
  <2>3. CASE x = id /\ id \notin DOMAIN assertionMap
    <3>1. history'[x] = <<e>> /\ Life(history'[x]) /\ assertionMap'[x] = Rebuilt(history'[x])
      BY <1>3, <2>3, PrintedEffect
    <3>2. Len(<<e>>) = 1 /\ <<e>>[1] = e
      OBVIOUS
    <3>3. QED
      BY <2>1, <3>1, <3>2
  <2>4. CASE x = id /\ id \in DOMAIN assertionMap
    <3> DEFINE h == history[id]
    <3>1. /\ e \in LaterPrints /\ Life(h)
          /\ history'[x] = Append(h, e)
          /\ Life(history'[x]) /\ assertionMap'[x] = Rebuilt(history'[x])
      BY <1>3, <2>4, PrintedEffect
    <3>2. h \in Seq(Prints) /\ e \in Prints
      BY <3>1 DEF Life, Prints
    <3>3. /\ Len(Append(h, e)) = Len(h) + 1
          /\ \A k \in 1..Len(h) : Append(h, e)[k] = h[k]
          /\ Append(h, e)[Len(h) + 1] = e
          /\ Len(h) \in Nat
      BY <3>2, AppendProperties
    <3>4. \A k \in 1..Len(h) : h[k].at \in InitHeight..height
      BY <2>4 DEF HistoryInv
    <3>5. ASSUME NEW k \in 1..Len(Append(h, e))
          PROVE  Append(h, e)[k].at \in InitHeight..height'
      <4>1. k \in 1..Len(h) \/ k = Len(h) + 1
        BY <3>3
      <4>2. CASE k \in 1..Len(h)
        <5>1. Append(h, e)[k] = h[k] /\ h[k].at \in InitHeight..height
          BY <3>3, <3>4, <4>2
        <5>2. QED
          BY <2>1, <5>1
      <4>3. CASE k = Len(h) + 1
        <5>1. Append(h, e)[k] = e
          BY <3>3, <4>3
        <5>2. QED
          BY <2>1, <5>1
      <4>4. QED
        BY <4>1, <4>2, <4>3
    <3>6. QED
      BY <3>1, <3>5
  <2>5. QED
    BY <2>2, <2>3, <2>4
<1>4. QED
  BY <1>2, <1>3, StepPrints

\* At deployment no assertion and no event exists.
LEMMA InitHistory == Init => HistoryInv
  BY DEF Init, HistoryInv

\* In every reachable state the events of an assertion are a legal life and tell
\* its record.
THEOREM HistoryTheorem == Spec => []HistoryInv
<1>1. TypeOK /\ HistoryInv /\ [Next]_vars => HistoryInv'
  BY NextKeepsHistory
<1>2. QED
  BY <1>1, InitHistory, TypeCorrect, PTL DEF Spec

\* An index that sees nothing but the printed events always knows the record of
\* every assertion, whatever the number of assertions, parties and blocks.
THEOREM EventsTheorem == Spec => []EventsDetermineRecord
<1>1. HistoryInv => EventsDetermineRecord
  BY DEF HistoryInv, EventsDetermineRecord
<1>2. QED
  BY <1>1, HistoryTheorem, PTL

-----------------------------------------------------------------------------
(* Ids and contents *)

\* The event that made an assertion tells its id.
IdsInv == \A id \in DOMAIN assertionMap : id = IdTold(history[id][1])

\* Later events leave the first one first, and a new assertion begins with it.
LEMMA NextKeepsIds == TypeOK /\ HistoryInv /\ IdsInv /\ [Next]_vars => IdsInv'
<1> SUFFICES ASSUME TypeOK, HistoryInv, IdsInv, [Next]_vars, NEW x \in DOMAIN assertionMap'
             PROVE  x = IdTold(history'[x][1])
  BY DEF IdsInv, IdTold
<1>1. ASSUME x \in DOMAIN assertionMap, history'[x] = history[x]
      PROVE  x = IdTold(history'[x][1])
  BY <1>1 DEF IdsInv
<1>2. ASSUME NEW id, NEW e, Printed(id, e)
      PROVE  x = IdTold(history'[x][1])
  <2>1. CASE x # id
    BY <1>1, <1>2, <2>1, PrintedEffect
  <2>2. CASE x = id /\ id \notin DOMAIN assertionMap
    <3>1. history'[x] = <<e>>
      BY <1>2, <2>2, PrintedEffect
    <3>2. id = IdTold(e)
      BY <1>2, <2>2 DEF Printed, Begins, GoesOn
    <3>3. QED
      BY <2>2, <3>1, <3>2
  <2>3. CASE x = id /\ id \in DOMAIN assertionMap
    <3>1. /\ e \in LaterPrints /\ Life(history[id])
          /\ history'[x] = Append(history[id], e)
      BY <1>2, <2>3, PrintedEffect
    <3>2. /\ history[id] \in Seq(Prints) /\ e \in Prints
          /\ 1 \in 1..Len(history[id])
      BY <3>1 DEF Life, Prints
    <3>3. history'[x][1] = history[id][1]
      BY <3>1, <3>2, AppendProperties
    <3>4. QED
      BY <2>3, <3>3 DEF IdsInv
  <2>4. QED
    BY <2>1, <2>2, <2>3
<1>3. QED
  BY <1>1, <1>2, StepPrints

\* Whoever has seen the event of an assertion can compute its id from it.
THEOREM IdTheorem == Spec => []IdsInv
<1>1. Init => IdsInv
  BY DEF Init, IdsInv
<1>2. QED
  BY <1>1, NextKeepsIds, TypeCorrect, HistoryTheorem, PTL DEF Spec

\* What is joined without a separator can be taken apart if the length of the first
\* part is known.
LEMMA JoinedApart ==
    ASSUME NEW i \in Seq(Byte), NEW j \in Seq(Byte), NEW c \in Seq(Byte), NEW d \in Seq(Byte),
           Len(i) = Len(j), i \o c = j \o d
    PROVE  i = j /\ c = d
<1>1. /\ Len(i \o c) = Len(i) + Len(c) /\ Len(j \o d) = Len(j) + Len(d)
      /\ Len(i) \in Nat /\ Len(c) \in Nat /\ Len(d) \in Nat
  OBVIOUS
<1>2. Len(c) = Len(d)
  BY <1>1
<1>3. \A k \in 1..Len(i) : i[k] = j[k]
  <2> TAKE k \in 1..Len(i)
  <2>1. (i \o c)[k] = i[k] /\ (j \o d)[k] = j[k]
    BY ConcatProperties
  <2>2. QED
    BY <2>1
<1>4. \A k \in 1..Len(c) : c[k] = d[k]
  <2> TAKE k \in 1..Len(c)
  <2> DEFINE n == Len(i) + k
  <2>1. /\ n \in 1..Len(i) + Len(c) /\ n \in 1..Len(j) + Len(d)
        /\ ~ (n <= Len(i)) /\ ~ (n <= Len(j))
        /\ n - Len(i) = k /\ n - Len(j) = k
    BY <1>1, <1>2
  <2> HIDE DEF n
  <2>2. (i \o c)[n] = c[k]
    <3>1. (i \o c)[n] = IF n <= Len(i) THEN i[n] ELSE c[n - Len(i)]
      BY <2>1, ConcatProperties, Zenon
    <3>2. QED
      BY <2>1, <3>1
  <2>3. (j \o d)[n] = d[k]
    <3>1. (j \o d)[n] = IF n <= Len(j) THEN j[n] ELSE d[n - Len(j)]
      BY <2>1, ConcatProperties, Zenon
    <3>2. QED
      BY <2>1, <3>1
  <2>4. QED
    BY <2>2, <2>3
<1>5. i = j
  BY <1>3, SeqEqual
<1>6. c = d
  BY <1>2, <1>4, SeqEqual
<1>7. QED
  BY <1>5, <1>6

\* What the contract's ids lack: identifiers of one length.
FixedLength == \A i, j \in Identifiers : Len(i) = Len(j)

\* If identifiers had one length, an id would name one identifier and one claim, as
\* the documentation says: nothing but the missing separator is in the way.
THEOREM ContentTheorem == Spec => [](FixedLength => IdNamesContent)
<1>1. HistoryInv /\ IdsInv => (FixedLength => IdNamesContent)
  <2> SUFFICES ASSUME HistoryInv, IdsInv, FixedLength,
                      NEW id \in DOMAIN assertionMap, NEW i \in Identifiers, NEW c \in Claims,
                      DeriveAssertionId(i, c, assertionMap[id].bondSats,
                                        assertionMap[id].liveness,
                                        assertionMap[id].assertedAtBlock) = id
               PROVE  i = history[id][1].identifier /\ c = history[id][1].claim
    BY DEF IdNamesContent
  <2> DEFINE e == history[id][1]
  <2>1. e \in AssertedPrints /\ id = IdTold(e)
    BY DEF HistoryInv, Life, IdsInv
  <2>2. /\ e.identifier \in Identifiers /\ e.claim \in Claims
        /\ i \in Seq(Byte) /\ c \in Seq(Byte)
        /\ e.identifier \in Seq(Byte) /\ e.claim \in Seq(Byte)
    BY <2>1, InputAssumption DEF AssertedPrints
  <2> HIDE DEF e
  <2>3. i \o c = e.identifier \o e.claim
    <3> DEFINE p == <<i \o c, assertionMap[id].bondSats, assertionMap[id].liveness,
                      assertionMap[id].assertedAtBlock>>
               q == <<e.identifier \o e.claim, e.bondSats, e.liveness, e.at>>
    <3>1. Sha256(p) = Sha256(q)
      BY <2>1 DEF IdTold, DeriveAssertionId
    <3>2. p = q
      <4> HIDE DEF p, q
      <4>1. Sha256(p).sha256 = p /\ Sha256(q).sha256 = q
        BY DEF Sha256
      <4>2. QED
        BY <3>1, <4>1
    <3>3. p[1] = i \o c /\ q[1] = e.identifier \o e.claim
      OBVIOUS
    <3> HIDE DEF p, q
    <3>4. QED
      BY <3>2, <3>3
  <2>4. Len(i) = Len(e.identifier)
    BY <2>2 DEF FixedLength
  <2>5. i = e.identifier /\ c = e.claim
    BY <2>2, <2>3, <2>4, JoinedApart
  <2>6. QED
    BY <2>5 DEF e
<1>2. QED
  BY <1>1, HistoryTheorem, IdTheorem, PTL

-----------------------------------------------------------------------------
(* The printed events implement the feed *)

\* What the feed has of an assertion's events, and of all.
Told(h) == [k \in DOMAIN h |-> Event(h[k].event, h[k].by, h[k].at)]
Feed    == [id \in DOMAIN history |-> Told(history[id])]

Entries == [event : {"asserted", "disputed", "settled", "rejected", "unresolved"},
            by : Principals, at : Nat]

\* The feed has an entry for every event.
LEMMA ToldShape ==
    ASSUME NEW h \in Seq(Prints)
    PROVE  /\ Told(h) \in Seq(Entries)
           /\ Len(Told(h)) = Len(h)
           /\ \A k \in 1..Len(h) : Told(h)[k] = Event(h[k].event, h[k].by, h[k].at)
<1>1. DOMAIN h = 1..Len(h) /\ Len(h) \in Nat
  BY LenProperties
<1>2. \A k \in 1..Len(h) : h[k] \in Prints
  BY ElementOfSeq
<1>3. \A p \in Prints : Event(p.event, p.by, p.at) \in Entries
  BY DEF Prints, AssertedPrints, LaterPrints, Event, Entries
<1>4. Told(h) \in [1..Len(h) -> Entries]
  BY <1>1, <1>2, <1>3 DEF Told
<1>5. QED
  BY <1>1, <1>4 DEF Told

\* One more event is one more entry.
LEMMA ToldAppend ==
    ASSUME NEW h \in Seq(Prints), NEW e \in Prints
    PROVE  Told(Append(h, e)) = Append(Told(h), Event(e.event, e.by, e.at))
<1> DEFINE g == Append(h, e)
           x == Event(e.event, e.by, e.at)
           s == Append(Told(h), x)
<1>1. /\ g \in Seq(Prints)
      /\ Len(g) = Len(h) + 1
      /\ \A k \in 1..Len(h) : g[k] = h[k]
      /\ g[Len(h) + 1] = e
      /\ Len(h) \in Nat
  BY AppendProperties
<1>2. x \in Entries
  BY DEF Prints, AssertedPrints, LaterPrints, Event, Entries
<1>3. /\ s \in Seq(Entries)
      /\ Len(s) = Len(h) + 1
      /\ \A k \in 1..Len(h) : s[k] = Told(h)[k]
      /\ s[Len(h) + 1] = x
  BY <1>1, <1>2, ToldShape, AppendProperties
<1> HIDE DEF g, x, s
<1>4. /\ Told(g) \in Seq(Entries)
      /\ Len(Told(g)) = Len(g)
      /\ \A k \in 1..Len(g) : Told(g)[k] = Event(g[k].event, g[k].by, g[k].at)
  BY <1>1, ToldShape
<1>5. ASSUME NEW k \in 1..Len(s) PROVE Told(g)[k] = s[k]
  <2>1. CASE k \in 1..Len(h)
    BY <1>1, <1>3, <1>4, <2>1, ToldShape
  <2>2. CASE k = Len(h) + 1
    BY <1>1, <1>3, <1>4, <2>2 DEF x
  <2>3. QED
    BY <1>1, <1>3, <2>1, <2>2
<1>6. Told(g) = s
  BY <1>1, <1>3, <1>4, <1>5, SeqEqual
<1>7. QED
  BY <1>6 DEF g, s, x

\* Every step of the contract is a step of the feed or leaves it alone.
LEMMA StepFeeds ==
    ASSUME TypeOK, HistoryInv, [Next]_vars
    PROVE  [FeedOf!Next]_Feed
<1>1. /\ height \in InitHeight..MaxHeight
      /\ DOMAIN history = DOMAIN assertionMap
      /\ DOMAIN assertionMap \subseteq AssertionIds
  BY DEF TypeOK
<1>2. CASE history' = history
  BY <1>2 DEF Feed, Told
<1>3. ASSUME NEW id, NEW e, Printed(id, e)
      PROVE  FeedOf!Next
  <2>1. /\ e \in Prints /\ e.by \in Principals /\ e.at \in InitHeight..MaxHeight
        /\ id \in AssertionIds /\ e.at = height
    BY <1>1, <1>3 DEF Printed, Begins, GoesOn, Prints, AssertedPrints, LaterPrints
  <2>2. /\ DOMAIN history' = DOMAIN history \cup {id}
        /\ \A x \in DOMAIN history \ {id} : history'[x] = history[x]
    BY <1>3 DEF Printed, PrintEvent, MapSet
  <2>3. /\ Feed' = [x \in DOMAIN history \cup {id} |-> Told(history'[x])]
        /\ DOMAIN Feed = DOMAIN history
        /\ \A x \in DOMAIN history : Feed[x] = Told(history[x])
    BY <2>2 DEF Feed, Told
  <2>4. CASE id \notin DOMAIN history
    <3>1. e \in AssertedPrints /\ history'[id] = <<e>>
      BY <1>1, <1>3, <2>4, PrintedEffect
    <3>2. Told(<<e>>) = <<Event("asserted", e.by, e.at)>>
      BY <3>1 DEF Told, AssertedPrints
    <3>3. Feed' = [x \in DOMAIN Feed \cup {id} |->
                      IF x = id THEN <<Event("asserted", e.by, e.at)>> ELSE Feed[x]]
      BY <2>2, <2>3, <3>1, <3>2
    <3>4. FeedOf!Start(id, e.by, e.at)
      BY <2>3, <2>4, <3>3 DEF FeedOf!Start, FeedOf!Entry, Event, Feed, Told
    <3>5. QED
      BY <2>1, <3>4 DEF FeedOf!Next
  <2>5. CASE id \in DOMAIN history
    <3> DEFINE h == history[id]
    <3>1. /\ e \in LaterPrints /\ Life(h) /\ history'[id] = Append(h, e)
          /\ Life(Append(h, e))
      BY <1>1, <1>3, <2>5, PrintedEffect
    <3>2. h \in Seq(Prints) /\ Len(h) \in 1..Len(h)
      <4>1. \A n \in 1..3 : n \in 1..n
        OBVIOUS
      <4>2. QED
        BY <3>1, <4>1 DEF Life
    <3>3. Told(Append(h, e)) = Append(Told(h), Event(e.event, e.by, e.at))
      BY <2>1, <3>2, ToldAppend
    <3>4. Feed' = [Feed EXCEPT ![id] = Append(@, Event(e.event, e.by, e.at))]
      BY <2>2, <2>3, <2>5, <3>1, <3>3
    <3>5. Feed[id][Len(Feed[id])] = Event(h[Len(h)].event, h[Len(h)].by, h[Len(h)].at)
      <4>1. Feed[id] = Told(h) /\ Len(h) \in 1..Len(h)
        BY <2>3, <2>5, <3>2, Zenon
      <4>2. Len(Told(h)) = Len(h)
            /\ Told(h)[Len(h)] = Event(h[Len(h)].event, h[Len(h)].by, h[Len(h)].at)
        BY <3>2, <4>1, ToldShape
      <4>3. QED
        BY <4>1, <4>2
    <3>6. e.at >= h[Len(h)].at
      <4>1. id \in DOMAIN assertionMap /\ Len(h) \in 1..Len(h)
        BY <1>1, <2>5, <3>2, Zenon
      <4>2. h[Len(h)].at \in InitHeight..height
        BY <4>1 DEF HistoryInv
      <4>3. QED
        BY <1>1, <2>1, <4>2, EnvironmentAssumption
    <3>7. e.event \in FeedOf!Successors(h[Len(h)].event)
      <4>1. /\ Len(Append(h, e)) = Len(h) + 1
            /\ Append(h, e)[Len(h) + 1] = e
            /\ \A k \in 1..Len(h) : Append(h, e)[k] = h[k]
        BY <2>1, <3>2, AppendProperties
      <4>2. h[1].event = "asserted"
        BY <3>1 DEF Life, AssertedPrints
      <4>3. Len(h) = 1 \/ Len(h) = 2
        BY <3>1, <3>2, <4>1 DEF Life
      <4>4. CASE Len(h) = 1
        <5>1. e.event \in {"disputed", "settled"}
          BY <3>1, <4>1, <4>4 DEF Life
        <5>2. QED
          BY <4>2, <4>4, <5>1 DEF FeedOf!Successors
      <4>5. CASE Len(h) = 2
        <5>1. e.event \in Outcome /\ h[2].event = "disputed"
          BY <3>1, <4>1, <4>5 DEF Life
        <5>2. QED
          BY <4>5, <5>1 DEF FeedOf!Successors, Outcome
      <4>6. QED
        BY <4>3, <4>4, <4>5
    <3>8. FeedOf!Continue(id, e.by, e.at)
      <4> DEFINE last == Feed[id][Len(Feed[id])]
      <4>1. e.at >= last.at /\ e.event \in FeedOf!Successors(last.event)
        BY <3>5, <3>6, <3>7 DEF Event
      <4>2. Feed' = [Feed EXCEPT ![id] = Append(@, FeedOf!Entry(e.event, e.by, e.at))]
        BY <3>4 DEF FeedOf!Entry, Event
      <4>3. \E name \in FeedOf!Successors(last.event) :
               Feed' = [Feed EXCEPT ![id] = Append(@, FeedOf!Entry(name, e.by, e.at))]
        BY <4>1, <4>2
      <4>4. QED
        BY <4>1, <4>3 DEF FeedOf!Continue, Feed, Told
    <3>9. QED
      BY <2>1, <2>3, <2>5, <3>8 DEF FeedOf!Next, Feed, Told
  <2>6. QED
    BY <2>4, <2>5
<1>4. QED
  BY <1>2, <1>3, StepPrints

\* The contract prints a legal feed: what is proved is the refinement that the
\* run checks on a small instance.
THEOREM FeedTheorem == Spec => ImplementsFeed
<1>1. Init => FeedOf!Init
  BY DEF Init, FeedOf!Init
<1>2. TypeOK /\ HistoryInv /\ [Next]_vars => [FeedOf!Next]_Feed
  BY StepFeeds
<1>3. QED
  BY <1>1, <1>2, TypeCorrect, HistoryTheorem, PTL
  DEF Spec, ImplementsFeed, FeedOf!Spec, Feed, Told

-----------------------------------------------------------------------------
(* The commingled balance as boxes *)

\* What the escrow sees of an assertion, of all of them, and of the ledger.
DealOf(a) == [maker |-> a.asserter, taker |-> a.disputer, stake |-> a.bondSats,
              box |-> Locked(a), paid |-> Favours(a.status)]
AllDeals == [id \in DOMAIN assertionMap |-> DealOf(assertionMap[id])]
Wallets  == [p \in Principals |-> balance[p]]

-----------------------------------------------------------------------------
(* What the status of an assertion says of its deal *)

\* The box and the payee follow from the status, and the taker from the timeline.
LEMMA DealOfStatus ==
    ASSUME NEW a
    PROVE  /\ a.status = STATUS_OPEN =>
                 DealOf(a).box = a.bondSats /\ DealOf(a).paid = "none"
           /\ a.status = STATUS_DISPUTED =>
                 DealOf(a).box = 2 * a.bondSats /\ DealOf(a).paid = "none"
           /\ a.status = STATUS_SETTLED => DealOf(a).box = 0 /\ DealOf(a).paid = "maker"
           /\ a.status = STATUS_REJECTED => DealOf(a).box = 0 /\ DealOf(a).paid = "taker"
           /\ a.status = STATUS_UNRESOLVED => DealOf(a).box = 0 /\ DealOf(a).paid = "both"
  BY DEF DealOf, Locked, Favours, STATUS_OPEN, STATUS_DISPUTED, STATUS_SETTLED,
         STATUS_REJECTED, STATUS_UNRESOLVED

\* The rest of a deal is copied.
LEMMA DealOfParts ==
    ASSUME NEW a
    PROVE  /\ DealOf(a) = [maker |-> a.asserter, taker |-> a.disputer, stake |-> a.bondSats,
                           box |-> DealOf(a).box, paid |-> DealOf(a).paid]
           /\ DealOf(a).maker = a.asserter
           /\ DealOf(a).taker = a.disputer
           /\ DealOf(a).stake = a.bondSats
  BY DEF DealOf

\* A written record is one deal put.
LEMMA DealPut ==
    ASSUME NEW id, NEW a, assertionMap' = MapSet(assertionMap, id, a)
    PROVE  /\ AllDeals' = [d \in DOMAIN AllDeals \cup {id} |->
                              IF d = id THEN DealOf(a) ELSE AllDeals[d]]
           /\ DOMAIN AllDeals = DOMAIN assertionMap
           /\ \A d \in DOMAIN assertionMap : AllDeals[d] = DealOf(assertionMap[d])
  BY DEF AllDeals, DealOf, MapSet, Locked, Favours

-----------------------------------------------------------------------------
(* What a payment does to the wallets *)

\* Money that goes to the contract leaves one wallet.
LEMMA WalletPays ==
    ASSUME TypeOK, NEW p \in Principals, NEW n \in Nat,
           CanTransfer(balance, n, p, Core), balance' = Transfer(balance, n, p, Core)
    PROVE  /\ Wallets[p] >= n
           /\ Wallets' = [Wallets EXCEPT ![p] = @ - n]
  BY PrincipalAssumption DEF TypeOK, CanTransfer, Transfer, Wallets

\* Money that comes from the contract goes into one wallet.
LEMMA WalletReceives ==
    ASSUME TypeOK, NEW p \in Principals, NEW n \in Nat,
           CanTransfer(balance, n, Core, p), balance' = Transfer(balance, n, Core, p)
    PROVE  Wallets' = [Wallets EXCEPT ![p] = @ + n]
  BY PrincipalAssumption DEF TypeOK, CanTransfer, Transfer, Wallets

-----------------------------------------------------------------------------
(* One step of the contract, one step of the escrow *)

\* assert posts a stake.
LEMMA AssertPosts ==
    ASSUME TypeOK, NEW c \in Principals, NEW i \in Identifiers, NEW cl \in Claims,
           NEW b \in Bonds, NEW l \in Livenesses \cup {None}, Assert(c, i, cl, b, l)
    PROVE  EscrowOf!Next
<1> DEFINE resolved == ResolvedLiveness(l)
           id       == DeriveAssertionId(i, cl, b, resolved, height)
           a        == [asserter          |-> c,
                        disputer          |-> None,
                        claimHash         |-> Sha256(cl),
                        bondSats          |-> b,
                        liveness          |-> resolved,
                        status            |-> STATUS_OPEN,
                        assertedAtBlock   |-> height,
                        disputedAtBlock   |-> None,
                        settledAtBlock    |-> None,
                        rejectedAtBlock   |-> None,
                        unresolvedAtBlock |-> None]
<1>1. /\ b \in Nat \ {0}
      /\ CanTransfer(balance, b, c, Core)
      /\ balance' = Transfer(balance, b, c, Core)
  BY ParameterAssumption, InputAssumption DEF Assert, CanAssert
<1>2. id \in AssertionIds
  <2>1. resolved \in Livenesses \cup {DEFAULT_LIVENESS}
    BY DEF Assert, CanAssert, ResolvedLiveness
  <2>2. \A x \in Livenesses \cup {DEFAULT_LIVENESS} :
           DeriveAssertionId(i, cl, b, x, height) \in AssertionIds
    BY DEF AssertionIds, TypeOK
  <2>3. QED
    BY <2>1, <2>2
<1>3. id \notin DOMAIN assertionMap /\ assertionMap' = MapSet(assertionMap, id, a)
  BY DEF Assert, CanAssert, ResolvedLiveness, Exists
<1>4. a.asserter = c /\ a.disputer = None /\ a.bondSats = b /\ a.status = STATUS_OPEN
  OBVIOUS
<1> HIDE DEF a, id, resolved
<1>5. DealOf(a) = [maker |-> c, taker |-> None, stake |-> b, box |-> b, paid |-> "none"]
  BY <1>4, DealOfStatus, DealOfParts
<1>6. /\ id \notin DOMAIN AllDeals
      /\ AllDeals' = [d \in DOMAIN AllDeals \cup {id} |->
                         IF d = id THEN DealOf(a) ELSE AllDeals[d]]
  BY <1>3, DealPut
<1>7. Wallets[c] >= b /\ Wallets' = [Wallets EXCEPT ![c] = @ - b]
  BY <1>1, WalletPays
<1>8. EscrowOf!Post(c, id, b)
  <2>1. b > 0
    BY <1>1
  <2>2. AllDeals' = [d \in DOMAIN AllDeals \cup {id} |->
                        IF d = id THEN [maker |-> c, taker |-> None, stake |-> b, box |-> b,
                                        paid |-> "none"]
                        ELSE AllDeals[d]]
    BY <1>5, <1>6
  <2>3. QED
    BY <1>6, <1>7, <2>1, <2>2, Zenon
    DEF EscrowOf!Post, EscrowOf!Withdraw, EscrowOf!Put, AllDeals, DealOf, Wallets
<1>9. QED
  BY <1>2, <1>8 DEF EscrowOf!Next

\* The two ways a deal changes.
Matched(d, c) == [d EXCEPT !.taker = c, !.box = 2 * d.stake]
Paid(d, role) == [d EXCEPT !.box = 0, !.paid = role]

Parts == {"maker", "taker", "stake", "box", "paid"}

\* A deal has its five parts, changed or not.
LEMMA DealShape ==
    ASSUME NEW a, NEW c, NEW role
    PROVE  /\ DealOf(a) = [f \in Parts |-> DealOf(a)[f]]
           /\ Matched(DealOf(a), c) = [f \in Parts |-> Matched(DealOf(a), c)[f]]
           /\ Paid(DealOf(a), role) = [f \in Parts |-> Paid(DealOf(a), role)[f]]
<1>1. DealOf(a) = [f \in Parts |-> DealOf(a)[f]]
  BY DEF DealOf, Parts
<1>2. QED
  BY <1>1 DEF Matched, Paid

\* A dispute changes the deal by its taker and its box.
LEMMA DisputedDeal ==
    ASSUME NEW a, NEW b, NEW c,
           a.status = STATUS_OPEN, b.status = STATUS_DISPUTED, b.disputer = c,
           b.asserter = a.asserter, b.bondSats = a.bondSats
    PROVE  DealOf(b) = Matched(DealOf(a), c)
<1> DEFINE d == DealOf(a)
           e == DealOf(b)
           m == Matched(d, c)
<1>1. /\ e.maker = d.maker /\ e.taker = c /\ e.stake = d.stake
      /\ e.box = 2 * d.stake /\ e.paid = d.paid
  BY DealOfStatus, DealOfParts
<1>2. DOMAIN d = Parts
  BY DealShape
<1> HIDE DEF d, e
<1>3. /\ m.maker = d.maker /\ m.taker = c /\ m.stake = d.stake
      /\ m.box = 2 * d.stake /\ m.paid = d.paid
  BY <1>2 DEF Matched, Parts
<1> HIDE DEF m
<1>4. \A f \in Parts : e[f] = m[f]
  BY <1>1, <1>3 DEF Parts
<1>5. QED
  BY <1>4, DealShape DEF d, e, m

\* A payout changes the deal by its box and its payee.
LEMMA PaidDeal ==
    ASSUME NEW a, NEW b, NEW role,
           a.status \in {STATUS_OPEN, STATUS_DISPUTED},
           \/ b.status = STATUS_SETTLED /\ role = "maker"
           \/ b.status = STATUS_REJECTED /\ role = "taker"
           \/ b.status = STATUS_UNRESOLVED /\ role = "both",
           b.disputer = a.disputer, b.asserter = a.asserter, b.bondSats = a.bondSats
    PROVE  DealOf(b) = Paid(DealOf(a), role)
<1> DEFINE d == DealOf(a)
           e == DealOf(b)
           m == Paid(d, role)
<1>1. /\ e.maker = d.maker /\ e.taker = d.taker /\ e.stake = d.stake
      /\ e.box = 0 /\ e.paid = role
  BY DealOfStatus, DealOfParts
<1>2. DOMAIN d = Parts
  BY DealShape
<1> HIDE DEF d, e
<1>3. /\ m.maker = d.maker /\ m.taker = d.taker /\ m.stake = d.stake
      /\ m.box = 0 /\ m.paid = role
  BY <1>2 DEF Paid, Parts
<1> HIDE DEF m
<1>4. \A f \in Parts : e[f] = m[f]
  BY <1>1, <1>3 DEF Parts
<1>5. QED
  BY <1>4, DealShape DEF d, e, m

\* dispute matches the stake.
LEMMA DisputeMatches ==
    ASSUME TypeOK, WindowRespected,
           NEW c \in Principals, NEW id \in DOMAIN assertionMap, Dispute(c, id)
    PROVE  EscrowOf!Next
<1> DEFINE old == assertionMap[id]
           new == [old EXCEPT !.disputer = c, !.status = STATUS_DISPUTED,
                              !.disputedAtBlock = height]
<1>1. /\ old \in Assertions /\ old.bondSats \in Nat
      /\ old.status = STATUS_OPEN /\ old.disputer = None
  BY DEF Dispute, CanDispute, TypeOK, WindowRespected, Timeline, Assertions
<1>2. /\ assertionMap' = MapSet(assertionMap, id, new)
      /\ CanTransfer(balance, old.bondSats, c, Core)
      /\ balance' = Transfer(balance, old.bondSats, c, Core)
  BY DEF Dispute, CanDispute
<1>3. /\ new.asserter = old.asserter /\ new.disputer = c
      /\ new.bondSats = old.bondSats /\ new.status = STATUS_DISPUTED
  BY <1>1 DEF Assertions
<1>4. /\ AllDeals' = [x \in DOMAIN AllDeals \cup {id} |->
                         IF x = id THEN DealOf(new) ELSE AllDeals[x]]
      /\ id \in DOMAIN AllDeals
      /\ AllDeals[id] = DealOf(old)
  BY <1>2, DealPut, SMTT(20)
<1> HIDE DEF old, new
<1>5. DealOf(new) = Matched(AllDeals[id], c)
  BY <1>1, <1>3, <1>4, DisputedDeal
<1>6. /\ AllDeals[id].taker = None
      /\ AllDeals[id].stake = old.bondSats
      /\ AllDeals[id].box = AllDeals[id].stake
  BY <1>1, <1>4, DealOfStatus, DealOfParts
<1>7. /\ Wallets[c] >= AllDeals[id].stake
      /\ Wallets' = [Wallets EXCEPT ![c] = @ - AllDeals[id].stake]
  BY <1>1, <1>2, <1>6, WalletPays
<1>8. AllDeals' = [x \in DOMAIN AllDeals \cup {id} |->
                      IF x = id THEN Matched(AllDeals[id], c) ELSE AllDeals[x]]
  BY <1>4, <1>5
<1>9. EscrowOf!Match(c, id)
  BY <1>6, <1>7, <1>8, Zenon
  DEF EscrowOf!Match, EscrowOf!Withdraw, EscrowOf!Put, Matched, AllDeals, DealOf, Wallets
<1>10. QED
  BY <1>4, <1>9, Zenon DEF EscrowOf!Next, AllDeals, DealOf

\* The deal of id, which held what its record old locks, paid to role.
PaidOut(id, old, role) ==
    /\ id \in DOMAIN AllDeals
    /\ AllDeals' = [x \in DOMAIN AllDeals \cup {id} |->
                       IF x = id THEN Paid(AllDeals[id], role) ELSE AllDeals[x]]
    /\ AllDeals[id].maker = old.asserter
    /\ AllDeals[id].taker = old.disputer
    /\ AllDeals[id].stake = old.bondSats
    /\ AllDeals[id].box = IF old.status = STATUS_OPEN THEN old.bondSats
                                                      ELSE 2 * old.bondSats

\* What settle and the three outcomes of resolve write, as far as money goes.
LEMMA PayoutWrites ==
    ASSUME NEW id \in DOMAIN assertionMap, NEW old, old = assertionMap[id],
           NEW new, assertionMap' = MapSet(assertionMap, id, new),
           NEW role,
           old.status \in {STATUS_OPEN, STATUS_DISPUTED},
           \/ new.status = STATUS_SETTLED /\ role = "maker"
           \/ new.status = STATUS_REJECTED /\ role = "taker"
           \/ new.status = STATUS_UNRESOLVED /\ role = "both",
           new.disputer = old.disputer, new.asserter = old.asserter,
           new.bondSats = old.bondSats
    PROVE  PaidOut(id, old, role)
<1>1. /\ AllDeals' = [x \in DOMAIN AllDeals \cup {id} |->
                         IF x = id THEN DealOf(new) ELSE AllDeals[x]]
      /\ id \in DOMAIN AllDeals
      /\ AllDeals[id] = DealOf(old)
  <2>1. /\ AllDeals' = [x \in DOMAIN AllDeals \cup {id} |->
                           IF x = id THEN DealOf(new) ELSE AllDeals[x]]
        /\ DOMAIN AllDeals = DOMAIN assertionMap
        /\ \A x \in DOMAIN assertionMap : AllDeals[x] = DealOf(assertionMap[x])
    BY DealPut, Zenon
  <2>2. QED
    BY <2>1, Zenon
<1>2. DealOf(new) = Paid(AllDeals[id], role)
  BY <1>1, PaidDeal
<1>3. AllDeals[id].box = IF old.status = STATUS_OPEN THEN old.bondSats ELSE 2 * old.bondSats
  BY <1>1, DealOfStatus
<1>4. QED
  BY <1>1, <1>2, <1>3, DealOfParts DEF PaidOut

\* settle returns an unmatched stake.
LEMMA SettleReturns ==
    ASSUME TypeOK, WindowRespected,
           NEW c \in Principals, NEW id \in DOMAIN assertionMap, Settle(c, id)
    PROVE  EscrowOf!Next
<1> DEFINE old == assertionMap[id]
           new == [old EXCEPT !.status = STATUS_SETTLED, !.settledAtBlock = height]
<1>1. /\ old \in Assertions /\ old.bondSats \in Nat /\ old.asserter \in Principals
      /\ old.status = STATUS_OPEN /\ old.disputer = None
  BY DEF Settle, CanSettle, TypeOK, WindowRespected, Timeline, Assertions
<1>2. /\ assertionMap' = MapSet(assertionMap, id, new)
      /\ CanTransfer(balance, old.bondSats, Core, old.asserter)
      /\ balance' = Transfer(balance, old.bondSats, Core, old.asserter)
  BY DEF Settle, CanSettle
<1>3. /\ new.asserter = old.asserter /\ new.disputer = old.disputer
      /\ new.bondSats = old.bondSats /\ new.status = STATUS_SETTLED
  BY <1>1 DEF Assertions
<1> HIDE DEF new
<1>4. /\ id \in DOMAIN AllDeals
      /\ AllDeals' = [x \in DOMAIN AllDeals \cup {id} |->
                         IF x = id THEN Paid(AllDeals[id], "maker") ELSE AllDeals[x]]
      /\ AllDeals[id].maker = old.asserter
      /\ AllDeals[id].taker = old.disputer
      /\ AllDeals[id].stake = old.bondSats
      /\ AllDeals[id].box = IF old.status = STATUS_OPEN THEN old.bondSats
                                                        ELSE 2 * old.bondSats
  <2>1. PaidOut(id, old, "maker")
    BY <1>1, <1>2, <1>3, PayoutWrites
  <2>2. QED
    BY <2>1 DEF PaidOut
<1>5. Wallets' = [Wallets EXCEPT ![AllDeals[id].maker] = @ + AllDeals[id].box]
  BY <1>1, <1>2, <1>4, WalletReceives
<1>6. AllDeals[id].box = AllDeals[id].stake /\ AllDeals[id].taker = None
  BY <1>1, <1>4
<1>7. EscrowOf!Return(id)
  BY <1>4, <1>5, <1>6, Zenon
  DEF EscrowOf!Return, EscrowOf!Put, Paid, AllDeals, DealOf, Wallets
<1>8. QED
  BY <1>4, <1>7, Zenon DEF EscrowOf!Next, AllDeals, DealOf

\* An arbiter's finding for one party awards it the box.
LEMMA ResolveAwards ==
    ASSUME TypeOK, NEW c \in Principals, NEW id \in DOMAIN assertionMap,
           ResolveSettled(c, id) \/ ResolveRejected(c, id)
    PROVE  EscrowOf!Next
<1> DEFINE old == assertionMap[id]
<1>1. /\ old \in Assertions /\ 2 * old.bondSats \in Nat /\ old.asserter \in Principals
      /\ old.status = STATUS_DISPUTED /\ old.disputer # None /\ old.disputer \in Principals
  BY DEF ResolveSettled, ResolveRejected, CanResolve, TypeOK, Assertions
<1>2. ASSUME NEW role \in {"maker", "taker"}, NEW new, NEW winner \in Principals,
             winner = IF role = "maker" THEN old.asserter ELSE old.disputer,
             assertionMap' = MapSet(assertionMap, id, new),
             PayBothBonds(id, winner),
             new.status = IF role = "maker" THEN STATUS_SETTLED ELSE STATUS_REJECTED,
             new.disputer = old.disputer, new.asserter = old.asserter,
             new.bondSats = old.bondSats
      PROVE  EscrowOf!Next
  <2>1. STATUS_DISPUTED # STATUS_OPEN
    BY DEF STATUS_OPEN, STATUS_DISPUTED
  <2>2. /\ id \in DOMAIN AllDeals
        /\ AllDeals' = [x \in DOMAIN AllDeals \cup {id} |->
                           IF x = id THEN Paid(AllDeals[id], role) ELSE AllDeals[x]]
        /\ AllDeals[id].maker = old.asserter
        /\ AllDeals[id].taker = old.disputer
        /\ AllDeals[id].stake = old.bondSats
        /\ AllDeals[id].box = 2 * old.bondSats
    <3>1. PaidOut(id, old, role)
      BY <1>1, <1>2, PayoutWrites
    <3>2. QED
      BY <1>1, <2>1, <3>1 DEF PaidOut
  <2>3. AllDeals[id][role] = winner
    BY <1>2, <2>2
  <2>4. /\ CanTransfer(balance, 2 * old.bondSats, Core, winner)
        /\ balance' = Transfer(balance, 2 * old.bondSats, Core, winner)
    BY <1>2 DEF PayBothBonds
  <2>5. Wallets' = [Wallets EXCEPT ![AllDeals[id][role]] = @ + AllDeals[id].box]
    BY <1>1, <2>2, <2>3, <2>4, WalletReceives
  <2>6. AllDeals[id].taker # None /\ AllDeals[id].box = 2 * AllDeals[id].stake
    BY <1>1, <2>2
  <2>7. EscrowOf!Award(id)
    BY <1>2, <2>2, <2>5, <2>6, Zenon
    DEF EscrowOf!Award, EscrowOf!Put, Paid, AllDeals, DealOf, Wallets
  <2>8. QED
    BY <2>2, <2>7, Zenon DEF EscrowOf!Next, AllDeals, DealOf
<1>3. CASE ResolveSettled(c, id)
  <2> DEFINE new == [old EXCEPT !.status = STATUS_SETTLED, !.settledAtBlock = height]
  <2>1. /\ new.asserter = old.asserter /\ new.disputer = old.disputer
        /\ new.bondSats = old.bondSats /\ new.status = STATUS_SETTLED
    BY <1>1 DEF Assertions
  <2>2. /\ assertionMap' = MapSet(assertionMap, id, new)
        /\ PayBothBonds(id, old.asserter)
    BY <1>3 DEF ResolveSettled
  <2> HIDE DEF new
  <2>3. QED
    BY <1>1, <1>2, <2>1, <2>2
<1>4. CASE ResolveRejected(c, id)
  <2> DEFINE new == [old EXCEPT !.status = STATUS_REJECTED, !.rejectedAtBlock = height]
  <2>1. /\ new.asserter = old.asserter /\ new.disputer = old.disputer
        /\ new.bondSats = old.bondSats /\ new.status = STATUS_REJECTED
    BY <1>1 DEF Assertions
  <2>2. /\ assertionMap' = MapSet(assertionMap, id, new)
        /\ PayBothBonds(id, old.disputer)
    BY <1>4 DEF ResolveRejected
  <2> HIDE DEF new
  <2>3. QED
    BY <1>1, <1>2, <2>1, <2>2
<1>5. QED
  BY <1>3, <1>4

\* An arbiter who cannot tell splits the box, also when both halves go to one.
LEMMA ResolveSplits ==
    ASSUME TypeOK, NEW c \in Principals, NEW id \in DOMAIN assertionMap,
           ResolveUnresolved(c, id)
    PROVE  EscrowOf!Next
<1> DEFINE old == assertionMap[id]
           new == [old EXCEPT !.status = STATUS_UNRESOLVED, !.unresolvedAtBlock = height]
           n   == old.bondSats
           m   == old.asserter
           t   == old.disputer
           mid == Transfer(balance, n, Core, m)
<1>1. /\ old \in Assertions /\ n \in Nat /\ m \in Principals
      /\ old.status = STATUS_DISPUTED /\ t # None /\ t \in Principals
  BY DEF ResolveUnresolved, CanResolve, TypeOK, Assertions
<1>2. /\ assertionMap' = MapSet(assertionMap, id, new)
      /\ CanTransfer(balance, n, Core, m)
      /\ CanTransfer(mid, n, Core, t)
      /\ balance' = Transfer(mid, n, Core, t)
  BY DEF ResolveUnresolved
<1>3. /\ new.asserter = m /\ new.disputer = t
      /\ new.bondSats = n /\ new.status = STATUS_UNRESOLVED
  BY <1>1 DEF Assertions
<1>4. /\ balance \in [Principals \cup {Core} -> Nat]
      /\ mid \in [Principals \cup {Core} -> Nat]
      /\ \A p \in Principals : mid[p] = balance[p] + (IF p = m THEN n ELSE 0)
  BY <1>1, <1>2, PrincipalAssumption DEF TypeOK, CanTransfer, Transfer
<1> HIDE DEF new, mid
<1>5. \A p \in Principals : balance'[p] = mid[p] + (IF p = t THEN n ELSE 0)
  BY <1>1, <1>2, <1>4, PrincipalAssumption DEF CanTransfer, Transfer
<1>6. /\ id \in DOMAIN AllDeals
      /\ AllDeals' = [x \in DOMAIN AllDeals \cup {id} |->
                         IF x = id THEN Paid(AllDeals[id], "both") ELSE AllDeals[x]]
      /\ AllDeals[id].maker = m
      /\ AllDeals[id].taker = t
      /\ AllDeals[id].stake = n
      /\ AllDeals[id].box = 2 * n
  <2>1. PaidOut(id, old, "both")
    BY <1>1, <1>2, <1>3, PayoutWrites
  <2>2. STATUS_DISPUTED # STATUS_OPEN
    BY DEF STATUS_OPEN, STATUS_DISPUTED
  <2>3. QED
    BY <1>1, <2>1, <2>2 DEF PaidOut
<1>7. Wallets' = [p \in Principals |->
                     Wallets[p] + (IF p = AllDeals[id].maker THEN AllDeals[id].stake ELSE 0)
                                + (IF p = AllDeals[id].taker THEN AllDeals[id].stake ELSE 0)]
  BY <1>1, <1>4, <1>5, <1>6 DEF Wallets
<1>8. AllDeals[id].taker # None /\ AllDeals[id].box = 2 * AllDeals[id].stake
  BY <1>1, <1>6
<1>9. EscrowOf!Split(id)
  BY <1>6, <1>7, <1>8, Zenon
  DEF EscrowOf!Split, EscrowOf!Put, Paid, AllDeals, DealOf, Wallets
<1>10. QED
  BY <1>6, <1>9, Zenon DEF EscrowOf!Next, AllDeals, DealOf

\* A holder's own transfer is a payment from its own wallet, to another one or
\* to the contract, which owes nothing for it.
LEMMA TokenPays ==
    ASSUME TypeOK, NEW s \in Principals, NEW r \in Principals \cup {Core},
           NEW n \in Amounts, TokenTransfer(s, r, n)
    PROVE  EscrowOf!Next
<1>1. /\ n \in Nat /\ CanTransfer(balance, n, s, r)
      /\ balance' = Transfer(balance, n, s, r)
      /\ assertionMap' = assertionMap
  BY InputAssumption DEF TokenTransfer
<1>2. AllDeals' = AllDeals
  BY <1>1 DEF AllDeals, DealOf, Locked, Favours
<1>3. CASE r = Core
  <2>1. Wallets[s] >= n /\ Wallets' = [Wallets EXCEPT ![s] = @ - n]
    BY <1>1, <1>3, WalletPays
  <2>2. EscrowOf!PayOut(s, n)
    BY <1>2, <2>1, Zenon DEF EscrowOf!PayOut, EscrowOf!Withdraw, AllDeals, DealOf, Wallets
  <2>3. QED
    BY <2>2, Zenon DEF EscrowOf!Next
<1>4. CASE r \in Principals
  <2>1. Wallets[s] >= n /\ Wallets' = [Wallets EXCEPT ![s] = @ - n, ![r] = @ + n]
    BY <1>1, <1>4 DEF TypeOK, CanTransfer, Transfer, Wallets
  <2>2. EscrowOf!Pay(s, r, n)
    BY <1>2, <2>1, Zenon DEF EscrowOf!Pay, AllDeals, DealOf, Wallets
  <2>3. QED
    BY <1>4, <2>2, Zenon DEF EscrowOf!Next
<1>5. QED
  BY <1>3, <1>4

\* Every step of the contract is a step of the escrow or leaves it alone.
LEMMA StepEscrows ==
    ASSUME TypeOK, WindowRespected, [Next]_vars
    PROVE  [EscrowOf!Next]_<<Wallets, AllDeals>>
<1>1. ASSUME balance' = balance, assertionMap' = assertionMap
      PROVE  UNCHANGED <<Wallets, AllDeals>>
  BY <1>1 DEF Wallets, AllDeals, DealOf, Locked, Favours
<1>2. ASSUME NEW c \in Principals, NEW p \in Candidates,
             AddArbiter(c, p) \/ RemoveArbiter(c, p)
      PROVE  UNCHANGED <<Wallets, AllDeals>>
  BY <1>1, <1>2 DEF AddArbiter, RemoveArbiter
<1>3. CASE MineBlock
  BY <1>1, <1>3 DEF MineBlock
<1>4. CASE UNCHANGED vars
  BY <1>1, <1>4 DEF vars
<1>5. ASSUME NEW c \in Principals, NEW id \in DOMAIN assertionMap, Resolve(c, id)
      PROVE  EscrowOf!Next
  BY <1>5, ResolveAwards, ResolveSplits DEF Resolve
<1>6. QED
  BY <1>2, <1>3, <1>4, <1>5, AssertPosts, DisputeMatches, SettleReturns, TokenPays DEF Next

\* Settle and resolve pay what the final status promises, to whom it names, out
\* of the bonds of that very assertion; no other call touches a wallet but its
\* caller's.  What is proved is the refinement the run checks on an instance.
THEOREM EscrowTheorem == Spec => ImplementsEscrow
<1>1. Init => EscrowOf!Init
  <2>1. ASSUME Init PROVE Wallets \in [Principals -> Nat]
    BY <2>1, PrincipalAssumption, EnvironmentAssumption DEF Init, Wallets
  <2>2. ASSUME Init PROVE AllDeals = [d \in {} |-> None]
    BY <2>2 DEF Init, AllDeals
  <2>3. QED
    BY <2>1, <2>2, Zenon DEF EscrowOf!Init, Wallets, AllDeals, DealOf
<1>2. TypeOK /\ WindowRespected /\ [Next]_vars => [EscrowOf!Next]_<<Wallets, AllDeals>>
  BY StepEscrows
<1>3. QED
  BY <1>1, <1>2, TypeCorrect, WindowTheorem, PTL
  DEF Spec, ImplementsEscrow, EscrowOf!Spec, EscrowOf!vars, Wallets, AllDeals, DealOf

=============================================================================
