------------------------------- MODULE Escrow -------------------------------
(***************************************************************************)
(* What the oracle promises about money, with no pool: every deal keeps    *)
(* its stakes in a box of its own.  A maker posts a stake; either the      *)
(* stake goes back, or one taker matches it and then the whole box goes to *)
(* one of the two, or half of it to each.  Money never moves from one box  *)
(* to another, and nobody else's wallet is touched.                        *)
(* CooCore, which keeps all stakes in one balance, implements this.        *)
(***************************************************************************)
EXTENDS Integers

CONSTANTS
    Parties, Deals,
    Stakes,        \* the stakes a maker may post
    Payments,      \* the amounts a party may move on its own
    Nobody         \* the taker of a deal that nobody matched

VARIABLES
    wallet,        \* what each party holds
    deal           \* the deals made: maker, taker, stake, the box and who got it

vars == <<wallet, deal>>

Init ==
    /\ wallet \in [Parties -> Nat]
    /\ deal = [d \in {} |-> Nobody]

Put(d, terms) == [e \in DOMAIN deal \cup {d} |-> IF e = d THEN terms ELSE deal[e]]

Withdraw(p, n) ==
    /\ wallet[p] >= n
    /\ wallet' = [wallet EXCEPT ![p] = @ - n]

\* A party opens a deal with a positive stake.
Post(p, d, n) ==
    /\ d \notin DOMAIN deal
    /\ n > 0
    /\ Withdraw(p, n)
    /\ deal' = Put(d, [maker |-> p, taker |-> Nobody, stake |-> n, box |-> n,
                         paid |-> "none"])

\* One taker, once, adds the same stake to the box.
Match(p, d) ==
    /\ deal[d].taker = Nobody
    /\ deal[d].box = deal[d].stake
    /\ Withdraw(p, deal[d].stake)
    /\ deal' = Put(d, [deal[d] EXCEPT !.taker = p, !.box = 2 * deal[d].stake])

\* An unmatched stake goes back to its maker.
Return(d) ==
    /\ deal[d].taker = Nobody
    /\ deal[d].box = deal[d].stake
    /\ wallet' = [wallet EXCEPT ![deal[d].maker] = @ + deal[d].box]
    /\ deal' = Put(d, [deal[d] EXCEPT !.box = 0, !.paid = "maker"])

\* A matched box goes to one of its two parties, the one the deal then names.
Award(d) ==
    /\ deal[d].taker # Nobody
    /\ deal[d].box = 2 * deal[d].stake
    /\ \E role \in {"maker", "taker"} :
          /\ wallet' = [wallet EXCEPT ![deal[d][role]] = @ + deal[d].box]
          /\ deal' = Put(d, [deal[d] EXCEPT !.box = 0, !.paid = role])

\* Each party of a matched box takes one stake back; they may be the same.
Split(d) ==
    /\ deal[d].taker # Nobody
    /\ deal[d].box = 2 * deal[d].stake
    /\ wallet' = [p \in Parties |->
                     wallet[p] + (IF p = deal[d].maker THEN deal[d].stake ELSE 0)
                               + (IF p = deal[d].taker THEN deal[d].stake ELSE 0)]
    /\ deal' = Put(d, [deal[d] EXCEPT !.box = 0, !.paid = "both"])

\* A party pays another one, or somebody outside, from its own wallet.
Pay(p, q, n) ==
    /\ wallet[p] >= n
    /\ wallet' = [wallet EXCEPT ![p] = @ - n, ![q] = @ + n]
    /\ UNCHANGED deal

PayOut(p, n) ==
    /\ Withdraw(p, n)
    /\ UNCHANGED deal

Next ==
    \/ \E p \in Parties, d \in Deals, n \in Stakes : Post(p, d, n)
    \/ \E d \in DOMAIN deal :
          \/ \E p \in Parties : Match(p, d)
          \/ Return(d) \/ Award(d) \/ Split(d)
    \/ \E p, q \in Parties, n \in Payments : Pay(p, q, n)
    \/ \E p \in Parties, n \in Payments : PayOut(p, n)

Spec == Init /\ [][Next]_vars

=============================================================================
