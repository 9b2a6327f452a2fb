------------------------------ MODULE MCCooApp ------------------------------
(* A small instance of CooApp for TLC. *)
EXTENDS CooApp

CONSTANT Funds          \* what each principal holds at deployment

MCInitialBalance == [p \in Principals |-> Funds]

OneIdentifier == {<<1>>}
OneClaim      == {<<3>>}

=============================================================================
