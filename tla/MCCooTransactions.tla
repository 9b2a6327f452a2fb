------------------------- MODULE MCCooTransactions -------------------------
(* A small instance of CooTransactions for TLC. *)
EXTENDS CooTransactions

CONSTANT Funds          \* what a principal other than the owner holds at deployment

MCInitialBalance == [p \in Principals |-> IF p = CONTRACT_OWNER THEN 1 ELSE Funds]

OneByte       == <<1>>
OneIdentifier == {OneByte}
OneClaim      == {<<3>>}

=============================================================================
