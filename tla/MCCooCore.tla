----------------------------- MODULE MCCooCore -----------------------------
(* Small instances of CooCore for TLC. *)
EXTENDS CooCore

CONSTANT Funds          \* what each principal holds at deployment

MCInitialBalance == [p \in Principals |-> Funds]

\* One submission, and two whose identifier and claim join to the same bytes.
OneIdentifier  == {<<1>>}
OneClaim       == {<<3>>}
TwoIdentifiers == {<<1>>, <<1, 2>>}
TwoClaims      == {<<2, 3>>, <<3>>}

=============================================================================
