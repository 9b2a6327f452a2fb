----------------------------- MODULE EventFeed -----------------------------
(***************************************************************************)
(* What the oracle promises those who follow its printed events: for each  *)
(* assertion an append-only sequence that starts with "asserted", goes on  *)
(* with at most one "disputed" and at most one outcome, at block heights   *)
(* that never go back.  CooCore implements this; the index is built on it. *)
(***************************************************************************)
EXTENDS Integers, Sequences

CONSTANTS Ids, Parties, Blocks

VARIABLE feed     \* for each assertion made, the events printed about it

Entry(name, by, at) == [event |-> name, by |-> by, at |-> at]

\* The events that may follow an event of a given name.
Successors(name) ==
    CASE name = "asserted" -> {"disputed", "settled"}
      [] name = "disputed" -> {"settled", "rejected", "unresolved"}
      [] OTHER             -> {}

Init == feed = [id \in {} |-> <<>>]

Start(id, by, at) ==
    /\ id \notin DOMAIN feed
    /\ feed' = [i \in DOMAIN feed \cup {id} |->
                   IF i = id THEN <<Entry("asserted", by, at)>> ELSE feed[i]]

Continue(id, by, at) ==
    LET last == feed[id][Len(feed[id])]
    IN  /\ at >= last.at
        /\ \E name \in Successors(last.event) :
              feed' = [feed EXCEPT ![id] = Append(@, Entry(name, by, at))]

Next ==
    \E by \in Parties, at \in Blocks :
        \/ \E id \in Ids : Start(id, by, at)
        \/ \E id \in DOMAIN feed : Continue(id, by, at)

Spec == Init /\ [][Next]_feed

=============================================================================
