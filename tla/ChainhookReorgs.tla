-------------------------- MODULE ChainhookReorgs --------------------------
(***************************************************************************)
(* ChainhookPipeline on a chain that reorganises.  Chainhooks then tells   *)
(* which blocks were rolled back and which to apply instead; the handler   *)
(* reads event.apply only, so that what the dropped blocks did to the      *)
(* table stays and the new blocks' events are applied on top of it.        *)
(***************************************************************************)
EXTENDS ChainhookPipeline

CONSTANT MaxReorgs      \* bound: reorganisations in all

VARIABLE reorgs         \* reorganisations so far

reorgVars == <<vars, reorgs>>

ReorgInit == Init /\ reorgs = 0

\* External: the chain drops all events after the first n.  Chainhooks, between
\* two deliveries, goes on after the last event both chains have.
Reorganised(n) ==
    /\ reorgs < MaxReorgs
    /\ batch = NoBatch /\ retry = 0
    /\ n < Len(log)
    /\ reorgs' = reorgs + 1
    /\ log' = SubSeq(log, 1, n)
    /\ feed' = [id \in {log[k][1] : k \in 1..n} |-> SubSeq(feed[id], 1, CountOf(id, n))]
    /\ cursor' = IF cursor < n THEN cursor ELSE n
    /\ UNCHANGED <<batch, seen, retry, failures, table>>

ReorgNext ==
    \/ Next /\ UNCHANGED reorgs
    \/ \E n \in 0..Len(log) : Reorganised(n)

ReorgSpec == ReorgInit /\ [][ReorgNext]_reorgVars

-----------------------------------------------------------------------------
(* Properties *)

AtRest == batch = NoBatch /\ retry = 0

\* What the chain up to the cursor says of an assertion.
Delivered(id) == TrueRow(SubSeq(feed[id], 1, CountOf(id, cursor)))

\* Reorganisations or not, every delivered assertion of the chain has a row, each
\* step the chain has taken is shown with the party and block of the new chain,
\* and so is its outcome.  Left over from the old chain are only steps the
\* new one has not taken, the status while there is no outcome, and who resolved
\* a settlement.
SurvivorsShown ==
    AtRest =>
        \A id \in {log[k][1] : k \in 1..cursor} :
            /\ id \in DOMAIN table
            /\ LET row == table[id]
                   now == Delivered(id)
               IN  /\ \A c \in {"asserter", "assertedAt", "disputer", "disputedAt",
                                "settler", "settledAt"} :
                         now[c] # Null => row[c] = now[c]
                   /\ now.status \in TerminalStatus => row.status = now.status
                   /\ now.status \in {"rejected", "unresolved"} =>
                         row.resolver = now.resolver /\ row.resolvedAt = now.resolvedAt

=============================================================================
