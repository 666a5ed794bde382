-------------------------- MODULE LedgerRefinement --------------------------
(***************************************************************************)
(* LedgerServer implements SealRegistry: hide the workers, the audit       *)
(* trail, the mining state and the nonces, and read a key's status off its *)
(* record.                                                                 *)
(***************************************************************************)
EXTENDS LedgerSafety

StatusOf(rec) ==
    IF rec = Absent THEN "absent" ELSE IF rec.spent = "yes" THEN "spent" ELSE "live"

SealStatus == [k \in Keys |-> StatusOf(tokens[k])]

SealValue == [k \in Keys |-> IF tokens[k] = Absent THEN 0 ELSE tokens[k].amount]

PresentedLists == {r.ins : r \in Requests} \union {r.outs : r \in Requests}

Registry ==
    INSTANCE SealRegistry
    WITH status <- SealStatus, value <- SealValue, Lists <- PresentedLists

\* Every step of the concurrent server, over a store that keeps the contract
\* of LedgerStore and whatever amounts clients write, is one atomic step of the
\* single-use-seal registry or invisible to it: nothing in between is ever
\* observable.
ImplementsRegistry == Registry!RegistrySpec
=============================================================================
