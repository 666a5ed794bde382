---------------------------- MODULE HistorySafety ----------------------------
(***************************************************************************)
(* What a party may rely on in its swap history, while other processes go  *)
(* on writing.  DynamoDB's indexes lag, and both its pages and the batches *)
(* of a FoundationDB range read end early: completeness is a claim about   *)
(* memory and Redis, freshness about every backend but DynamoDB.           *)
(***************************************************************************)
EXTENDS SwapHistory

Took(row, fp) == row # Absent /\ (row.bob = fp \/ row.alice = fp)

Listed(id) == \E i \in DOMAIN call.out : call.out[i].id = id

Answered == call.pc = "done"

\* Every swap of the party that was stored when the listing began is in it, or
\* the listing is full of swaps at least as new: neither the limit put on each
\* index nor a swap met in both of them, nor writes between the reads, drops an
\* entry that belongs in the newest Limit.  FoundationDB's listing has only the
\* first batch of each index (some 4 KB of keys) and is left out.
HistoryComplete ==
    Answered /\ store \in {"memory", "redis"} =>
        \A id \in Swaps : Took(call.began[id], call.fp) =>
            \/ Listed(id)
            \/ /\ Len(call.out) = Limit
               /\ \A i \in DOMAIN call.out : call.out[i].created >= call.began[id].created

\* An answer has at most Limit summaries (list_by_party: "Capped at 1000
\* results"), newest first, names a swap once (a swap with oneself is in both
\* indexes), and tells the party the side it really is on, on every backend.
HistoryOrdered ==
    Answered =>
        /\ call.out \in Seq(Summary) /\ Len(call.out) <= Limit
        /\ \A i, j \in DOMAIN call.out : i < j =>
              /\ call.out[i].created >= call.out[j].created
              /\ call.out[i].id # call.out[j].id
        /\ \A i \in DOMAIN call.out :
              /\ Took(rows[call.out[i].id], call.fp)
              /\ call.out[i].role = RoleOf(rows[call.out[i].id], call.fp)

\* A listed swap is shown as a write left it that was the last one when the
\* listing began or came later, and that has really been made, although the
\* index was read first: of writes, not phases, since a later write may itself
\* take a swap back to an earlier phase (RefereeSafety!TerminalIsFinal).
HistoryFresh ==
    Answered /\ store # "dynamodb" =>
        \A i \in DOMAIN call.out :
            LET id == call.out[i].id
            IN  /\ call.out[i].version <= rows[id].version
                /\ call.began[id] # Absent => call.began[id].version <= call.out[i].version
=============================================================================
