------------------------------ MODULE FdbStore ------------------------------
(***************************************************************************)
(* The FoundationDB backend.  Every store call runs in one serializable    *)
(* transaction, whose reads see the transaction's own writes; a custom     *)
(* error from the closure discards all of its writes.                      *)
(***************************************************************************)
EXTENDS TokenRecords

\* Mutant: an existing record is overwritten instead of refused.
FdbInsertOkOverwrites(map, outs) == DistinctKeys(outs)

\* insert_tokens: get-then-set per record.  The second of two records with
\* one key reads the first one's write, so duplicates abort as well.
FdbInsertOk(map, outs) ==
    /\ DistinctKeys(outs)
    /\ \A i \in DOMAIN outs : map[outs[i].key] = Absent

\* Mutant: an input is not read back after it was marked, so a request may
\* name it twice.
FdbReplaceOkRepeats(map, ins, outs) ==
    /\ \A i \in DOMAIN ins : map[ins[i].key] # Absent
    /\ \A i \in DOMAIN ins : map[ins[i].key].spent # "yes"
    /\ FdbInsertOk(map, outs)

\* exec_replace: read, check and mark each input in turn (a repeated input
\* reads its own mark), then get-then-set each output.
FdbReplaceOk(map, ins, outs) ==
    /\ \A i \in DOMAIN ins : map[ins[i].key] # Absent
    /\ \A i \in DOMAIN ins : map[ins[i].key].spent # "yes"
    /\ DistinctKeys(ins)
    /\ FdbInsertOk(map, outs)

FdbReplace(map, ins, outs) ==
    PutAll(MarkSpent(map, KeysOf(ins)), outs, "replaced")

\* exec_burn
FdbBurnOk(map, k) == map[k] # Absent /\ map[k].spent # "yes"
=============================================================================
