---------------------------- MODULE DynamoStore -----------------------------
(***************************************************************************)
(* The DynamoDB backend.  Replace and burn are one TransactWriteItems      *)
(* call each; insert_tokens is a BatchWriteItem of unconditional puts,     *)
(* each put atomic on its own.                                             *)
(***************************************************************************)
EXTENDS TokenRecords

\* exec_replace: the condition expressions of the transaction.  DynamoDB
\* refuses a transaction that names one item twice.
DynamoReplaceOk(map, ins, outs) ==
    /\ \A i \in DOMAIN ins : map[ins[i].key] # Absent
    /\ \A i \in DOMAIN ins : map[ins[i].key].spent = "no"
    /\ \A j \in DOMAIN outs : map[outs[j].key] = Absent
    /\ DistinctKeys(ins \o outs)

DynamoReplace(map, ins, outs) ==
    PutAll(MarkSpent(map, KeysOf(ins)), outs, "replaced")

\* exec_burn
DynamoBurnOk(map, k) == map[k] # Absent /\ map[k].spent = "no"

\* BatchWriteItem refuses a batch that names one item twice.
DynamoBatchOk(outs) == DistinctKeys(outs)

\* One PutRequest of the batch: no condition, so an existing record is
\* replaced by the fresh one.
DynamoPut(map, t, origin) ==
    [map EXCEPT ![t.key] = RecordFromSecret(t, origin)]
=============================================================================
