---------------------------- MODULE TokenRecords ----------------------------
(***************************************************************************)
(* The vocabulary shared by the ledger server and its storage backends:    *)
(* tokens as a request writes them, token records as a store keeps them,   *)
(* and the arithmetic of the amounts in a list of tokens.                  *)
(*                                                                         *)
(* A token string e{amt}:secret:{hex}[:{contract}:{issuer}] is the record  *)
(* [key, amount]: the storage key derived from the public hash and the     *)
(* namespace, and the amount WRITTEN IN THE STRING.  The public hash does  *)
(* not cover the amount, so two tokens may share a key and differ in       *)
(* amount.                                                                 *)
(***************************************************************************)
EXTENDS Integers, Sequences

CONSTANTS
    Keys,       \* storage keys of token records
    KeyNs,      \* the namespace a key is partitioned under
    Unscoped,   \* Namespace::unscoped(), the only namespace of Webcash
    Tokens,     \* the token strings that requests may carry
    MaxWats,    \* i64::MAX, scaled down
    Absent      \* no record under this key

ASSUME TokensAssumption == Tokens \subseteq [key : Keys, amount : Int]

ASSUME MaxWatsAssumption == MaxWats \in Nat

ASSUME AbsentAssumption ==
    Absent \notin [amount : Int, spent : {"unset", "no", "yes"},
                   origin : {"unset", "mined", "replaced"}]

-----------------------------------------------------------------------------
(* Records.  "unset" is a HASH field Redis has not been given yet. *)

TokenRecord ==
    [amount : Int,
     spent  : {"unset", "no", "yes"},
     origin : {"unset", "mined", "replaced"}]

\* What a store holds: a record, or none, under every key.
TokenMap == [Keys -> TokenRecord \union {Absent}]

\* RecordBuilder::record_from_secret: a fresh record is unspent.
RecordFromSecret(t, origin) ==
    [amount |-> t.amount, spent |-> "no", origin |-> origin]

\* HashRecord::from_fields.  A Webcash record defaults every field but the
\* amount; a namespaced record needs its contract and issuer, which are
\* written together with the origin.
Decodes(k, rec) ==
    /\ rec # Absent
    /\ KeyNs[k] = Unscoped \/ rec.origin # "unset"

-----------------------------------------------------------------------------
(* Lists of tokens *)

KeysOf(ts) == {ts[i].key : i \in DOMAIN ts}

KeyList(ts) == [i \in DOMAIN ts |-> ts[i].key]

DistinctKeys(ts) ==
    \A i, j \in DOMAIN ts : ts[i].key = ts[j].key => i = j

\* The amount the first token of ts with key k is written with.
AmountIn(ts, k) ==
    (CHOOSE t \in {ts[i] : i \in DOMAIN ts} : t.key = k).amount

\* The partial sums of the amounts of ts.
RunningTotal(ts) ==
    LET sum[i \in 0..Len(ts)] ==
            IF i = 0 THEN 0 ELSE sum[i - 1] + ts[i].amount
    IN  sum

Total(ts) == RunningTotal(ts)[Len(ts)]

\* Amount::checked_add returns None as soon as a partial sum leaves i64.
Overflows(ts) ==
    \E i \in DOMAIN ts : RunningTotal(ts)[i] \notin -(MaxWats + 1)..MaxWats

\* i64 addition of a release build wraps around.
Wrap(n) == ((n + MaxWats + 1) % (2 * (MaxWats + 1))) - (MaxWats + 1)

\* i64::saturating_add
SaturatingAdd(a, b) ==
    IF a + b > MaxWats THEN MaxWats
    ELSE IF a + b < -(MaxWats + 1) THEN -(MaxWats + 1)
    ELSE a + b

-----------------------------------------------------------------------------
(* Effects on a map from keys to records *)

\* The record with its spent flag set.
Closed(rec) == [rec EXCEPT !.spent = "yes"]

\* Mark every key of ks spent.
MarkSpent(map, ks) == [k \in Keys |-> IF k \in ks THEN Closed(map[k]) ELSE map[k]]

\* Write a fresh record for every token of ts.
PutAll(map, ts, origin) ==
    [k \in Keys |->
        IF k \in KeysOf(ts)
        THEN RecordFromSecret([key |-> k, amount |-> AmountIn(ts, k)], origin)
        ELSE map[k]]
=============================================================================
