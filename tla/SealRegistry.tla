---------------------------- MODULE SealRegistry ----------------------------
(***************************************************************************)
(* The abstract ledger: what the documentation of Server in                *)
(* crates/server-core promises.  "The server is a single-use-seal          *)
(* registry": it atomically verifies that the inputs exist and are         *)
(* unspent, marks them spent and inserts the outputs, within a single      *)
(* namespace.  The amounts it balances are those the client presents, as   *)
(* in the code.  There are no requests, workers, failures or retries here: *)
(* a seal is absent, live or spent, and every operation is one step.       *)
(***************************************************************************)
EXTENDS TokenRecords

CONSTANT Lists   \* the lists of tokens a client may present

VARIABLES
    status,   \* of every key: "absent", "live" or "spent"
    value     \* of every key: the amount it was created with, 0 if absent

registryVars == <<status, value>>

RegistryInit ==
    /\ status = [k \in Keys |-> "absent"]
    /\ value = [k \in Keys |-> 0]

Create(ts, st) ==
    /\ status' = [k \in Keys |-> IF k \in KeysOf(ts) THEN "live" ELSE st[k]]
    /\ value' = [k \in Keys |-> IF k \in KeysOf(ts) THEN AmountIn(ts, k) ELSE value[k]]

\* New seals, for fresh keys only.
Mint(ts) ==
    /\ DistinctKeys(ts)
    /\ \A i \in DOMAIN ts : status[ts[i].key] = "absent"
    /\ Create(ts, status)

\* Live seals are closed and fresh ones opened, in one namespace and for the
\* total the closed ones were presented with.  The registry does not compare
\* that total with the values it holds.
Transfer(ins, outs) ==
    /\ DistinctKeys(ins)
    /\ DistinctKeys(outs)
    /\ \A i \in DOMAIN ins : status[ins[i].key] = "live"
    /\ \A i \in DOMAIN outs : status[outs[i].key] = "absent"
    /\ Total(ins) = Total(outs)
    /\ \A k, l \in KeysOf(ins) \union KeysOf(outs) : KeyNs[k] = KeyNs[l]
    /\ Create(outs, [k \in Keys |-> IF k \in KeysOf(ins) THEN "spent" ELSE status[k]])

\* A live seal is closed without a successor.
Burn(k) ==
    /\ status[k] = "live"
    /\ status' = [status EXCEPT ![k] = "spent"]
    /\ UNCHANGED value

RegistryNext ==
    \/ \E ts \in Lists : Mint(ts)
    \/ \E ins, outs \in Lists : Transfer(ins, outs)
    \/ \E k \in Keys : Burn(k)

RegistrySpec == RegistryInit /\ [][RegistryNext]_registryVars
=============================================================================
