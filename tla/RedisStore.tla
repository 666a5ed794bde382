----------------------------- MODULE RedisStore -----------------------------
(***************************************************************************)
(* The Redis backend.  A Lua script is atomic but has no rollback: writes  *)
(* it made before returning an ERR string stay.  insert_tokens is not a    *)
(* script but two pipelines of HSETNX and HSET commands, each command      *)
(* atomic on its own; LedgerServer takes them one by one.                  *)
(***************************************************************************)
EXTENDS TokenRecords

\* REPLACE_LUA, first loop: every input exists and its spent field is not
\* '1'.  A missing spent field passes, and so does a repeated input.
LuaInputsOk(map, ins) ==
    \A i \in DOMAIN ins :
        map[ins[i].key] # Absent /\ map[ins[i].key].spent # "yes"

\* REPLACE_LUA, third loop: EXISTS is 1 for the j-th output, in the map the
\* second loop left, after the writes of the outputs before it.
LuaOutputExists(map, outs, j) ==
    \/ map[outs[j].key] # Absent
    \/ \E i \in 1..(j - 1) : outs[i].key = outs[j].key

\* Mutant: the third loop without its EXISTS check.
LuaWrittenAll(map, outs) == outs

\* The outputs the third loop writes before it returns: those before the
\* first one that exists.
LuaWritten(map, outs) ==
    SubSeq(outs, 1, CHOOSE n \in 0..Len(outs) :
        /\ \A i \in 1..n : ~LuaOutputExists(map, outs, i)
        /\ n < Len(outs) => LuaOutputExists(map, outs, n + 1))

LuaReplaceOk(map, ins, outs) ==
    /\ LuaInputsOk(map, ins)
    /\ \A j \in DOMAIN outs : ~LuaOutputExists(map, outs, j)

\* The map REPLACE_LUA leaves behind, whatever string it returns.
LuaReplace(map, ins, outs) ==
    LET marked == MarkSpent(map, KeysOf(ins))
    IN  IF LuaInputsOk(map, ins)
        THEN PutAll(marked, LuaWritten(marked, outs), "replaced")
        ELSE map

\* BURN_LUA
LuaBurnOk(map, k) == map[k] # Absent /\ map[k].spent # "yes"

\* Mutant: a plain HSET, which never reports a conflict.
HSetCreates(map, t) == TRUE

\* HSETNX creates the field amount_wats, and with it the key, if it is new.
HSetNxCreates(map, t) == map[t.key] = Absent

\* HSETNX key amount_wats amt on a key that does not exist
HSetNx(map, t) ==
    [map EXCEPT ![t.key] =
        [amount |-> t.amount, spent |-> "unset", origin |-> "unset"]]

\* HSET of the remaining fields of a record built by record_from_secret
HSetRest(map, t, origin) ==
    [map EXCEPT ![t.key] = [@ EXCEPT !.spent = "no", !.origin = origin]]
=============================================================================
