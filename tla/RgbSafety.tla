------------------------------ MODULE RgbSafety ------------------------------
(***************************************************************************)
(* What an RGB server promises of a locked token, over RgbServer.          *)
(***************************************************************************)
EXTENDS RgbServer

Unspent(k) == tokens[k] # Absent /\ tokens[k].spent = "no"

\* The input positions that worker w's commit closes in this step.
Closes(w, k) ==
    /\ calls[w].pc = "commit" /\ calls'[w].pc # "commit"
    /\ \E i \in DOMAIN calls[w].req.ins : calls[w].req.ins[i].key = k
    /\ Unspent(k) /\ tokens'[k].spent = "yes"

IndexOf(r, k) == CHOOSE i \in DOMAIN r.ins : r.ins[i].key = k

\* A locked token is replaced only as its FoundationDB record allows at commit
\* time: by a request that names the claim owner and shows the preimage, or
\* names the refund owner once the deadline has passed.  The hook judged a lock
\* read earlier, possibly from Redis, by a clock read earlier still.
LockHolds ==
    [][\A w \in Workers, k \in Keys :
          Closes(w, k) /\ locks[k] # NoLock =>
             LET r == calls[w].req
                 wit == WitnessOf(r, IndexOf(r, k))
             IN  /\ Entries(r.wits, IndexOf(r, k)) # {}
                 /\ \/ wit.x = locks[k].h /\ wit.owner = locks[k].claim
                    \/ clock >= locks[k].after /\ wit.owner = locks[k].refund]_vars

\* What Redis can decode is a record of FoundationDB: same lock, and never spent
\* before FoundationDB says so.  Mirroring follows a successful transaction and
\* one HSET writes all fields that from_fields requires.
CacheAgrees ==
    \A k \in Keys : CacheDecodes(k) =>
        /\ tokens[k] # Absent
        /\ cache[k].rest.lock = locks[k]
        /\ cache[k].rest.spent = "yes" => tokens[k].spent = "yes"

\* A token whose replace or burn was acknowledged is never an input of another
\* acknowledged replace, although Redis goes on handing it to the hook as unspent.
NoDoubleSpend ==
    [][\A w \in Workers, k \in Keys :
          /\ calls[w].pc = "commit" /\ calls'[w].pc = "nx"
          /\ \E i \in DOMAIN calls[w].req.ins : calls[w].req.ins[i].key = k
          => k \notin acked]_vars

\* A health check started after a spend was acknowledged never answers
\* "unspent", although Redis still holds the unspent record.
HealthFresh == stale = {}

\* A lock is never born with its refund window open: its deadline is one the
\* clock can reach (stamp_into_state saturates), and it lies after the
\* clock its request was given, or at the end of the clock's range, however
\* large the delta the wallet asked for.  Only a wallet that asks for a delta of
\* zero gets a window that is open from the start.
WindowStartsClosed ==
    [][\A w \in Workers, k \in Keys :
          /\ calls[w].pc = "commit" /\ calls'[w].pc = "nx"
          /\ locks[k] = NoLock /\ locks'[k] # NoLock
          => /\ locks'[k] \in HtlcState
             /\ \/ locks'[k].after > calls[w].now
                \/ locks'[k].after = MaxClock
                \/ LET r == calls[w].req
                   IN  \E n \in DOMAIN r.lock :
                          r.outs[r.lock[n].at].key = k /\ r.lock[n].req.delta = 0]_vars
=============================================================================
