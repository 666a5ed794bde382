---------------------------- MODULE LedgerSafety ----------------------------
(***************************************************************************)
(* What the ledger server promises, stated over LedgerServer.  Which of    *)
(* these hold depends on the backend; the runs say which.                  *)
(***************************************************************************)
EXTENDS LedgerServer, FiniteSetsExt

\* What a handler keeps across an await.
HandlerWork ==
    [todo : SUBSET Nat, made : SUBSET Nat, amount : Seq(Int),
     state : [count : Nat, circulation : Int]]

Answer ==
    [status : {"none", "ok", "error"}, key : Keys \union {NoKey},
     spent : {"null", "true", "false"}, amount : Seq(Int)]

AuditRecord ==
    [kind : {"replace", "burn"}, ins : Seq(Keys), outs : Seq(Keys), amount : Int]

\* The values every variable may take, on every backend.  A record that a
\* handler completes, reads or marks is always one that exists.
TypeOK ==
    /\ tokens \in TokenMap
    /\ audit \in Seq(AuditRecord)
    /\ mining \in [count : Nat, circulation : Int]
    /\ nonces \subseteq {<<r.issuer, r.nonce>> : r \in Requests}
    /\ pc \in [Workers -> Steps]
    /\ req \in [Workers -> Requests \union {NoReq}]
    /\ work \in [Workers -> HandlerWork]
    /\ reply \in [Workers -> Answer]
    /\ landed \in [Workers -> BOOLEAN]
    /\ accepted \in Nat

\* What is known of worker p between two of its store calls: a handler has a
\* request of its own kind, a replace that reached the store was admissible,
\* and a Redis insert completes records that it has created.
HandlerOk(p) ==
    /\ pc[p] # "idle" => req[p] \in Requests
    /\ pc[p] \in {"read", "commit"} =>
          req[p].kind = "replace" /\ ReplaceAdmissible(req[p])
    /\ pc[p] = "burn" => req[p].kind = "burn"
    /\ pc[p] \in {"hget", "hcheck"} => req[p].kind = "health"
    /\ pc[p] \in {"insert", "fill"} =>
          /\ work[p].todo \subseteq DOMAIN req[p].outs
          /\ work[p].made \subseteq DOMAIN req[p].outs
          /\ \A i \in work[p].made : tokens[req[p].outs[i].key] # Absent
    /\ pc[p] = "fill" => work[p].todo # {} /\ work[p].todo \subseteq work[p].made

HandlersOk == \A p \in Workers : HandlerOk(p)

-----------------------------------------------------------------------------
(* Single-use seals *)

Spent(k) == tokens[k] # Absent /\ tokens[k].spent = "yes"

\* Key k is an input, or an output, of audit record e.
Consumes(e, k) == \E m \in DOMAIN e.ins : e.ins[m] = k
Produces(e, k) == \E m \in DOMAIN e.outs : e.outs[m] = k

ConsumedAt(i, k) == Consumes(audit[i], k)
ProducedAt(i, k) == Produces(audit[i], k)

\* Over everything the server ever committed (replaces and burns), a token
\* is consumed at most once, and not twice by one request: the promise of a
\* "single-use-seal registry" (Server, crates/server-core/src/lib.rs).
SingleUse ==
    \A i, j \in DOMAIN audit :
        \A m \in DOMAIN audit[i].ins, n \in DOMAIN audit[j].ins :
            audit[i].ins[m] = audit[j].ins[n] => i = j /\ m = n

\* A replace or burn marks its inputs spent and writes its audit record
\* together or not at all (ReplaceOp: "Backends commit all-or-nothing"):
\* the spent tokens are exactly the inputs of the audit trail.
SpentIffAudited ==
    \A k \in Keys : Spent(k) <=> \E i \in DOMAIN audit : ConsumedAt(i, k)

\* One half of SpentIffAudited, which also survives re-insertion: no token
\* is spent without an audit record that consumed it.
NoUnauditedSpend ==
    \A k \in Keys : Spent(k) => \E i \in DOMAIN audit : ConsumedAt(i, k)

\* The audit trail can be followed as a chain of state moves
\* (ReplacementRecord): every output it names exists, was produced by one
\* record only, and is consumed only by later records.
AuditIsCausal ==
    \A j \in DOMAIN audit, k \in Keys :
        ProducedAt(j, k) =>
            /\ tokens[k] # Absent
            /\ \A i \in DOMAIN audit :
                  /\ ConsumedAt(i, k) => j < i
                  /\ ProducedAt(i, k) => i = j

\* Every committed replace stays within one (contract_id, issuer_fp)
\* namespace, whatever the mix of tokens in its request.
AuditInOneNamespace ==
    \A i \in DOMAIN audit : \A k, l \in Keys :
        /\ ConsumedAt(i, k) \/ ProducedAt(i, k)
        /\ ConsumedAt(i, l) \/ ProducedAt(i, l)
        => KeyNs[k] = KeyNs[l]

-----------------------------------------------------------------------------
(* Amounts *)

AmountOf(ks) == MapThenSumSet(LAMBDA k : tokens[k].amount, ks)

Existing == {k \in Keys : tokens[k] # Absent}
Unspent == {k \in Existing : ~Spent(k)}
Burned == {k \in Existing :
              \E i \in DOMAIN audit : audit[i].kind = "burn" /\ ConsumedAt(i, k)}
Minted == {k \in Existing : ~\E i \in DOMAIN audit : ProducedAt(i, k)}

Replacements == {i \in DOMAIN audit : audit[i].kind = "replace"}

\* By how much audit record i overstates its inputs: the total it carries is
\* summed from the token strings, the amounts of the inputs are the records'.
Overstated(i) == audit[i].amount - AmountOf({k \in Existing : ConsumedAt(i, k)})

\* Every change of the money supply can be read off the store: what is unspent
\* or was burned is what was minted, plus what the replaces of the audit trail
\* overstate.  The doc of replace says "Conservation law enforced", without the
\* last term; the code balances the amounts the strings claim and never looks
\* at those of the records, so a client can make the term positive.  A failed
\* commit, a retry, a race or a sum that overflows adds nothing.
ValueIsAudited ==
    AmountOf(Unspent) + AmountOf(Burned)
        = AmountOf(Minted) + MapThenSumSet(LAMBDA i : Overstated(i), Replacements)

\* A record, once written, keeps its amount and its origin, is never
\* removed, and a spent one never becomes unspent: no mint, replace, retry
\* or replayed issue request rewrites it.
RecordsStable ==
    [][\A k \in Keys : tokens[k] # Absent =>
          /\ tokens'[k] # Absent
          /\ tokens'[k].amount = tokens[k].amount
          /\ tokens'[k].origin = tokens[k].origin
          /\ tokens[k].spent = "yes" => tokens'[k].spent = "yes"]_vars

-----------------------------------------------------------------------------
(* What clients are told *)

\* health_check reads the amount and the spent flag in two store calls; what
\* it reports still holds when the client acts on it: a token reported spent
\* is spent, one reported unspent exists, and a reported amount is the
\* record's.
HealthTruthful ==
    \A p \in Workers : reply[p].key # NoKey =>
        LET k == reply[p].key
        IN  /\ reply[p].spent = "true" => Spent(k)
            /\ reply[p].spent = "false" => tokens[k] # Absent
            /\ reply[p].amount # <<>> => tokens[k].amount = reply[p].amount[1]

\* Every request that a worker has begun is answered, unless its client has
\* gone or the server was restarted: no failure or retry keeps it for ever.
EveryRequestAnswered ==
    \A p \in Workers : pc[p] # "idle" ~> pc[p] = "idle"

-----------------------------------------------------------------------------
(* MiningState *)

\* The reports counted never exceed the reports accepted, whatever the
\* interleaving of read-modify-write cycles and failures.
CountNeverAhead == mining.count <= accepted

-----------------------------------------------------------------------------
(* Non-transactional inserts *)

\* The key of a record whose insert worker p has begun and not finished.
Filling(p, k) ==
    \E i \in work[p].made \intersect (DOMAIN req[p].outs) :
        /\ req[p].outs[i].key = k
        /\ pc[p] = "fill" => i \in work[p].todo

\* A spent token becomes unspent only by the insert that is creating it:
\* no replace, burn or later insert revives a token.
OnlyCreatorRevives ==
    [][\A k \in Keys :
          Spent(k) /\ ~Spent(k)' =>
              \E p \in Workers : pc[p] = "fill" /\ Filling(p, k)]_vars

=============================================================================
