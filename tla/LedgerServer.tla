---------------------------- MODULE LedgerServer ----------------------------
(***************************************************************************)
(* The generic ledger server of crates/server-core: request handlers that  *)
(* run concurrently (one tokio task per request) against a LedgerStore.    *)
(* The handlers of the splittable flavors (Webcash, Voucher) are modelled; *)
(* their ReplaceHook is the default no-op.                                 *)
(*                                                                         *)
(* A worker is one in-flight request.  Between two awaits a handler touches*)
(* its own locals and the nonce cache, which a mutex guards: every action  *)
(* below is the code from one await to the next.  Every call of the store  *)
(* is a separate action, and other workers may act between any two of      *)
(* them.  The store is chosen by the constant Backend, as the type         *)
(* parameter S chooses it in the code.                                     *)
(***************************************************************************)
EXTENDS FdbStore, RedisStore, DynamoStore, FiniteSets

CONSTANTS
    Workers,     \* request tasks that may be in flight together
    Requests,    \* the requests clients send
    Backend,     \* "fdb", "redis" or "dynamodb"
    MaxNonces,   \* NonceCache::max_size
    MaxReports,  \* bound: mining reports accepted in a behaviour
    MaxCommits,  \* bound: replaces and burns committed in a behaviour
    Faults,      \* whether store calls may fail and the server may restart
    NoReq,       \* no request
    NoKey        \* no token

Kinds == {"replace", "mine", "issue", "burn", "health"}

\* What the handlers see of a request.  `ok` stands for the checks that look
\* at the request alone: the body parses, the terms are accepted, every
\* token string parses, the proof of work meets the target, the issuer is
\* registered and the signature verifies.  An issue request parses its
\* outputs later: one that does not parse is an output IssueOutputsOk fails.
RequestType(Issuers, Nonces) ==
    [kind : Kinds, ok : BOOLEAN, ins : Seq(Tokens), outs : Seq(Tokens),
     issuer : Issuers, nonce : Nonces]

ASSUME RequestsAssumption ==
    \A r \in Requests :
        r \in RequestType({r.issuer}, {r.nonce})

ASSUME SingleTokenAssumption ==
    \A r \in Requests :
        r.kind \in {"burn", "health"} => Len(r.ins) = 1 /\ r.outs = <<>>

ASSUME NoReqAssumption == NoReq \notin Requests

ASSUME BackendAssumption == Backend \in {"fdb", "redis", "dynamodb"}

ASSUME BoundsAssumption ==
    /\ MaxNonces \in Nat /\ MaxReports \in Nat /\ MaxCommits \in Nat
    /\ Faults \in BOOLEAN

VARIABLES
    tokens,    \* the store's token records
    audit,     \* the store's audit records, in commit order
    mining,    \* the store's MiningState: reports counted, circulation
    nonces,    \* Server::nonces, the in-memory nonce cache
    pc,        \* per worker: the next store call of its handler
    req,       \* per worker: the request being served
    work,      \* per worker: the handler's locals that live across an await
    reply,     \* per worker: the last response it sent
    landed,    \* history: the request's writes reached the store
    accepted   \* history: mining reports whose insert succeeded

handlerVars == <<pc, req, work, reply>>
storeVars == <<tokens, audit, mining>>
vars == <<tokens, audit, mining, nonces, pc, req, work, reply,
          landed, accepted>>

-----------------------------------------------------------------------------
(* State of a handler *)

Steps == {"idle", "read", "commit", "insert", "fill", "mread", "mwrite",
          "burn", "hget", "hcheck"}

\* todo: positions of r.outs a non-transactional insert has still to write;
\* made: positions whose HSETNX created the key; amount: what get_tokens
\* returned to health_check; state: what get_mining_state returned.
MiningDefault == [count |-> 0, circulation |-> 0]

NoWork == [todo |-> {}, made |-> {}, amount |-> <<>>, state |-> MiningDefault]

Response(status) == [status |-> status, key |-> NoKey, spent |-> "null",
                     amount |-> <<>>]

Goto(p, step) ==
    /\ pc' = [pc EXCEPT ![p] = step]
    /\ UNCHANGED <<req, reply>>

Respond(p, response) ==
    /\ pc' = [pc EXCEPT ![p] = "idle"]
    /\ req' = [req EXCEPT ![p] = NoReq]
    /\ work' = [work EXCEPT ![p] = NoWork]
    /\ reply' = [reply EXCEPT ![p] = response]

Init ==
    /\ tokens = [k \in Keys |-> Absent]
    /\ audit = <<>>
    /\ mining = MiningDefault
    /\ nonces = {}
    /\ pc = [p \in Workers |-> "idle"]
    /\ req = [p \in Workers |-> NoReq]
    /\ work = [p \in Workers |-> NoWork]
    /\ reply = [p \in Workers |-> Response("none")]
    /\ landed = [p \in Workers |-> FALSE]
    /\ accepted = 0

-----------------------------------------------------------------------------
(* Receiving a request: what a handler does before its first store call *)

NsOf(t) == KeyNs[t.key]

\* The namespace of a replace is that of its first input, or unscoped.
ReplaceNs(r) == IF r.ins = <<>> THEN Unscoped ELSE NsOf(r.ins[1])

\* Mutant: the sums are not checked and wrap around.
ReplaceAdmissibleWraps(r) ==
    /\ Wrap(Total(r.ins)) = Wrap(Total(r.outs))
    /\ \A i \in DOMAIN r.ins : NsOf(r.ins[i]) = ReplaceNs(r)
    /\ \A i \in DOMAIN r.outs : NsOf(r.outs[i]) = ReplaceNs(r)

\* Mutant: the namespace of the outputs is not looked at.
ReplaceAdmissibleAcross(r) ==
    /\ ~Overflows(r.ins)
    /\ ~Overflows(r.outs)
    /\ Total(r.ins) = Total(r.outs)
    /\ \A i \in DOMAIN r.ins : NsOf(r.ins[i]) = ReplaceNs(r)

\* replace: checked sums, conservation and the same-namespace check.  The
\* amounts are those of the strings; no record is looked at.
ReplaceAdmissible(r) ==
    /\ ~Overflows(r.ins)
    /\ ~Overflows(r.outs)
    /\ Total(r.ins) = Total(r.outs)
    /\ \A i \in DOMAIN r.ins : NsOf(r.ins[i]) = ReplaceNs(r)
    /\ \A i \in DOMAIN r.outs : NsOf(r.outs[i]) = ReplaceNs(r)

\* replace: the empty request is answered before anything is summed.
EmptyReplace(r) == r.ins = <<>> /\ r.outs = <<>>

\* issue: every output names the envelope's issuer, and one contract.
IssueOutputsOk(r) ==
    \A i \in DOMAIN r.outs :
        /\ NsOf(r.outs[i]).issuer = r.issuer
        /\ NsOf(r.outs[i]).contract = NsOf(r.outs[1]).contract

Rejected(r) ==
    \/ ~r.ok
    \/ r.kind = "replace" /\ ~EmptyReplace(r) /\ ~ReplaceAdmissible(r)

FirstStep(r) ==
    CASE r.kind = "replace" -> "read"
      [] r.kind = "mine"    -> "insert"
      [] r.kind = "issue"   -> "insert"
      [] r.kind = "burn"    -> "burn"
      [] r.kind = "health"  -> "hget"

Begin(p, r) ==
    /\ pc' = [pc EXCEPT ![p] = FirstStep(r)]
    /\ req' = [req EXCEPT ![p] = r]
    /\ work' = [work EXCEPT ![p] = [NoWork EXCEPT !.todo = DOMAIN r.outs]]
    /\ reply' = [reply EXCEPT ![p] = Response("none")]

\* A request some check refuses is answered with an error and changes nothing.
Refuse(p, r) ==
    /\ pc[p] = "idle"
    /\ Rejected(r)
    /\ Respond(p, Response("error"))
    /\ landed' = [landed EXCEPT ![p] = FALSE]
    /\ UNCHANGED <<tokens, audit, mining, nonces, accepted>>

\* The empty replace succeeds without touching the store.
AcceptEmpty(p, r) ==
    /\ pc[p] = "idle"
    /\ r.kind = "replace" /\ r.ok /\ EmptyReplace(r)
    /\ Respond(p, Response("ok"))
    /\ landed' = [landed EXCEPT ![p] = FALSE]
    /\ UNCHANGED <<tokens, audit, mining, nonces, accepted>>

\* Any other request but issue goes on to its first store call.
Accept(p, r) ==
    /\ pc[p] = "idle"
    /\ r.kind # "issue"
    /\ ~Rejected(r)
    /\ ~(r.kind = "replace" /\ EmptyReplace(r))
    /\ r.kind = "mine" => accepted < MaxReports
    /\ r.kind \in {"replace", "burn"} => Len(audit) < MaxCommits
    /\ Begin(p, r)
    /\ landed' = [landed EXCEPT ![p] = FALSE]
    /\ UNCHANGED <<tokens, audit, mining, nonces, accepted>>

\* NonceCache::check_and_insert, first half: a full cache is emptied.
Retained == IF Cardinality(nonces) >= MaxNonces THEN {} ELSE nonces

\* issue: the nonce is consumed once the signature has been verified and
\* before the outputs are looked at.
AcceptIssue(p, r) ==
    LET n == <<r.issuer, r.nonce>>
        fresh == n \notin Retained
    IN  /\ pc[p] = "idle"
        /\ r.kind = "issue" /\ ~Rejected(r)
        /\ nonces' = Retained \union {n}
        /\ IF fresh /\ IssueOutputsOk(r)
           THEN Begin(p, r)
           ELSE Respond(p, Response("error"))
        /\ landed' = [landed EXCEPT ![p] = FALSE]
        /\ UNCHANGED <<tokens, audit, mining, accepted>>

-----------------------------------------------------------------------------
(* replace *)

\* Mutant: the handler polls until its inputs appear.
ReadInputsPolling(p) ==
    /\ pc[p] = "read"
    /\ \A i \in DOMAIN req[p].ins :
          Decodes(req[p].ins[i].key, tokens[req[p].ins[i].key])
    /\ Goto(p, "commit") /\ UNCHANGED work
    /\ UNCHANGED <<tokens, audit, mining, nonces, landed, accepted>>

\* get_tokens: every input must decode; the no-op hook accepts.
ReadInputs(p) ==
    /\ pc[p] = "read"
    /\ IF \A i \in DOMAIN req[p].ins :
             Decodes(req[p].ins[i].key, tokens[req[p].ins[i].key])
       THEN Goto(p, "commit") /\ UNCHANGED work
       ELSE Respond(p, Response("error"))
    /\ UNCHANGED <<tokens, audit, mining, nonces, landed, accepted>>

ReplaceOk(r) ==
    CASE Backend = "fdb"      -> FdbReplaceOk(tokens, r.ins, r.outs)
      [] Backend = "redis"    -> LuaReplaceOk(tokens, r.ins, r.outs)
      [] Backend = "dynamodb" -> DynamoReplaceOk(tokens, r.ins, r.outs)

\* What the store holds after a replace, also a refused one.
AfterReplace(r) ==
    CASE Backend = "redis" -> LuaReplace(tokens, r.ins, r.outs)
      [] Backend = "fdb"
            -> IF ReplaceOk(r) THEN FdbReplace(tokens, r.ins, r.outs) ELSE tokens
      [] Backend = "dynamodb"
            -> IF ReplaceOk(r) THEN DynamoReplace(tokens, r.ins, r.outs) ELSE tokens

\* Mutant: the input hashes are copied into both fields.
AuditEntryInputsTwice(r) ==
    [kind |-> r.kind, ins |-> KeyList(r.ins), outs |-> KeyList(r.ins),
     amount |-> Total(r.ins)]

\* ReplacementRecord and BurnRecord.  total_amount_wats and amount_wats are
\* read off the token strings, like every amount a handler reckons with.
AuditEntry(r) ==
    [kind |-> r.kind, ins |-> KeyList(r.ins), outs |-> KeyList(r.outs),
     amount |-> Total(r.ins)]

\* The store's part of batch_replace.
ApplyReplace(p) ==
    LET r == req[p]
    IN  /\ tokens' = AfterReplace(r)
        /\ audit' = IF ReplaceOk(r) THEN Append(audit, AuditEntry(r)) ELSE audit
        /\ landed' = [landed EXCEPT ![p] = landed[p] \/ ReplaceOk(r)]
        /\ UNCHANGED mining

CommitReplace(p) ==
    /\ pc[p] = "commit"
    /\ ApplyReplace(p)
    /\ Respond(p, Response(IF ReplaceOk(req[p]) THEN "ok" ELSE "error"))
    /\ UNCHANGED <<nonces, accepted>>

-----------------------------------------------------------------------------
(* burn *)

BurnKey(r) == r.ins[1].key

BurnOk(r) ==
    CASE Backend = "fdb"      -> FdbBurnOk(tokens, BurnKey(r))
      [] Backend = "redis"    -> LuaBurnOk(tokens, BurnKey(r))
      [] Backend = "dynamodb" -> DynamoBurnOk(tokens, BurnKey(r))

\* Mutant: the burn writes no audit record.
ApplyBurnUnaudited(p) ==
    /\ tokens' = IF BurnOk(req[p]) THEN MarkSpent(tokens, {BurnKey(req[p])}) ELSE tokens
    /\ landed' = [landed EXCEPT ![p] = landed[p] \/ BurnOk(req[p])]
    /\ UNCHANGED <<audit, mining>>

\* The store's part of batch_burn.
ApplyBurn(p) ==
    LET r == req[p]
    IN  /\ tokens' = IF BurnOk(r) THEN MarkSpent(tokens, {BurnKey(r)}) ELSE tokens
        /\ audit' = IF BurnOk(r) THEN Append(audit, AuditEntry(r)) ELSE audit
        /\ landed' = [landed EXCEPT ![p] = landed[p] \/ BurnOk(r)]
        /\ UNCHANGED mining

CommitBurn(p) ==
    /\ pc[p] = "burn"
    /\ ApplyBurn(p)
    /\ Respond(p, Response(IF BurnOk(req[p]) THEN "ok" ELSE "error"))
    /\ UNCHANGED <<nonces, accepted>>

-----------------------------------------------------------------------------
(* insert_tokens, for mining_report and issue *)

\* Mutant: the record is tagged with the kind of the request.
OriginOfKind(r) == r.kind

\* issue tags its records Replaced: there is no Issued RecordOrigin.
OriginOf(r) == IF r.kind = "mine" THEN "mined" ELSE "replaced"

First(S) == CHOOSE i \in S : \A j \in S : i <= j

\* The handler's continuation once insert_tokens returned Ok.
Inserted(p) ==
    IF req[p].kind = "mine"
    THEN /\ accepted' = accepted + 1
         /\ work' = [work EXCEPT ![p] = NoWork]
         /\ Goto(p, "mread")
    ELSE /\ Respond(p, Response("ok"))
         /\ UNCHANGED accepted

\* Mutant: a report whose insert failed is still accounted for.
InsertFailedGoesOn(p) ==
    /\ work' = [work EXCEPT ![p] = NoWork]
    /\ Goto(p, "mread")
    /\ UNCHANGED accepted

\* The handler's answer once insert_tokens returned an error.
InsertFailed(p) ==
    /\ Respond(p, Response("error"))
    /\ UNCHANGED accepted

\* FoundationDB: one transaction for the batch.
InsertTransaction(p) ==
    /\ Backend = "fdb"
    /\ pc[p] = "insert"
    /\ req[p].outs # <<>>
    /\ IF FdbInsertOk(tokens, req[p].outs)
       THEN /\ tokens' = PutAll(tokens, req[p].outs, OriginOf(req[p]))
            /\ landed' = [landed EXCEPT ![p] = TRUE]
            /\ Inserted(p)
       ELSE /\ InsertFailed(p)
            /\ UNCHANGED <<tokens, landed>>
    /\ UNCHANGED <<audit, mining, nonces>>

\* Every backend returns at once for an empty batch.
InsertNothing(p) ==
    /\ pc[p] = "insert"
    /\ req[p].outs = <<>>
    /\ Inserted(p)
    /\ UNCHANGED <<tokens, audit, mining, nonces, landed>>

\* Redis, first pipeline: the next HSETNX.  When none of them created its
\* key the second pipeline is empty and the call reports the conflict.
InsertNx(p) ==
    /\ Backend = "redis"
    /\ pc[p] = "insert"
    /\ work[p].todo # {}
    /\ LET i == First(work[p].todo)
           t == req[p].outs[i]
           created == HSetNxCreates(tokens, t)
           made == IF created THEN work[p].made \union {i} ELSE work[p].made
           rest == work[p].todo \ {i}
       IN  /\ tokens' = IF created THEN HSetNx(tokens, t) ELSE tokens
           /\ landed' = [landed EXCEPT ![p] = landed[p] \/ created]
           /\ IF rest = {} /\ made = {}
              THEN Respond(p, Response("error"))
              ELSE /\ work' = [work EXCEPT ![p] =
                        [@ EXCEPT !.made = made,
                                  !.todo = IF rest = {} THEN made ELSE rest]]
                   /\ Goto(p, IF rest = {} THEN "fill" ELSE "insert")
    /\ UNCHANGED <<audit, mining, nonces, accepted>>

\* Redis, second pipeline: the next HSET of a record this call created.  The
\* acknowledgement of the last one may be lost.
InsertFill(p) ==
    /\ Backend = "redis"
    /\ pc[p] = "fill"
    /\ LET i == First(work[p].todo)
           rest == work[p].todo \ {i}
       IN  /\ tokens' = HSetRest(tokens, req[p].outs[i], OriginOf(req[p]))
           /\ IF rest # {}
              THEN /\ work' = [work EXCEPT ![p].todo = rest]
                   /\ Goto(p, "fill")
                   /\ UNCHANGED accepted
              ELSE IF work[p].made = DOMAIN req[p].outs
                   THEN Inserted(p) \/ (Faults /\ InsertFailed(p))
                   ELSE InsertFailed(p)
    /\ UNCHANGED <<audit, mining, nonces, landed>>

\* DynamoDB: the next put of the batch.  An item the service returns as
\* unprocessed is dropped, and the call still reports success.  The answer
\* to the batch may be lost.
InsertPut(p) ==
    /\ Backend = "dynamodb"
    /\ pc[p] = "insert"
    /\ req[p].outs # <<>>
    /\ IF DynamoBatchOk(req[p].outs)
       THEN \E i \in work[p].todo :
              /\ \/ /\ tokens' = DynamoPut(tokens, req[p].outs[i], OriginOf(req[p]))
                    /\ landed' = [landed EXCEPT ![p] = TRUE]
                 \/ Faults /\ UNCHANGED <<tokens, landed>>
              /\ IF work[p].todo # {i}
                 THEN /\ work' = [work EXCEPT ![p].todo = @ \ {i}]
                      /\ Goto(p, "insert")
                      /\ UNCHANGED accepted
                 ELSE Inserted(p) \/ (Faults /\ InsertFailed(p))
       ELSE InsertFailed(p) /\ UNCHANGED <<tokens, landed>>
    /\ UNCHANGED <<audit, mining, nonces>>

-----------------------------------------------------------------------------
(* mining_report, after its insert: read, change and write MiningState *)

\* get_mining_state; an error of the store reads as the default state.
ReadMining(p) ==
    /\ pc[p] = "mread"
    /\ \/ work' = [work EXCEPT ![p].state = mining]
       \/ Faults /\ work' = [work EXCEPT ![p].state = MiningDefault]
    /\ Goto(p, "mwrite")
    /\ UNCHANGED <<tokens, audit, mining, nonces, landed, accepted>>

\* update_mining_state; its error is ignored.
WriteMining(p) ==
    /\ pc[p] = "mwrite"
    /\ \/ mining' =
            [count |-> work[p].state.count + 1,
             circulation |-> SaturatingAdd(work[p].state.circulation,
                                           Wrap(Total(req[p].outs)))]
       \/ Faults /\ UNCHANGED mining
    /\ Respond(p, Response("ok"))
    /\ UNCHANGED <<tokens, audit, nonces, landed, accepted>>

-----------------------------------------------------------------------------
(* health_check: the amount and the spent flag come from two store calls *)

\* get_tokens
HealthGet(p) ==
    LET k == req[p].ins[1].key
    IN  /\ pc[p] = "hget"
        /\ work' = [work EXCEPT ![p].amount =
               IF Decodes(k, tokens[k]) THEN <<tokens[k].amount>> ELSE <<>>]
        /\ Goto(p, "hcheck")
        /\ UNCHANGED <<tokens, audit, mining, nonces, landed, accepted>>

\* Mutant: an unknown hash reads as unspent.
SpentProbeUnwrapped(k) ==
    IF tokens[k] # Absent /\ tokens[k].spent = "yes" THEN "true" ELSE "false"

\* check_tokens: Redis asks for the spent field alone, the others decode.
SpentProbe(k) ==
    LET known == IF Backend = "redis"
                 THEN tokens[k] # Absent /\ tokens[k].spent # "unset"
                 ELSE Decodes(k, tokens[k])
    IN  IF known THEN (IF tokens[k].spent = "yes" THEN "true" ELSE "false")
        ELSE "null"

\* The amount is reported for a token found unspent, when it is known.
HealthCheck(p) ==
    LET k == req[p].ins[1].key
        spent == SpentProbe(k)
    IN  /\ pc[p] = "hcheck"
        /\ Respond(p, [status |-> "ok", key |-> k, spent |-> spent,
                       amount |-> IF spent = "false" THEN work[p].amount ELSE <<>>])
        /\ UNCHANGED <<tokens, audit, mining, nonces, landed, accepted>>

-----------------------------------------------------------------------------
(* Failures *)

\* A store call fails without reaching the store, or between two commands
\* of a pipeline; the handler answers with an error.  No call is made for an
\* empty list of keys or records.
StoreFails(p) ==
    /\ Faults
    /\ pc[p] \in {"read", "commit", "insert", "fill", "burn", "hget", "hcheck"}
    /\ pc[p] = "read" => req[p].ins # <<>>
    /\ pc[p] = "insert" => req[p].outs # <<>>
    /\ Respond(p, Response("error"))
    /\ UNCHANGED <<tokens, audit, mining, nonces, landed, accepted>>

\* The client closes its connection: serve_connection drops the handler's
\* future at the await it is in, and nobody is answered.
ClientGone(p) ==
    /\ Faults
    /\ pc[p] # "idle"
    /\ Respond(p, Response("none"))
    /\ UNCHANGED <<tokens, audit, mining, nonces, landed, accepted>>

\* After an outcome that was lost: FoundationDB's run retries the closure,
\* whatever maybe_committed says; the other backends return the error.
OutcomeLost(p) ==
    IF Backend = "fdb" THEN UNCHANGED handlerVars
    ELSE Respond(p, Response("error"))

\* The store performed the write and the acknowledgement was lost.
ReplaceAckLost(p) ==
    /\ Faults
    /\ pc[p] = "commit"
    /\ ReplaceOk(req[p])
    /\ ApplyReplace(p)
    /\ OutcomeLost(p)
    /\ UNCHANGED <<nonces, accepted>>

BurnAckLost(p) ==
    /\ Faults
    /\ pc[p] = "burn"
    /\ BurnOk(req[p])
    /\ ApplyBurn(p)
    /\ OutcomeLost(p)
    /\ UNCHANGED <<nonces, accepted>>

InsertAckLost(p) ==
    /\ Faults
    /\ Backend = "fdb"
    /\ pc[p] = "insert"
    /\ req[p].outs # <<>>
    /\ FdbInsertOk(tokens, req[p].outs)
    /\ tokens' = PutAll(tokens, req[p].outs, OriginOf(req[p]))
    /\ landed' = [landed EXCEPT ![p] = TRUE]
    /\ OutcomeLost(p)
    /\ UNCHANGED <<audit, mining, nonces, accepted>>

\* The server process stops and starts again: in-flight requests and the
\* nonce cache are gone, the store is not.
Restart ==
    /\ Faults
    /\ nonces' = {}
    /\ pc' = [p \in Workers |-> "idle"]
    /\ req' = [p \in Workers |-> NoReq]
    /\ work' = [p \in Workers |-> NoWork]
    /\ reply' = [p \in Workers |-> Response("none")]
    /\ landed' = [p \in Workers |-> FALSE]
    /\ UNCHANGED <<tokens, audit, mining, accepted>>

-----------------------------------------------------------------------------
(* Specification *)

Receive(p) ==
    \E r \in Requests :
        Refuse(p, r) \/ AcceptEmpty(p, r) \/ Accept(p, r) \/ AcceptIssue(p, r)

\* The handler of worker p takes its next step, the store answering.
Serve(p) ==
    \/ ReadInputs(p) \/ CommitReplace(p) \/ CommitBurn(p)
    \/ InsertTransaction(p) \/ InsertNothing(p)
    \/ InsertNx(p) \/ InsertFill(p) \/ InsertPut(p)
    \/ ReadMining(p) \/ WriteMining(p)
    \/ HealthGet(p) \/ HealthCheck(p)

Fail(p) ==
    \/ StoreFails(p) \/ ClientGone(p)
    \/ ReplaceAckLost(p) \/ BurnAckLost(p) \/ InsertAckLost(p)

Next ==
    \/ \E p \in Workers : Receive(p) \/ Serve(p) \/ Fail(p)
    \/ Restart

Spec == Init /\ [][Next]_vars

\* Tokio keeps polling a task whose future is ready: a handler that has been
\* entered goes on.  Nothing makes clients send requests.
FairSpec == Spec /\ \A p \in Workers : WF_vars(Serve(p))
=============================================================================
