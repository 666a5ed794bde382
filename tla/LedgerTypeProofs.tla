-------------------------- MODULE LedgerTypeProofs --------------------------
(***************************************************************************)
(* TypeOK is an invariant of LedgerServer for every backend, any number of *)
(* workers and any set of requests, with failures and restarts.  It is not *)
(* inductive alone: that a Redis insert completes a record that exists     *)
(* needs HandlersOk, what each handler knows between two store calls.      *)
(***************************************************************************)
EXTENDS LedgerSafety, TokenLemmas

\* Records are never removed.
Kept == \A k \in Keys : tokens[k] # Absent => tokens'[k] # Absent

HandlersTyped ==
    /\ pc \in [Workers -> Steps]
    /\ req \in [Workers -> Requests \union {NoReq}]
    /\ work \in [Workers -> HandlerWork]
    /\ reply \in [Workers -> Answer]

\* What the assumptions say of one request.
LEMMA RequestParts ==
    ASSUME NEW r \in Requests
    PROVE  /\ r.kind \in Kinds
           /\ r.ins \in Seq(Tokens)
           /\ r.outs \in Seq(Tokens)
           /\ \A i \in DOMAIN r.ins : r.ins[i].key \in Keys
           /\ \A i \in DOMAIN r.outs : r.outs[i].key \in Keys
           /\ DOMAIN r.outs \subseteq Nat
           /\ r.kind \in {"burn", "health"} =>
                 /\ Len(r.ins) = 1
                 /\ r.ins[1].key \in Keys
<1>1. r \in RequestType({r.issuer}, {r.nonce})
  BY RequestsAssumption
<1>2. r.kind \in Kinds /\ r.ins \in Seq(Tokens) /\ r.outs \in Seq(Tokens)
  BY <1>1 DEF RequestType
<1>3. \A t \in Tokens : t.key \in Keys
  BY TokenParts
<1>4. r.kind \in {"burn", "health"} => Len(r.ins) = 1
  BY SingleTokenAssumption
<1> QED BY <1>2, <1>3, <1>4

LEMMA NoWorkType == NoWork \in HandlerWork
BY DEF NoWork, HandlerWork, MiningDefault

LEMMA ResponseType ==
    ASSUME NEW s \in {"none", "ok", "error"}
    PROVE  Response(s) \in Answer
BY DEF Response, Answer

\* A step of worker p that keeps the records does not disturb the others.
LEMMA OthersKept ==
    ASSUME TypeOK, HandlersOk, NEW p \in Workers, Kept,
           \A q \in Workers \ {p} :
               pc'[q] = pc[q] /\ req'[q] = req[q] /\ work'[q] = work[q]
    PROVE  \A q \in Workers \ {p} : HandlerOk(q)'
<1> SUFFICES ASSUME NEW q \in Workers \ {p} PROVE HandlerOk(q)'
  OBVIOUS
<1>1. HandlerOk(q)
  BY DEF HandlersOk
<1>2. pc'[q] = pc[q] /\ req'[q] = req[q] /\ work'[q] = work[q]
  OBVIOUS
<1>3. ASSUME pc[q] \in {"insert", "fill"}, NEW i \in work[q].made
      PROVE  tokens'[req[q].outs[i].key] # Absent
  <2>1. req[q] \in Requests /\ i \in DOMAIN req[q].outs
    BY <1>1, <1>3 DEF HandlerOk
  <2>2. tokens[req[q].outs[i].key] # Absent /\ req[q].outs[i].key \in Keys
    BY <1>1, <1>3, <2>1, RequestParts DEF HandlerOk
  <2> QED BY <2>2 DEF Kept
<1> QED BY <1>1, <1>2, <1>3 DEF HandlerOk, ReplaceAdmissible

\* Answering a request ends the handler in good order.
LEMMA RespondKeeps ==
    ASSUME TypeOK, HandlersOk, Kept, NEW p \in Workers, NEW a \in Answer, Respond(p, a)
    PROVE  HandlersTyped' /\ HandlersOk'
<1>1. HandlersTyped'
  BY NoWorkType DEF Respond, HandlersTyped, TypeOK, Steps
<1>2. pc'[p] = "idle"
  BY DEF Respond, TypeOK
<1>3. HandlerOk(p)'
  BY <1>2 DEF HandlerOk
<1>4. \A q \in Workers \ {p} :
         pc'[q] = pc[q] /\ req'[q] = req[q] /\ work'[q] = work[q]
  BY DEF Respond, TypeOK
<1>5. \A q \in Workers \ {p} : HandlerOk(q)'
  BY <1>4, OthersKept
<1> QED BY <1>1, <1>3, <1>5 DEF HandlersOk

\* Going on to another store call, when what p knows there is established.
LEMMA GotoKeeps ==
    ASSUME TypeOK, HandlersOk, Kept, NEW p \in Workers,
           NEW s \in Steps, Goto(p, s), NEW w \in HandlerWork,
           work' = [work EXCEPT ![p] = w], HandlerOk(p)'
    PROVE  HandlersTyped' /\ HandlersOk'
<1>1. HandlersTyped'
  BY DEF Goto, HandlersTyped, TypeOK
<1>2. \A q \in Workers \ {p} :
         pc'[q] = pc[q] /\ req'[q] = req[q] /\ work'[q] = work[q]
  BY DEF Goto, TypeOK
<1>3. \A q \in Workers \ {p} : HandlerOk(q)'
  BY <1>2, OthersKept
<1> QED BY <1>1, <1>3 DEF HandlersOk

LEMMA SameTokensKept == ASSUME tokens' = tokens PROVE Kept
BY DEF Kept

LEMMA ReplacesKeeps ==
    ASSUME NEW ins, NEW outs, tokens \in TokenMap, Replaces(tokens, tokens', ins, outs)
    PROVE  Kept
<1> SUFFICES ASSUME NEW k \in Keys, tokens[k] # Absent PROVE tokens'[k] # Absent
  BY DEF Kept
<1>1. CASE k \in KeysOf(ins)
  <2>1. tokens[k] \in TokenRecord
    BY DEF TokenMap
  <2> QED BY <1>1, <2>1, ClosedRecord DEF Replaces
<1>2. CASE k \notin KeysOf(ins)
  BY <1>2 DEF Replaces
<1> QED BY <1>1, <1>2

-----------------------------------------------------------------------------
(* One lemma per action: TypeOK /\ HandlersOk is kept *)

LEMMA BeginKeeps ==
    ASSUME TypeOK, HandlersOk, NEW p \in Workers, NEW r \in Requests,
           tokens' = tokens, ~Rejected(r), ~(r.kind = "replace" /\ EmptyReplace(r)),
           Begin(p, r)
    PROVE  HandlersTyped' /\ HandlersOk'
<1> DEFINE w == [NoWork EXCEPT !.todo = DOMAIN r.outs]
<1>1. r.kind \in Kinds /\ DOMAIN r.outs \subseteq Nat
  BY RequestParts
<1>2. FirstStep(r) \in Steps
  BY <1>1 DEF FirstStep, Steps, Kinds
<1>3. w \in HandlerWork /\ w.todo = DOMAIN r.outs /\ w.made = {}
  BY <1>1, NoWorkType DEF NoWork, HandlerWork
<1>4. pc'[p] = FirstStep(r) /\ req'[p] = r /\ work'[p] = w
  BY DEF Begin, TypeOK
<1>5. HandlersTyped'
  <2>1. Response("none") \in Answer
    BY ResponseType
  <2> HIDE DEF w
  <2> QED BY <1>2, <1>3, <2>1 DEF Begin, HandlersTyped, TypeOK, w
<1>6. HandlerOk(p)'
  <2>1. r.kind = "replace" => ReplaceAdmissible(r)
    BY DEF Rejected
  <2> HIDE DEF w
  <2>2. CASE r.kind = "replace"
    <3>1. pc'[p] = "read"
      BY <1>4, <2>2 DEF FirstStep
    <3> QED BY <1>4, <2>1, <2>2, <3>1 DEF HandlerOk, ReplaceAdmissible
  <2>3. CASE r.kind \in {"mine", "issue"}
    <3>1. pc'[p] = "insert"
      BY <1>4, <2>3 DEF FirstStep
    <3> QED BY <1>3, <1>4, <3>1 DEF HandlerOk
  <2>4. CASE r.kind = "burn"
    <3>1. pc'[p] = "burn"
      BY <1>4, <2>4 DEF FirstStep
    <3> QED BY <1>4, <2>4, <3>1 DEF HandlerOk
  <2>5. CASE r.kind = "health"
    <3>1. pc'[p] = "hget"
      BY <1>4, <2>5 DEF FirstStep
    <3> QED BY <1>4, <2>5, <3>1 DEF HandlerOk
  <2> QED BY <1>1, <2>2, <2>3, <2>4, <2>5 DEF Kinds
<1>7. \A q \in Workers \ {p} :
         pc'[q] = pc[q] /\ req'[q] = req[q] /\ work'[q] = work[q]
  BY DEF Begin, TypeOK
<1>8. \A q \in Workers \ {p} : HandlerOk(q)'
  BY <1>7, OthersKept, SameTokensKept
<1> QED BY <1>5, <1>6, <1>8 DEF HandlersOk

LEMMA ReceiveKeeps ==
    ASSUME TypeOK, HandlersOk, NEW p \in Workers, Receive(p)
    PROVE  TypeOK' /\ HandlersOk'
<1>1. PICK r \in Requests :
         Refuse(p, r) \/ AcceptEmpty(p, r) \/ Accept(p, r) \/ AcceptIssue(p, r)
  BY DEF Receive
<1>2. tokens' = tokens /\ audit' = audit /\ mining' = mining /\ accepted' = accepted
      /\ landed' = [landed EXCEPT ![p] = FALSE]
  BY <1>1 DEF Refuse, AcceptEmpty, Accept, AcceptIssue
<1>3. nonces' \subseteq {<<q.issuer, q.nonce>> : q \in Requests}
  BY <1>1 DEF Refuse, AcceptEmpty, Accept, AcceptIssue, Retained, TypeOK
<1>4. Response("ok") \in Answer /\ Response("error") \in Answer
  BY ResponseType
<1>5. HandlersTyped' /\ HandlersOk'
  <2>1. CASE Refuse(p, r)
    BY <1>2, <1>4, <2>1, RespondKeeps, SameTokensKept DEF Refuse
  <2>2. CASE AcceptEmpty(p, r)
    BY <1>2, <1>4, <2>2, RespondKeeps, SameTokensKept DEF AcceptEmpty
  <2>3. CASE Accept(p, r)
    BY <1>2, <2>3, BeginKeeps DEF Accept
  <2>4. CASE AcceptIssue(p, r)
    <3>1. Begin(p, r) \/ Respond(p, Response("error"))
      BY <2>4 DEF AcceptIssue
    <3>2. r.kind = "issue" /\ ~Rejected(r)
      BY <2>4 DEF AcceptIssue
    <3> QED BY <1>2, <1>4, <3>1, <3>2, BeginKeeps, RespondKeeps, SameTokensKept
  <2> QED BY <1>1, <2>1, <2>2, <2>3, <2>4
<1> QED BY <1>2, <1>3, <1>5 DEF TypeOK, HandlersTyped

LEMMA ReadInputsKeeps ==
    ASSUME TypeOK, HandlersOk, NEW p \in Workers, ReadInputs(p)
    PROVE  TypeOK' /\ HandlersOk'
<1>1. Kept
  BY SameTokensKept DEF ReadInputs
<1>2. HandlersTyped' /\ HandlersOk'
  <2>1. CASE Respond(p, Response("error"))
    BY <1>1, <2>1, RespondKeeps, ResponseType
  <2>2. CASE Goto(p, "commit") /\ UNCHANGED work
    <3>1. "commit" \in Steps /\ work[p] \in HandlerWork
          /\ work' = [work EXCEPT ![p] = work[p]]
      BY <2>2 DEF TypeOK, Steps
    <3>2. HandlerOk(p) /\ pc[p] = "read"
      BY DEF HandlersOk, ReadInputs
    <3>3. pc'[p] = "commit" /\ req'[p] = req[p]
      BY <2>2 DEF Goto, TypeOK
    <3>4. HandlerOk(p)'
      BY <3>2, <3>3 DEF HandlerOk, ReplaceAdmissible
    <3> QED BY <1>1, <2>2, <3>1, <3>4, GotoKeeps
  <2> QED BY <2>1, <2>2 DEF ReadInputs
<1> QED BY <1>2 DEF ReadInputs, TypeOK, HandlersTyped

\* The store's part of a replace.
LEMMA ApplyReplaceKeeps ==
    ASSUME TypeOK, HandlersOk, NEW p \in Workers, pc[p] = "commit", ApplyReplace(p)
    PROVE  /\ tokens' \in TokenMap /\ Kept
           /\ audit' \in Seq(AuditRecord)
           /\ landed' \in [Workers -> BOOLEAN]
<1> DEFINE r == req[p]
<1>1. r \in Requests /\ r.kind = "replace"
  BY DEF HandlersOk, HandlerOk
<1>2. r.ins \in Seq(Tokens) /\ r.outs \in Seq(Tokens)
  BY <1>1, RequestParts
<1>3. tokens \in TokenMap
  BY DEF TypeOK
<1>4. AuditEntry(r) \in AuditRecord
  <2>1. KeyList(r.ins) \in Seq(Keys) /\ KeyList(r.outs) \in Seq(Keys) /\ Total(r.ins) \in Int
    BY <1>2, ListKeys, TotalType
  <2> QED BY <1>1, <2>1 DEF AuditEntry, AuditRecord
<1>5. tokens' \in TokenMap /\ Kept
  <2>1. CASE Backend = "redis"
    <3>1. tokens' = LuaReplace(tokens, r.ins, r.outs)
      BY <2>1 DEF ApplyReplace, AfterReplace
    <3> QED BY <1>2, <1>3, <3>1, LuaReplaceType DEF Kept
  <2>2. CASE Backend # "redis"
    <3>1. CASE tokens' = tokens
      BY <1>3, <3>1 DEF Kept
    <3>2. CASE tokens' # tokens
      <4>1. /\ tokens' = PutAll(MarkSpent(tokens, KeysOf(r.ins)), r.outs, "replaced")
            /\ Replaceable(tokens, r.ins, r.outs)
        BY <2>2, <3>2, BackendAssumption
        DEF ApplyReplace, AfterReplace, ReplaceOk, FdbReplace, DynamoReplace,
            FdbReplaceOk, FdbInsertOk, DynamoReplaceOk, Replaceable
      <4>2. Replaces(tokens, tokens', r.ins, r.outs)
        BY <1>2, <1>3, <4>1, ReplaceEffect
      <4> QED BY <1>3, <4>2, ReplacesKeeps DEF Replaces
    <3> QED BY <3>1, <3>2
  <2> QED BY <2>1, <2>2
<1>6. audit' \in Seq(AuditRecord)
  <2> DEFINE E == AuditRecord
  <2>1. audit' = audit \/ audit' = Append(audit, AuditEntry(r))
    BY DEF ApplyReplace
  <2>2. audit \in Seq(E) /\ AuditEntry(r) \in E
    BY <1>4 DEF TypeOK
  <2> HIDE DEF E, r
  <2>3. audit' \in Seq(E)
    BY <2>1, <2>2
  <2> QED BY <2>3 DEF E
<1>7. landed' \in [Workers -> BOOLEAN]
  BY DEF ApplyReplace, TypeOK
<1> QED BY <1>5, <1>6, <1>7

LEMMA CommitReplaceKeeps ==
    ASSUME TypeOK, HandlersOk, NEW p \in Workers, CommitReplace(p)
    PROVE  TypeOK' /\ HandlersOk'
<1>1. /\ tokens' \in TokenMap /\ Kept
      /\ audit' \in Seq(AuditRecord)
      /\ landed' \in [Workers -> BOOLEAN]
  BY ApplyReplaceKeeps DEF CommitReplace
<1>2. \E a \in Answer : Respond(p, a)
  BY ResponseType DEF CommitReplace
<1>3. HandlersTyped' /\ HandlersOk'
  BY <1>1, <1>2, RespondKeeps
<1>4. mining' = mining /\ nonces' = nonces /\ accepted' = accepted
  BY DEF CommitReplace, ApplyReplace
<1> QED BY <1>1, <1>3, <1>4 DEF TypeOK, HandlersTyped

\* The store's part of a burn.
LEMMA ApplyBurnKeeps ==
    ASSUME TypeOK, HandlersOk, NEW p \in Workers, pc[p] = "burn", ApplyBurn(p)
    PROVE  /\ tokens' \in TokenMap /\ Kept
           /\ audit' \in Seq(AuditRecord)
           /\ landed' \in [Workers -> BOOLEAN]
<1> DEFINE r == req[p]
           k == BurnKey(r)
<1>1. r \in Requests /\ r.kind = "burn"
  BY DEF HandlersOk, HandlerOk
<1>2. r.ins \in Seq(Tokens) /\ r.outs \in Seq(Tokens) /\ k \in Keys
  BY <1>1, RequestParts DEF BurnKey
<1>3. tokens \in TokenMap
  BY DEF TypeOK
<1>4. AuditEntry(r) \in AuditRecord
  <2>1. KeyList(r.ins) \in Seq(Keys) /\ KeyList(r.outs) \in Seq(Keys) /\ Total(r.ins) \in Int
    BY <1>2, ListKeys, TotalType
  <2> QED BY <1>1, <2>1 DEF AuditEntry, AuditRecord
<1>5. tokens' \in TokenMap /\ Kept
  <2>1. CASE tokens' = tokens
    BY <1>3, <2>1 DEF Kept
  <2>2. CASE tokens' # tokens
    <3>1. tokens' = MarkSpent(tokens, {k}) /\ tokens[k] # Absent
      BY <2>2, BackendAssumption
      DEF ApplyBurn, BurnOk, FdbBurnOk, LuaBurnOk, DynamoBurnOk
    <3> HIDE DEF k
    <3>2. tokens' \in TokenMap
      BY <1>2, <1>3, <3>1, MarkSpentType
    <3>3. tokens[k] \in TokenRecord
      BY <1>2, <1>3, <3>1 DEF TokenMap
    <3>4. Closed(tokens[k]) # Absent
      BY <3>3, ClosedRecord
    <3>5. Kept
      BY <3>1, <3>4 DEF Kept, MarkSpent
    <3> QED BY <3>2, <3>5
  <2> QED BY <2>1, <2>2
<1>6. audit' \in Seq(AuditRecord)
  <2> DEFINE E == AuditRecord
  <2>1. audit' = audit \/ audit' = Append(audit, AuditEntry(r))
    BY DEF ApplyBurn
  <2>2. audit \in Seq(E) /\ AuditEntry(r) \in E
    BY <1>4 DEF TypeOK
  <2> HIDE DEF E, r
  <2>3. audit' \in Seq(E)
    BY <2>1, <2>2
  <2> QED BY <2>3 DEF E
<1>7. landed' \in [Workers -> BOOLEAN]
  BY DEF ApplyBurn, TypeOK
<1> QED BY <1>5, <1>6, <1>7

LEMMA CommitBurnKeeps ==
    ASSUME TypeOK, HandlersOk, NEW p \in Workers, CommitBurn(p)
    PROVE  TypeOK' /\ HandlersOk'
<1>1. /\ tokens' \in TokenMap /\ Kept
      /\ audit' \in Seq(AuditRecord)
      /\ landed' \in [Workers -> BOOLEAN]
  BY ApplyBurnKeeps DEF CommitBurn
<1>2. \E a \in Answer : Respond(p, a)
  BY ResponseType DEF CommitBurn
<1>3. HandlersTyped' /\ HandlersOk'
  BY <1>1, <1>2, RespondKeeps
<1>4. mining' = mining /\ nonces' = nonces /\ accepted' = accepted
  BY DEF CommitBurn, ApplyBurn
<1> QED BY <1>1, <1>3, <1>4 DEF TypeOK, HandlersTyped

\* How an insert ends, when the records are kept.
LEMMA InsertedKeeps ==
    ASSUME TypeOK, HandlersOk, Kept, NEW p \in Workers,
           pc[p] \in {"insert", "fill"}, Inserted(p) \/ InsertFailed(p)
    PROVE  HandlersTyped' /\ HandlersOk' /\ accepted' \in Nat
<1>1. CASE \E a \in Answer : Respond(p, a) /\ UNCHANGED accepted
  BY <1>1, RespondKeeps DEF TypeOK
<1>2. CASE /\ accepted' = accepted + 1
           /\ work' = [work EXCEPT ![p] = NoWork]
           /\ Goto(p, "mread")
  <2>1. HandlerOk(p) /\ pc'[p] = "mread" /\ req'[p] = req[p]
    BY <1>2 DEF HandlersOk, Goto, TypeOK
  <2>2. HandlerOk(p)'
    BY <2>1 DEF HandlerOk
  <2>3. "mread" \in Steps
    BY DEF Steps
  <2>4. HandlersTyped' /\ HandlersOk'
    BY <1>2, <2>2, <2>3, NoWorkType, GotoKeeps
  <2>5. accepted' \in Nat
    BY <1>2 DEF TypeOK
  <2> QED BY <2>4, <2>5
<1> QED BY <1>1, <1>2, ResponseType DEF Inserted, InsertFailed

LEMMA OriginType == ASSUME NEW r PROVE OriginOf(r) \in {"mined", "replaced"}
BY DEF OriginOf

\* What a transactional insert does to the records.
LEMMA InsertTokensKeeps ==
    ASSUME TypeOK, NEW r \in Requests, FdbInsertOk(tokens, r.outs),
           tokens' = PutAll(tokens, r.outs, OriginOf(r))
    PROVE  /\ Opens(tokens, tokens', r.outs, OriginOf(r))
           /\ Kept
           /\ \A k \in KeysOf(r.outs) : tokens[k] = Absent
<1>1. Opens(tokens, tokens', r.outs, OriginOf(r))
  BY RequestParts, OriginType, InsertEffect DEF TypeOK
<1>2. \A k \in KeysOf(r.outs) : tokens[k] = Absent
  BY DEF FdbInsertOk, KeysOf
<1> QED BY <1>1, <1>2 DEF Opens, Kept

LEMMA InsertTransactionKeeps ==
    ASSUME TypeOK, HandlersOk, NEW p \in Workers, InsertTransaction(p)
    PROVE  TypeOK' /\ HandlersOk'
<1>1. pc[p] = "insert" /\ req[p] \in Requests
  BY DEF InsertTransaction, HandlersOk, HandlerOk
<1>2. tokens' \in TokenMap /\ Kept
  BY <1>1, InsertTokensKeeps, SameTokensKept DEF InsertTransaction, Opens, TypeOK
<1>3. HandlersTyped' /\ HandlersOk' /\ accepted' \in Nat
  BY <1>1, <1>2, InsertedKeeps DEF InsertTransaction
<1>4. landed' \in [Workers -> BOOLEAN]
  BY DEF InsertTransaction, TypeOK
<1> QED BY <1>2, <1>3, <1>4 DEF InsertTransaction, TypeOK, HandlersTyped

LEMMA InsertNothingKeeps ==
    ASSUME TypeOK, HandlersOk, NEW p \in Workers, InsertNothing(p)
    PROVE  TypeOK' /\ HandlersOk'
<1>1. HandlersTyped' /\ HandlersOk' /\ accepted' \in Nat
  BY InsertedKeeps, SameTokensKept DEF InsertNothing
<1> QED BY <1>1 DEF InsertNothing, TypeOK, HandlersTyped

\* The first of a set of positions is one of them.
LEMMA FirstIsIn ==
    ASSUME NEW S \in SUBSET Nat, S # {}
    PROVE  First(S) \in S
<1>1. \E n \in S : \A m \in S : n <= m
  BY LeastElement
<1> QED BY <1>1 DEF First

LEMMA InsertNxKeeps ==
    ASSUME TypeOK, HandlersOk, NEW p \in Workers, InsertNx(p)
    PROVE  TypeOK' /\ HandlersOk'
<1> DEFINE i == First(work[p].todo)
           t == req[p].outs[i]
           created == tokens[t.key] = Absent
           made == IF created THEN work[p].made \union {i} ELSE work[p].made
           rest == work[p].todo \ {i}
           w == [work[p] EXCEPT !.made = made,
                                !.todo = IF rest = {} THEN made ELSE rest]
           s == IF rest = {} THEN "fill" ELSE "insert"
<1>1. pc[p] = "insert" /\ HandlerOk(p) /\ req[p] \in Requests /\ work[p] \in HandlerWork
  BY DEF InsertNx, HandlersOk, HandlerOk, TypeOK
<1>2. i \in work[p].todo /\ i \in DOMAIN req[p].outs
  <2>1. work[p].todo # {} /\ work[p].todo \subseteq DOMAIN req[p].outs
    BY <1>1 DEF InsertNx, HandlerOk
  <2>2. work[p].todo \in SUBSET Nat
    BY <1>1 DEF HandlerWork
  <2> QED BY <2>1, <2>2, FirstIsIn
<1>3. t \in Tokens /\ t.key \in Keys /\ t.amount \in Int
  BY <1>1, <1>2, RequestParts, TokenParts
<1>4. /\ tokens' = IF created THEN HSetNx(tokens, t) ELSE tokens
      /\ landed' = [landed EXCEPT ![p] = landed[p] \/ created]
      /\ UNCHANGED <<audit, mining, nonces, accepted>>
      /\ \/ rest = {} /\ made = {} /\ Respond(p, Response("error"))
         \/ /\ ~(rest = {} /\ made = {})
            /\ work' = [work EXCEPT ![p] = w]
            /\ Goto(p, s)
  BY DEF InsertNx, HSetNxCreates
<1>5. tokens' \in TokenMap /\ tokens'[t.key] # Absent /\ Kept
  <2> DEFINE half == [amount |-> t.amount, spent |-> "unset", origin |-> "unset"]
  <2>1. half \in TokenRecord /\ half # Absent
    BY <1>3, AbsentIsNoRecord DEF TokenRecord
  <2>2. tokens \in TokenMap
    BY DEF TypeOK
  <2>3. tokens' = tokens \/ tokens' = [tokens EXCEPT ![t.key] = half]
    BY <1>4 DEF HSetNx
  <2>4. created => tokens' = [tokens EXCEPT ![t.key] = half]
    BY <1>4 DEF HSetNx
  <2>5. ~created => tokens' = tokens /\ tokens[t.key] # Absent
    BY <1>4
  <2> HIDE DEF half, t
  <2> QED BY <1>3, <2>1, <2>2, <2>3, <2>4, <2>5 DEF TokenMap, Kept
<1>6. w \in HandlerWork /\ w.made = made
      /\ w.todo = (IF rest = {} THEN made ELSE rest)
  <2>1. made \in SUBSET Nat /\ rest \in SUBSET Nat
    BY <1>1, <1>2 DEF HandlerWork
  <2> HIDE DEF made, rest
  <2> QED BY <1>1, <2>1 DEF HandlerWork
<1>7. made \subseteq DOMAIN req[p].outs
  BY <1>1, <1>2 DEF HandlerOk
<1>8. \A j \in made : tokens'[req[p].outs[j].key] # Absent
  <2>1. \A j \in work[p].made :
           tokens[req[p].outs[j].key] # Absent /\ req[p].outs[j].key \in Keys
    BY <1>1, RequestParts DEF HandlerOk
  <2>2. \A j \in made : j \in work[p].made \/ j = i
    OBVIOUS
  <2> HIDE DEF made
  <2> QED BY <1>5, <2>1, <2>2 DEF Kept
<1>9. rest \subseteq DOMAIN req[p].outs
  BY <1>1 DEF HandlerOk
<1>10. HandlersTyped' /\ HandlersOk'
  <2>1. CASE Respond(p, Response("error"))
    BY <1>5, <2>1, RespondKeeps, ResponseType
  <2>2. CASE /\ ~(rest = {} /\ made = {})
             /\ work' = [work EXCEPT ![p] = w]
             /\ Goto(p, s)
    <3>1. work'[p] = w /\ req'[p] = req[p] /\ pc'[p] = s /\ s \in Steps
      BY <2>2 DEF Goto, TypeOK, Steps
    <3> HIDE DEF w, made, rest
    <3>2. HandlerOk(p)'
      BY <1>1, <1>6, <1>7, <1>8, <1>9, <2>2, <3>1 DEF HandlerOk
    <3> QED BY <1>5, <1>6, <2>2, <3>1, <3>2, GotoKeeps
  <2> QED BY <1>4, <2>1, <2>2
<1>11. landed' \in [Workers -> BOOLEAN]
  BY <1>4 DEF TypeOK
<1> QED BY <1>4, <1>5, <1>10, <1>11 DEF TypeOK, HandlersTyped

LEMMA InsertFillKeeps ==
    ASSUME TypeOK, HandlersOk, NEW p \in Workers, InsertFill(p)
    PROVE  TypeOK' /\ HandlersOk'
<1> DEFINE i == First(work[p].todo)
           t == req[p].outs[i]
           rest == work[p].todo \ {i}
           w == [work[p] EXCEPT !.todo = rest]
<1>1. pc[p] = "fill" /\ HandlerOk(p) /\ req[p] \in Requests /\ work[p] \in HandlerWork
  BY DEF InsertFill, HandlersOk, HandlerOk, TypeOK
<1>2. i \in work[p].todo
  <2>1. work[p].todo # {} /\ work[p].todo \in SUBSET Nat
    BY <1>1 DEF HandlerOk, HandlerWork
  <2> QED BY <2>1, FirstIsIn
<1>3. i \in work[p].made /\ i \in DOMAIN req[p].outs /\ tokens[t.key] # Absent
  BY <1>1, <1>2 DEF HandlerOk
<1>4. t.key \in Keys
  BY <1>1, <1>3, RequestParts
<1>5. /\ tokens' = HSetRest(tokens, t, OriginOf(req[p]))
      /\ UNCHANGED <<audit, mining, nonces, landed>>
      /\ \/ /\ rest # {}
            /\ work' = [work EXCEPT ![p].todo = rest]
            /\ Goto(p, "fill")
            /\ UNCHANGED accepted
         \/ Inserted(p) \/ InsertFailed(p)
  BY DEF InsertFill
<1>6. tokens' \in TokenMap /\ Kept
  <2> DEFINE full == [tokens[t.key] EXCEPT !.spent = "no", !.origin = OriginOf(req[p])]
  <2>1. tokens \in TokenMap
    BY DEF TypeOK
  <2>2. tokens[t.key] \in TokenRecord
    BY <1>3, <1>4, <2>1 DEF TokenMap
  <2>3. full \in TokenRecord
    BY <2>2, OriginType DEF TokenRecord
  <2>4. tokens' = [tokens EXCEPT ![t.key] = full]
    BY <1>5 DEF HSetRest
  <2> HIDE DEF full
  <2> QED BY <1>4, <2>1, <2>3, <2>4, AbsentIsNoRecord DEF TokenMap, Kept
<1>7. HandlersTyped' /\ HandlersOk' /\ accepted' \in Nat
  <2>1. CASE Inserted(p) \/ InsertFailed(p)
    BY <1>1, <1>6, <2>1, InsertedKeeps
  <2>2. CASE /\ rest # {}
             /\ work' = [work EXCEPT ![p].todo = rest]
             /\ Goto(p, "fill")
             /\ UNCHANGED accepted
    <3>1. w \in HandlerWork /\ w.todo = rest /\ w.made = work[p].made
      BY <1>1 DEF HandlerWork
    <3>2. work' = [work EXCEPT ![p] = w]
      BY <2>2
    <3>3. work'[p] = w /\ req'[p] = req[p] /\ pc'[p] = "fill" /\ "fill" \in Steps
      BY <2>2, <3>2 DEF Goto, TypeOK, Steps
    <3>4. rest \subseteq work[p].made /\ rest \subseteq DOMAIN req[p].outs
      BY <1>1 DEF HandlerOk
    <3>5. \A j \in work[p].made : tokens'[req[p].outs[j].key] # Absent
      BY <1>1, <1>6, RequestParts DEF HandlerOk, Kept
    <3> HIDE DEF w, rest
    <3>6. HandlerOk(p)'
      BY <1>1, <2>2, <3>1, <3>3, <3>4, <3>5 DEF HandlerOk
    <3>7. HandlersTyped' /\ HandlersOk'
      BY <1>6, <2>2, <3>1, <3>2, <3>3, <3>6, GotoKeeps
    <3> QED BY <2>2, <3>7 DEF TypeOK
  <2> QED BY <1>5, <2>1, <2>2
<1> QED BY <1>5, <1>6, <1>7 DEF TypeOK, HandlersTyped

LEMMA InsertPutKeeps ==
    ASSUME TypeOK, HandlersOk, NEW p \in Workers, InsertPut(p)
    PROVE  TypeOK' /\ HandlersOk'
<1>1. pc[p] = "insert" /\ HandlerOk(p) /\ req[p] \in Requests /\ work[p] \in HandlerWork
  BY DEF InsertPut, HandlersOk, HandlerOk, TypeOK
<1>2. CASE InsertFailed(p) /\ UNCHANGED <<tokens, landed>>
  <2>1. HandlersTyped' /\ HandlersOk' /\ accepted' \in Nat
    BY <1>1, <1>2, InsertedKeeps, SameTokensKept
  <2> QED BY <1>2, <2>1 DEF InsertPut, TypeOK, HandlersTyped
<1>3. ASSUME NEW i \in work[p].todo,
             \/ /\ tokens' = DynamoPut(tokens, req[p].outs[i], OriginOf(req[p]))
                /\ landed' = [landed EXCEPT ![p] = TRUE]
             \/ UNCHANGED <<tokens, landed>>,
             \/ /\ work' = [work EXCEPT ![p].todo = @ \ {i}]
                /\ Goto(p, "insert")
                /\ UNCHANGED accepted
             \/ Inserted(p) \/ InsertFailed(p)
      PROVE  TypeOK' /\ HandlersOk'
  <2> DEFINE t == req[p].outs[i]
             rest == work[p].todo \ {i}
             w == [work[p] EXCEPT !.todo = rest]
             rec == RecordFromSecret(t, OriginOf(req[p]))
  <2>1. t \in Tokens /\ t.key \in Keys /\ t.amount \in Int
    BY <1>1, <1>3, RequestParts, TokenParts DEF HandlerOk
  <2>2. rec \in TokenRecord
    BY <2>1, FreshRecord, OriginType
  <2>3. tokens' = tokens \/ tokens' = [tokens EXCEPT ![t.key] = rec]
    BY <1>3 DEF DynamoPut
  <2>4. tokens' \in TokenMap /\ Kept
    <3> HIDE DEF rec, t
    <3> QED BY <2>1, <2>2, <2>3, AbsentIsNoRecord DEF TypeOK, TokenMap, Kept
  <2>5. landed' \in [Workers -> BOOLEAN]
    BY <1>3 DEF TypeOK
  <2>6. HandlersTyped' /\ HandlersOk' /\ accepted' \in Nat
    <3>1. CASE Inserted(p) \/ InsertFailed(p)
      BY <1>1, <2>4, <3>1, InsertedKeeps
    <3>2. CASE /\ work' = [work EXCEPT ![p].todo = @ \ {i}]
               /\ Goto(p, "insert")
               /\ UNCHANGED accepted
      <4>1. w \in HandlerWork /\ w.todo = rest /\ w.made = work[p].made
        BY <1>1 DEF HandlerWork
      <4>2. work' = [work EXCEPT ![p] = w]
        BY <3>2 DEF TypeOK
      <4>3. work'[p] = w /\ req'[p] = req[p] /\ pc'[p] = "insert" /\ "insert" \in Steps
        BY <3>2, <4>2 DEF Goto, TypeOK, Steps
      <4>4. rest \subseteq DOMAIN req[p].outs
        BY <1>1 DEF HandlerOk
      <4>5. \A j \in work[p].made : tokens'[req[p].outs[j].key] # Absent
        BY <1>1, <2>4, RequestParts DEF HandlerOk, Kept
      <4> HIDE DEF w, rest
      <4>6. HandlerOk(p)'
        BY <1>1, <4>1, <4>3, <4>4, <4>5 DEF HandlerOk
      <4>7. HandlersTyped' /\ HandlersOk'
        BY <2>4, <3>2, <4>1, <4>2, <4>3, <4>6, GotoKeeps
      <4> QED BY <3>2, <4>7 DEF TypeOK
    <3> QED BY <1>3, <3>1, <3>2
  <2> QED BY <2>4, <2>5, <2>6 DEF InsertPut, TypeOK, HandlersTyped
<1> QED BY <1>2, <1>3 DEF InsertPut

LEMMA ReadMiningKeeps ==
    ASSUME TypeOK, HandlersOk, NEW p \in Workers, ReadMining(p)
    PROVE  TypeOK' /\ HandlersOk'
<1>1. PICK m \in {mining, MiningDefault} : work' = [work EXCEPT ![p].state = m]
  BY DEF ReadMining
<1> DEFINE w == [work[p] EXCEPT !.state = m]
<1>2. w \in HandlerWork
  <2>1. m \in [count : Nat, circulation : Int]
    BY DEF TypeOK, MiningDefault
  <2>2. work[p] \in HandlerWork
    BY DEF TypeOK
  <2> QED BY <2>1, <2>2 DEF HandlerWork
<1>3. work' = [work EXCEPT ![p] = w]
  BY <1>1 DEF TypeOK
<1>4. req[p] \in Requests /\ pc'[p] = "mwrite" /\ req'[p] = req[p]
  BY DEF ReadMining, HandlersOk, HandlerOk, Goto, TypeOK
<1>5. HandlerOk(p)' /\ "mwrite" \in Steps
  BY <1>4 DEF HandlerOk, Steps
<1> HIDE DEF w
<1>6. HandlersTyped' /\ HandlersOk'
  BY <1>2, <1>3, <1>5, GotoKeeps, SameTokensKept DEF ReadMining
<1> QED BY <1>6 DEF ReadMining, TypeOK, HandlersTyped

LEMMA WriteMiningKeeps ==
    ASSUME TypeOK, HandlersOk, NEW p \in Workers, WriteMining(p)
    PROVE  TypeOK' /\ HandlersOk'
<1>1. HandlersTyped' /\ HandlersOk'
  BY RespondKeeps, ResponseType, SameTokensKept DEF WriteMining
<1>2. mining' \in [count : Nat, circulation : Int]
  <2>1. req[p] \in Requests
    BY DEF WriteMining, HandlersOk, HandlerOk
  <2>2. Total(req[p].outs) \in Int
    BY <2>1, RequestParts, TotalType
  <2>3. Wrap(Total(req[p].outs)) \in Int
    BY <2>2, WrapType
  <2>4. work[p].state.count \in Nat /\ work[p].state.circulation \in Int
    BY DEF TypeOK, HandlerWork
  <2>5. SaturatingAdd(work[p].state.circulation, Wrap(Total(req[p].outs))) \in Int
    BY <2>3, <2>4, SaturatingAddType
  <2>6. work[p].state.count + 1 \in Nat
    BY <2>4
  <2> QED BY <2>5, <2>6 DEF WriteMining, TypeOK
<1> QED BY <1>1, <1>2 DEF WriteMining, TypeOK, HandlersTyped

LEMMA HealthGetKeeps ==
    ASSUME TypeOK, HandlersOk, NEW p \in Workers, HealthGet(p)
    PROVE  TypeOK' /\ HandlersOk'
<1> DEFINE k == req[p].ins[1].key
           a == IF Decodes(k, tokens[k]) THEN <<tokens[k].amount>> ELSE <<>>
           w == [work[p] EXCEPT !.amount = a]
<1>1. req[p] \in Requests /\ req[p].kind = "health" /\ work[p] \in HandlerWork
  BY DEF HealthGet, HandlersOk, HandlerOk, TypeOK
<1>2. k \in Keys
  BY <1>1, RequestParts
<1>3. a \in Seq(Int)
  <2>1. Decodes(k, tokens[k]) => tokens[k] \in TokenRecord
    BY <1>2 DEF Decodes, TypeOK, TokenMap
  <2>2. Decodes(k, tokens[k]) => tokens[k].amount \in Int
    BY <2>1 DEF TokenRecord
  <2> QED BY <2>2
<1>4. w \in HandlerWork
  <2> HIDE DEF a
  <2> QED BY <1>1, <1>3 DEF HandlerWork
<1>5. work' = [work EXCEPT ![p] = w]
  BY DEF HealthGet, TypeOK
<1>6. pc'[p] = "hcheck" /\ req'[p] = req[p] /\ "hcheck" \in Steps
  BY DEF HealthGet, Goto, TypeOK, Steps
<1>7. HandlerOk(p)'
  BY <1>1, <1>6 DEF HandlerOk
<1> HIDE DEF w
<1>8. HandlersTyped' /\ HandlersOk'
  BY <1>4, <1>5, <1>6, <1>7, GotoKeeps, SameTokensKept DEF HealthGet
<1> QED BY <1>8 DEF HealthGet, TypeOK, HandlersTyped

LEMMA HealthCheckKeeps ==
    ASSUME TypeOK, HandlersOk, NEW p \in Workers, HealthCheck(p)
    PROVE  TypeOK' /\ HandlersOk'
<1> DEFINE k == req[p].ins[1].key
           s == SpentProbe(k)
           a == [status |-> "ok", key |-> k, spent |-> s,
                 amount |-> IF s = "false" THEN work[p].amount ELSE <<>>]
<1>1. req[p] \in Requests /\ req[p].kind = "health" /\ work[p] \in HandlerWork
  BY DEF HealthCheck, HandlersOk, HandlerOk, TypeOK
<1>2. k \in Keys
  BY <1>1, RequestParts
<1>3. s \in {"null", "true", "false"}
  BY DEF SpentProbe
<1>4. work[p].amount \in Seq(Int)
  BY <1>1 DEF HandlerWork
<1>5. Respond(p, a)
  BY DEF HealthCheck
<1> HIDE DEF k, s
<1>6. a \in Answer
  BY <1>2, <1>3, <1>4 DEF Answer
<1> HIDE DEF a
<1>7. HandlersTyped' /\ HandlersOk'
  BY <1>5, <1>6, RespondKeeps, SameTokensKept DEF HealthCheck
<1> QED BY <1>7 DEF HealthCheck, TypeOK, HandlersTyped

LEMMA StoreFailsKeeps ==
    ASSUME TypeOK, HandlersOk, NEW p \in Workers, StoreFails(p) \/ ClientGone(p)
    PROVE  TypeOK' /\ HandlersOk'
<1>1. HandlersTyped' /\ HandlersOk'
  BY RespondKeeps, ResponseType, SameTokensKept DEF StoreFails, ClientGone
<1> QED BY <1>1 DEF StoreFails, ClientGone, TypeOK, HandlersTyped

\* A lost outcome leaves the handler where it was, or answers an error.
LEMMA OutcomeLostKeeps ==
    ASSUME TypeOK, HandlersOk, Kept, NEW p \in Workers, OutcomeLost(p)
    PROVE  HandlersTyped' /\ HandlersOk'
<1>1. CASE Respond(p, Response("error"))
  BY <1>1, RespondKeeps, ResponseType
<1>2. CASE UNCHANGED handlerVars
  <2>1. pc' = pc /\ req' = req /\ work' = work /\ reply' = reply
    BY <1>2 DEF handlerVars
  <2>2. HandlersTyped'
    BY <2>1 DEF HandlersTyped, TypeOK
  <2>3. \A q \in Workers \ {p} : HandlerOk(q)'
    BY <2>1, OthersKept
  <2>4. HandlerOk(p)
    BY DEF HandlersOk
  <2>5. ASSUME pc[p] \in {"insert", "fill"}, NEW i \in work[p].made
        PROVE  tokens'[req[p].outs[i].key] # Absent
    <3>1. req[p] \in Requests /\ i \in DOMAIN req[p].outs
      BY <2>4, <2>5 DEF HandlerOk
    <3>2. tokens[req[p].outs[i].key] # Absent /\ req[p].outs[i].key \in Keys
      BY <2>4, <2>5, <3>1, RequestParts DEF HandlerOk
    <3> QED BY <3>2 DEF Kept
  <2>6. HandlerOk(p)'
    BY <2>1, <2>4, <2>5 DEF HandlerOk, ReplaceAdmissible
  <2> QED BY <2>2, <2>3, <2>6 DEF HandlersOk
<1> QED BY <1>1, <1>2 DEF OutcomeLost

LEMMA AckLostKeeps ==
    ASSUME TypeOK, HandlersOk, NEW p \in Workers,
           ReplaceAckLost(p) \/ BurnAckLost(p) \/ InsertAckLost(p)
    PROVE  TypeOK' /\ HandlersOk'
<1>1. CASE ReplaceAckLost(p)
  <2>1. /\ tokens' \in TokenMap /\ Kept
        /\ audit' \in Seq(AuditRecord)
        /\ landed' \in [Workers -> BOOLEAN]
    BY <1>1, ApplyReplaceKeeps DEF ReplaceAckLost
  <2>2. HandlersTyped' /\ HandlersOk'
    BY <1>1, <2>1, OutcomeLostKeeps DEF ReplaceAckLost
  <2>3. mining' = mining /\ nonces' = nonces /\ accepted' = accepted
    BY <1>1 DEF ReplaceAckLost, ApplyReplace
  <2> QED BY <2>1, <2>2, <2>3 DEF TypeOK, HandlersTyped
<1>2. CASE BurnAckLost(p)
  <2>1. /\ tokens' \in TokenMap /\ Kept
        /\ audit' \in Seq(AuditRecord)
        /\ landed' \in [Workers -> BOOLEAN]
    BY <1>2, ApplyBurnKeeps DEF BurnAckLost
  <2>2. HandlersTyped' /\ HandlersOk'
    BY <1>2, <2>1, OutcomeLostKeeps DEF BurnAckLost
  <2>3. mining' = mining /\ nonces' = nonces /\ accepted' = accepted
    BY <1>2 DEF BurnAckLost, ApplyBurn
  <2> QED BY <2>1, <2>2, <2>3 DEF TypeOK, HandlersTyped
<1>3. CASE InsertAckLost(p)
  <2>1. req[p] \in Requests
    BY <1>3 DEF InsertAckLost, HandlersOk, HandlerOk
  <2>2. tokens' \in TokenMap /\ Kept
    BY <1>3, <2>1, InsertTokensKeeps DEF InsertAckLost, Opens
  <2>3. HandlersTyped' /\ HandlersOk'
    BY <1>3, <2>2, OutcomeLostKeeps DEF InsertAckLost
  <2>4. landed' \in [Workers -> BOOLEAN]
    BY <1>3 DEF InsertAckLost, TypeOK
  <2> QED BY <1>3, <2>2, <2>3, <2>4 DEF InsertAckLost, TypeOK, HandlersTyped
<1> QED BY <1>1, <1>2, <1>3

LEMMA RestartKeeps ==
    ASSUME TypeOK, HandlersOk, Restart
    PROVE  TypeOK' /\ HandlersOk'
<1>1. HandlersTyped'
  BY NoWorkType, ResponseType DEF Restart, HandlersTyped, Steps
<1>2. HandlersOk'
  BY DEF Restart, HandlersOk, HandlerOk
<1> QED BY <1>1, <1>2 DEF Restart, TypeOK, HandlersTyped

-----------------------------------------------------------------------------

LEMMA TypeInit == Init => TypeOK /\ HandlersOk
<1> SUFFICES ASSUME Init PROVE TypeOK /\ HandlersOk
  OBVIOUS
<1>1. HandlersTyped
  BY NoWorkType, ResponseType DEF Init, HandlersTyped, Steps
<1>2. HandlersOk
  BY DEF Init, HandlersOk, HandlerOk
<1>3. tokens \in TokenMap
  BY DEF Init, TokenMap
<1>4. mining \in [count : Nat, circulation : Int]
  BY DEF Init, MiningDefault
<1> QED BY <1>1, <1>2, <1>3, <1>4 DEF Init, TypeOK, HandlersTyped

\* The inductive step, by cases on the action.
LEMMA TypeStep ==
    TypeOK /\ HandlersOk /\ [Next]_vars => TypeOK' /\ HandlersOk'
<1> SUFFICES ASSUME TypeOK, HandlersOk, [Next]_vars PROVE TypeOK' /\ HandlersOk'
  OBVIOUS
<1>1. ASSUME NEW p \in Workers, Receive(p) PROVE TypeOK' /\ HandlersOk'
  BY <1>1, ReceiveKeeps
<1>2. ASSUME NEW p \in Workers, Serve(p) PROVE TypeOK' /\ HandlersOk'
  BY <1>2, ReadInputsKeeps, CommitReplaceKeeps, CommitBurnKeeps, InsertTransactionKeeps,
     InsertNothingKeeps, InsertNxKeeps, InsertFillKeeps, InsertPutKeeps, ReadMiningKeeps,
     WriteMiningKeeps, HealthGetKeeps, HealthCheckKeeps DEF Serve
<1>3. ASSUME NEW p \in Workers, Fail(p) PROVE TypeOK' /\ HandlersOk'
  BY <1>3, StoreFailsKeeps, AckLostKeeps DEF Fail
<1>4. CASE Restart
  BY <1>4, RestartKeeps
<1>5. CASE UNCHANGED vars
  BY <1>5 DEF vars, TypeOK, HandlersOk, HandlerOk, ReplaceAdmissible
<1> QED BY <1>1, <1>2, <1>3, <1>4, <1>5 DEF Next

\* TypeOK and what the handlers know hold in every reachable state, on every
\* backend, whatever fails and however often the server restarts.
THEOREM TypeCorrect == Spec => [](TypeOK /\ HandlersOk)
<1>1. Init => TypeOK /\ HandlersOk
  BY TypeInit
<1>2. TypeOK /\ HandlersOk /\ [Next]_vars => TypeOK' /\ HandlersOk'
  BY TypeStep
<1> QED BY <1>1, <1>2, PTL DEF Spec
=============================================================================
