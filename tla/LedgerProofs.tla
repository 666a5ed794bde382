---------------------------- MODULE LedgerProofs ----------------------------
(***************************************************************************)
(* The single-use-seal properties of the server over the FoundationDB      *)
(* store, for any tokens, requests and workers, with failures, retried     *)
(* transactions and restarts.                                              *)
(*                                                                         *)
(* The argument has two halves.  First, whatever a step does, it either    *)
(* leaves the records and the audit trail alone, or opens fresh records,   *)
(* or commits one request: closes records that were live, opens fresh ones *)
(* and appends one audit record (StoreSteps).  Second, SpentIffAudited is  *)
(* the strengthening that makes the rest inductive: a live record has not  *)
(* been consumed, an absent one neither consumed nor produced.             *)
(***************************************************************************)
EXTENDS LedgerTypeProofs, LedgerRefinement, FiniteSetTheorems

\* Records are opened for r's outputs; the audit trail is left alone.
Mints(r) ==
    /\ \A k \in KeysOf(r.outs) : tokens[k] = Absent
    /\ DistinctKeys(r.outs)
    /\ Opens(tokens, tokens', r.outs, OriginOf(r))
    /\ audit' = audit

\* Request r is committed, in the records and in the audit trail.
Commits(r) ==
    /\ r.kind \in {"replace", "burn"}
    /\ r.kind = "replace" => ReplaceAdmissible(r)
    /\ r.kind = "burn" => r.outs = <<>> /\ Len(r.ins) = 1
    /\ \A k \in KeysOf(r.ins) : tokens[k].spent # "yes"
    /\ DistinctKeys(r.ins)
    /\ DistinctKeys(r.outs)
    /\ Replaces(tokens, tokens', r.ins, r.outs)
    /\ audit' = Append(audit, AuditEntry(r))

StoreSteps ==
    \/ UNCHANGED <<tokens, audit>>
    \/ \E r \in Requests : Mints(r)
    \/ \E r \in Requests : Commits(r)

LEMMA ReplaceCommits ==
    ASSUME Backend = "fdb", TypeOK, HandlersOk, NEW p \in Workers,
           pc[p] = "commit", ApplyReplace(p)
    PROVE  StoreSteps
<1> DEFINE r == req[p]
<1>1. r \in Requests /\ r.kind = "replace" /\ ReplaceAdmissible(r)
  BY DEF HandlersOk, HandlerOk
<1>2. r.ins \in Seq(Tokens) /\ r.outs \in Seq(Tokens) /\ tokens \in TokenMap
  BY <1>1, RequestParts DEF TypeOK
<1>3. CASE ~ReplaceOk(r)
  BY <1>3 DEF ApplyReplace, AfterReplace, StoreSteps
<1>4. CASE ReplaceOk(r)
  <2>1. FdbReplaceOk(tokens, r.ins, r.outs)
    BY <1>4 DEF ReplaceOk
  <2>2. tokens' = PutAll(MarkSpent(tokens, KeysOf(r.ins)), r.outs, "replaced")
        /\ audit' = Append(audit, AuditEntry(r))
    BY <1>4 DEF ApplyReplace, AfterReplace, FdbReplace
  <2>3. Replaceable(tokens, r.ins, r.outs) /\ DistinctKeys(r.ins) /\ DistinctKeys(r.outs)
    BY <2>1 DEF FdbReplaceOk, FdbInsertOk, Replaceable
  <2>4. \A k \in KeysOf(r.ins) : tokens[k].spent # "yes"
    BY <2>1 DEF FdbReplaceOk, KeysOf
  <2> HIDE DEF r
  <2>5. Replaces(tokens, tokens', r.ins, r.outs)
    BY <1>2, <2>2, <2>3, ReplaceEffect
  <2>6. Commits(r)
    BY <1>1, <2>2, <2>3, <2>4, <2>5 DEF Commits
  <2> QED BY <1>1, <2>6 DEF StoreSteps
<1> QED BY <1>3, <1>4

LEMMA BurnCommits ==
    ASSUME Backend = "fdb", TypeOK, HandlersOk, NEW p \in Workers,
           pc[p] = "burn", ApplyBurn(p)
    PROVE  StoreSteps
<1> DEFINE r == req[p]
           k == BurnKey(r)
<1>1. r \in Requests /\ r.kind = "burn"
  BY DEF HandlersOk, HandlerOk
<1>2. r.ins \in Seq(Tokens) /\ r.outs = <<>> /\ Len(r.ins) = 1 /\ tokens \in TokenMap
  BY <1>1, RequestParts, SingleTokenAssumption DEF TypeOK
<1>3. CASE ~BurnOk(r)
  BY <1>3 DEF ApplyBurn, StoreSteps
<1>4. CASE BurnOk(r)
  <2>1. tokens' = MarkSpent(tokens, {k}) /\ audit' = Append(audit, AuditEntry(r))
        /\ tokens[k] # Absent /\ tokens[k].spent # "yes"
    BY <1>4 DEF ApplyBurn, BurnOk, FdbBurnOk
  <2>2. KeysOf(r.ins) = {k} /\ KeysOf(r.outs) = {} /\ k \in Keys
    <3>1. DOMAIN r.ins = {1} /\ DOMAIN r.outs = {}
      BY <1>2
    <3> QED BY <1>1, <3>1, RequestParts DEF KeysOf, BurnKey
  <2>3. DistinctKeys(r.ins) /\ DistinctKeys(r.outs)
    BY <1>2 DEF DistinctKeys
  <2> HIDE DEF r, k
  <2>4. tokens' \in TokenMap
    BY <1>2, <2>1, <2>2, MarkSpentType
  <2>5. Replaces(tokens, tokens', r.ins, r.outs)
    BY <1>2, <2>1, <2>2, <2>4 DEF Replaces, MarkSpent
  <2>6. Commits(r)
    BY <1>1, <1>2, <2>1, <2>2, <2>3, <2>5 DEF Commits
  <2> QED BY <1>1, <2>6 DEF StoreSteps
<1> QED BY <1>3, <1>4

LEMMA InsertMints ==
    ASSUME TypeOK, NEW r \in Requests, FdbInsertOk(tokens, r.outs),
           tokens' = PutAll(tokens, r.outs, OriginOf(r)), audit' = audit
    PROVE  StoreSteps
<1>1. Mints(r)
  BY InsertTokensKeeps DEF Mints, FdbInsertOk
<1> QED BY <1>1 DEF StoreSteps

\* Every step of the server is one of the three, seen from the store.
LEMMA StepsOfStore ==
    ASSUME Backend = "fdb", TypeOK, HandlersOk, [Next]_vars
    PROVE  StoreSteps
<1>1. ASSUME NEW p \in Workers, Receive(p) PROVE StoreSteps
  BY <1>1 DEF Receive, Refuse, AcceptEmpty, Accept, AcceptIssue, StoreSteps
<1>2. ASSUME NEW p \in Workers, Serve(p) PROVE StoreSteps
  <2>1. CASE CommitReplace(p)
    BY <2>1, ReplaceCommits DEF CommitReplace
  <2>2. CASE CommitBurn(p)
    BY <2>2, BurnCommits DEF CommitBurn
  <2>3. CASE InsertTransaction(p)
    <3>1. req[p] \in Requests
      BY <2>3 DEF InsertTransaction, HandlersOk, HandlerOk
    <3> QED BY <2>3, <3>1, InsertMints DEF InsertTransaction, StoreSteps
  <2>4. CASE InsertNx(p) \/ InsertFill(p) \/ InsertPut(p)
    BY <2>4 DEF InsertNx, InsertFill, InsertPut
  <2>5. CASE \/ InsertNothing(p) \/ ReadInputs(p) \/ ReadMining(p) \/ WriteMining(p)
             \/ HealthGet(p) \/ HealthCheck(p)
    BY <2>5 DEF InsertNothing, ReadInputs, ReadMining, WriteMining, HealthGet,
                HealthCheck, StoreSteps
  <2> QED BY <1>2, <2>1, <2>2, <2>3, <2>4, <2>5 DEF Serve
<1>3. ASSUME NEW p \in Workers, Fail(p) PROVE StoreSteps
  <2>1. CASE StoreFails(p) \/ ClientGone(p)
    BY <2>1 DEF StoreFails, ClientGone, StoreSteps
  <2>2. CASE ReplaceAckLost(p)
    BY <2>2, ReplaceCommits DEF ReplaceAckLost
  <2>3. CASE BurnAckLost(p)
    BY <2>3, BurnCommits DEF BurnAckLost
  <2>4. CASE InsertAckLost(p)
    <3>1. req[p] \in Requests
      BY <2>4 DEF InsertAckLost, HandlersOk, HandlerOk
    <3> QED BY <2>4, <3>1, InsertMints DEF InsertAckLost
  <2> QED BY <1>3, <2>1, <2>2, <2>3, <2>4 DEF Fail
<1>4. CASE Restart
  BY <1>4 DEF Restart, StoreSteps
<1>5. CASE UNCHANGED vars
  BY <1>5 DEF vars, StoreSteps
<1> QED BY <1>1, <1>2, <1>3, <1>4, <1>5 DEF Next

-----------------------------------------------------------------------------
(* The audit trail *)

\* A commit appends one record; it consumes r's inputs and produces r's
\* outputs, and the records before it stay.
LEMMA CommitAppends ==
    ASSUME TypeOK, NEW r \in Requests, Commits(r)
    PROVE  \E n \in Nat :
               /\ DOMAIN audit' = DOMAIN audit \union {n}
               /\ \A i \in DOMAIN audit : i < n /\ audit'[i] = audit[i]
               /\ audit'[n] = AuditEntry(r)
               /\ \A k \in Keys : Consumes(audit'[n], k) <=> k \in KeysOf(r.ins)
               /\ \A k \in Keys : Produces(audit'[n], k) <=> k \in KeysOf(r.outs)
<1> DEFINE E == AuditRecord
           n == Len(audit) + 1
<1>1. audit \in Seq(E) /\ audit' = Append(audit, AuditEntry(r))
  BY DEF TypeOK, Commits
<1>2. /\ n \in Nat
      /\ DOMAIN audit' = DOMAIN audit \union {n}
      /\ \A i \in DOMAIN audit : i < n /\ audit'[i] = audit[i]
      /\ audit'[n] = AuditEntry(r)
  <2> HIDE DEF E
  <2> QED BY <1>1
<1>3. AuditEntry(r).ins = KeyList(r.ins) /\ AuditEntry(r).outs = KeyList(r.outs)
  BY DEF AuditEntry
<1>4. \A k \in Keys : Consumes(AuditEntry(r), k) <=> k \in KeysOf(r.ins)
  BY <1>3 DEF Consumes, KeyList, KeysOf
<1>5. \A k \in Keys : Produces(AuditEntry(r), k) <=> k \in KeysOf(r.outs)
  BY <1>3 DEF Produces, KeyList, KeysOf
<1> HIDE DEF n
<1> QED BY <1>2, <1>4, <1>5

\* What a commit and a mint do to the spent flags.
LEMMA CommitSpends ==
    ASSUME TypeOK, NEW r \in Requests, Commits(r), NEW k \in Keys
    PROVE  /\ Spent(k)' <=> Spent(k) \/ k \in KeysOf(r.ins)
           /\ k \in KeysOf(r.ins) => ~Spent(k) /\ tokens[k] # Absent
           /\ k \in KeysOf(r.outs) =>
                 tokens[k] = Absent /\ tokens'[k] # Absent /\ ~Spent(k)'
<1>1. tokens \in TokenMap /\ Replaces(tokens, tokens', r.ins, r.outs)
  BY DEF TypeOK, Commits
<1>2. CASE k \in KeysOf(r.ins)
  <2>1. tokens[k] \in TokenRecord /\ tokens'[k] = Closed(tokens[k])
    BY <1>1, <1>2 DEF Replaces, TokenMap
  <2>2. tokens'[k] # Absent /\ tokens'[k].spent = "yes" /\ tokens[k] # Absent
    BY <2>1, ClosedRecord, AbsentIsNoRecord
  <2>3. k \notin KeysOf(r.outs)
    BY <1>1, <1>2 DEF Replaces
  <2> QED BY <1>2, <2>2, <2>3 DEF Spent, Commits
<1>3. CASE k \in KeysOf(r.outs)
  <2> DEFINE t == [key |-> k, amount |-> AmountIn(r.outs, k)]
  <2>1. tokens[k] = Absent /\ tokens'[k] = RecordFromSecret(t, "replaced")
    BY <1>1, <1>3 DEF Replaces
  <2>2. t.amount \in Int
    BY <1>3, RequestParts, AmountInType
  <2>3. tokens'[k] # Absent /\ tokens'[k].spent = "no"
    <3> HIDE DEF t
    <3> QED BY <2>1, <2>2, FreshIsLive
  <2>4. k \notin KeysOf(r.ins)
    BY <1>1, <1>3 DEF Replaces
  <2> QED BY <2>1, <2>3, <2>4 DEF Spent
<1>4. CASE k \notin KeysOf(r.ins) \union KeysOf(r.outs)
  BY <1>1, <1>4 DEF Replaces, Spent
<1> QED BY <1>2, <1>3, <1>4

LEMMA MintSpendsNothing ==
    ASSUME TypeOK, NEW r \in Requests, Mints(r), NEW k \in Keys
    PROVE  /\ Spent(k)' <=> Spent(k)
           /\ tokens[k] # Absent => tokens'[k] = tokens[k]
           /\ k \in KeysOf(r.outs) => tokens[k] = Absent /\ tokens'[k] # Absent
<1>1. CASE k \in KeysOf(r.outs)
  <2> DEFINE t == [key |-> k, amount |-> AmountIn(r.outs, k)]
  <2>1. tokens[k] = Absent /\ tokens'[k] = RecordFromSecret(t, OriginOf(r))
    BY <1>1 DEF Mints, Opens
  <2>2. t.amount \in Int /\ OriginOf(r) \in {"mined", "replaced"}
    BY <1>1, RequestParts, AmountInType, OriginType
  <2>3. tokens'[k] # Absent /\ tokens'[k].spent = "no"
    <3> HIDE DEF t
    <3> QED BY <2>1, <2>2, FreshIsLive
  <2> QED BY <2>1, <2>3 DEF Spent
<1>2. CASE k \notin KeysOf(r.outs)
  BY <1>2 DEF Mints, Opens, Spent
<1> QED BY <1>1, <1>2

LEMMA SpentIffAuditedStep ==
    ASSUME TypeOK, SpentIffAudited, StoreSteps
    PROVE  SpentIffAudited'
<1>1. CASE UNCHANGED <<tokens, audit>>
  BY <1>1 DEF SpentIffAudited, Spent, ConsumedAt
<1>2. ASSUME NEW r \in Requests, Mints(r) PROVE SpentIffAudited'
  <2>1. audit' = audit
    BY <1>2 DEF Mints
  <2>2. \A k \in Keys : Spent(k)' <=> Spent(k)
    BY <1>2, MintSpendsNothing
  <2> QED BY <2>1, <2>2 DEF SpentIffAudited, ConsumedAt
<1>3. ASSUME NEW r \in Requests, Commits(r) PROVE SpentIffAudited'
  <2>1. PICK n \in Nat :
          /\ DOMAIN audit' = DOMAIN audit \union {n}
          /\ \A i \in DOMAIN audit : audit'[i] = audit[i]
          /\ \A k \in Keys : Consumes(audit'[n], k) <=> k \in KeysOf(r.ins)
    BY <1>3, CommitAppends
  <2>2. ASSUME NEW k \in Keys
        PROVE  Spent(k)' <=> \E i \in DOMAIN audit' : Consumes(audit'[i], k)
    <3>1. Spent(k)' <=> Spent(k) \/ k \in KeysOf(r.ins)
      BY <1>3, CommitSpends
    <3>2. Spent(k) <=> \E i \in DOMAIN audit : Consumes(audit[i], k)
      BY DEF SpentIffAudited, ConsumedAt
    <3> QED BY <2>1, <3>1, <3>2
  <2> QED BY <2>2 DEF SpentIffAudited, ConsumedAt
<1> QED BY <1>1, <1>2, <1>3 DEF StoreSteps

LEMMA SingleUseStep ==
    ASSUME TypeOK, SpentIffAudited, SingleUse, StoreSteps
    PROVE  SingleUse'
<1>1. CASE audit' = audit
  BY <1>1 DEF SingleUse
<1>2. ASSUME NEW r \in Requests, Commits(r) PROVE SingleUse'
  <2>1. PICK n \in Nat :
          /\ DOMAIN audit' = DOMAIN audit \union {n}
          /\ \A i \in DOMAIN audit : audit'[i] = audit[i]
          /\ audit'[n] = AuditEntry(r)
    BY <1>2, CommitAppends
  <2>2. /\ DOMAIN audit'[n].ins = DOMAIN r.ins
        /\ \A m \in DOMAIN r.ins :
              audit'[n].ins[m] = r.ins[m].key /\ r.ins[m].key \in KeysOf(r.ins)
              /\ r.ins[m].key \in Keys
    BY <2>1, RequestParts DEF KeyList, KeysOf, AuditEntry
  <2>3. \A k \in KeysOf(r.ins) :
           k \in Keys => \A i \in DOMAIN audit : ~Consumes(audit[i], k)
    BY <1>2, CommitSpends DEF SpentIffAudited, ConsumedAt
  <2> SUFFICES ASSUME NEW i \in DOMAIN audit', NEW j \in DOMAIN audit',
                      NEW l \in DOMAIN audit'[i].ins, NEW m \in DOMAIN audit'[j].ins,
                      audit'[i].ins[l] = audit'[j].ins[m]
               PROVE  i = j /\ l = m
    BY DEF SingleUse
  <2>4. CASE i \in DOMAIN audit /\ j \in DOMAIN audit
    BY <2>1, <2>4 DEF SingleUse
  <2>5. CASE i = n /\ j = n
    BY <1>2, <2>2, <2>5 DEF Commits, DistinctKeys
  <2>6. CASE i = n /\ j \in DOMAIN audit
    BY <2>1, <2>2, <2>3, <2>6 DEF Consumes
  <2>7. CASE i \in DOMAIN audit /\ j = n
    BY <2>1, <2>2, <2>3, <2>7 DEF Consumes
  <2> QED BY <2>1, <2>4, <2>5, <2>6, <2>7
<1> QED BY <1>1, <1>2 DEF StoreSteps, Mints

LEMMA AuditIsCausalStep ==
    ASSUME TypeOK, SpentIffAudited, AuditIsCausal, StoreSteps
    PROVE  AuditIsCausal'
<1>1. CASE UNCHANGED <<tokens, audit>>
  BY <1>1 DEF AuditIsCausal, ConsumedAt, ProducedAt
<1>2. ASSUME NEW r \in Requests, Mints(r) PROVE AuditIsCausal'
  <2>1. audit' = audit
    BY <1>2 DEF Mints
  <2>2. \A k \in Keys : tokens[k] # Absent => tokens'[k] # Absent
    BY <1>2, MintSpendsNothing
  <2> QED BY <2>1, <2>2 DEF AuditIsCausal, ConsumedAt, ProducedAt
<1>3. ASSUME NEW r \in Requests, Commits(r) PROVE AuditIsCausal'
  <2>1. PICK n \in Nat :
          /\ DOMAIN audit' = DOMAIN audit \union {n}
          /\ \A i \in DOMAIN audit : i < n /\ audit'[i] = audit[i]
          /\ \A k \in Keys : Consumes(audit'[n], k) <=> k \in KeysOf(r.ins)
          /\ \A k \in Keys : Produces(audit'[n], k) <=> k \in KeysOf(r.outs)
    BY <1>3, CommitAppends
  <2>2. Kept /\ KeysOf(r.ins) \intersect KeysOf(r.outs) = {}
    BY <1>3, ReplacesKeeps DEF TypeOK, Commits, Replaces
  <2> SUFFICES ASSUME NEW j \in DOMAIN audit', NEW k \in Keys, Produces(audit'[j], k)
               PROVE  /\ tokens'[k] # Absent
                      /\ \A i \in DOMAIN audit' :
                            /\ Consumes(audit'[i], k) => j < i
                            /\ Produces(audit'[i], k) => i = j
    BY DEF AuditIsCausal, ConsumedAt, ProducedAt
  <2>3. CASE j \in DOMAIN audit
    <3>1. /\ tokens[k] # Absent
          /\ \A i \in DOMAIN audit : /\ Consumes(audit[i], k) => j < i
                                     /\ Produces(audit[i], k) => i = j
      BY <2>1, <2>3 DEF AuditIsCausal, ConsumedAt, ProducedAt
    <3>2. ~Produces(audit'[n], k)
      BY <1>3, <2>1, <3>1, CommitSpends
    <3> QED BY <2>1, <2>2, <2>3, <3>1, <3>2 DEF Kept
  <2>4. CASE j = n
    <3>1. k \in KeysOf(r.outs)
      BY <2>1, <2>4
    <3>2. tokens[k] = Absent /\ tokens'[k] # Absent
      BY <1>3, <3>1, CommitSpends
    <3>3. \A i \in DOMAIN audit : ~Consumes(audit[i], k) /\ ~Produces(audit[i], k)
      BY <3>2 DEF SpentIffAudited, Spent, AuditIsCausal, ConsumedAt, ProducedAt
    <3>4. ~Consumes(audit'[n], k)
      BY <2>1, <2>2, <3>1
    <3> QED BY <2>1, <2>4, <3>2, <3>3, <3>4
  <2> QED BY <2>1, <2>3, <2>4
<1> QED BY <1>1, <1>2, <1>3 DEF StoreSteps

-----------------------------------------------------------------------------
(* Theorems about the FoundationDB store *)

\* The inductive invariant.
LedgerInv ==
    TypeOK /\ HandlersOk /\ SpentIffAudited /\ SingleUse /\ AuditIsCausal

LEMMA LedgerInit == Init => LedgerInv
<1> SUFFICES ASSUME Init PROVE LedgerInv
  OBVIOUS
<1>1. TypeOK /\ HandlersOk
  BY TypeInit
<1>2. audit = <<>> /\ DOMAIN audit = {} /\ \A k \in Keys : tokens[k] = Absent
  BY DEF Init
<1>3. SpentIffAudited /\ SingleUse /\ AuditIsCausal
  BY <1>2 DEF SpentIffAudited, Spent, SingleUse, AuditIsCausal
<1> QED BY <1>1, <1>3 DEF LedgerInv

LEMMA LedgerStep ==
    ASSUME Backend = "fdb", LedgerInv, [Next]_vars
    PROVE  LedgerInv'
<1>1. TypeOK' /\ HandlersOk'
  BY TypeStep DEF LedgerInv
<1>2. StoreSteps
  BY StepsOfStore DEF LedgerInv
<1>3. SpentIffAudited'
  BY <1>2, SpentIffAuditedStep DEF LedgerInv
<1>4. SingleUse'
  BY <1>2, SingleUseStep DEF LedgerInv
<1>5. AuditIsCausal'
  BY <1>2, AuditIsCausalStep DEF LedgerInv
<1> QED BY <1>1, <1>3, <1>4, <1>5 DEF LedgerInv

LEMMA LedgerInvariant ==
    ASSUME Backend = "fdb"
    PROVE  Spec => []LedgerInv
<1>1. Init => LedgerInv
  BY LedgerInit
<1>2. LedgerInv /\ [Next]_vars => LedgerInv'
  BY LedgerStep
<1> QED BY <1>1, <1>2, PTL DEF Spec

\* Over FoundationDB no token is ever consumed twice, by two requests or by
\* one, however requests interleave, fail and are retried.
THEOREM EverySealIsSingleUse ==
    ASSUME Backend = "fdb"
    PROVE  Spec => []SingleUse
<1>1. LedgerInv => SingleUse
  BY DEF LedgerInv
<1> QED BY <1>1, LedgerInvariant, PTL

\* Over FoundationDB the spent tokens are exactly the audited inputs: marks
\* and audit records are written together or not at all.
THEOREM SpendsAreAudited ==
    ASSUME Backend = "fdb"
    PROVE  Spec => []SpentIffAudited
<1>1. LedgerInv => SpentIffAudited
  BY DEF LedgerInv
<1> QED BY <1>1, LedgerInvariant, PTL

\* Over FoundationDB the audit trail is a forward chain: an output is
\* produced once and consumed only by later records.
THEOREM AuditTrailIsCausal ==
    ASSUME Backend = "fdb"
    PROVE  Spec => []AuditIsCausal
<1>1. LedgerInv => AuditIsCausal
  BY DEF LedgerInv
<1> QED BY <1>1, LedgerInvariant, PTL

\* What one step may do to one record.
RecordKept(k) ==
    tokens[k] # Absent =>
        /\ tokens'[k] # Absent
        /\ tokens'[k].amount = tokens[k].amount
        /\ tokens'[k].origin = tokens[k].origin
        /\ tokens[k].spent = "yes" => tokens'[k].spent = "yes"

LEMMA RecordsKept ==
    ASSUME TypeOK, StoreSteps, NEW k \in Keys
    PROVE  RecordKept(k)
<1>1. CASE UNCHANGED <<tokens, audit>>
  BY <1>1 DEF RecordKept
<1>2. ASSUME NEW r \in Requests, Mints(r) PROVE RecordKept(k)
  BY <1>2, MintSpendsNothing DEF RecordKept
<1>3. ASSUME NEW r \in Requests, Commits(r) PROVE RecordKept(k)
  <2>1. tokens \in TokenMap /\ Replaces(tokens, tokens', r.ins, r.outs)
    BY <1>3 DEF TypeOK, Commits
  <2>2. CASE k \in KeysOf(r.ins)
    <3>1. tokens[k] \in TokenRecord /\ tokens'[k] = Closed(tokens[k])
      BY <2>1, <2>2 DEF Replaces, TokenMap
    <3> QED BY <3>1, ClosedRecord DEF RecordKept
  <2>3. CASE k \notin KeysOf(r.ins)
    BY <2>1, <2>3 DEF Replaces, RecordKept
  <2> QED BY <2>2, <2>3
<1> QED BY <1>1, <1>2, <1>3 DEF StoreSteps

\* Over FoundationDB no step rewrites, revives or removes a record.
THEOREM RecordsAreStable ==
    ASSUME Backend = "fdb"
    PROVE  Spec => RecordsStable
<1> DEFINE A == \A k \in Keys : tokens[k] # Absent =>
                   /\ tokens'[k] # Absent
                   /\ tokens'[k].amount = tokens[k].amount
                   /\ tokens'[k].origin = tokens[k].origin
                   /\ tokens[k].spent = "yes" => tokens'[k].spent = "yes"
<1>1. LedgerInv /\ [Next]_vars => [A]_vars
  <2> SUFFICES ASSUME LedgerInv, [Next]_vars PROVE A
    OBVIOUS
  <2>1. \A k \in Keys : RecordKept(k)
    BY StepsOfStore, RecordsKept DEF LedgerInv
  <2> QED BY <2>1 DEF RecordKept
<1>2. RecordsStable <=> [][A]_vars
  BY DEF RecordsStable
<1> QED BY <1>1, <1>2, LedgerInvariant, PTL DEF Spec

-----------------------------------------------------------------------------
(* A theorem about every backend *)

\* All tokens of r live in one namespace.
OneNamespace(r) ==
    \A k, l \in KeysOf(r.ins) \union KeysOf(r.outs) : KeyNs[k] = KeyNs[l]

\* Whatever the backend, an audit record is appended for a request that
\* passed the same-namespace check, or for the one token of a burn.
AuditSteps ==
    \/ audit' = audit
    \/ \E r \in Requests : audit' = Append(audit, AuditEntry(r)) /\ OneNamespace(r)

LEMMA AdmissibleInOneNamespace ==
    ASSUME NEW r, ReplaceAdmissible(r)
    PROVE  OneNamespace(r)
<1>1. \A k \in KeysOf(r.ins) \union KeysOf(r.outs) : KeyNs[k] = ReplaceNs(r)
  BY DEF ReplaceAdmissible, NsOf, KeysOf
<1> QED BY <1>1 DEF OneNamespace

LEMMA BurnInOneNamespace ==
    ASSUME NEW r \in Requests, r.kind = "burn"
    PROVE  OneNamespace(r)
<1>1. r.ins \in Seq(Tokens) /\ Len(r.ins) = 1 /\ r.outs = <<>>
  BY RequestParts, SingleTokenAssumption
<1>2. DOMAIN r.ins = {1} /\ DOMAIN r.outs = {}
  BY <1>1
<1>3. KeysOf(r.ins) = {r.ins[1].key} /\ KeysOf(r.outs) = {}
  BY <1>2 DEF KeysOf
<1> QED BY <1>3 DEF OneNamespace

LEMMA StepsOfAudit ==
    ASSUME TypeOK, HandlersOk, [Next]_vars
    PROVE  AuditSteps
<1>1. ASSUME NEW p \in Workers, pc[p] = "commit", ApplyReplace(p) PROVE AuditSteps
  <2>1. req[p] \in Requests /\ ReplaceAdmissible(req[p])
    BY <1>1 DEF HandlersOk, HandlerOk
  <2> QED BY <1>1, <2>1, AdmissibleInOneNamespace DEF ApplyReplace, AuditSteps
<1>2. ASSUME NEW p \in Workers, pc[p] = "burn", ApplyBurn(p) PROVE AuditSteps
  <2>1. req[p] \in Requests /\ req[p].kind = "burn"
    BY <1>2 DEF HandlersOk, HandlerOk
  <2> QED BY <1>2, <2>1, BurnInOneNamespace DEF ApplyBurn, AuditSteps
<1>3. ASSUME NEW p \in Workers, Receive(p) PROVE AuditSteps
  BY <1>3 DEF Receive, Refuse, AcceptEmpty, Accept, AcceptIssue, AuditSteps
<1>4. ASSUME NEW p \in Workers, Serve(p) PROVE AuditSteps
  <2>1. CASE CommitReplace(p) \/ CommitBurn(p)
    BY <1>1, <1>2, <2>1 DEF CommitReplace, CommitBurn
  <2>2. CASE ~(CommitReplace(p) \/ CommitBurn(p))
    BY <1>4, <2>2 DEF Serve, ReadInputs, InsertTransaction, InsertNothing, InsertNx,
       InsertFill, InsertPut, ReadMining, WriteMining, HealthGet, HealthCheck, AuditSteps
  <2> QED BY <2>1, <2>2
<1>5. ASSUME NEW p \in Workers, Fail(p) PROVE AuditSteps
  BY <1>1, <1>2, <1>5 DEF Fail, StoreFails, ClientGone, ReplaceAckLost, BurnAckLost, InsertAckLost,
     AuditSteps
<1> QED BY <1>3, <1>4, <1>5 DEF Next, Restart, vars, AuditSteps

LEMMA NamespaceStep ==
    ASSUME TypeOK, AuditInOneNamespace, AuditSteps
    PROVE  AuditInOneNamespace'
<1>1. CASE audit' = audit
  BY <1>1 DEF AuditInOneNamespace, ConsumedAt, ProducedAt
<1>2. ASSUME NEW r \in Requests, audit' = Append(audit, AuditEntry(r)), OneNamespace(r)
      PROVE  AuditInOneNamespace'
  <2> DEFINE E == AuditRecord
             Touches(e, k) == Consumes(e, k) \/ Produces(e, k)
  <2>1. audit \in Seq(E)
    BY DEF TypeOK
  <2>2. \A i \in DOMAIN audit' :
           \/ i \in DOMAIN audit /\ audit'[i] = audit[i]
           \/ audit'[i] = AuditEntry(r)
    <3> HIDE DEF E
    <3> QED BY <1>2, <2>1
  <2>3. \A k \in Keys : Touches(AuditEntry(r), k) =>
                            k \in KeysOf(r.ins) \union KeysOf(r.outs)
    BY DEF Consumes, Produces, AuditEntry, KeyList, KeysOf
  <2>4. \A i \in DOMAIN audit : \A k, l \in Keys :
           Touches(audit[i], k) /\ Touches(audit[i], l) => KeyNs[k] = KeyNs[l]
    BY DEF AuditInOneNamespace, ConsumedAt, ProducedAt
  <2> HIDE DEF Touches
  <2>5. \A i \in DOMAIN audit' : \A k, l \in Keys :
           Touches(audit'[i], k) /\ Touches(audit'[i], l) => KeyNs[k] = KeyNs[l]
    BY <1>2, <2>2, <2>3, <2>4 DEF OneNamespace
  <2> QED BY <2>5 DEF AuditInOneNamespace, ConsumedAt, ProducedAt, Touches
<1> QED BY <1>1, <1>2 DEF AuditSteps

\* On every backend, no committed request mixes namespaces.
THEOREM CommitsStayInNamespace == Spec => []AuditInOneNamespace
<1>1. Init => AuditInOneNamespace
  BY DEF Init, AuditInOneNamespace
<1>2. TypeOK /\ HandlersOk /\ AuditInOneNamespace /\ [Next]_vars => AuditInOneNamespace'
  BY StepsOfAudit, NamespaceStep
<1> QED BY <1>1, <1>2, TypeCorrect, PTL DEF Spec

-----------------------------------------------------------------------------
(* MiningState, on every backend.  The count is read, changed and written   *)
(* back without a transaction.  It stays below the accepted reports because *)
(* every report between its insert and its write is still to be counted:    *)
(* what any of them may write leaves room for all of the others.            *)

Counting == {"mread", "mwrite"}
Uncounted == {p \in Workers : pc[p] \in Counting}

CountInv ==
    /\ IsFiniteSet(Uncounted)
    /\ mining.count + Cardinality(Uncounted) <= accepted
    /\ \A p \in Workers :
          pc[p] = "mwrite" => work[p].state.count + Cardinality(Uncounted) <= accepted

\* What worker q may do without disturbing the count.
Undisturbed(q) ==
    /\ pc'[q] \in Counting => pc[q] \in Counting
    /\ pc'[q] = "mwrite" => pc[q] = "mwrite" /\ work'[q] = work[q]

LEMMA CountTypes ==
    ASSUME TypeOK
    PROVE  /\ mining.count \in Nat /\ accepted \in Nat
           /\ \A p \in Workers : work[p].state.count \in Nat
BY DEF TypeOK, HandlerWork

LEMMA CountRests ==
    ASSUME TypeOK, CountInv, mining' = mining, accepted' = accepted,
           \A q \in Workers : Undisturbed(q)
    PROVE  CountInv'
<1>1. Uncounted' \in SUBSET Uncounted
  BY DEF Uncounted, Undisturbed
<1>2. /\ IsFiniteSet(Uncounted') /\ Cardinality(Uncounted') <= Cardinality(Uncounted)
      /\ Cardinality(Uncounted) \in Nat /\ Cardinality(Uncounted') \in Nat
  BY <1>1, FS_Subset, FS_CardinalityType DEF CountInv
<1> HIDE DEF Uncounted
<1>3. mining'.count + Cardinality(Uncounted') <= accepted'
  BY <1>2, CountTypes DEF CountInv
<1>4. ASSUME NEW q \in Workers, pc'[q] = "mwrite"
      PROVE  work'[q].state.count + Cardinality(Uncounted') <= accepted'
  <2>1. pc[q] = "mwrite" /\ work'[q] = work[q]
    BY <1>4 DEF Undisturbed
  <2>2. work[q].state.count + Cardinality(Uncounted) <= accepted
    BY <2>1 DEF CountInv
  <2> QED BY <1>2, <2>1, <2>2, CountTypes
<1> QED BY <1>2, <1>3, <1>4 DEF CountInv

LEMMA RespondUndisturbed ==
    ASSUME TypeOK, NEW p \in Workers, NEW a, Respond(p, a)
    PROVE  \A q \in Workers : Undisturbed(q)
BY DEF TypeOK, Respond, Undisturbed, Counting

LEMMA NothingDisturbed ==
    ASSUME pc' = pc, work' = work
    PROVE  \A q \in Workers : Undisturbed(q)
BY DEF Undisturbed

\* A report that is accepted is counted as still to be counted.
LEMMA InsertedCounts ==
    ASSUME TypeOK, CountInv, NEW p \in Workers, pc[p] \in {"insert", "fill"},
           Inserted(p) \/ InsertFailed(p), mining' = mining
    PROVE  CountInv'
<1>1. CASE (\E a : Respond(p, a)) /\ accepted' = accepted
  BY <1>1, RespondUndisturbed, CountRests
<1>2. CASE /\ accepted' = accepted + 1
           /\ work' = [work EXCEPT ![p] = NoWork]
           /\ Goto(p, "mread")
  <2>1. /\ pc'[p] = "mread" /\ pc[p] \notin Counting
        /\ \A q \in Workers \ {p} : pc'[q] = pc[q] /\ work'[q] = work[q]
    BY <1>2 DEF Goto, TypeOK, Counting
  <2>2. Uncounted' = Uncounted \union {p} /\ p \notin Uncounted
    BY <2>1 DEF Uncounted, Counting
  <2> HIDE DEF Uncounted
  <2>3. /\ IsFiniteSet(Uncounted') /\ Cardinality(Uncounted') = Cardinality(Uncounted) + 1
        /\ Cardinality(Uncounted) \in Nat
    BY <2>2, FS_AddElement, FS_CardinalityType DEF CountInv
  <2>4. mining'.count + Cardinality(Uncounted') <= accepted'
    BY <1>2, <2>3, CountTypes DEF CountInv
  <2>5. ASSUME NEW q \in Workers, pc'[q] = "mwrite"
        PROVE  work'[q].state.count + Cardinality(Uncounted') <= accepted'
    <3>1. pc[q] = "mwrite" /\ work'[q] = work[q]
      BY <2>1, <2>5
    <3>2. work[q].state.count + Cardinality(Uncounted) <= accepted
      BY <3>1 DEF CountInv
    <3> QED BY <1>2, <2>3, <3>1, <3>2, CountTypes
  <2> QED BY <2>3, <2>4, <2>5 DEF CountInv
<1> QED BY <1>1, <1>2 DEF Inserted, InsertFailed

LEMMA ReadCounts ==
    ASSUME TypeOK, CountInv, NEW p \in Workers, ReadMining(p)
    PROVE  CountInv'
<1>1. PICK m \in {mining, MiningDefault} : work' = [work EXCEPT ![p].state = m]
  BY DEF ReadMining
<1>2. /\ pc[p] = "mread" /\ pc'[p] = "mwrite" /\ mining' = mining /\ accepted' = accepted
      /\ work'[p].state = m
      /\ \A q \in Workers \ {p} : pc'[q] = pc[q] /\ work'[q] = work[q]
  BY <1>1 DEF ReadMining, Goto, TypeOK, HandlerWork
<1>3. Uncounted' = Uncounted
  BY <1>2 DEF Uncounted, Counting
<1>4. Cardinality(Uncounted) \in Nat
  BY FS_CardinalityType DEF CountInv
<1>5. m.count \in Nat /\ m.count <= mining.count
  BY CountTypes DEF MiningDefault
<1> HIDE DEF Uncounted
<1>6. m.count + Cardinality(Uncounted) <= accepted
  BY <1>4, <1>5, CountTypes DEF CountInv
<1>7. ASSUME NEW q \in Workers, pc'[q] = "mwrite"
      PROVE  work'[q].state.count + Cardinality(Uncounted) <= accepted
  BY <1>2, <1>6, <1>7 DEF CountInv
<1> QED BY <1>2, <1>3, <1>7 DEF CountInv

LEMMA WriteCounts ==
    ASSUME TypeOK, CountInv, NEW p \in Workers, WriteMining(p)
    PROVE  CountInv'
<1>1. /\ pc[p] = "mwrite" /\ accepted' = accepted /\ Respond(p, Response("ok"))
      /\ mining'.count = work[p].state.count + 1 \/ mining' = mining
  BY DEF WriteMining
<1>2. CASE mining' = mining
  BY <1>1, <1>2, RespondUndisturbed, CountRests
<1>3. CASE mining'.count = work[p].state.count + 1
  <2>1. /\ pc'[p] = "idle"
        /\ \A q \in Workers \ {p} : pc'[q] = pc[q] /\ work'[q] = work[q]
    BY <1>1 DEF Respond, TypeOK
  <2>2. Uncounted' = Uncounted \ {p} /\ p \in Uncounted
    BY <1>1, <2>1 DEF Uncounted, Counting
  <2> HIDE DEF Uncounted
  <2>3. /\ IsFiniteSet(Uncounted') /\ Cardinality(Uncounted') = Cardinality(Uncounted) - 1
        /\ Cardinality(Uncounted) \in Nat /\ Cardinality(Uncounted') \in Nat
    BY <2>2, FS_RemoveElement, FS_CardinalityType DEF CountInv
  <2>4. work[p].state.count + Cardinality(Uncounted) <= accepted
    BY <1>1 DEF CountInv
  <2>5. mining'.count + Cardinality(Uncounted') <= accepted'
    BY <1>1, <1>3, <2>3, <2>4, CountTypes
  <2>6. ASSUME NEW q \in Workers, pc'[q] = "mwrite"
        PROVE  work'[q].state.count + Cardinality(Uncounted') <= accepted'
    <3>1. pc[q] = "mwrite" /\ work'[q] = work[q]
      BY <2>1, <2>6
    <3>2. work[q].state.count + Cardinality(Uncounted) <= accepted
      BY <3>1 DEF CountInv
    <3> QED BY <1>1, <2>3, <3>1, <3>2, CountTypes
  <2> QED BY <2>3, <2>5, <2>6 DEF CountInv
<1> QED BY <1>1, <1>2, <1>3

\* A step of worker p leaves the handlers of the others alone.
Alone(p) ==
    \A q \in Workers \ {p} :
        pc'[q] = pc[q] /\ req'[q] = req[q] /\ work'[q] = work[q] /\ reply'[q] = reply[q]

\* Going on to step s with changed locals.
Proceeds(p, s) == pc'[p] = s /\ req'[p] = req[p] /\ reply'[p] = reply[p] /\ Alone(p)

\* Beginning r: nothing is known or said yet.
Begins(p, r) == pc'[p] = FirstStep(r) /\ reply'[p] = Response("none") /\ Alone(p)

LEMMA GotoProceeds ==
    ASSUME TypeOK, NEW p \in Workers, NEW s, Goto(p, s),
           (\E w : work' = [work EXCEPT ![p] = w]) \/ work' = work
    PROVE  Proceeds(p, s)
BY DEF TypeOK, Goto, Proceeds, Alone

LEMMA BeginBegins ==
    ASSUME TypeOK, NEW p \in Workers, NEW r \in Requests, Begin(p, r)
    PROVE  /\ Begins(p, r)
           /\ FirstStep(r) \in {"read", "insert", "burn", "hget"}
<1>1. r.kind \in Kinds
  BY RequestParts
<1>2. FirstStep(r) \in {"read", "insert", "burn", "hget"}
  BY <1>1 DEF FirstStep, Kinds
<1> QED BY <1>2 DEF TypeOK, Begin, Begins, Alone

LEMMA RespondAlone ==
    ASSUME TypeOK, NEW p \in Workers, NEW a, Respond(p, a)
    PROVE  pc'[p] = "idle" /\ reply'[p] = a /\ Alone(p)
BY DEF TypeOK, Respond, Alone

\* Every step of worker p is an answer, the start of a request, or a step on.
LEMMA HandlerSteps ==
    ASSUME TypeOK, HandlersOk, NEW p \in Workers, Receive(p) \/ Serve(p) \/ Fail(p)
    PROVE  \/ \E st : Respond(p, Response(st))
           \/ HealthCheck(p)
           \/ \E r \in Requests : Begins(p, r) /\ FirstStep(r) \in {"read", "insert", "burn", "hget"}
           \/ \E s \in {"commit", "insert", "fill"} : Proceeds(p, s)
           \/ Inserted(p) /\ pc[p] \in {"insert", "fill"}
           \/ ReadMining(p) \/ WriteMining(p) \/ HealthGet(p)
           \/ UNCHANGED handlerVars
<1>1. CASE Receive(p)
  <2>1. PICK r \in Requests : Refuse(p, r) \/ AcceptEmpty(p, r) \/ Accept(p, r) \/ AcceptIssue(p, r)
    BY <1>1 DEF Receive
  <2> QED BY <2>1, BeginBegins DEF Refuse, AcceptEmpty, Accept, AcceptIssue
<1>2. CASE Fail(p)
  BY <1>2 DEF Fail, StoreFails, ClientGone, ReplaceAckLost, BurnAckLost, InsertAckLost, OutcomeLost
<1>3. CASE ReadInputs(p)
  BY <1>3, GotoProceeds DEF ReadInputs
<1>4. CASE CommitReplace(p) \/ CommitBurn(p)
  BY <1>4 DEF CommitReplace, CommitBurn
<1>5. CASE InsertTransaction(p) \/ InsertNothing(p)
  BY <1>5 DEF InsertTransaction, InsertNothing, InsertFailed
<1>6. CASE InsertNx(p)
  <2>1. \/ Respond(p, Response("error"))
        \/ \E s \in {"insert", "fill"} : Goto(p, s) /\ \E w : work' = [work EXCEPT ![p] = w]
    BY <1>6 DEF InsertNx
  <2> QED BY <2>1, GotoProceeds
<1>7. CASE InsertFill(p)
  <2>1. \/ Inserted(p) /\ pc[p] = "fill"
        \/ InsertFailed(p)
        \/ Goto(p, "fill") /\ \E w : work' = [work EXCEPT ![p] = w]
    BY <1>7 DEF InsertFill
  <2> QED BY <2>1, GotoProceeds DEF InsertFailed
<1>8. CASE InsertPut(p)
  <2>1. \/ Inserted(p) /\ pc[p] = "insert"
        \/ InsertFailed(p)
        \/ Goto(p, "insert") /\ \E w : work' = [work EXCEPT ![p] = w]
    BY <1>8 DEF InsertPut
  <2> QED BY <2>1, GotoProceeds DEF InsertFailed
<1> QED BY <1>1, <1>2, <1>3, <1>4, <1>5, <1>6, <1>7, <1>8 DEF Serve

LEMMA CounterSteps ==
    ASSUME NEW p \in Workers, Receive(p) \/ Serve(p) \/ Fail(p)
    PROVE  /\ mining' = mining \/ WriteMining(p)
           /\ accepted' = accepted \/ (Inserted(p) /\ pc[p] \in {"insert", "fill"})
<1>1. CASE Receive(p)
  BY <1>1 DEF Receive, Refuse, AcceptEmpty, Accept, AcceptIssue
<1>2. CASE Fail(p)
  BY <1>2 DEF Fail, StoreFails, ClientGone, ReplaceAckLost, BurnAckLost, InsertAckLost,
     ApplyReplace, ApplyBurn
<1>3. CASE Serve(p)
  BY <1>3 DEF Serve, ReadInputs, CommitReplace, CommitBurn, ApplyReplace, ApplyBurn,
     InsertTransaction, InsertNothing, InsertNx, InsertFill, InsertPut, InsertFailed,
     ReadMining, WriteMining, HealthGet, HealthCheck
<1> QED BY <1>1, <1>2, <1>3

LEMMA CountStep ==
    ASSUME TypeOK, HandlersOk, CountInv, [Next]_vars
    PROVE  CountInv'
<1>1. ASSUME NEW p \in Workers, Receive(p) \/ Serve(p) \/ Fail(p)
      PROVE  CountInv'
  <2>1. CASE ReadMining(p) \/ WriteMining(p)
    BY <2>1, ReadCounts, WriteCounts
  <2>2. CASE ~WriteMining(p) /\ Inserted(p) /\ pc[p] \in {"insert", "fill"}
    BY <1>1, <2>2, CounterSteps, InsertedCounts
  <2>3. CASE /\ ~ReadMining(p) /\ ~WriteMining(p)
             /\ ~(Inserted(p) /\ pc[p] \in {"insert", "fill"})
    <3>1. mining' = mining /\ accepted' = accepted
      BY <1>1, <2>3, CounterSteps
    <3>2. \/ \E a : Respond(p, a)
          \/ pc'[p] \notin Counting /\ Alone(p)
          \/ pc' = pc /\ work' = work
      <4>1. HealthGet(p) => pc'[p] = "hcheck" /\ Alone(p)
        BY DEF HealthGet, Goto, TypeOK, Alone
      <4>2. HealthCheck(p) => \E a : Respond(p, a)
        BY DEF HealthCheck
      <4> QED BY <1>1, <2>3, <4>1, <4>2, HandlerSteps
              DEF Begins, Proceeds, Counting, handlerVars
    <3>3. \A q \in Workers : Undisturbed(q)
      BY <3>2, RespondUndisturbed DEF Undisturbed, Alone, Counting
    <3> QED BY <3>1, <3>3, CountRests
  <2> QED BY <2>1, <2>2, <2>3
<1>2. CASE Restart
  <2>1. mining' = mining /\ accepted' = accepted /\ \A q \in Workers : Undisturbed(q)
    BY <1>2 DEF Restart, Undisturbed, Counting
  <2> QED BY <2>1, CountRests
<1>3. CASE UNCHANGED vars
  <2>1. mining' = mining /\ accepted' = accepted /\ pc' = pc /\ work' = work
    BY <1>3 DEF vars
  <2> QED BY <2>1, NothingDisturbed, CountRests
<1> QED BY <1>1, <1>2, <1>3 DEF Next

\* On every backend, mining_report's read-modify-write of MiningState loses
\* reports under races and failures and never counts one too many.
THEOREM CountStaysBehind == Spec => []CountNeverAhead
<1>1. Init => CountInv
  <2> SUFFICES ASSUME Init PROVE CountInv
    OBVIOUS
  <2>1. Uncounted = {} /\ mining.count = 0 /\ accepted = 0 /\ \A p \in Workers : pc[p] # "mwrite"
    BY DEF Init, Uncounted, Counting, MiningDefault
  <2> QED BY <2>1, FS_EmptySet DEF CountInv
<1>2. TypeOK /\ HandlersOk /\ CountInv /\ [Next]_vars => CountInv'
  BY CountStep
<1>3. TypeOK /\ CountInv => CountNeverAhead
  <2> SUFFICES ASSUME TypeOK, CountInv PROVE mining.count <= accepted
    BY DEF CountNeverAhead
  <2>1. Cardinality(Uncounted) \in Nat
    BY FS_CardinalityType DEF CountInv
  <2> QED BY <2>1, CountTypes DEF CountInv
<1> QED BY <1>1, <1>2, <1>3, TypeCorrect, PTL DEF Spec

-----------------------------------------------------------------------------
(* What health_check tells, over FoundationDB.  It reads the record twice;  *)
(* what it read the first time still holds because records are stable.     *)

\* What worker p has read of the token it is asked about.
ReadTrue(p) ==
    LET k == req[p].ins[1].key
    IN  pc[p] = "hcheck" /\ work[p].amount # <<>> =>
            tokens[k] # Absent /\ tokens[k].amount = work[p].amount[1]

\* What worker p has last told its client.
ToldTrue(p) ==
    LET k == reply[p].key
    IN  k # NoKey =>
            /\ reply[p].spent = "true" => Spent(k)
            /\ reply[p].spent = "false" => tokens[k] # Absent
            /\ reply[p].amount # <<>> =>
                  tokens[k] # Absent /\ tokens[k].amount = reply[p].amount[1]

HealthInv == \A p \in Workers : ReadTrue(p) /\ ToldTrue(p)

\* Worker q says nothing new about a token and reads nothing new.
Silent(q) ==
    /\ reply'[q] = reply[q] \/ reply'[q].key = NoKey
    /\ pc'[q] = "hcheck" => pc[q] = "hcheck" /\ work'[q] = work[q] /\ req'[q] = req[q]

LEMMA HealthKeys ==
    ASSUME TypeOK, HandlersOk, NEW p \in Workers
    PROVE  /\ reply[p].key # NoKey => reply[p].key \in Keys
           /\ pc[p] \in {"hget", "hcheck"} => req[p].ins[1].key \in Keys
<1>1. reply[p].key \in Keys \union {NoKey}
  BY DEF TypeOK, Answer
<1>2. pc[p] \in {"hget", "hcheck"} => req[p] \in Requests /\ req[p].kind = "health"
  BY DEF HandlersOk, HandlerOk
<1> QED BY <1>1, <1>2, RequestParts

LEMMA HealthRests ==
    ASSUME TypeOK, HandlersOk, \A k \in Keys : RecordKept(k), NEW q \in Workers,
           ReadTrue(q), ToldTrue(q), Silent(q)
    PROVE  ReadTrue(q)' /\ ToldTrue(q)'
<1>1. ReadTrue(q)'
  <2> DEFINE k == req[q].ins[1].key
  <2> SUFFICES ASSUME pc'[q] = "hcheck", work'[q].amount # <<>>
               PROVE  tokens'[req'[q].ins[1].key] # Absent
                      /\ tokens'[req'[q].ins[1].key].amount = work'[q].amount[1]
    BY DEF ReadTrue
  <2>1. pc[q] = "hcheck" /\ work'[q] = work[q] /\ req'[q] = req[q] /\ k \in Keys
    BY HealthKeys DEF Silent
  <2>2. tokens[k] # Absent /\ tokens[k].amount = work[q].amount[1] /\ RecordKept(k)
    BY <2>1 DEF ReadTrue
  <2> QED BY <2>1, <2>2 DEF RecordKept
<1>2. ToldTrue(q)'
  <2>1. CASE reply'[q].key = NoKey
    BY <2>1 DEF ToldTrue
  <2>2. CASE reply'[q] = reply[q] /\ reply[q].key # NoKey
    <3>1. RecordKept(reply[q].key)
      BY <2>2, HealthKeys
    <3> QED BY <2>2, <3>1 DEF ToldTrue, RecordKept, Spent
  <2> QED BY <2>1, <2>2 DEF Silent
<1> QED BY <1>1, <1>2

LEMMA HealthGetTrue ==
    ASSUME TypeOK, HandlersOk, HealthInv, NEW p \in Workers, HealthGet(p)
    PROVE  ReadTrue(p)' /\ ToldTrue(p)' /\ Alone(p) /\ tokens' = tokens
<1> DEFINE k == req[p].ins[1].key
           amount == IF Decodes(k, tokens[k]) THEN <<tokens[k].amount>> ELSE <<>>
<1>1. /\ work' = [work EXCEPT ![p].amount = amount] /\ tokens' = tokens
      /\ Goto(p, "hcheck")
  BY DEF HealthGet
<1>2. req'[p] = req[p] /\ reply'[p] = reply[p] /\ pc'[p] = "hcheck" /\ Alone(p)
  BY <1>1 DEF Goto, TypeOK, Alone
<1>3. work'[p].amount = amount
  BY <1>1 DEF TypeOK, HandlerWork
<1>4. amount # <<>> => tokens[k] # Absent /\ tokens[k].amount = amount[1]
  BY DEF Decodes
<1> HIDE DEF amount
<1>5. ReadTrue(p)'
  BY <1>1, <1>2, <1>3, <1>4 DEF ReadTrue
<1>6. ToldTrue(p)'
  BY <1>1, <1>2 DEF HealthInv, ToldTrue, Spent
<1> QED BY <1>1, <1>2, <1>5, <1>6

LEMMA HealthCheckTrue ==
    ASSUME Backend = "fdb", TypeOK, HandlersOk, HealthInv, NEW p \in Workers, HealthCheck(p)
    PROVE  ReadTrue(p)' /\ ToldTrue(p)' /\ Alone(p) /\ tokens' = tokens
<1> DEFINE k == req[p].ins[1].key
           a == [status |-> "ok", key |-> k, spent |-> SpentProbe(k),
                 amount |-> IF SpentProbe(k) = "false" THEN work[p].amount ELSE <<>>]
<1>1. pc[p] = "hcheck" /\ Respond(p, a) /\ tokens' = tokens
  BY DEF HealthCheck
<1>2. pc'[p] = "idle" /\ reply'[p] = a /\ Alone(p)
  BY <1>1, RespondAlone
<1>3. /\ SpentProbe(k) = "true" => Spent(k)
      /\ SpentProbe(k) = "false" => tokens[k] # Absent
  BY DEF SpentProbe, Decodes, Spent
<1>4. work[p].amount # <<>> => tokens[k] # Absent /\ tokens[k].amount = work[p].amount[1]
  BY <1>1 DEF HealthInv, ReadTrue
<1>5. /\ a.key = k /\ a.spent = SpentProbe(k)
      /\ a.amount # <<>> => a.amount = work[p].amount
  OBVIOUS
<1> HIDE DEF a
<1>6. ReadTrue(p)'
  BY <1>2 DEF ReadTrue
<1>7. ToldTrue(p)'
  BY <1>1, <1>2, <1>3, <1>4, <1>5 DEF ToldTrue, Spent
<1> QED BY <1>1, <1>2, <1>6, <1>7

LEMMA HealthStep ==
    ASSUME Backend = "fdb", TypeOK, HandlersOk, HealthInv, [Next]_vars
    PROVE  HealthInv'
<1>1. \A k \in Keys : RecordKept(k)
  BY StepsOfStore, RecordsKept
<1>2. ASSUME \A q \in Workers : Silent(q) PROVE HealthInv'
  BY <1>1, <1>2, HealthRests DEF HealthInv
<1>3. ASSUME NEW p \in Workers, HealthGet(p) \/ HealthCheck(p)
      PROVE  HealthInv'
  <2>1. ReadTrue(p)' /\ ToldTrue(p)' /\ Alone(p)
    BY <1>3, HealthGetTrue, HealthCheckTrue
  <2>2. \A q \in Workers \ {p} : Silent(q)
    BY <2>1 DEF Alone, Silent
  <2>3. \A q \in Workers \ {p} : ReadTrue(q)' /\ ToldTrue(q)'
    BY <1>1, <2>2, HealthRests DEF HealthInv
  <2> QED BY <2>1, <2>3 DEF HealthInv
<1>4. ASSUME NEW p \in Workers, Receive(p) \/ Serve(p) \/ Fail(p),
             ~HealthGet(p), ~HealthCheck(p)
      PROVE  HealthInv'
  <2>1. \/ \E st : Respond(p, Response(st))
        \/ /\ pc'[p] # "hcheck" /\ Alone(p)
           /\ reply'[p] = reply[p] \/ reply'[p] = Response("none")
        \/ UNCHANGED handlerVars
    <3>1. Inserted(p) => \/ Respond(p, Response("ok"))
                         \/ pc'[p] # "hcheck" /\ Alone(p) /\ reply'[p] = reply[p]
      BY DEF Inserted, Goto, TypeOK, Alone
    <3>2. ReadMining(p) => pc'[p] # "hcheck" /\ Alone(p) /\ reply'[p] = reply[p]
      BY DEF ReadMining, Goto, TypeOK, Alone
    <3>3. WriteMining(p) => Respond(p, Response("ok"))
      BY DEF WriteMining
    <3> QED BY <1>4, <3>1, <3>2, <3>3, HandlerSteps DEF Begins, Proceeds
  <2>2. CASE \E st : Respond(p, Response(st))
    <3>1. PICK st : Respond(p, Response(st))
      BY <2>2
    <3>2. pc'[p] = "idle" /\ reply'[p].key = NoKey /\ Alone(p)
      BY <3>1, RespondAlone DEF Response
    <3> QED BY <1>2, <3>2 DEF Silent, Alone
  <2>3. CASE /\ pc'[p] # "hcheck" /\ Alone(p)
             /\ reply'[p] = reply[p] \/ reply'[p] = Response("none")
    BY <1>2, <2>3 DEF Silent, Alone, Response
  <2>4. CASE UNCHANGED handlerVars
    BY <1>2, <2>4 DEF handlerVars, Silent
  <2> QED BY <2>1, <2>2, <2>3, <2>4
<1>5. CASE Restart
  BY <1>2, <1>5 DEF Restart, Silent, Response
<1>6. CASE UNCHANGED vars
  BY <1>2, <1>6 DEF vars, Silent
<1> QED BY <1>3, <1>4, <1>5, <1>6 DEF Next

\* Over FoundationDB what health_check has answered stays true: a token told
\* spent is spent, one told unspent exists, and its amount is the record's.
THEOREM HealthStaysTrue ==
    ASSUME Backend = "fdb"
    PROVE  Spec => []HealthTruthful
<1>1. Init => HealthInv
  BY DEF Init, HealthInv, ReadTrue, ToldTrue, Response
<1>2. TypeOK /\ HandlersOk /\ HealthInv /\ [Next]_vars => HealthInv'
  BY HealthStep
<1>3. HealthInv => HealthTruthful
  BY DEF HealthInv, ToldTrue, HealthTruthful
<1> QED BY <1>1, <1>2, <1>3, TypeCorrect, PTL DEF Spec

-----------------------------------------------------------------------------
(* Spending, on the backends whose replace commits all or nothing.  Unlike  *)
(* SpentIffAudited this half also holds on DynamoDB, where a put may make a *)
(* spent record unspent again.                                              *)

\* A newly spent token is consumed by the audit record of this very step.
SpendsAudited ==
    /\ audit' = audit \/ \E r \in Requests : audit' = Append(audit, AuditEntry(r))
    /\ \A k \in Keys : SpentIn(tokens', k) =>
          \/ SpentIn(tokens, k)
          \/ \E r \in Requests : audit' = Append(audit, AuditEntry(r)) /\ k \in KeysOf(r.ins)

LEMMA MarkSpends ==
    ASSUME NEW map, NEW ks, NEW k \in Keys, SpentIn(MarkSpent(map, ks), k)
    PROVE  k \in ks \/ SpentIn(map, k)
BY DEF SpentIn, MarkSpent

LEMMA PutUnspent ==
    ASSUME NEW map, NEW ts, NEW o, NEW k \in Keys, SpentIn(PutAll(map, ts, o), k)
    PROVE  SpentIn(map, k)
<1>1. CASE k \in KeysOf(ts)
  <2>1. PutAll(map, ts, o)[k].spent = "no"
    BY <1>1 DEF PutAll, RecordFromSecret
  <2> QED BY <2>1 DEF SpentIn
<1>2. CASE k \notin KeysOf(ts)
  BY <1>2 DEF PutAll, SpentIn
<1> QED BY <1>1, <1>2

LEMMA ReplaceSpendsAudited ==
    ASSUME Backend # "redis", TypeOK, HandlersOk, NEW p \in Workers,
           pc[p] = "commit", ApplyReplace(p)
    PROVE  SpendsAudited
<1> DEFINE r == req[p]
<1>1. r \in Requests
  BY DEF HandlersOk, HandlerOk
<1>2. CASE ~ReplaceOk(r)
  BY <1>2, BackendAssumption DEF ApplyReplace, AfterReplace, SpendsAudited
<1>3. CASE ReplaceOk(r)
  <2>1. /\ tokens' = PutAll(MarkSpent(tokens, KeysOf(r.ins)), r.outs, "replaced")
        /\ audit' = Append(audit, AuditEntry(r))
    BY <1>3, BackendAssumption DEF ApplyReplace, AfterReplace, FdbReplace, DynamoReplace
  <2> HIDE DEF r
  <2>2. \A k \in Keys : SpentIn(tokens', k) => k \in KeysOf(r.ins) \/ SpentIn(tokens, k)
    BY <2>1, PutUnspent, MarkSpends
  <2> QED BY <1>1, <2>1, <2>2 DEF SpendsAudited
<1> QED BY <1>2, <1>3

LEMMA BurnSpendsAudited ==
    ASSUME TypeOK, HandlersOk, NEW p \in Workers, pc[p] = "burn", ApplyBurn(p)
    PROVE  SpendsAudited
<1> DEFINE r == req[p]
<1>1. r \in Requests /\ r.ins \in Seq(Tokens) /\ Len(r.ins) = 1
  BY RequestParts DEF HandlersOk, HandlerOk
<1>2. CASE ~BurnOk(r)
  BY <1>2 DEF ApplyBurn, SpendsAudited
<1>3. CASE BurnOk(r)
  <2>1. tokens' = MarkSpent(tokens, {BurnKey(r)}) /\ audit' = Append(audit, AuditEntry(r))
    BY <1>3 DEF ApplyBurn
  <2>2. BurnKey(r) \in KeysOf(r.ins)
    BY <1>1 DEF BurnKey, KeysOf
  <2> HIDE DEF r
  <2> QED BY <1>1, <2>1, <2>2, MarkSpends DEF SpendsAudited
<1> QED BY <1>2, <1>3

LEMMA PutSpendsNothing ==
    ASSUME TypeOK, NEW t, NEW o, tokens' = DynamoPut(tokens, t, o)
    PROVE  \A k \in Keys : SpentIn(tokens', k) => SpentIn(tokens, k)
<1>1. tokens' = [tokens EXCEPT ![t.key] = RecordFromSecret(t, o)] /\ RecordFromSecret(t, o).spent = "no"
  BY DEF DynamoPut, RecordFromSecret
<1> QED BY <1>1 DEF SpentIn, TypeOK, TokenMap

LEMMA StepsSpendAudited ==
    ASSUME Backend # "redis", TypeOK, HandlersOk, [Next]_vars
    PROVE  SpendsAudited
<1>1. ASSUME tokens' = tokens, audit' = audit PROVE SpendsAudited
  BY <1>1 DEF SpendsAudited
<1>2. ASSUME NEW ts, NEW o, tokens' = PutAll(tokens, ts, o), audit' = audit PROVE SpendsAudited
  BY <1>2, PutUnspent DEF SpendsAudited
<1>3. ASSUME NEW p \in Workers, Receive(p) PROVE SpendsAudited
  BY <1>1, <1>3 DEF Receive, Refuse, AcceptEmpty, Accept, AcceptIssue
<1>4. ASSUME NEW p \in Workers, Serve(p) PROVE SpendsAudited
  <2>1. CASE CommitReplace(p) \/ CommitBurn(p)
    BY <2>1, ReplaceSpendsAudited, BurnSpendsAudited DEF CommitReplace, CommitBurn
  <2>2. CASE InsertTransaction(p)
    BY <1>1, <1>2, <2>2 DEF InsertTransaction
  <2>3. CASE InsertNx(p) \/ InsertFill(p)
    BY <2>3 DEF InsertNx, InsertFill
  <2>4. CASE InsertPut(p)
    <3>1. audit' = audit /\ (tokens' = tokens \/ \E t, o : tokens' = DynamoPut(tokens, t, o))
      BY <2>4 DEF InsertPut
    <3> QED BY <1>1, <3>1, PutSpendsNothing DEF SpendsAudited
  <2>5. CASE \/ InsertNothing(p) \/ ReadInputs(p) \/ ReadMining(p) \/ WriteMining(p)
             \/ HealthGet(p) \/ HealthCheck(p)
    BY <1>1, <2>5 DEF InsertNothing, ReadInputs, ReadMining, WriteMining, HealthGet, HealthCheck
  <2> QED BY <1>4, <2>1, <2>2, <2>3, <2>4, <2>5 DEF Serve
<1>5. ASSUME NEW p \in Workers, Fail(p) PROVE SpendsAudited
  BY <1>1, <1>2, <1>5, ReplaceSpendsAudited, BurnSpendsAudited
     DEF Fail, StoreFails, ClientGone, ReplaceAckLost, BurnAckLost, InsertAckLost
<1>6. CASE Restart \/ UNCHANGED vars
  BY <1>1, <1>6 DEF Restart, vars
<1> QED BY <1>3, <1>4, <1>5, <1>6 DEF Next

\* On FoundationDB and DynamoDB no token is spent without an audit record that
\* consumed it.  On Redis a refused REPLACE_LUA leaves marks and no record.
THEOREM NothingSpentUnaudited ==
    ASSUME Backend # "redis"
    PROVE  Spec => []NoUnauditedSpend
<1>1. Init => NoUnauditedSpend
  BY DEF Init, NoUnauditedSpend, Spent
<1>2. ASSUME TypeOK, HandlersOk, NoUnauditedSpend, [Next]_vars
      PROVE  NoUnauditedSpend'
  <2> SUFFICES ASSUME NEW k \in Keys, SpentIn(tokens', k)
               PROVE  \E i \in DOMAIN audit' : Consumes(audit'[i], k)
    BY DEF NoUnauditedSpend, Spent, SpentIn, ConsumedAt
  <2> DEFINE E == AuditRecord
  <2>1. SpendsAudited /\ audit \in Seq(E)
    BY <1>2, StepsSpendAudited DEF TypeOK
  <2> HIDE DEF E
  <2>2. \A i \in DOMAIN audit : i \in DOMAIN audit' /\ audit'[i] = audit[i]
    BY <2>1 DEF SpendsAudited
  <2>3. CASE SpentIn(tokens, k)
    <3>1. \E i \in DOMAIN audit : Consumes(audit[i], k)
      BY <1>2, <2>3 DEF NoUnauditedSpend, Spent, SpentIn, ConsumedAt
    <3> QED BY <2>2, <3>1
  <2>4. CASE \E r \in Requests : audit' = Append(audit, AuditEntry(r)) /\ k \in KeysOf(r.ins)
    <3>1. PICK r \in Requests : audit' = Append(audit, AuditEntry(r)) /\ k \in KeysOf(r.ins)
      BY <2>4
    <3>2. Consumes(AuditEntry(r), k)
      BY <3>1 DEF Consumes, AuditEntry, KeyList, KeysOf
    <3>3. Len(audit) + 1 \in DOMAIN audit' /\ audit'[Len(audit) + 1] = AuditEntry(r)
      BY <2>1, <3>1
    <3> QED BY <3>2, <3>3
  <2> QED BY <2>1, <2>3, <2>4 DEF SpendsAudited
<1> QED BY <1>1, <1>2, TypeCorrect, PTL DEF Spec

-----------------------------------------------------------------------------
(* Reviving a token: what is left of stability on Redis *)

\* Every step keeps k spent, or is the HSET of the insert that created k.
SpentKept(k) ==
    SpentIn(tokens, k) =>
        \/ SpentIn(tokens', k)
        \/ \E p \in Workers : pc[p] = "fill" /\ Filling(p, k)

LEMMA ReplaceKeepsSpent ==
    ASSUME Backend = "redis", TypeOK, HandlersOk, NEW p \in Workers,
           pc[p] = "commit", ApplyReplace(p), NEW k \in Keys
    PROVE  SpentKept(k)
<1>1. req[p].ins \in Seq(Tokens) /\ req[p].outs \in Seq(Tokens)
  BY RequestParts DEF HandlersOk, HandlerOk
<1>2. tokens' = LuaReplace(tokens, req[p].ins, req[p].outs)
  BY DEF ApplyReplace, AfterReplace
<1> QED BY <1>1, <1>2, LuaReplaceKeepsSpent DEF SpentKept, TypeOK

LEMMA BurnKeepsSpent ==
    ASSUME TypeOK, NEW p \in Workers, ApplyBurn(p), NEW k \in Keys
    PROVE  SpentKept(k)
<1>1. tokens' = tokens \/ tokens' = MarkSpent(tokens, {BurnKey(req[p])})
  BY DEF ApplyBurn
<1> QED BY <1>1, MarkKeepsSpent DEF SpentKept, TypeOK

LEMMA InsertNxKeepsSpent ==
    ASSUME TypeOK, HandlersOk, NEW p \in Workers, InsertNx(p), NEW k \in Keys
    PROVE  SpentKept(k)
<1> DEFINE i == First(work[p].todo)
           t == req[p].outs[i]
<1>1. /\ pc[p] = "insert" /\ work[p].todo # {}
      /\ tokens' = IF HSetNxCreates(tokens, t) THEN HSetNx(tokens, t) ELSE tokens
  BY DEF InsertNx
<1>2. req[p].outs \in Seq(Tokens) /\ work[p].todo \subseteq DOMAIN req[p].outs
      /\ DOMAIN req[p].outs \subseteq Nat
  BY <1>1, RequestParts DEF HandlersOk, HandlerOk
<1>3. i \in work[p].todo
  BY <1>1, <1>2, FirstIsIn
<1> HIDE DEF i
<1>4. t \in Tokens
  BY <1>2, <1>3
<1> HIDE DEF t
<1> QED BY <1>1, <1>4, HSetNxKeepsSpent DEF SpentKept, TypeOK

LEMMA InsertFillRevivesOwn ==
    ASSUME TypeOK, HandlersOk, NEW p \in Workers, InsertFill(p), NEW k \in Keys
    PROVE  SpentKept(k)
<1> DEFINE i == First(work[p].todo)
           key == req[p].outs[i].key
<1>1. /\ pc[p] = "fill"
      /\ tokens' = HSetRest(tokens, req[p].outs[i], OriginOf(req[p]))
  BY DEF InsertFill
<1>2. /\ work[p].todo # {} /\ work[p].todo \subseteq work[p].made
      /\ work[p].made \subseteq DOMAIN req[p].outs /\ DOMAIN req[p].outs \subseteq Nat
      /\ req[p] \in Requests
  BY <1>1, RequestParts DEF HandlersOk, HandlerOk
<1>3. i \in work[p].todo
  BY <1>2, FirstIsIn
<1> HIDE DEF i
<1>4. key \in Keys
  BY <1>2, <1>3, RequestParts
<1>5. CASE k = key
  BY <1>1, <1>2, <1>3, <1>5 DEF SpentKept, Filling
<1>6. CASE k # key
  <2>1. tokens'[k] = tokens[k]
    BY <1>1, <1>4, <1>6 DEF HSetRest, TypeOK, TokenMap
  <2> QED BY <2>1 DEF SpentKept, SpentIn
<1> QED BY <1>5, <1>6

LEMMA StepsKeepSpent ==
    ASSUME Backend = "redis", TypeOK, HandlersOk, [Next]_vars, NEW k \in Keys
    PROVE  SpentKept(k)
<1>1. ASSUME tokens' = tokens PROVE SpentKept(k)
  BY <1>1 DEF SpentKept
<1>2. ASSUME NEW p \in Workers, Receive(p) PROVE SpentKept(k)
  BY <1>1, <1>2 DEF Receive, Refuse, AcceptEmpty, Accept, AcceptIssue
<1>3. ASSUME NEW p \in Workers, Serve(p) PROVE SpentKept(k)
  <2>1. CASE CommitReplace(p) \/ CommitBurn(p)
    BY <2>1, ReplaceKeepsSpent, BurnKeepsSpent DEF CommitReplace, CommitBurn
  <2>2. CASE InsertNx(p) \/ InsertFill(p)
    BY <2>2, InsertNxKeepsSpent, InsertFillRevivesOwn
  <2>3. CASE InsertTransaction(p) \/ InsertPut(p)
    BY <2>3 DEF InsertTransaction, InsertPut
  <2>4. CASE \/ InsertNothing(p) \/ ReadInputs(p) \/ ReadMining(p) \/ WriteMining(p)
             \/ HealthGet(p) \/ HealthCheck(p)
    BY <1>1, <2>4 DEF InsertNothing, ReadInputs, ReadMining, WriteMining, HealthGet, HealthCheck
  <2> QED BY <1>3, <2>1, <2>2, <2>3, <2>4 DEF Serve
<1>4. ASSUME NEW p \in Workers, Fail(p) PROVE SpentKept(k)
  BY <1>1, <1>4, ReplaceKeepsSpent, BurnKeepsSpent
     DEF Fail, StoreFails, ClientGone, ReplaceAckLost, BurnAckLost, InsertAckLost
<1>5. CASE Restart \/ UNCHANGED vars
  BY <1>1, <1>5 DEF Restart, vars
<1> QED BY <1>2, <1>3, <1>4, <1>5 DEF Next

\* On FoundationDB and Redis a spent token becomes unspent only by the second
\* half of the insert that is creating it.  A DynamoDB put has no condition.
THEOREM OnlyItsCreatorRevives ==
    ASSUME Backend # "dynamodb"
    PROVE  Spec => OnlyCreatorRevives
<1> DEFINE A == \A k \in Keys :
                   Spent(k) /\ ~Spent(k)' =>
                       \E p \in Workers : pc[p] = "fill" /\ Filling(p, k)
<1>1. TypeOK /\ HandlersOk /\ [Next]_vars => [A]_vars
  <2> SUFFICES ASSUME TypeOK, HandlersOk, [Next]_vars, NEW k \in Keys PROVE SpentKept(k)
    BY DEF SpentKept, SpentIn, Spent
  <2>1. CASE Backend = "redis"
    BY <2>1, StepsKeepSpent
  <2>2. CASE Backend = "fdb"
    <3>1. RecordKept(k)
      BY <2>2, StepsOfStore, RecordsKept
    <3> QED BY <3>1 DEF RecordKept, SpentKept, SpentIn
  <2> QED BY <2>1, <2>2, BackendAssumption
<1>2. OnlyCreatorRevives <=> [][A]_vars
  BY DEF OnlyCreatorRevives
<1> QED BY <1>1, <1>2, TypeCorrect, PTL DEF Spec
=============================================================================
