----------------------------- MODULE RefereeSwap -----------------------------
(***************************************************************************)
(* The referee's swap orchestrator (referee/src/api/orchestrator.rs): Bob  *)
(* offers a webcash secret, Alice a virtual output that only she and the   *)
(* referee together can release.  The referee holds two one-time MuSig2    *)
(* sessions per swap and signs exactly one of them: "settle" towards Bob   *)
(* when Bob's webcash is spent, "refund" towards Alice when the pushes are *)
(* exhausted.                                                              *)
(*                                                                         *)
(* A call (start_swap, advance_swap, cancel_swap) is a script: the list of *)
(* awaits it still has to make.  One step is one await, so calls on the    *)
(* same swap interleave at every await, and an error, a dropped connection *)
(* or a restart cuts a script anywhere.  The stored row is written without *)
(* a condition by every backend.                                           *)
(*                                                                         *)
(* An audit tip is the hash of an entry that contains the prior tip: it is *)
(* modelled by what it commits to, the sequence of phases from "init" on.  *)
(* Timestamps are left out, so two entries alike in all else are one tip,  *)
(* and the log is the set of its entries: only auditors read their order.  *)
(***************************************************************************)
EXTENDS Naturals, Sequences, FiniteSets

CONSTANTS
    Swaps,          \* fresh swap ids
    Workers,        \* concurrent handler tasks
    Retry,          \* insert_push_retry
    AppendRetries,  \* APPEND_RETRIES of the DynamoDB log
    AuditBackend,   \* "list" (Redis, in memory), "dynamodb" or "fdb"
    MaxFaults,      \* bound on failed awaits and restarts
    Absent          \* no row stored

ASSUME RefereeAssumption ==
    /\ Retry \in Nat /\ MaxFaults \in Nat /\ AppendRetries \in Nat
    /\ AuditBackend \in {"list", "dynamodb", "fdb"}
    /\ Swaps # {}

VARIABLES
    rows,       \* the stored Transaction of each swap, or Absent
    audit,      \* the entries of each swap's log
    sessions,   \* live MuSig2 sessions, in process memory
    signed,     \* how often each session produced a partial signature
    leg,        \* Bob's webcash as webcash.org reports it
    pushes,     \* the kinds of push the provider has accepted
    closes,     \* how the HTLC backup record was closed
    calls,      \* the call each worker is in
    acked,      \* swaps whose cancel_swap has returned Ok
    faults      \* faults so far

vars == <<rows, audit, sessions, signed, leg, pushes, closes, calls, acked, faults>>

Early == {"init", "zkps-verified", "pre-checked"}
Terminal == {"settled", "refunded", "canceled"}
Phases == Early \union Terminal \union {"insert-pushed", "aborted", "invalidated"}

Sessions == {"settle", "refund"}
Parties == {"bob", "alice"}

\* SwapState<P>: the typestate's phase, the attempts counter and the tip.
SwapState == [phase : Phases \union {"new"}, attempts : Nat, tip : Seq(Phases)]

\* The Transaction row: the state, plus what only the row carries.
Row == [phase : Phases, attempts : Nat, tip : Seq(Phases),
        htlc : BOOLEAN, by : Parties \union {"nobody"}]

ASSUME AbsentRowAssumption == Absent \notin Row

RowOf(st, htlc, by) ==
    [phase |-> st.phase, attempts |-> st.attempts, tip |-> st.tip,
     htlc |-> htlc, by |-> by]

StateOf(row) == [phase |-> row.phase, attempts |-> row.attempts, tip |-> row.tip]

NewState == [phase |-> "new", attempts |-> 0, tip |-> <<>>]

(***************************************************************************)
(* The scripts.                                                            *)
(***************************************************************************)
StepKinds == {"audit", "get", "put", "mint", "htlc-get", "htlc-put", "verify",
              "check", "push", "sign", "discard", "close"}
Step(do, phase) == [do |-> do, phase |-> phase]
Steps == [do : StepKinds, phase : Phases]

\* persist of a state past "init": read the stored row, then overwrite it.
Persist(p) == <<Step("get", p), Step("put", p)>>

StartScript ==
    <<Step("audit", "init"), Step("put", "init"), Step("mint", "init"),
      Step("verify", "zkps-verified"), Step("audit", "zkps-verified")>>
    \o Persist("zkps-verified")
    \o <<Step("check", "pre-checked"), Step("audit", "pre-checked")>>
    \o Persist("pre-checked")
    \o <<Step("push", "insert-pushed"), Step("audit", "insert-pushed")>>
    \o Persist("insert-pushed")

\* The settle partial signature is made and pushed before the row is written.
SettleScript ==
    <<Step("audit", "settled"), Step("sign", "settled"), Step("push", "settled")>>
    \o Persist("settled")
    \o <<Step("discard", "settled"), Step("close", "settled")>>

RetryScript ==
    <<Step("push", "insert-pushed"), Step("audit", "insert-pushed")>>
    \o Persist("insert-pushed")

AbortScript ==
    <<Step("audit", "aborted")>> \o Persist("aborted") \o <<Step("push", "aborted")>>

InvalidateScript == <<Step("audit", "invalidated")>> \o Persist("invalidated")

RefundScript ==
    <<Step("sign", "refunded"), Step("push", "refunded"), Step("audit", "refunded")>>
    \o Persist("refunded")
    \o <<Step("discard", "refunded"), Step("close", "refunded")>>

CancelScript(attempts) ==
    <<Step("audit", "canceled"), Step("put", "canceled")>>
    \o (IF attempts > 0 THEN <<Step("push", "canceled")>> ELSE <<>>)
    \o <<Step("discard", "canceled"), Step("close", "canceled")>>

(***************************************************************************)
(* Calls.                                                                  *)
(***************************************************************************)
NoRow == RowOf([NewState EXCEPT !.phase = "init"], FALSE, "nobody")

\* keep: the row the call has read; ok: the outcome the next transition tests.
CallType == [todo : Seq(Steps), swap : Swaps, st : SwapState, keep : Row, ok : BOOLEAN]

Idle == [todo |-> <<>>, swap |-> CHOOSE s \in Swaps : TRUE, st |-> NewState,
         keep |-> NoRow, ok |-> TRUE]

Init ==
    /\ rows = [s \in Swaps |-> Absent]
    /\ audit = [s \in Swaps |-> {}]
    /\ sessions = [s \in Swaps |-> {}]
    /\ signed = [s \in Swaps |-> [k \in Sessions |-> 0]]
    /\ leg = [s \in Swaps |-> "unspent"]
    /\ pushes = [s \in Swaps |-> {}]
    /\ closes = [s \in Swaps |-> {}]
    /\ calls = [w \in Workers |-> Idle]
    /\ acked = {}
    /\ faults = 0

At(w, do) == calls[w].todo # <<>> /\ Head(calls[w].todo).do = do

\* The call after its current step: on with the script, or back to idle.
After(c) == IF Len(c.todo) = 1 THEN Idle ELSE [c EXCEPT !.todo = Tail(@)]
Goes(w, c) == calls' = [calls EXCEPT ![w] = After(c)]
Drops(w) == calls' = [calls EXCEPT ![w] = Idle]

\* POST /v1/swap/initiate: a fresh id and two MuSig2 sessions.
Start(w, s) ==
    /\ calls[w] = Idle
    /\ audit[s] = {} /\ sessions[s] = {}
    /\ \A v \in Workers : calls[v] # Idle => calls[v].swap # s
    /\ sessions' = [sessions EXCEPT ![s] = Sessions]
    /\ calls' = [calls EXCEPT ![w] = [Idle EXCEPT !.todo = StartScript, !.swap = s]]
    /\ UNCHANGED <<rows, audit, signed, leg, pushes, closes, acked, faults>>

\* Mutant: an aborted swap is left to someone else.
AdvanceSkipsAborted(w, s) ==
    /\ calls[w] = Idle /\ rows[s] # Absent
    /\ rows[s].phase \in {"insert-pushed", "invalidated"}
    /\ calls' = [calls EXCEPT ![w] =
            [Idle EXCEPT !.swap = s, !.st = StateOf(rows[s]),
                         !.todo = IF rows[s].phase = "insert-pushed"
                                  THEN <<Step("check", "insert-pushed")>> ELSE RefundScript]]
    /\ UNCHANGED <<rows, audit, sessions, signed, leg, pushes, closes, acked, faults>>

\* POST /v1/swap/{id}/advance: terminal and early phases return at once.
Advance(w, s) ==
    /\ calls[w] = Idle /\ rows[s] # Absent
    /\ rows[s].phase \in {"insert-pushed", "aborted", "invalidated"}
    /\ calls' = [calls EXCEPT ![w] =
            [Idle EXCEPT !.swap = s, !.st = StateOf(rows[s]),
                         !.todo = CASE rows[s].phase = "insert-pushed" -> <<Step("check", "insert-pushed")>>
                                    [] rows[s].phase = "aborted" -> InvalidateScript
                                    [] OTHER -> RefundScript]]
    /\ UNCHANGED <<rows, audit, sessions, signed, leg, pushes, closes, acked, faults>>

\* Mutant: Bob may withdraw his offer in any phase.
MayCancelLate(row, by) == row.phase \in Early \/ by = "bob"

MayCancel(row, by) == row.phase \in Early \/ (row.phase = "insert-pushed" /\ by = "bob")

\* POST /v1/swap/{id}/cancel with a valid signature of that party.
Cancel(w, s, by) ==
    /\ calls[w] = Idle /\ rows[s] # Absent
    /\ MayCancel(rows[s], by)
    /\ calls' = [calls EXCEPT ![w] =
            [Idle EXCEPT !.swap = s, !.st = StateOf(rows[s]),
                         !.keep = [rows[s] EXCEPT !.by = by],
                         !.todo = CancelScript(rows[s].attempts)]]
    /\ UNCHANGED <<rows, audit, sessions, signed, leg, pushes, closes, acked, faults>>

(***************************************************************************)
(* The awaits.                                                             *)
(***************************************************************************)
\* The next phase's state: a new tip, and attempts set or bumped by a push.
Advanced(st, p) ==
    [phase |-> p, tip |-> Append(st.tip, p),
     attempts |-> IF p # "insert-pushed" THEN st.attempts
                  ELSE IF st.phase = "pre-checked" THEN 1
                  ELSE st.attempts + 1]

\* FoundationDB: the sequence number of entry 0 is parsed from an empty string
\* once its zeros are trimmed, so the next number is 0 again.
FdbAppend(log, tip) == {tip}

\* DynamoDB: try from the last number a possibly stale query saw, one up each
\* time; every number below the log's length is taken.
DynamoAppends(log, seen) == Cardinality(log) - seen < AppendRetries

AuditAppend(log, tip) == IF AuditBackend = "fdb" THEN FdbAppend(log, tip) ELSE log \union {tip}

\* Mutant: the log is written on a best-effort basis.
AuditBestEffort(w) ==
    LET c == calls[w]
        st == Advanced(c.st, Head(c.todo).phase)
    IN  /\ At(w, "audit")
        /\ \E log \in {audit[c.swap], AuditAppend(audit[c.swap], st.tip)} :
             audit' = [audit EXCEPT ![c.swap] = log]
        /\ IF c.ok THEN Goes(w, [c EXCEPT !.st = st]) ELSE Drops(w)
        /\ UNCHANGED <<rows, sessions, signed, leg, pushes, closes, acked, faults>>

\* append signs and stores the entry; the transition it records is tested after.
Audit(w) ==
    LET c == calls[w]
        st == Advanced(c.st, Head(c.todo).phase)
    IN  /\ At(w, "audit")
        /\ audit' = [audit EXCEPT ![c.swap] = AuditAppend(@, st.tip)]
        /\ IF c.ok THEN Goes(w, [c EXCEPT !.st = st]) ELSE Drops(w)
        /\ UNCHANGED <<rows, sessions, signed, leg, pushes, closes, acked, faults>>

\* DynamoDB: the retries are used up against numbers that are taken.
AuditContended(w) ==
    /\ At(w, "audit") /\ AuditBackend = "dynamodb"
    /\ \E seen \in 0..Cardinality(audit[calls[w].swap]) : ~DynamoAppends(audit[calls[w].swap], seen)
    /\ Drops(w)
    /\ UNCHANGED <<rows, audit, sessions, signed, leg, pushes, closes, acked, faults>>

\* persist, first half: the stored row's cancel and HTLC fields are kept.
PersistGet(w) ==
    /\ At(w, "get")
    /\ Goes(w, [calls[w] EXCEPT !.keep = IF rows[calls[w].swap] = Absent
                                         THEN NoRow ELSE rows[calls[w].swap]])
    /\ UNCHANGED <<rows, audit, sessions, signed, leg, pushes, closes, acked, faults>>

\* upsert: SET, put_item or trx.set, whatever is stored.
Upsert(s, row) == rows' = [rows EXCEPT ![s] = row]

PersistPut(w) ==
    LET c == calls[w] IN
    /\ At(w, "put")
    /\ Upsert(c.swap, RowOf(c.st, c.keep.htlc, c.keep.by))
    /\ Goes(w, c)
    /\ UNCHANGED <<audit, sessions, signed, leg, pushes, closes, acked, faults>>

\* mint_swap_record, then mint_htlc_refund: without a contract id the row is
\* left as it is.
Mint(w) ==
    /\ At(w, "mint")
    /\ \E minted \in BOOLEAN :
         Goes(w, [calls[w] EXCEPT !.todo =
                    IF minted THEN <<Head(@), Step("htlc-get", "init"), Step("htlc-put", "init")>> \o Tail(@)
                    ELSE @])
    /\ UNCHANGED <<rows, audit, sessions, signed, leg, pushes, closes, acked, faults>>

HtlcGet(w) ==
    /\ At(w, "htlc-get")
    /\ Goes(w, [calls[w] EXCEPT !.keep = rows[calls[w].swap]])
    /\ UNCHANGED <<rows, audit, sessions, signed, leg, pushes, closes, acked, faults>>

\* The row as it was read is written back with the contract id.
HtlcPut(w) ==
    /\ At(w, "htlc-put")
    /\ Upsert(calls[w].swap, [calls[w].keep EXCEPT !.htlc = TRUE])
    /\ Goes(w, calls[w])
    /\ UNCHANGED <<audit, sessions, signed, leg, pushes, closes, acked, faults>>

\* Both Groth16 proofs: any verdict.
Verify(w) ==
    /\ At(w, "verify")
    /\ \E ok \in BOOLEAN : Goes(w, [calls[w] EXCEPT !.ok = ok])
    /\ UNCHANGED <<rows, audit, sessions, signed, leg, pushes, closes, acked, faults>>

\* Mutant: a webcash leg whose status is unknown counts as spent.
PostCheckUnknown(st, status) ==
    IF status # "unspent" THEN SettleScript
    ELSE IF st.attempts < Retry THEN RetryScript
    ELSE AbortScript

\* Mutant: the push budget is compared one too early.
PostCheckEager(st, status) ==
    IF status = "spent" THEN SettleScript
    ELSE IF st.attempts + 1 < Retry THEN RetryScript
    ELSE AbortScript

\* The post-check's choice: settle, push again, or abort.
PostCheck(st, status) ==
    IF status = "spent" THEN SettleScript
    ELSE IF st.attempts < Retry THEN RetryScript
    ELSE AbortScript

\* webcash.org's health_check; an answer it cannot place is "unknown".
Check(w) ==
    LET c == calls[w] IN
    /\ At(w, "check")
    /\ \E status \in {leg[c.swap], "unknown"} :
         Goes(w, IF Head(c.todo).phase = "pre-checked"
                 THEN [c EXCEPT !.ok = status = "unspent"]
                 ELSE [c EXCEPT !.todo = <<Head(@)>> \o PostCheck(c.st, status)])
    /\ UNCHANGED <<rows, audit, sessions, signed, leg, pushes, closes, acked, faults>>

\* Mutant: a cancel is pushed under a kind of its own.
PushKindCancel(phase) ==
    CASE phase = "insert-pushed" -> "insert"
      [] phase = "settled" -> "release-settle"
      [] phase = "refunded" -> "release-refund"
      [] phase = "canceled" -> "cancel"
      [] OTHER -> "invalidate"

PushKind(phase) ==
    CASE phase = "insert-pushed" -> "insert"
      [] phase = "settled" -> "release-settle"
      [] phase = "refunded" -> "release-refund"
      [] OTHER -> "invalidate"

Push(w) ==
    LET c == calls[w] IN
    /\ At(w, "push")
    /\ pushes' = [pushes EXCEPT ![c.swap] = @ \union {PushKind(Head(c.todo).phase)}]
    /\ Goes(w, c)
    /\ UNCHANGED <<rows, audit, sessions, signed, leg, closes, acked, faults>>

\* cancel_swap drops the error of its push.
PushIgnored(w) ==
    /\ At(w, "push") /\ Head(calls[w].todo).phase = "canceled" /\ faults < MaxFaults
    /\ faults' = faults + 1
    /\ Goes(w, calls[w])
    /\ UNCHANGED <<rows, audit, sessions, signed, leg, pushes, closes, acked>>

SessionFor(phase) == IF phase = "settled" THEN "settle" ELSE "refund"

\* Mutant: the session stays until it is discarded.
SignKeepsSession(w) ==
    LET c == calls[w]
        k == SessionFor(Head(c.todo).phase)
    IN  /\ At(w, "sign")
        /\ k \in sessions[c.swap]
        /\ signed' = [signed EXCEPT ![c.swap][k] = @ + 1]
        /\ Goes(w, c)
        /\ UNCHANGED <<rows, audit, sessions, leg, pushes, closes, acked, faults>>

\* partial_sign removes the session and signs with its nonce.
Sign(w) ==
    LET c == calls[w]
        k == SessionFor(Head(c.todo).phase)
    IN  /\ At(w, "sign")
        /\ k \in sessions[c.swap]
        /\ sessions' = [sessions EXCEPT ![c.swap] = @ \ {k}]
        /\ signed' = [signed EXCEPT ![c.swap][k] = @ + 1]
        /\ Goes(w, c)
        /\ UNCHANGED <<rows, audit, leg, pushes, closes, acked, faults>>

\* No live session: the call fails, whatever it has already written.
SignRefused(w) ==
    /\ At(w, "sign")
    /\ SessionFor(Head(calls[w].todo).phase) \notin sessions[calls[w].swap]
    /\ Drops(w)
    /\ UNCHANGED <<rows, audit, sessions, signed, leg, pushes, closes, acked, faults>>

\* Alice's key or nonce does not parse: the session is already removed.
SignFails(w) ==
    LET c == calls[w] IN
    /\ At(w, "sign") /\ faults < MaxFaults
    /\ SessionFor(Head(c.todo).phase) \in sessions[c.swap]
    /\ sessions' = [sessions EXCEPT ![c.swap] = @ \ {SessionFor(Head(c.todo).phase)}]
    /\ faults' = faults + 1
    /\ Drops(w)
    /\ UNCHANGED <<rows, audit, signed, leg, pushes, closes, acked>>

\* Mutant: a cancel forgets the refund session.
DiscardedSettleOnly(phase) == IF phase = "settled" THEN {"refund"} ELSE {"settle"}

Discarded(phase) ==
    CASE phase = "settled" -> {"refund"}
      [] phase = "refunded" -> {"settle"}
      [] OTHER -> Sessions

Discard(w) ==
    LET c == calls[w] IN
    /\ At(w, "discard")
    /\ sessions' = [sessions EXCEPT ![c.swap] = @ \ Discarded(Head(c.todo).phase)]
    /\ Goes(w, c)
    /\ UNCHANGED <<rows, audit, signed, leg, pushes, closes, acked, faults>>

\* close_htlc_if_any re-reads the row; an RGB error is dropped.  It is the last
\* await of its call, so a cancel is acknowledged here.
Close(w) ==
    LET c == calls[w]
        p == Head(c.todo).phase
    IN  /\ At(w, "close")
        /\ \E closed \in {closes[c.swap]} \union
               (IF rows[c.swap].htlc THEN {closes[c.swap] \union {p}} ELSE {}) :
             closes' = [closes EXCEPT ![c.swap] = closed]
        /\ acked' = IF p = "canceled" THEN acked \union {c.swap} ELSE acked
        /\ Goes(w, c)
        /\ UNCHANGED <<rows, audit, sessions, signed, leg, pushes, faults>>

(***************************************************************************)
(* The environment.                                                        *)
(***************************************************************************)
\* Alice's wallet claims the pushed secret, or Bob spends his own webcash.
LegSpent(s) ==
    /\ leg[s] = "unspent"
    /\ leg' = [leg EXCEPT ![s] = "spent"]
    /\ UNCHANGED <<rows, audit, sessions, signed, pushes, closes, calls, acked, faults>>

\* An await fails, or the client goes and its task is dropped.  An effect that
\* happened although the await failed is this step one await later.
CallFails(w) ==
    /\ calls[w] # Idle /\ faults < MaxFaults
    /\ faults' = faults + 1
    /\ Drops(w)
    /\ UNCHANGED <<rows, audit, sessions, signed, leg, pushes, closes, acked>>

\* The process restarts: calls and secret nonces are gone, the stores remain.
Restart ==
    /\ faults < MaxFaults
    /\ faults' = faults + 1
    /\ calls' = [w \in Workers |-> Idle]
    /\ sessions' = [s \in Swaps |-> {}]
    /\ UNCHANGED <<rows, audit, signed, leg, pushes, closes, acked>>

WorkerStep(w) ==
    \/ Audit(w) \/ AuditContended(w) \/ PersistGet(w) \/ PersistPut(w)
    \/ Mint(w) \/ HtlcGet(w) \/ HtlcPut(w) \/ Verify(w) \/ Check(w)
    \/ Push(w) \/ PushIgnored(w) \/ Sign(w) \/ SignRefused(w) \/ SignFails(w)
    \/ Discard(w) \/ Close(w)

Next ==
    \/ \E w \in Workers :
         \/ WorkerStep(w) \/ CallFails(w)
         \/ \E s \in Swaps : Start(w, s) \/ Advance(w, s) \/ \E by \in Parties : Cancel(w, s, by)
    \/ \E s \in Swaps : LegSpent(s)
    \/ Restart

Spec == Init /\ [][Next]_vars

\* The runtime keeps polling a task, and the scheduler keeps calling advance.
FairSpec ==
    /\ Spec
    /\ \A w \in Workers : WF_vars(WorkerStep(w))
    /\ \A s \in Swaps : WF_vars(\E w \in Workers : Advance(w, s))
=============================================================================
