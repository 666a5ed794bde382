---------------------------- MODULE RefereeSafety ----------------------------
(***************************************************************************)
(* What the referee promises of a swap, over RefereeSwap.                  *)
(***************************************************************************)
EXTENDS RefereeSwap, SequencesExt

Pushed(tip) == Cardinality({i \in DOMAIN tip : tip[i] = "insert-pushed"})
Budget == IF Retry = 0 THEN 1 ELSE Retry

\* The types of the variables; a push is one of the four the recipients know how
\* to read (push.rs: PushKind), and a call is at a step of its own script.
TypeOK ==
    /\ rows \in [Swaps -> Row \union {Absent}]
    /\ audit \in [Swaps -> SUBSET Seq(Phases)]
    /\ sessions \in [Swaps -> SUBSET Sessions]
    /\ signed \in [Swaps -> [Sessions -> Nat]]
    /\ leg \in [Swaps -> {"unspent", "spent"}]
    /\ pushes \in [Swaps -> SUBSET {"insert", "invalidate", "release-settle", "release-refund"}]
    /\ closes \in [Swaps -> SUBSET Terminal]
    /\ calls \in [Workers -> CallType]
    /\ acked \in SUBSET Swaps
    /\ faults \in 0..MaxFaults

\* A MuSig2 nonce signs at most once, whatever calls race, fail or are retried
\* (musig2.rs: reuse is fatal).  partial_sign removes the session in the same
\* critical section that finds it.
NonceUsedOnce == \A s \in Swaps, k \in Sessions : signed[s][k] <= 1

\* A settle signature leaves the referee only when Bob's webcash is spent.
SettleNeedsSpent ==
    \A s \in Swaps : signed[s]["settle"] > 0 \/ "release-settle" \in pushes[s] => leg[s] = "spent"

\* A refund signature leaves only after the whole push budget was used, the swap
\* aborted and the offer invalidated, each of them audited in this order.
RefundNeedsExhaustion ==
    \A s \in Swaps : signed[s]["refund"] > 0 =>
        \E tip \in audit[s] :
            /\ Last(tip) = "invalidated" /\ tip[Len(tip) - 1] = "aborted"
            /\ Pushed(tip) >= Budget

\* A stored row is always covered by the log: the tip it names is an entry of
\* the same phase, and the attempts it shows are the pushes that tip commits to.
\* Every handler appends before it persists.
RowIsAudited ==
    \A s \in Swaps : rows[s] # Absent =>
        /\ rows[s].tip \in audit[s]
        /\ Last(rows[s].tip) = rows[s].phase
        /\ rows[s].attempts = Pushed(rows[s].tip)
        /\ rows[s].attempts <= Budget

\* Phase p is entered from phase q.
MayFollow(q, p) ==
    \/ p = "init" /\ q = "new"
    \/ p = "zkps-verified" /\ q = "init"
    \/ p = "pre-checked" /\ q = "zkps-verified"
    \/ p = "insert-pushed" /\ q \in {"pre-checked", "insert-pushed"}
    \/ p \in {"settled", "aborted"} /\ q = "insert-pushed"
    \/ p = "invalidated" /\ q = "aborted"
    \/ p = "refunded" /\ q = "invalidated"
    \/ p = "canceled" /\ q \in Early \union {"insert-pushed"}

\* The log is a tree rooted at "init" whose every branch is a legal history: the
\* prior entry of an entry is in the log, and its phase may be followed by the
\* entry's.  It is not the line the documents ask for (docs/api.md: prior_tip
\* equals the hash of the prior entry): calls that overlap, and a call retried
\* after its append, add entries with one prior tip, so an auditor has to walk
\* back from a tip and cannot read the log forwards.
AuditIsChained ==
    \A s \in Swaps : \A tip \in audit[s] :
        \/ tip = <<"init">>
        \/ Front(tip) \in audit[s] /\ MayFollow(Last(Front(tip)), Last(tip))

\* Once cancel_swap has answered Ok nothing is signed for that swap, even when a
\* racing call brings the row back to life.
NoSignatureAfterCancel == [][\A s \in acked : signed'[s] = signed[s]]_vars

\* A terminal row never changes again (docs: "terminal phases cannot transition").
TerminalIsFinal ==
    [][\A s \in Swaps : (rows[s] # Absent /\ rows[s].phase \in Terminal) => rows'[s] = rows[s]]_vars

InPhase(s, phases) == rows[s] # Absent /\ rows[s].phase \in phases

\* A fault has cost the swap one of its one-time sessions: a call was cut between
\* partial_sign and the terminal row, or the process restarted.
SessionLost(s) ==
    /\ faults > 0 /\ sessions[s] # Sessions
    /\ \A w \in Workers : calls[w] # Idle => calls[w].swap # s

\* A swap that reached "insert-pushed" ends, settled, refunded or canceled, as
\* long as the scheduler keeps calling advance, whatever calls fail before they
\* sign.  A swap that lost a session has no such promise: sign is refused from
\* then on, although the orchestrator calls a failed call safe to retry.
SwapResolves ==
    \A s \in Swaps : InPhase(s, {"insert-pushed"}) ~> InPhase(s, Terminal) \/ SessionLost(s)
=============================================================================
