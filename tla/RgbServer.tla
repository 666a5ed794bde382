------------------------------ MODULE RgbServer ------------------------------
(***************************************************************************)
(* The RGB flavors of the ledger server: RGB20 (fungible) and RGB21        *)
(* (collectible) tokens, whose outputs may be locked under a hash-time-lock*)
(* (asset-rgb/src/htlc), over the composite store that keeps the truth in  *)
(* FoundationDB and mirrors it into Redis (redis_fdb_backend.rs).          *)
(*                                                                         *)
(* The replace hook judges the lock it was handed by get_tokens, which may *)
(* come from the cache; the commit sees FoundationDB only, and that        *)
(* transaction does not look at the lock.  Whether a lock holds therefore  *)
(* depends on what the cache can hold.                                     *)
(*                                                                         *)
(* FdbStore gives the FoundationDB transactions; `locks` is the htlc_state *)
(* field of the record under each key.  A preimage is named by its hash,   *)
(* and an owner by the public hash of the owner's secret, which is the key *)
(* an output made with that secret has.                                    *)
(***************************************************************************)
EXTENDS FdbStore, FiniteSets

CONSTANTS
    Workers,              \* request tasks that may be in flight together
    FungibleRequests,     \* what clients send to an RGB20 server
    CollectibleRequests,  \* what clients send to an RGB21 server
    MaxClock,             \* u64::MAX, and the end of time, scaled down
    MaxFaults,            \* bound: failed Redis calls and lost keys
    NoLock,               \* htlc_state: None
    NoReq                 \* no request

\* Hashes of preimages; the two other values a witness may name are none.
Hashes == STRING \ {"none", "bad"}

HtlcState == [h : Hashes, after : 0..MaxClock, claim : Keys, refund : Keys]

LockRequest == [h : Hashes, delta : Nat, claim : Keys, refund : Keys]

\* x is "none" (no preimage), "bad" (not hex) or the hash of the preimage.
HtlcWitness == [x : STRING, owner : Keys]

RgbRequest ==
    [kind : {"replace", "issue", "burn", "health"},
     ins : Seq(Tokens), outs : Seq(Tokens), nonce : Nat,
     wits : Seq([at : Nat, wit : HtlcWitness]),
     lock : Seq([at : Nat, req : LockRequest])]

ASSUME RgbAssumption ==
    /\ FungibleRequests \union CollectibleRequests \subseteq RgbRequest
    /\ MaxClock \in Nat /\ MaxFaults \in Nat

\* The body of a burn or health request has one token field.
ASSUME OneTokenAssumption ==
    \A r \in FungibleRequests \union CollectibleRequests :
        r.kind \in {"burn", "health"} => Len(r.ins) = 1

VARIABLES
    flavor,   \* which of the two binaries is running
    tokens,   \* FoundationDB: the token records
    locks,    \* FoundationDB: their htlc_state
    cache,    \* Redis: the fields a HASH has been given
    clock,    \* the server's clock
    nonces,   \* Server::nonces
    calls,    \* per worker: the handler's locals
    acked,    \* history: keys whose spending was acknowledged
    stale,    \* history: keys a health check called unspent after that
    faults    \* Redis faults so far

vars == <<flavor, tokens, locks, cache, clock, nonces, calls, acked, stale, faults>>

-----------------------------------------------------------------------------
(* The hash-time-lock *)

\* Mutant: the sum wraps around.
StampWraps(q, now) ==
    [h |-> q.h, after |-> (now + q.delta) % (MaxClock + 1), claim |-> q.claim, refund |-> q.refund]

\* LockRequest::stamp_into_state: a saturating sum with the server's clock.
Stamp(q, now) ==
    [h |-> q.h, after |-> IF now + q.delta > MaxClock THEN MaxClock ELSE now + q.delta,
     claim |-> q.claim, refund |-> q.refund]

RefundOpen(lock, wit, now) == now >= lock.after /\ wit.owner = lock.refund

\* Mutant: the refund window opens one second early.
EvaluateEarly(lock, wit, now) ==
    CASE wit.x = "none" -> RefundOpen(lock, wit, now + 1)
      [] wit.x = "bad" -> FALSE
      [] wit.x = lock.h -> wit.owner = lock.claim
      [] OTHER -> RefundOpen(lock, wit, now)

\* evaluate: a preimage commits to the claim path, unless it is a wrong one and
\* the refund window is open; without a preimage only the refund path is left.
Evaluate(lock, wit, now) ==
    CASE wit.x = "none" -> RefundOpen(lock, wit, now)
      [] wit.x = "bad" -> FALSE
      [] wit.x = lock.h -> wit.owner = lock.claim
      [] OTHER -> RefundOpen(lock, wit, now)

\* The entries of an indexed slot of the body; the first witness counts, the
\* last lock.
Entries(slot, i) == {n \in DOMAIN slot : slot[n].at = i}
First(S) == CHOOSE n \in S : \A k \in S : n <= k
Latest(S) == CHOOSE n \in S : \A k \in S : k <= n

WitnessOf(r, i) == r.wits[First(Entries(r.wits, i))].wit

\* validate_replace_request, on the locks get_tokens returned.
ValidateReplaceRequest(r, seen, now) ==
    \A i \in DOMAIN r.ins : seen[i] # NoLock =>
        Entries(r.wits, i) # {} /\ Evaluate(seen[i], WitnessOf(r, i), now)

\* augment_output_records: an index past the outputs is an error.
AugmentOk(r) == \A n \in DOMAIN r.lock : r.lock[n].at \in DOMAIN r.outs

OutputLock(r, i, now) ==
    LET S == Entries(r.lock, i)
    IN  IF S = {} THEN NoLock ELSE Stamp(r.lock[Latest(S)].req, now)

-----------------------------------------------------------------------------
(* The two stores *)

\* A HASH: has it an amount_wats field, and the fields written after it.
NoRest == [spent |-> "unset", lock |-> NoLock]
Uncached == [amount |-> FALSE, rest |-> NoRest]

\* What FoundationDB holds for k, as the fields to be mirrored.
Rest(k) == [spent |-> tokens[k].spent, lock |-> locks[k]]

\* Mutant: a record decodes as soon as it has an amount, like a Webcash record.
CacheDecodesEarly(k) == cache[k].amount

\* HashRecord::from_fields: contract and issuer come with the later fields, and
\* a collectible does not read the amount.
CacheDecodes(k) ==
    /\ cache[k].rest # NoRest
    /\ flavor = "collectible" \/ cache[k].amount

LocksOf(ts, lockOf) == [i \in DOMAIN ts |-> lockOf[ts[i].key]]

-----------------------------------------------------------------------------
(* Handlers.  A call is idle or has the store call it is about to make. *)

\* now: the clock as replace read it; known: the spends acknowledged before a
\* health check; warm: the records insert_tokens mirrors into Redis; made: those
\* whose HSETNX created the field; then: what follows.
Idle == [pc |-> "idle", req |-> NoReq, now |-> 0, known |-> {}, warm |-> {},
         made |-> {}, then |-> "idle"]

Init ==
    /\ flavor \in {"fungible", "collectible"}
    /\ tokens = [k \in Keys |-> Absent]
    /\ locks = [k \in Keys |-> NoLock]
    /\ cache = [k \in Keys |-> Uncached]
    /\ clock = 0
    /\ nonces = {}
    /\ calls = [w \in Workers |-> Idle]
    /\ acked = {}
    /\ stale = {}
    /\ faults = 0

Requests == IF flavor = "fungible" THEN FungibleRequests ELSE CollectibleRequests

SameNamespace(ts) == \A i, j \in DOMAIN ts : KeyNs[ts[i].key] = KeyNs[ts[j].key]

\* replace sums amounts; replace_collectible wants one input and one output.
ReplaceAdmissible(r) ==
    /\ SameNamespace(r.ins \o r.outs)
    /\ IF flavor = "fungible"
       THEN ~Overflows(r.ins) /\ ~Overflows(r.outs) /\ Total(r.ins) = Total(r.outs)
       ELSE Len(r.ins) = 1 /\ Len(r.outs) = 1

At(w, pc) == calls[w].pc = pc
Set(w, c) == calls' = [calls EXCEPT ![w] = c]
Goto(c, pc) == [c EXCEPT !.pc = pc]

Fault == faults < MaxFaults /\ faults' = faults + 1
NoFault == UNCHANGED faults

\* What a handler does before its first store call.  A refused request changes
\* nothing, except that issue has used up its nonce.
Receive(w) == \E r \in Requests :
    LET c == [Idle EXCEPT !.req = r] IN
    /\ At(w, "idle")
    /\ \/ r.kind = "replace" /\ ReplaceAdmissible(r) /\ Set(w, [Goto(c, "get") EXCEPT !.now = clock])
       \/ /\ r.kind = "health"
          /\ Set(w, [Goto(c, IF flavor = "fungible" THEN "get" ELSE "check") EXCEPT !.known = acked])
       \/ r.kind = "burn" /\ Set(w, Goto(c, "burn"))
       \/ r.kind = "issue" /\ r.nonce \notin nonces /\ Set(w, Goto(c, "issue"))
    /\ nonces' = IF r.kind = "issue" THEN nonces \union {r.nonce} ELSE nonces
    /\ UNCHANGED <<flavor, tokens, locks, cache, clock, acked, stale, faults>>

\* The handler has its inputs: run the hook, or read on.
Judged(c, seen) ==
    IF c.req.kind = "health" THEN Goto(c, "check")
    ELSE IF ValidateReplaceRequest(c.req, seen, c.now) /\ AugmentOk(c.req)
    THEN Goto(c, "commit")
    ELSE Idle

InputKeys(c) == KeysOf(c.req.ins)

\* get_tokens, Redis half: used only when every record decodes.
CacheGet(w) ==
    LET c == calls[w] IN
    /\ At(w, "get")
    /\ \/ /\ \A k \in InputKeys(c) : CacheDecodes(k)
          /\ Set(w, Judged(c, LocksOf(c.req.ins, [k \in Keys |-> cache[k].rest.lock])))
          /\ NoFault
       \/ /\ ((\E k \in InputKeys(c) : ~CacheDecodes(k)) /\ NoFault) \/ Fault
          /\ Set(w, Goto(c, "fdb"))
    /\ UNCHANGED <<flavor, tokens, locks, cache, clock, nonces, acked, stale>>

\* get_tokens, FoundationDB half: what exists is mirrored; the hook runs after
\* the mirroring, on what was read here.
FdbGet(w) ==
    LET c == calls[w]
        found == {k \in InputKeys(c) : tokens[k] # Absent}
        d == IF c.req.kind = "replace" /\ found # InputKeys(c) THEN Idle
             ELSE Judged(c, LocksOf(c.req.ins, locks))
    IN  /\ At(w, "fdb")
        /\ Set(w, IF found = {} THEN d
                  ELSE [d EXCEPT !.pc = "nx", !.then = d.pc,
                                 !.warm = {[key |-> k, rest |-> Rest(k)] : k \in found}])
        /\ UNCHANGED <<flavor, tokens, locks, cache, clock, nonces, acked, stale, faults>>

\* insert_tokens has returned: on to the caller, whatever it returned.
Resumed(c) == [Goto(c, c.then) EXCEPT !.warm = {}, !.made = {}, !.then = "idle"]

\* Redis insert_tokens, first pipeline: HSETNX amount_wats.  A pipeline that
\* fails half-way has run some of its commands.
CacheNx(w) ==
    LET c == calls[w] IN
    /\ At(w, "nx")
    /\ \E done \in SUBSET c.warm :
         /\ IF done = c.warm THEN NoFault ELSE Fault
         /\ cache' = [k \in Keys |-> IF \E rec \in done : rec.key = k
                                     THEN [cache[k] EXCEPT !.amount = TRUE] ELSE cache[k]]
         /\ Set(w, IF done = c.warm
                   THEN [Goto(c, "rest") EXCEPT !.made = {rec \in done : ~cache[rec.key].amount}]
                   ELSE Resumed(c))
    /\ UNCHANGED <<flavor, tokens, locks, clock, nonces, acked, stale>>

\* Second pipeline: one HSET with all other fields of each record created.
CacheRest(w) ==
    LET c == calls[w] IN
    /\ At(w, "rest")
    /\ \E done \in SUBSET c.made :
         /\ IF done = c.made THEN NoFault ELSE Fault
         /\ cache' = [k \in Keys |->
                IF \E rec \in done : rec.key = k
                THEN [cache[k] EXCEPT !.rest = (CHOOSE rec \in done : rec.key = k).rest]
                ELSE cache[k]]
    /\ Set(w, Resumed(c))
    /\ UNCHANGED <<flavor, tokens, locks, clock, nonces, acked, stale>>

\* The mirror of a request's outputs, then the response.
Mirrored(c, lockOf) ==
    [Idle EXCEPT !.pc = "nx",
        !.warm = {[key |-> k, rest |-> [spent |-> "no", lock |-> lockOf[k]]] : k \in KeysOf(c.req.outs)}]

NewLocks(r, now) ==
    [k \in Keys |-> IF k \in KeysOf(r.outs)
                    THEN OutputLock(r, CHOOSE i \in DOMAIN r.outs : r.outs[i].key = k, now)
                    ELSE locks[k]]

\* Mutant: FoundationDB leaves the spent flag to get_tokens.
CommitTrustsReadOk(r) ==
    (\A i \in DOMAIN r.ins : tokens[r.ins[i].key] # Absent) /\ FdbInsertOk(tokens, r.outs)

CommitOk(r) == FdbReplaceOk(tokens, r.ins, r.outs)

\* batch_replace: one FoundationDB transaction; on success the outputs are
\* mirrored, and the inputs stay in Redis as they are.
Commit(w) ==
    LET c == calls[w]
        new == NewLocks(c.req, c.now)
    IN  /\ At(w, "commit")
        /\ \/ /\ CommitOk(c.req)
              /\ tokens' = FdbReplace(tokens, c.req.ins, c.req.outs)
              /\ locks' = new
              /\ acked' = acked \union KeysOf(c.req.ins)
              /\ Set(w, Mirrored(c, new))
           \/ /\ ~CommitOk(c.req)
              /\ Set(w, Idle)
              /\ UNCHANGED <<tokens, locks, acked>>
        /\ UNCHANGED <<flavor, cache, clock, nonces, stale, faults>>

\* issue and issue_collectible: insert_tokens.
Issue(w) ==
    LET c == calls[w] IN
    /\ At(w, "issue")
    /\ \/ /\ FdbInsertOk(tokens, c.req.outs)
          /\ tokens' = PutAll(tokens, c.req.outs, "replaced")
          /\ Set(w, Mirrored(c, [k \in Keys |-> NoLock]))
       \/ ~FdbInsertOk(tokens, c.req.outs) /\ Set(w, Idle) /\ UNCHANGED tokens
    /\ UNCHANGED <<flavor, locks, cache, clock, nonces, acked, stale, faults>>

\* burn and burn_collectible: FoundationDB only, and no hook.
Burn(w) ==
    LET k == calls[w].req.ins[1].key IN
    /\ At(w, "burn")
    /\ \/ /\ FdbBurnOk(tokens, k)
          /\ tokens' = MarkSpent(tokens, {k})
          /\ acked' = acked \union {k}
       \/ ~FdbBurnOk(tokens, k) /\ UNCHANGED <<tokens, acked>>
    /\ Set(w, Idle)
    /\ UNCHANGED <<flavor, locks, cache, clock, nonces, stale, faults>>

\* Mutant: the spent flag is read from the cache when it is there.
CheckedCached(k) == IF CacheDecodes(k) THEN cache[k].rest.spent ELSE
                    IF tokens[k] = Absent THEN "null" ELSE tokens[k].spent

\* check_tokens asks FoundationDB.
Checked(k) == IF tokens[k] = Absent THEN "null" ELSE tokens[k].spent

\* health_check and health_check_collectible answer for one token.
Check(w) ==
    /\ At(w, "check")
    /\ stale' = stale \union {k \in InputKeys(calls[w]) \intersect calls[w].known : Checked(k) # "yes"}
    /\ Set(w, Idle)
    /\ UNCHANGED <<flavor, tokens, locks, cache, clock, nonces, acked, faults>>

-----------------------------------------------------------------------------
(* The environment *)

Tick ==
    /\ clock < MaxClock
    /\ clock' = clock + 1
    /\ UNCHANGED <<flavor, tokens, locks, cache, nonces, calls, acked, stale, faults>>

\* Redis evicts a key, or restarts without it.
CacheLoss(k) ==
    /\ Fault /\ cache[k] # Uncached
    /\ cache' = [cache EXCEPT ![k] = Uncached]
    /\ UNCHANGED <<flavor, tokens, locks, clock, nonces, calls, acked, stale>>

WorkerStep(w) ==
    \/ Receive(w) \/ CacheGet(w) \/ FdbGet(w) \/ CacheNx(w) \/ CacheRest(w)
    \/ Commit(w) \/ Issue(w) \/ Burn(w) \/ Check(w)

Next == (\E w \in Workers : WorkerStep(w)) \/ Tick \/ (\E k \in Keys : CacheLoss(k))

Spec == Init /\ [][Next]_vars
=============================================================================
