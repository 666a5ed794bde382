------------------------------ MODULE RgbProofs ------------------------------
(***************************************************************************)
(* Why a hash-time-lock holds although the hook may have judged it from    *)
(* Redis: proofs about RgbServer for any number of workers, keys, requests *)
(* and Redis faults.                                                       *)
(*                                                                         *)
(* The argument.  FoundationDB only Grows: a record once written stays,    *)
(* its lock never changes and its spent flag is never taken back.  So      *)
(* whatever a worker or Redis remembers of a record still Agrees with it   *)
(* later, and a request judged against a lock is judged for good.          *)
(***************************************************************************)
EXTENDS RgbSafety, TokenLemmas

(* The parts of the inductive invariant, over explicit stores so that they *)
(* can be stated of two states.                                            *)

Locks == HtlcState \union {NoLock}
Fields == [spent : {"unset", "no", "yes"}, lock : Locks]
MirrorRecord == [key : Keys, rest : Fields]

Call ==
    [pc : {"idle", "get", "fdb", "nx", "rest", "commit", "issue", "burn", "check"},
     req : RgbRequest \union {NoReq}, now : 0..MaxClock, known : SUBSET Keys,
     warm : SUBSET MirrorRecord, made : SUBSET MirrorRecord,
     then : {"idle", "check", "commit"}]

\* From one pair of stores to a later one nothing is lost.
Grows(tok, lck, clk, ack, tok2, lck2, clk2, ack2) ==
    /\ \A k \in Keys : tok[k] # Absent =>
          /\ tok2[k] # Absent
          /\ lck2[k] = lck[k]
          /\ tok[k].spent = "yes" => tok2[k].spent = "yes"
    /\ clk <= clk2
    /\ ack \subseteq ack2

\* The remembered fields are those of k's record, up to a later spend.
Agrees(k, rest, tok, lck) ==
    /\ tok[k] # Absent
    /\ rest.lock = lck[k]
    /\ rest.spent = "yes" => tok[k].spent = "yes"

\* Every input of r exists, and its lock allows r at the time the handler read.
Allowed(r, now, tok, lck) ==
    \A i \in DOMAIN r.ins :
        /\ tok[r.ins[i].key] # Absent
        /\ lck[r.ins[i].key] # NoLock =>
              Entries(r.wits, i) # {} /\ Evaluate(lck[r.ins[i].key], WitnessOf(r, i), now)

\* A request that is about to take step s of its handler.
StageOk(c, s, tok, lck) ==
    /\ s \in {"get", "fdb", "commit", "issue", "burn", "check"} => c.req \in RgbRequest
    /\ s \in {"get", "fdb"} => c.req.kind \in {"replace", "health"}
    /\ s = "burn" => Len(c.req.ins) = 1
    /\ s = "commit" => Allowed(c.req, c.now, tok, lck)

CallOk(c, tok, lck, clk, ack) ==
    /\ c \in Call
    /\ c.now <= clk
    /\ c.known \subseteq ack
    /\ c.pc = "rest" => c.made \subseteq c.warm
    /\ \A m \in c.warm : Agrees(m.key, m.rest, tok, lck)
    /\ StageOk(c, c.pc, tok, lck)
    /\ StageOk(c, c.then, tok, lck)

StoreOk(tok, lck, clk, ack) ==
    /\ tok \in TokenMap
    /\ lck \in [Keys -> Locks]
    /\ clk \in 0..MaxClock
    /\ \A k \in Keys : tok[k] = Absent => lck[k] = NoLock
    /\ ack \subseteq Keys
    /\ \A k \in ack : tok[k] # Absent /\ tok[k].spent = "yes"

CacheOk(red, tok, lck) ==
    /\ red \in [Keys -> [amount : BOOLEAN, rest : Fields]]
    /\ \A k \in Keys : red[k].rest # NoRest => Agrees(k, red[k].rest, tok, lck)

RgbInv ==
    /\ StoreOk(tokens, locks, clock, acked)
    /\ CacheOk(cache, tokens, locks)
    /\ calls \in [Workers -> Call]
    /\ \A w \in Workers : CallOk(calls[w], tokens, locks, clock, acked)
    /\ stale = {}

-----------------------------------------------------------------------------
(* The lock operators *)

\* A non-empty set of positions has a last one: among the distances from the
\* end there is a least.
LEMMA GreatestElement ==
    ASSUME NEW n \in Nat, NEW S \in SUBSET (1..n), S # {}
    PROVE  \E m \in S : \A k \in S : k <= m
<1> DEFINE T == {d \in 0..n : n - d \in S}
<1>1. T \in SUBSET Nat
  OBVIOUS
<1>2. \A k \in S : n - k \in T
  <2> SUFFICES ASSUME NEW k \in S PROVE n - k \in 0..n /\ n - (n - k) = k
    OBVIOUS
  <2> QED OBVIOUS
<1>3. PICK d \in T : \A e \in T : d <= e
  <2> HIDE DEF T
  <2> QED BY <1>1, <1>2, LeastElement
<1>4. d \in 0..n /\ n - d \in S
  BY <1>3
<1>5. \A k \in S : d <= n - k
  <2> HIDE DEF T
  <2> QED BY <1>2, <1>3
<1> QED BY <1>4, <1>5

LEMMA ElementOf ==
    ASSUME NEW X, NEW slot \in Seq(X), NEW n \in DOMAIN slot
    PROVE  slot[n] \in X
OBVIOUS

\* The last lock of an output is one of the request's locks.
LEMMA LatestEntry ==
    ASSUME NEW X, NEW slot \in Seq(X), NEW i, Entries(slot, i) # {}
    PROVE  Latest(Entries(slot, i)) \in DOMAIN slot /\ slot[Latest(Entries(slot, i))].at = i
<1> DEFINE S == Entries(slot, i)
<1>1. S \in SUBSET (1..Len(slot)) /\ Len(slot) \in Nat /\ DOMAIN slot = 1..Len(slot)
  BY DEF Entries
<1> HIDE DEF S
<1>2. S # {}
  BY DEF S
<1>3. \E m \in S : \A k \in S : k <= m
  BY <1>1, <1>2, GreatestElement
<1>4. Latest(S) \in S
  BY <1>3 DEF Latest
<1>5. \A m \in S : slot[m].at = i
  BY DEF S, Entries
<1> QED BY <1>1, <1>4, <1>5 DEF S

\* stamp_into_state yields a lock whose deadline the clock can reach.
LEMMA StampType ==
    ASSUME NEW q \in LockRequest, NEW now \in 0..MaxClock
    PROVE  Stamp(q, now) \in HtlcState
<1>1. q.h \in Hashes /\ q.delta \in Nat /\ q.claim \in Keys /\ q.refund \in Keys
  BY DEF LockRequest
<1>2. (IF now + q.delta > MaxClock THEN MaxClock ELSE now + q.delta) \in 0..MaxClock
  BY <1>1, RgbAssumption
<1> QED BY <1>1, <1>2 DEF Stamp, HtlcState

LEMMA RequestFields ==
    ASSUME NEW r \in RgbRequest
    PROVE  /\ r.ins \in Seq(Tokens) /\ r.outs \in Seq(Tokens)
           /\ r.lock \in Seq([at : Nat, req : LockRequest])
           /\ KeysOf(r.ins) \subseteq Keys /\ KeysOf(r.outs) \subseteq Keys
           /\ \A i \in DOMAIN r.ins : r.ins[i].key \in Keys /\ r.ins[i].key \in KeysOf(r.ins)
<1>1. /\ r.ins \in Seq(Tokens) /\ r.outs \in Seq(Tokens)
      /\ r.lock \in Seq([at : Nat, req : LockRequest])
  BY DEF RgbRequest
<1>2. KeysOf(r.ins) \subseteq Keys /\ KeysOf(r.outs) \subseteq Keys
  BY <1>1, ListKeys
<1> QED BY <1>1, <1>2 DEF KeysOf

LEMMA OutputLockType ==
    ASSUME NEW r \in RgbRequest, NEW i, NEW now \in 0..MaxClock
    PROVE  OutputLock(r, i, now) \in Locks
<1>1. CASE Entries(r.lock, i) = {}
  BY <1>1 DEF OutputLock, Locks
<1>2. CASE Entries(r.lock, i) # {}
  <2> DEFINE n == Latest(Entries(r.lock, i))
  <2>1. r.lock \in Seq([at : Nat, req : LockRequest])
    BY RequestFields
  <2>2. n \in DOMAIN r.lock
    BY <1>2, <2>1, LatestEntry
  <2> HIDE DEF n
  <2>3. r.lock[n].req \in LockRequest
    <3>1. r.lock[n] \in [at : Nat, req : LockRequest]
      BY <2>1, <2>2, ElementOf
    <3> QED BY <3>1
  <2>4. Stamp(r.lock[n].req, now) \in HtlcState
    BY <2>3, StampType
  <2> QED BY <1>2, <2>4 DEF OutputLock, Locks, n
<1> QED BY <1>1, <1>2

\* The two ways evaluate lets a witness through.
LEMMA EvaluateMeans ==
    ASSUME NEW lock, NEW wit, NEW now, Evaluate(lock, wit, now)
    PROVE  \/ wit.x = lock.h /\ wit.owner = lock.claim
           \/ now >= lock.after /\ wit.owner = lock.refund
BY DEF Evaluate, RefundOpen

-----------------------------------------------------------------------------
(* What is remembered stays true as FoundationDB grows *)

LEMMA GrowsKeeps ==
    ASSUME NEW tok, NEW lck, NEW clk, NEW ack,
           NEW tok2, NEW lck2, NEW clk2, NEW ack2,
           clk \in Nat, clk2 \in Nat,
           Grows(tok, lck, clk, ack, tok2, lck2, clk2, ack2)
    PROVE  /\ \A k \in Keys : \A rest : Agrees(k, rest, tok, lck) => Agrees(k, rest, tok2, lck2)
           /\ \A r \in RgbRequest : \A now :
                 Allowed(r, now, tok, lck) => Allowed(r, now, tok2, lck2)
           /\ \A c : CallOk(c, tok, lck, clk, ack) => CallOk(c, tok2, lck2, clk2, ack2)
<1>1. ASSUME NEW k \in Keys, NEW rest, Agrees(k, rest, tok, lck)
      PROVE  Agrees(k, rest, tok2, lck2)
  BY <1>1 DEF Grows, Agrees
<1>2. ASSUME NEW r \in RgbRequest, NEW now, Allowed(r, now, tok, lck)
      PROVE  Allowed(r, now, tok2, lck2)
  <2> SUFFICES ASSUME NEW i \in DOMAIN r.ins
               PROVE  /\ tok2[r.ins[i].key] # Absent
                      /\ lck2[r.ins[i].key] = lck[r.ins[i].key]
    BY <1>2 DEF Allowed
  <2>1. r.ins[i].key \in Keys /\ tok[r.ins[i].key] # Absent
    BY <1>2, RequestFields DEF Allowed
  <2> QED BY <2>1 DEF Grows
<1>3. ASSUME NEW c, CallOk(c, tok, lck, clk, ack)
      PROVE  CallOk(c, tok2, lck2, clk2, ack2)
  <2>1. c \in Call /\ c.now \in Nat
    BY <1>3 DEF CallOk, Call
  <2>2. c.now <= clk2 /\ c.known \subseteq ack2
    BY <1>3, <2>1 DEF CallOk, Grows
  <2>3. \A m \in c.warm : Agrees(m.key, m.rest, tok2, lck2)
    <3>1. \A m \in c.warm : m.key \in Keys
      BY <2>1 DEF Call, MirrorRecord
    <3> QED BY <1>1, <1>3, <3>1 DEF CallOk
  <2>4. ASSUME NEW s, StageOk(c, s, tok, lck)
        PROVE  StageOk(c, s, tok2, lck2)
    BY <1>2, <2>4 DEF StageOk
  <2> QED BY <1>3, <2>1, <2>2, <2>3, <2>4 DEF CallOk
<1> QED BY <1>1, <1>2, <1>3

-----------------------------------------------------------------------------
(* Steps in general *)

\* A step of worker w under which FoundationDB grows keeps the invariant if it
\* leaves the stores and w's own call in order.
LEMMA CallStep ==
    ASSUME RgbInv, NEW w \in Workers, NEW c, Set(w, c), stale' = {},
           Grows(tokens, locks, clock, acked, tokens', locks', clock', acked'),
           StoreOk(tokens', locks', clock', acked'),
           CacheOk(cache', tokens', locks'),
           CallOk(c, tokens', locks', clock', acked')
    PROVE  RgbInv'
<1>1. clock \in Nat /\ clock' \in Nat
  BY DEF RgbInv, StoreOk
<1>2. c \in Call
  BY DEF CallOk
<1>3. calls' \in [Workers -> Call] /\ calls'[w] = c
      /\ \A v \in Workers : v # w => calls'[v] = calls[v]
  BY <1>2 DEF RgbInv, Set
<1>4. \A v \in Workers : CallOk(calls[v], tokens', locks', clock', acked')
  BY <1>1, GrowsKeeps DEF RgbInv
<1>5. \A v \in Workers : CallOk(calls'[v], tokens', locks', clock', acked')
  BY <1>3, <1>4
<1> QED BY <1>3, <1>5 DEF RgbInv

\* The stores of FoundationDB and their clock stay as they are.
StoreSame == UNCHANGED <<tokens, locks, clock, acked, stale>>

LEMMA LocalStep ==
    ASSUME RgbInv, NEW w \in Workers, NEW c, Set(w, c), StoreSame,
           CacheOk(cache', tokens, locks),
           CallOk(c, tokens, locks, clock, acked)
    PROVE  RgbInv'
<1>1. clock <= clock
  BY DEF RgbInv, StoreOk
<1>2. Grows(tokens, locks, clock, acked, tokens', locks', clock', acked')
  BY <1>1 DEF Grows, StoreSame
<1>3. /\ tokens' = tokens /\ locks' = locks /\ clock' = clock /\ acked' = acked
      /\ stale' = {}
  BY DEF StoreSame, RgbInv
<1>4. StoreOk(tokens', locks', clock', acked')
  BY <1>3 DEF RgbInv
<1>5. CacheOk(cache', tokens', locks') /\ CallOk(c, tokens', locks', clock', acked')
  BY <1>3
<1> QED BY <1>2, <1>3, <1>4, <1>5, CallStep

LEMMA IdleOk ==
    ASSUME RgbInv
    PROVE  CallOk(Idle, tokens, locks, clock, acked)
<1>1. clock \in 0..MaxClock /\ MaxClock \in Nat
  BY RgbAssumption DEF RgbInv, StoreOk
<1>2. Idle \in Call
  BY <1>1 DEF Idle, Call
<1> QED BY <1>1, <1>2 DEF Idle, CallOk, StageOk

\* The facts about a worker's call that the handlers use.
LEMMA CallParts ==
    ASSUME RgbInv, NEW w \in Workers
    PROVE  /\ calls[w] \in Call
           /\ CallOk(calls[w], tokens, locks, clock, acked)
BY DEF RgbInv

\* A call moved to another stage, all else kept.
LEMMA GotoOk ==
    ASSUME RgbInv, NEW c, CallOk(c, tokens, locks, clock, acked),
           NEW pc \in {"fdb", "commit", "check"},
           StageOk(c, pc, tokens, locks)
    PROVE  CallOk(Goto(c, pc), tokens, locks, clock, acked)
<1> DEFINE d == Goto(c, pc)
<1>1. c \in Call
  BY DEF CallOk
<1>2. /\ d.pc = pc /\ d.req = c.req /\ d.now = c.now /\ d.known = c.known
      /\ d.warm = c.warm /\ d.made = c.made /\ d.then = c.then
  BY <1>1 DEF Goto, Call
<1>3. d \in Call
  BY <1>1 DEF Goto, Call
<1> HIDE DEF d
<1>4. \A s : StageOk(c, s, tokens, locks) => StageOk(d, s, tokens, locks)
  BY <1>2 DEF StageOk
<1>5. CallOk(d, tokens, locks, clock, acked)
  BY <1>2, <1>3, <1>4 DEF CallOk
<1> QED BY <1>5 DEF d

-----------------------------------------------------------------------------
(* The handlers, one lemma per action *)

LEMMA InitOk == ASSUME Init PROVE RgbInv
<1>1. tokens \in TokenMap
  BY DEF Init, TokenMap
<1>2. MaxClock \in Nat /\ clock \in 0..MaxClock /\ locks \in [Keys -> Locks]
  BY RgbAssumption DEF Init, Locks
<1>3. StoreOk(tokens, locks, clock, acked)
  BY <1>1, <1>2 DEF Init, StoreOk
<1>4. NoRest \in Fields
  BY DEF NoRest, Fields, Locks
<1>5. \A k \in Keys : cache[k] = Uncached
  BY DEF Init
<1>6. Uncached \in [amount : BOOLEAN, rest : Fields] /\ Uncached.rest = NoRest
  BY <1>4 DEF Uncached
<1>7. cache \in [Keys -> [amount : BOOLEAN, rest : Fields]]
  BY <1>6 DEF Init
<1>8. CacheOk(cache, tokens, locks)
  BY <1>5, <1>6, <1>7 DEF CacheOk
<1>9. Idle \in Call
  BY <1>2 DEF Idle, Call
<1>10. CallOk(Idle, tokens, locks, clock, acked)
  BY <1>2, <1>9 DEF Idle, CallOk, StageOk
<1>11. calls \in [Workers -> Call] /\ \A w \in Workers : calls[w] = Idle
  BY <1>9 DEF Init
<1>12. stale = {}
  BY DEF Init
<1> QED BY <1>3, <1>8, <1>10, <1>11, <1>12 DEF RgbInv

LEMMA ReceiveOk == ASSUME RgbInv, NEW w \in Workers, Receive(w) PROVE RgbInv'
<1>1. PICK r \in Requests : 
        LET c == [Idle EXCEPT !.req = r] IN
           \/ r.kind = "replace" /\ Set(w, [Goto(c, "get") EXCEPT !.now = clock])
           \/ \E pc \in {"get", "check"} : r.kind = "health" /\ Set(w, [Goto(c, pc) EXCEPT !.known = acked])
           \/ r.kind = "burn" /\ Set(w, Goto(c, "burn"))
           \/ Set(w, Goto(c, "issue"))
  BY DEF Receive
<1>2. StoreSame /\ cache' = cache
  BY DEF Receive, StoreSame
<1>3. r \in RgbRequest /\ (r.kind = "burn" => Len(r.ins) = 1)
  BY RgbAssumption, OneTokenAssumption DEF Requests
<1>4. CacheOk(cache', tokens, locks)
  BY <1>2 DEF RgbInv
<1>5. clock \in 0..MaxClock /\ MaxClock \in Nat /\ acked \subseteq Keys
  BY RgbAssumption DEF RgbInv, StoreOk
<1> DEFINE c == [Idle EXCEPT !.req = r]
           C(pc, now, known) == [pc |-> pc, req |-> r, now |-> now, known |-> known,
                                 warm |-> {}, made |-> {}, then |-> "idle"]
<1>6. ASSUME NEW pc \in {"get", "check", "burn", "issue"},
             NEW now \in {0, clock}, NEW known \in {{}, acked},
             pc = "burn" => r.kind = "burn", pc = "get" => r.kind \in {"replace", "health"}
      PROVE  CallOk(C(pc, now, known), tokens, locks, clock, acked)
  <2>1. C(pc, now, known) \in Call
    BY <1>3, <1>5 DEF Call
  <2> QED BY <1>3, <1>5, <1>6, <2>1 DEF CallOk, StageOk
<1>7. \E pc \in {"get", "check", "burn", "issue"}, now \in {0, clock}, known \in {{}, acked} :
        /\ pc = "burn" => r.kind = "burn"
        /\ pc = "get" => r.kind \in {"replace", "health"}
        /\ Set(w, C(pc, now, known))
  <2>1. c = C("idle", 0, {})
    BY DEF Idle
  <2> HIDE DEF c
  <2>2. [Goto(c, "get") EXCEPT !.now = clock] = C("get", clock, {})
    <3>1. Goto(c, "get") = C("get", 0, {})
      BY <2>1 DEF Goto
    <3> QED BY <3>1
  <2>3. ASSUME NEW pc
        PROVE  [Goto(c, pc) EXCEPT !.known = acked] = C(pc, 0, acked)
    <3>1. Goto(c, pc) = C(pc, 0, {})
      BY <2>1 DEF Goto
    <3> QED BY <3>1
  <2>4. Goto(c, "burn") = C("burn", 0, {}) /\ Goto(c, "issue") = C("issue", 0, {})
    BY <2>1 DEF Goto
  <2> USE DEF c
  <2>5. CASE r.kind = "replace" /\ Set(w, [Goto(c, "get") EXCEPT !.now = clock])
    BY <2>2, <2>5
  <2>6. CASE \E pc \in {"get", "check"} : r.kind = "health" /\ Set(w, [Goto(c, pc) EXCEPT !.known = acked])
    BY <2>3, <2>6
  <2>7. CASE r.kind = "burn" /\ Set(w, Goto(c, "burn"))
    BY <2>4, <2>7
  <2>8. CASE Set(w, Goto(c, "issue"))
    BY <2>4, <2>8
  <2> QED BY <1>1, <2>5, <2>6, <2>7, <2>8
<1> HIDE DEF C
<1> QED BY <1>2, <1>4, <1>6, <1>7, LocalStep

\* The hook run on locks that are FoundationDB's allows the request for good.
LEMMA JudgedOk ==
    ASSUME RgbInv, NEW c, CallOk(c, tokens, locks, clock, acked), c.req \in RgbRequest,
           NEW seen,
           c.req.kind # "health" =>
               \A i \in DOMAIN c.req.ins : /\ tokens[c.req.ins[i].key] # Absent
                                           /\ seen[i] = locks[c.req.ins[i].key]
    PROVE  /\ CallOk(Judged(c, seen), tokens, locks, clock, acked)
           /\ Judged(c, seen).pc \in {"check", "commit", "idle"}
<1>1. c \in Call
  BY DEF CallOk
<1>2. Goto(c, "check").pc = "check" /\ Goto(c, "commit").pc = "commit" /\ Idle.pc = "idle"
  BY <1>1 DEF Goto, Call, Idle
<1>3. CASE c.req.kind = "health"
  <2>1. Judged(c, seen) = Goto(c, "check")
    BY <1>3 DEF Judged
  <2>2. StageOk(c, "check", tokens, locks)
    BY DEF StageOk
  <2> QED BY <1>2, <2>1, <2>2, GotoOk
<1>4. CASE c.req.kind # "health" /\ ValidateReplaceRequest(c.req, seen, c.now) /\ AugmentOk(c.req)
  <2>1. Judged(c, seen) = Goto(c, "commit")
    BY <1>4 DEF Judged
  <2>2. Allowed(c.req, c.now, tokens, locks)
    BY <1>4 DEF Allowed, ValidateReplaceRequest
  <2>3. StageOk(c, "commit", tokens, locks)
    BY <2>2 DEF StageOk
  <2> QED BY <1>2, <2>1, <2>3, GotoOk
<1>5. CASE c.req.kind # "health" /\ ~(ValidateReplaceRequest(c.req, seen, c.now) /\ AugmentOk(c.req))
  <2>1. Judged(c, seen) = Idle
    BY <1>5 DEF Judged
  <2> QED BY <1>2, <2>1, IdleOk
<1> QED BY <1>3, <1>4, <1>5

LEMMA CacheGetOk == ASSUME RgbInv, NEW w \in Workers, CacheGet(w) PROVE RgbInv'
<1> DEFINE c == calls[w]
           seen == LocksOf(c.req.ins, [k \in Keys |-> cache[k].rest.lock])
<1>1. StoreSame /\ cache' = cache
  BY DEF CacheGet, StoreSame
<1>2. CacheOk(cache', tokens, locks)
  BY <1>1 DEF RgbInv
<1>3. c \in Call /\ CallOk(c, tokens, locks, clock, acked) /\ c.req \in RgbRequest
  <2>1. CallOk(c, tokens, locks, clock, acked)
    BY CallParts
  <2>2. c.pc = "get"
    BY DEF CacheGet, At
  <2> QED BY <2>1, <2>2 DEF CallOk, StageOk
<1>4. CASE (\A k \in InputKeys(c) : CacheDecodes(k)) /\ Set(w, Judged(c, seen))
  <2>1. ASSUME NEW i \in DOMAIN c.req.ins
        PROVE  /\ tokens[c.req.ins[i].key] # Absent
               /\ seen[i] = locks[c.req.ins[i].key]
    <3>1. c.req.ins[i].key \in Keys /\ c.req.ins[i].key \in InputKeys(c)
      BY <1>3, RequestFields DEF InputKeys
    <3>2. seen[i] = cache[c.req.ins[i].key].rest.lock
      BY <3>1 DEF LocksOf
    <3>3. cache[c.req.ins[i].key].rest # NoRest
      BY <1>4, <3>1 DEF CacheDecodes
    <3>4. Agrees(c.req.ins[i].key, cache[c.req.ins[i].key].rest, tokens, locks)
      BY <3>1, <3>3 DEF RgbInv, CacheOk
    <3> QED BY <3>2, <3>4 DEF Agrees
  <2> HIDE DEF c, seen
  <2>2. CallOk(Judged(c, seen), tokens, locks, clock, acked)
    BY <1>3, <2>1, JudgedOk
  <2> QED BY <1>1, <1>2, <1>4, <2>2, LocalStep
<1>5. CASE Set(w, Goto(c, "fdb"))
  <2>1. StageOk(c, "fdb", tokens, locks)
    BY <1>3, CallParts DEF CallOk, StageOk, CacheGet, At
  <2> HIDE DEF c
  <2>2. CallOk(Goto(c, "fdb"), tokens, locks, clock, acked)
    BY <1>3, <2>1, GotoOk
  <2> QED BY <1>1, <1>2, <1>5, <2>2, LocalStep
<1> QED BY <1>4, <1>5 DEF CacheGet

\* What FoundationDB has just been read to hold agrees with it.
LEMMA ReadAgrees ==
    ASSUME RgbInv, NEW k \in Keys, tokens[k] # Absent
    PROVE  /\ [key |-> k, rest |-> Rest(k)] \in MirrorRecord
           /\ Agrees(k, Rest(k), tokens, locks)
<1>1. tokens[k] \in TokenRecord /\ locks[k] \in Locks
  BY DEF RgbInv, StoreOk, TokenMap
<1>2. Rest(k) \in Fields
  BY <1>1 DEF Rest, Fields, TokenRecord
<1> QED BY <1>2 DEF MirrorRecord, Rest, Agrees

LEMMA FdbGetOk == ASSUME RgbInv, NEW w \in Workers, FdbGet(w) PROVE RgbInv'
<1> DEFINE c == calls[w]
           found == {k \in InputKeys(c) : tokens[k] # Absent}
           seen == LocksOf(c.req.ins, locks)
           d == IF c.req.kind = "replace" /\ found # InputKeys(c) THEN Idle ELSE Judged(c, seen)
           warm == {[key |-> k, rest |-> Rest(k)] : k \in found}
           e == [d EXCEPT !.pc = "nx", !.then = d.pc, !.warm = warm]
<1>1. StoreSame /\ cache' = cache
  BY DEF FdbGet, StoreSame
<1>2. CacheOk(cache', tokens, locks)
  BY <1>1 DEF RgbInv
<1>3. CallOk(c, tokens, locks, clock, acked) /\ c.req \in RgbRequest
  <2>1. CallOk(c, tokens, locks, clock, acked)
    BY CallParts
  <2>2. c.pc = "fdb"
    BY DEF FdbGet, At
  <2> QED BY <2>1, <2>2 DEF CallOk, StageOk
<1>4. c.req.kind \in {"replace", "health"}
  <2>1. c.pc = "fdb"
    BY DEF FdbGet, At
  <2> QED BY <2>1, CallParts DEF CallOk, StageOk
<1>5. CallOk(d, tokens, locks, clock, acked) /\ d.pc \in {"check", "commit", "idle"}
  <2>1. CASE c.req.kind = "replace" /\ found # InputKeys(c)
    BY <2>1, IdleOk DEF Idle
  <2>2. CASE ~(c.req.kind = "replace" /\ found # InputKeys(c))
    <3>1. ASSUME c.req.kind # "health", NEW i \in DOMAIN c.req.ins
          PROVE  /\ tokens[c.req.ins[i].key] # Absent
                 /\ seen[i] = locks[c.req.ins[i].key]
      <4>1. c.req.ins[i].key \in InputKeys(c)
        BY <1>3, RequestFields DEF InputKeys
      <4> QED BY <1>4, <2>2, <3>1, <4>1 DEF LocksOf
    <3>2. d = Judged(c, seen)
      BY <2>2
    <3> HIDE DEF c, seen, d
    <3> QED BY <1>3, <3>1, <3>2, JudgedOk
  <2> QED BY <2>1, <2>2
<1>6. /\ \A m \in warm : m \in MirrorRecord /\ Agrees(m.key, m.rest, tokens, locks)
  <2>1. InputKeys(c) \subseteq Keys
    BY <1>3, RequestFields DEF InputKeys
  <2> QED BY <2>1, ReadAgrees
<1>7. Set(w, d) \/ Set(w, e)
  BY DEF FdbGet
<1> HIDE DEF c, found, seen, d, warm
<1>8. CallOk(e, tokens, locks, clock, acked)
  <2>1. d \in Call
    BY <1>5 DEF CallOk
  <2>2. /\ e \in Call /\ e.pc = "nx" /\ e.then = d.pc /\ e.warm = warm
        /\ e.req = d.req /\ e.now = d.now /\ e.known = d.known
    BY <1>5, <1>6, <2>1 DEF Call
  <2> HIDE DEF e
  <2>3. StageOk(e, e.then, tokens, locks)
    BY <1>5, <2>2 DEF CallOk, StageOk
  <2>4. StageOk(e, e.pc, tokens, locks)
    BY <2>2 DEF StageOk
  <2> QED BY <1>5, <1>6, <2>2, <2>3, <2>4 DEF CallOk
<1> HIDE DEF e
<1> QED BY <1>1, <1>2, <1>5, <1>7, <1>8, LocalStep

\* The call that insert_tokens returns to.
LEMMA ResumedOk ==
    ASSUME RgbInv, NEW c, CallOk(c, tokens, locks, clock, acked)
    PROVE  CallOk(Resumed(c), tokens, locks, clock, acked)
<1> DEFINE d == Resumed(c)
<1>1. c \in Call
  BY DEF CallOk
<1>2. /\ d \in Call /\ d.pc = c.then /\ d.then = "idle" /\ d.warm = {} /\ d.made = {}
      /\ d.req = c.req /\ d.now = c.now /\ d.known = c.known
  BY <1>1 DEF Resumed, Goto, Call
<1> HIDE DEF d
<1>3. StageOk(d, d.pc, tokens, locks) /\ StageOk(d, d.then, tokens, locks)
  BY <1>2 DEF CallOk, StageOk
<1>4. CallOk(d, tokens, locks, clock, acked)
  BY <1>2, <1>3 DEF CallOk
<1> QED BY <1>4 DEF d

LEMMA CacheNxOk == ASSUME RgbInv, NEW w \in Workers, CacheNx(w) PROVE RgbInv'
<1> DEFINE c == calls[w]
<1>1. StoreSame
  BY DEF CacheNx, StoreSame
<1>2. CallOk(c, tokens, locks, clock, acked) /\ c \in Call
  BY CallParts
<1>3. PICK done \in SUBSET c.warm :
        /\ cache' = [k \in Keys |-> IF \E rec \in done : rec.key = k
                                    THEN [cache[k] EXCEPT !.amount = TRUE] ELSE cache[k]]
        /\ Set(w, IF done = c.warm
                  THEN [Goto(c, "rest") EXCEPT !.made = {rec \in done : ~cache[rec.key].amount}]
                  ELSE Resumed(c))
  BY DEF CacheNx
<1> DEFINE made == {rec \in done : ~cache[rec.key].amount}
           e == [Goto(c, "rest") EXCEPT !.made = made]
<1>4. CacheOk(cache', tokens, locks)
  <2>1. \A k \in Keys : /\ cache[k] \in [amount : BOOLEAN, rest : Fields]
                        /\ cache'[k] \in {cache[k], [cache[k] EXCEPT !.amount = TRUE]}
    BY <1>3 DEF RgbInv, CacheOk
  <2>2. \A k \in Keys : /\ cache'[k] \in [amount : BOOLEAN, rest : Fields]
                        /\ cache'[k].rest = cache[k].rest
    BY <2>1
  <2>3. cache' \in [Keys -> [amount : BOOLEAN, rest : Fields]]
    BY <1>3, <2>2
  <2> QED BY <2>2, <2>3 DEF RgbInv, CacheOk
<1>5. made \subseteq c.warm
  OBVIOUS
<1>6. Set(w, e) \/ Set(w, Resumed(c))
  BY <1>3
<1> HIDE DEF c, made
<1>7. CallOk(e, tokens, locks, clock, acked)
  <2>1. /\ e \in Call /\ e.pc = "rest" /\ e.then = c.then /\ e.warm = c.warm /\ e.made = made
        /\ e.req = c.req /\ e.now = c.now /\ e.known = c.known
    BY <1>2, <1>5 DEF Call, Goto
  <2> HIDE DEF e
  <2>2. StageOk(e, e.pc, tokens, locks) /\ StageOk(e, e.then, tokens, locks)
    BY <1>2, <2>1 DEF CallOk, StageOk
  <2> QED BY <1>2, <1>5, <2>1, <2>2 DEF CallOk
<1>8. CallOk(Resumed(c), tokens, locks, clock, acked)
  BY <1>2, ResumedOk
<1> HIDE DEF e
<1> QED BY <1>1, <1>4, <1>6, <1>7, <1>8, LocalStep

LEMMA CacheRestOk == ASSUME RgbInv, NEW w \in Workers, CacheRest(w) PROVE RgbInv'
<1> DEFINE c == calls[w]
<1>1. StoreSame /\ Set(w, Resumed(c)) /\ c.pc = "rest"
  BY DEF CacheRest, StoreSame, At
<1>2. CallOk(c, tokens, locks, clock, acked) /\ c \in Call
  BY CallParts
<1>3. PICK done \in SUBSET c.made :
        cache' = [k \in Keys |->
                     IF \E rec \in done : rec.key = k
                     THEN [cache[k] EXCEPT !.rest = (CHOOSE rec \in done : rec.key = k).rest]
                     ELSE cache[k]]
  BY DEF CacheRest
<1>4. \A rec \in done : rec.rest \in Fields /\ Agrees(rec.key, rec.rest, tokens, locks)
  <2>1. \A rec \in done : rec \in MirrorRecord /\ rec \in c.warm
    BY <1>1, <1>2, <1>3 DEF CallOk, Call
  <2> QED BY <1>2, <2>1 DEF CallOk, MirrorRecord
<1>5. ASSUME NEW k \in Keys
      PROVE  /\ cache'[k] \in [amount : BOOLEAN, rest : Fields]
             /\ cache'[k].rest # NoRest => Agrees(k, cache'[k].rest, tokens, locks)
  <2>1. /\ cache[k] \in [amount : BOOLEAN, rest : Fields]
        /\ cache[k].rest # NoRest => Agrees(k, cache[k].rest, tokens, locks)
    BY DEF RgbInv, CacheOk
  <2>2. CASE \E rec \in done : rec.key = k
    <3> DEFINE m == CHOOSE rec \in done : rec.key = k
    <3>1. m \in done /\ m.key = k
      BY <2>2
    <3>2. cache'[k] = [cache[k] EXCEPT !.rest = m.rest]
      BY <1>3, <2>2
    <3> HIDE DEF m
    <3>3. m.rest \in Fields /\ Agrees(k, m.rest, tokens, locks)
      BY <1>4, <3>1
    <3>4. cache'[k] \in [amount : BOOLEAN, rest : Fields] /\ cache'[k].rest = m.rest
      BY <2>1, <3>2, <3>3
    <3> QED BY <3>3, <3>4
  <2>3. CASE ~ \E rec \in done : rec.key = k
    <3>1. cache'[k] = cache[k]
      BY <1>3, <2>3
    <3> QED BY <2>1, <3>1
  <2> QED BY <2>2, <2>3
<1>6. CacheOk(cache', tokens, locks)
  <2>1. cache' \in [Keys -> [amount : BOOLEAN, rest : Fields]]
    BY <1>3, <1>5
  <2> QED BY <1>5, <2>1 DEF CacheOk
<1> HIDE DEF c
<1>7. CallOk(Resumed(c), tokens, locks, clock, acked)
  BY <1>2, ResumedOk
<1> QED BY <1>1, <1>6, <1>7, LocalStep

\* The outputs of a request as they are mirrored: fresh, with the locks lockOf.
LEMMA MirroredOk ==
    ASSUME RgbInv, NEW c, c.req \in RgbRequest, NEW tok, NEW lck, NEW lockOf,
           NEW clk \in Nat, NEW ack,
           \A k \in KeysOf(c.req.outs) :
               tok[k] # Absent /\ lockOf[k] = lck[k] /\ lck[k] \in Locks
    PROVE  CallOk(Mirrored(c, lockOf), tok, lck, clk, ack)
<1> DEFINE warm == {[key |-> k, rest |-> [spent |-> "no", lock |-> lockOf[k]]] : k \in KeysOf(c.req.outs)}
           d == Mirrored(c, lockOf)
<1>1. KeysOf(c.req.outs) \subseteq Keys
  BY RequestFields
<1>2. \A m \in warm : m \in MirrorRecord /\ Agrees(m.key, m.rest, tok, lck)
  BY <1>1 DEF MirrorRecord, Fields, Agrees
<1>3. Idle \in Call
  BY IdleOk DEF CallOk
<1>4. d = [Idle EXCEPT !.pc = "nx", !.warm = warm]
  BY DEF Mirrored
<1> HIDE DEF warm, d
<1>5. /\ d \in Call /\ d.pc = "nx" /\ d.then = Idle.then /\ d.warm = warm
      /\ d.now = Idle.now /\ d.known = Idle.known
  BY <1>2, <1>3, <1>4 DEF Call
<1>6. d.then = "idle" /\ d.now = 0 /\ d.known = {}
  BY <1>5 DEF Idle
<1>7. CallOk(d, tok, lck, clk, ack)
  BY <1>2, <1>5, <1>6 DEF CallOk, StageOk
<1> QED BY <1>7 DEF d

\* Redis may stay behind when FoundationDB grows.
LEMMA CacheKept ==
    ASSUME RgbInv, clock' \in Nat,
           Grows(tokens, locks, clock, acked, tokens', locks', clock', acked')
    PROVE  CacheOk(cache, tokens', locks')
<1>1. clock \in Nat
  BY DEF RgbInv, StoreOk
<1>2. \A k \in Keys : \A rest : Agrees(k, rest, tokens, locks) => Agrees(k, rest, tokens', locks')
  BY <1>1, GrowsKeeps
<1> QED BY <1>2 DEF RgbInv, CacheOk

\* A worker's call as FoundationDB grows.
LEMMA IdleStep ==
    ASSUME RgbInv, NEW w \in Workers, Set(w, Idle), stale' = {}, cache' = cache,
           Grows(tokens, locks, clock, acked, tokens', locks', clock', acked'),
           StoreOk(tokens', locks', clock', acked')
    PROVE  RgbInv'
<1>1. clock \in Nat /\ clock' \in Nat
  BY DEF RgbInv, StoreOk
<1>2. CallOk(Idle, tokens', locks', clock', acked')
  BY <1>1, IdleOk, GrowsKeeps
<1>3. CacheOk(cache', tokens', locks')
  BY <1>1, CacheKept
<1> QED BY <1>2, <1>3, CallStep

LEMMA CommitStepOk == ASSUME RgbInv, NEW w \in Workers, Commit(w) PROVE RgbInv'
<1> DEFINE c == calls[w]
           r == c.req
           new == NewLocks(r, c.now)
<1>1. cache' = cache /\ clock' = clock /\ stale' = {} /\ c.pc = "commit"
  BY DEF Commit, At, RgbInv
<1>2. CallOk(c, tokens, locks, clock, acked) /\ c \in Call
  BY CallParts
<1>3. r \in RgbRequest /\ c.now \in 0..MaxClock
  BY <1>1, <1>2 DEF CallOk, StageOk, Call
<1>4. clock \in Nat /\ clock \in 0..MaxClock /\ tokens \in TokenMap /\ locks \in [Keys -> Locks]
  BY DEF RgbInv, StoreOk
<1>5. CASE /\ CommitOk(r) /\ tokens' = FdbReplace(tokens, r.ins, r.outs)
           /\ locks' = new /\ acked' = acked \union KeysOf(r.ins)
           /\ Set(w, Mirrored(c, new))
  <2>1. Replaceable(tokens, r.ins, r.outs)
    BY <1>5 DEF CommitOk, FdbReplaceOk, FdbInsertOk, Replaceable
  <2>2. r.ins \in Seq(Tokens) /\ r.outs \in Seq(Tokens)
        /\ KeysOf(r.ins) \subseteq Keys /\ KeysOf(r.outs) \subseteq Keys
    BY <1>3, RequestFields
  <2> HIDE DEF c, r, new
  <2>3. Replaces(tokens, tokens', r.ins, r.outs)
    BY <1>4, <1>5, <2>1, <2>2, ReplaceEffect DEF FdbReplace
  <2>4. ASSUME NEW k \in KeysOf(r.ins)
        PROVE  tokens[k] # Absent /\ tokens'[k] # Absent /\ tokens'[k].spent = "yes"
    <3>1. tokens[k] # Absent /\ tokens'[k] = Closed(tokens[k])
      BY <2>3 DEF Replaces
    <3>2. tokens[k] \in TokenRecord
      BY <1>4, <2>2, <3>1 DEF TokenMap
    <3> QED BY <3>1, <3>2, ClosedRecord
  <2>5. ASSUME NEW k \in KeysOf(r.outs)
        PROVE  tokens[k] = Absent /\ tokens'[k] # Absent
    <3>1. AmountIn(r.outs, k) \in Int
      BY <2>2, AmountInType
    <3>2. RecordFromSecret([key |-> k, amount |-> AmountIn(r.outs, k)], "replaced") # Absent
      BY <3>1, FreshIsLive
    <3> QED BY <2>3, <3>2 DEF Replaces
  <2>6. ASSUME NEW k \in Keys, k \notin KeysOf(r.ins), k \notin KeysOf(r.outs)
        PROVE  tokens'[k] = tokens[k]
    BY <2>3, <2>6 DEF Replaces
  <2>7. ASSUME NEW k \in Keys
        PROVE  locks'[k] \in Locks /\ (k \notin KeysOf(r.outs) => locks'[k] = locks[k])
    <3> DEFINE i == CHOOSE i \in DOMAIN r.outs : r.outs[i].key = k
    <3>1. locks'[k] = IF k \in KeysOf(r.outs) THEN OutputLock(r, i, c.now) ELSE locks[k]
      BY <1>5 DEF new, NewLocks
    <3> HIDE DEF i
    <3>2. OutputLock(r, i, c.now) \in Locks
      BY <1>3, OutputLockType
    <3> QED BY <1>4, <3>1, <3>2
  <2>8. locks' \in [Keys -> Locks]
    BY <1>5, <2>7 DEF new, NewLocks
  <2>9. clock <= clock' /\ clock' \in Nat /\ clock' \in 0..MaxClock
    BY <1>1, <1>4
  <2>10. acked \subseteq acked' /\ acked' \subseteq Keys
    BY <1>5, <2>2 DEF RgbInv, StoreOk
  <2>11. Grows(tokens, locks, clock, acked, tokens', locks', clock', acked')
    BY <2>4, <2>5, <2>6, <2>7, <2>9, <2>10 DEF Grows
  <2>12. StoreOk(tokens', locks', clock', acked')
    <3>1. tokens' \in TokenMap
      BY <2>3 DEF Replaces
    <3>2. \A k \in Keys : tokens'[k] = Absent => locks'[k] = NoLock
      BY <2>4, <2>5, <2>6, <2>7 DEF RgbInv, StoreOk
    <3>3. \A k \in acked' : tokens'[k] # Absent /\ tokens'[k].spent = "yes"
      <4>1. \A k \in acked : k \in Keys /\ tokens[k] # Absent /\ tokens[k].spent = "yes"
        BY DEF RgbInv, StoreOk
      <4> QED BY <1>5, <2>4, <2>11, <4>1 DEF Grows
    <3> QED BY <2>8, <2>9, <2>10, <3>1, <3>2, <3>3 DEF StoreOk
  <2>13. CacheOk(cache', tokens', locks')
    BY <1>1, <2>9, <2>11, CacheKept
  <2>14. CallOk(Mirrored(c, new), tokens', locks', clock', acked')
    BY <1>3, <1>5, <2>2, <2>5, <2>7, <2>9, MirroredOk DEF r
  <2> QED BY <1>1, <1>5, <2>11, <2>12, <2>13, <2>14, CallStep
<1>6. CASE Set(w, Idle) /\ UNCHANGED <<tokens, locks, acked>>
  <2>1. StoreSame
    BY <1>1, <1>6 DEF StoreSame, RgbInv
  <2>2. CacheOk(cache', tokens, locks)
    BY <1>1 DEF RgbInv
  <2> QED BY <1>6, <2>1, <2>2, IdleOk, LocalStep
<1> QED BY <1>5, <1>6 DEF Commit

LEMMA IssueOk == ASSUME RgbInv, NEW w \in Workers, Issue(w) PROVE RgbInv'
<1> DEFINE c == calls[w]
           r == c.req
           none == [k \in Keys |-> NoLock]
<1>1. /\ cache' = cache /\ clock' = clock /\ stale' = {} /\ locks' = locks /\ acked' = acked
      /\ c.pc = "issue"
  BY DEF Issue, At, RgbInv
<1>2. r \in RgbRequest
  BY <1>1, CallParts DEF CallOk, StageOk
<1>3. clock \in Nat /\ clock \in 0..MaxClock /\ tokens \in TokenMap /\ locks \in [Keys -> Locks]
  BY DEF RgbInv, StoreOk
<1>4. CASE /\ FdbInsertOk(tokens, r.outs) /\ tokens' = PutAll(tokens, r.outs, "replaced")
           /\ Set(w, Mirrored(c, none))
  <2>1. r.outs \in Seq(Tokens) /\ KeysOf(r.outs) \subseteq Keys
    BY <1>2, RequestFields
  <2>2. \A k \in KeysOf(r.outs) : tokens[k] = Absent
    BY <1>4 DEF FdbInsertOk, KeysOf
  <2>3. \A k \in KeysOf(r.outs) : none[k] = NoLock
    BY <2>1
  <2> HIDE DEF c, r, none
  <2>4. Opens(tokens, tokens', r.outs, "replaced")
    BY <1>3, <1>4, <2>1, InsertEffect
  <2>5. ASSUME NEW k \in KeysOf(r.outs)
        PROVE  tokens'[k] # Absent /\ tokens[k] = Absent
    <3>1. AmountIn(r.outs, k) \in Int
      BY <2>1, AmountInType
    <3>2. RecordFromSecret([key |-> k, amount |-> AmountIn(r.outs, k)], "replaced") # Absent
      BY <3>1, FreshIsLive
    <3> QED BY <2>2, <2>4, <3>2 DEF Opens
  <2>6. \A k \in Keys : k \notin KeysOf(r.outs) => tokens'[k] = tokens[k]
    BY <2>4 DEF Opens
  <2>7. clock <= clock' /\ clock' \in Nat
    BY <1>1, <1>3
  <2>8. Grows(tokens, locks, clock, acked, tokens', locks', clock', acked')
    BY <1>1, <2>5, <2>6, <2>7 DEF Grows
  <2>9. StoreOk(tokens', locks', clock', acked')
    <3>1. tokens' \in TokenMap
      BY <2>4 DEF Opens
    <3>2. \A k \in Keys : tokens'[k] = Absent => locks'[k] = NoLock
      BY <1>1, <2>5, <2>6 DEF RgbInv, StoreOk
    <3>3. \A k \in acked : k \in Keys /\ tokens'[k] # Absent /\ tokens'[k].spent = "yes"
      BY <2>8 DEF RgbInv, StoreOk, Grows
    <3> QED BY <1>1, <1>3, <3>1, <3>2, <3>3 DEF StoreOk
  <2>10. CacheOk(cache', tokens', locks')
    BY <1>1, <2>7, <2>8, CacheKept
  <2>11. \A k \in KeysOf(r.outs) : none[k] = locks'[k] /\ locks'[k] \in Locks
    BY <1>1, <1>3, <2>1, <2>3, <2>5 DEF RgbInv, StoreOk
  <2>12. CallOk(Mirrored(c, none), tokens', locks', clock', acked')
    BY <1>2, <2>5, <2>7, <2>11, MirroredOk DEF r
  <2> QED BY <1>1, <1>4, <2>8, <2>9, <2>10, <2>12, CallStep
<1>5. CASE Set(w, Idle) /\ UNCHANGED tokens
  <2>1. StoreSame
    BY <1>1, <1>5 DEF StoreSame, RgbInv
  <2>2. CacheOk(cache', tokens, locks)
    BY <1>1 DEF RgbInv
  <2> QED BY <1>5, <2>1, <2>2, IdleOk, LocalStep
<1> QED BY <1>4, <1>5 DEF Issue

LEMMA BurnOk == ASSUME RgbInv, NEW w \in Workers, Burn(w) PROVE RgbInv'
<1> DEFINE r == calls[w].req
           k == r.ins[1].key
<1>1. /\ cache' = cache /\ clock' = clock /\ stale' = {} /\ locks' = locks
      /\ calls[w].pc = "burn" /\ Set(w, Idle)
  BY DEF Burn, At, RgbInv
<1>2. k \in Keys
  <2>1. r \in RgbRequest /\ Len(r.ins) = 1
    BY <1>1, CallParts DEF CallOk, StageOk
  <2>2. r.ins \in Seq(Tokens) /\ 1 \in DOMAIN r.ins
    BY <2>1, RequestFields
  <2> HIDE DEF r
  <2> QED BY <2>1, <2>2, RequestFields
<1>3. clock \in Nat /\ clock \in 0..MaxClock /\ tokens \in TokenMap /\ locks \in [Keys -> Locks]
  BY DEF RgbInv, StoreOk
<1> HIDE DEF r
<1>4. CASE /\ FdbBurnOk(tokens, k) /\ tokens' = MarkSpent(tokens, {k})
           /\ acked' = acked \union {k}
  <2> HIDE DEF k
  <2>1. tokens[k] \in TokenRecord
    BY <1>2, <1>3, <1>4 DEF FdbBurnOk, TokenMap
  <2>2. tokens'[k] # Absent /\ tokens'[k].spent = "yes"
    <3>1. tokens'[k] = Closed(tokens[k])
      BY <1>2, <1>4 DEF MarkSpent
    <3> QED BY <2>1, <3>1, ClosedRecord
  <2>3. \A j \in Keys : j # k => tokens'[j] = tokens[j]
    BY <1>4 DEF MarkSpent
  <2>4. tokens' \in TokenMap
    BY <1>2, <1>3, <1>4, MarkSpentType DEF FdbBurnOk
  <2>5. clock <= clock'
    BY <1>1, <1>3
  <2>6. Grows(tokens, locks, clock, acked, tokens', locks', clock', acked')
    BY <1>1, <1>4, <2>2, <2>3, <2>5 DEF Grows
  <2>7. StoreOk(tokens', locks', clock', acked')
    <3>1. \A j \in Keys : tokens'[j] = Absent => locks'[j] = NoLock
      BY <1>1, <2>2, <2>3 DEF RgbInv, StoreOk
    <3>2. \A j \in acked' : j \in Keys /\ tokens'[j] # Absent /\ tokens'[j].spent = "yes"
      BY <1>2, <1>4, <2>2, <2>3 DEF RgbInv, StoreOk
    <3> QED BY <1>1, <1>3, <2>4, <3>1, <3>2 DEF StoreOk
  <2> QED BY <1>1, <2>6, <2>7, IdleStep
<1>5. CASE UNCHANGED <<tokens, acked>>
  <2>1. StoreSame
    BY <1>1, <1>5 DEF StoreSame, RgbInv
  <2>2. CacheOk(cache', tokens, locks)
    BY <1>1 DEF RgbInv
  <2> QED BY <1>1, <2>1, <2>2, IdleOk, LocalStep
<1> QED BY <1>4, <1>5 DEF Burn, r

\* What a health check knew to be spent still is when FoundationDB is asked.
LEMMA CheckOk == ASSUME RgbInv, NEW w \in Workers, Check(w) PROVE RgbInv'
<1>1. stale' = {}
  <2>1. calls[w].known \subseteq acked
    BY CallParts DEF CallOk
  <2>2. \A k \in calls[w].known : Checked(k) = "yes"
    BY <2>1 DEF RgbInv, StoreOk, Checked
  <2> QED BY <2>2 DEF Check, RgbInv
<1>2. StoreSame /\ Set(w, Idle) /\ cache' = cache
  BY <1>1 DEF Check, StoreSame, RgbInv
<1>3. CacheOk(cache', tokens, locks)
  BY <1>2 DEF RgbInv
<1> QED BY <1>2, <1>3, IdleOk, LocalStep

\* A step outside the workers.
LEMMA EnvironmentOk ==
    ASSUME RgbInv, Tick \/ (\E k \in Keys : CacheLoss(k))
    PROVE  RgbInv'
<1>1. calls' = calls /\ tokens' = tokens /\ locks' = locks /\ acked' = acked /\ stale' = {}
  BY DEF Tick, CacheLoss, RgbInv
<1>2. clock \in 0..MaxClock /\ clock' \in 0..MaxClock /\ clock <= clock' /\ clock' \in Nat
      /\ clock \in Nat
  BY RgbAssumption DEF Tick, CacheLoss, RgbInv, StoreOk
<1>3. Grows(tokens, locks, clock, acked, tokens', locks', clock', acked')
  BY <1>1, <1>2 DEF Grows
<1>4. StoreOk(tokens', locks', clock', acked')
  BY <1>1, <1>2 DEF RgbInv, StoreOk
<1>5. \A w \in Workers : CallOk(calls'[w], tokens', locks', clock', acked')
  BY <1>1, <1>2, <1>3, GrowsKeeps DEF RgbInv
<1>6. CacheOk(cache', tokens, locks)
  <2>1. CASE cache' = cache
    BY <2>1 DEF RgbInv
  <2>2. CASE \E k \in Keys : CacheLoss(k)
    <3>1. PICK k \in Keys : cache' = [cache EXCEPT ![k] = Uncached]
      BY <2>2 DEF CacheLoss
    <3>2. Uncached \in [amount : BOOLEAN, rest : Fields] /\ Uncached.rest = NoRest
      BY DEF Uncached, NoRest, Fields, Locks
    <3> QED BY <3>1, <3>2 DEF RgbInv, CacheOk
  <2> QED BY <2>1, <2>2 DEF Tick
<1> QED BY <1>1, <1>4, <1>5, <1>6 DEF RgbInv

LEMMA StepOk == ASSUME RgbInv, [Next]_vars PROVE RgbInv'
<1>1. CASE UNCHANGED vars
  BY <1>1 DEF vars, RgbInv
<1>2. CASE Tick \/ (\E k \in Keys : CacheLoss(k))
  BY <1>2, EnvironmentOk
<1>3. ASSUME NEW w \in Workers, WorkerStep(w)
      PROVE  RgbInv'
  BY <1>3, ReceiveOk, CacheGetOk, FdbGetOk, CacheNxOk, CacheRestOk, CommitStepOk, IssueOk,
     BurnOk, CheckOk DEF WorkerStep
<1> QED BY <1>1, <1>2, <1>3 DEF Next

-----------------------------------------------------------------------------
(* Theorems *)

\* Only a successful commit takes a call from its commit to the mirroring.
LEMMA CommitsOnly ==
    ASSUME RgbInv, [Next]_vars, NEW w \in Workers,
           calls[w].pc = "commit", calls'[w].pc = "nx"
    PROVE  /\ CommitOk(calls[w].req)
           /\ locks' = NewLocks(calls[w].req, calls[w].now)
<1>1. calls' # calls
  OBVIOUS
<1>2. PICK v \in Workers : WorkerStep(v)
  BY <1>1 DEF Next, Tick, CacheLoss, vars
<1>3. \E c : Set(v, c)
  <2>1. Receive(v) => \E c : Set(v, c)
    BY DEF Receive
  <2>2. CacheGet(v) => \E c : Set(v, c)
    BY DEF CacheGet
  <2>3. FdbGet(v) => \E c : Set(v, c)
    BY DEF FdbGet
  <2>4. CacheNx(v) => \E c : Set(v, c)
    BY DEF CacheNx
  <2>5. CacheRest(v) \/ Commit(v) \/ Issue(v) \/ Burn(v) \/ Check(v) => \E c : Set(v, c)
    BY DEF CacheRest, Commit, Issue, Burn, Check
  <2> QED BY <1>2, <2>1, <2>2, <2>3, <2>4, <2>5 DEF WorkerStep
<1>4. v = w
  BY <1>3 DEF Set, RgbInv
<1>5. Commit(w)
  BY <1>2, <1>4 DEF WorkerStep, At, Receive, CacheGet, FdbGet, CacheNx, CacheRest, Issue, Burn, Check
<1>6. ~Set(w, Idle)
  BY DEF Set, Idle, RgbInv
<1> QED BY <1>5, <1>6 DEF Commit

\* The invariant behind the theorems holds of every reachable state.
THEOREM RgbInvariant == Spec => []RgbInv
<1>1. Init => RgbInv
  BY InitOk
<1>2. RgbInv /\ [Next]_vars => RgbInv'
  BY StepOk
<1> QED BY <1>1, <1>2, PTL DEF Spec

\* Redis never shows the hook a lock that FoundationDB does not have: whatever
\* from_fields decodes agrees with the record of truth.
THEOREM CacheIsFaithful == Spec => []CacheAgrees
<1>1. RgbInv => CacheAgrees
  BY DEF RgbInv, CacheOk, CacheAgrees, CacheDecodes, Agrees
<1> QED BY <1>1, RgbInvariant, PTL

\* check_tokens asks FoundationDB, so a health check that began after a spend
\* was acknowledged never answers "unspent".
THEOREM HealthIsFresh == Spec => []HealthFresh
<1>1. RgbInv => HealthFresh
  BY DEF RgbInv, HealthFresh
<1> QED BY <1>1, RgbInvariant, PTL

\* The lock in FoundationDB allows every replace that closes a locked token,
\* although exec_replace does not look at it.
THEOREM LocksHold == Spec => LockHolds
<1> DEFINE A == \A w \in Workers, k \in Keys :
          Closes(w, k) /\ locks[k] # NoLock =>
             LET r == calls[w].req
                 wit == WitnessOf(r, IndexOf(r, k))
             IN  /\ Entries(r.wits, IndexOf(r, k)) # {}
                 /\ \/ wit.x = locks[k].h /\ wit.owner = locks[k].claim
                    \/ clock >= locks[k].after /\ wit.owner = locks[k].refund
<1>1. RgbInv => A
  <2> SUFFICES ASSUME RgbInv, NEW w \in Workers, NEW k \in Keys,
                      Closes(w, k), locks[k] # NoLock
               PROVE  LET r == calls[w].req
                          wit == WitnessOf(r, IndexOf(r, k))
                      IN  /\ Entries(r.wits, IndexOf(r, k)) # {}
                          /\ \/ wit.x = locks[k].h /\ wit.owner = locks[k].claim
                             \/ clock >= locks[k].after /\ wit.owner = locks[k].refund
    OBVIOUS
  <2> DEFINE c == calls[w]
             r == c.req
             i == IndexOf(r, k)
             wit == WitnessOf(r, i)
  <2>1. c.pc = "commit" /\ \E j \in DOMAIN r.ins : r.ins[j].key = k
    BY DEF Closes
  <2>2. i \in DOMAIN r.ins /\ r.ins[i].key = k
    BY <2>1 DEF IndexOf
  <2>3. Allowed(r, c.now, tokens, locks) /\ c.now \in Nat /\ c.now <= clock
    BY <2>1, CallParts DEF CallOk, StageOk, Call
  <2> HIDE DEF c, r, i
  <2>4. Entries(r.wits, i) # {} /\ Evaluate(locks[k], wit, c.now)
    BY <2>2, <2>3 DEF Allowed
  <2>5. clock \in Nat /\ locks[k].after \in Nat
    <3>1. locks[k] \in HtlcState
      BY DEF RgbInv, StoreOk, Locks
    <3> QED BY <3>1, RgbAssumption DEF RgbInv, StoreOk, HtlcState
  <2> HIDE DEF wit
  <2>6. \/ wit.x = locks[k].h /\ wit.owner = locks[k].claim
        \/ c.now >= locks[k].after /\ wit.owner = locks[k].refund
    BY <2>4, EvaluateMeans
  <2> QED BY <2>3, <2>4, <2>5, <2>6 DEF c, r, i, wit
<1>2. LockHolds <=> [][A]_vars
  BY DEF LockHolds
<1> HIDE DEF A
<1> QED BY <1>1, <1>2, RgbInvariant, PTL DEF Spec

\* No acknowledged input is an input of another acknowledged replace.
THEOREM SpendsOnce == Spec => NoDoubleSpend
<1> DEFINE A == \A w \in Workers, k \in Keys :
          /\ calls[w].pc = "commit" /\ calls'[w].pc = "nx"
          /\ \E i \in DOMAIN calls[w].req.ins : calls[w].req.ins[i].key = k
          => k \notin acked
<1>1. RgbInv /\ [Next]_vars => A
  <2> SUFFICES ASSUME RgbInv, [Next]_vars, NEW w \in Workers, NEW k \in Keys,
                      calls[w].pc = "commit", calls'[w].pc = "nx",
                      NEW i \in DOMAIN calls[w].req.ins, calls[w].req.ins[i].key = k,
                      k \in acked
               PROVE  FALSE
    OBVIOUS
  <2>1. tokens[k].spent = "yes"
    BY DEF RgbInv, StoreOk
  <2>2. CommitOk(calls[w].req)
    BY CommitsOnly
  <2> QED BY <2>1, <2>2 DEF CommitOk, FdbReplaceOk
<1>2. NoDoubleSpend <=> [][A]_vars
  BY DEF NoDoubleSpend
<1> HIDE DEF A
<1> QED BY <1>1, <1>2, RgbInvariant, PTL DEF Spec

\* stamp_into_state neither wraps nor leaves the clock's range, so a refund
\* window starts closed unless the wallet asked for no delay at all.
THEOREM WindowsStartClosed == Spec => WindowStartsClosed
<1> DEFINE A == \A w \in Workers, k \in Keys :
          /\ calls[w].pc = "commit" /\ calls'[w].pc = "nx"
          /\ locks[k] = NoLock /\ locks'[k] # NoLock
          => /\ locks'[k] \in HtlcState
             /\ \/ locks'[k].after > calls[w].now
                \/ locks'[k].after = MaxClock
                \/ LET r == calls[w].req
                   IN  \E n \in DOMAIN r.lock :
                          r.outs[r.lock[n].at].key = k /\ r.lock[n].req.delta = 0
<1>1. RgbInv /\ [Next]_vars => A
  <2> SUFFICES ASSUME RgbInv, [Next]_vars, NEW w \in Workers, NEW k \in Keys,
                      calls[w].pc = "commit", calls'[w].pc = "nx",
                      locks[k] = NoLock, locks'[k] # NoLock
               PROVE  /\ locks'[k] \in HtlcState
                      /\ \/ locks'[k].after > calls[w].now
                         \/ locks'[k].after = MaxClock
                         \/ LET r == calls[w].req
                            IN  \E n \in DOMAIN r.lock :
                                   r.outs[r.lock[n].at].key = k /\ r.lock[n].req.delta = 0
    OBVIOUS
  <2> DEFINE r == calls[w].req
             now == calls[w].now
             i == CHOOSE i \in DOMAIN r.outs : r.outs[i].key = k
             n == Latest(Entries(r.lock, i))
             q == r.lock[n].req
  <2>1. r \in RgbRequest /\ now \in 0..MaxClock
    BY CallParts DEF CallOk, StageOk, Call
  <2>2. locks'[k] = OutputLock(r, i, now) /\ r.outs[i].key = k
    <3>1. locks' = NewLocks(r, now)
      BY CommitsOnly
    <3>2. locks'[k] = IF k \in KeysOf(r.outs) THEN OutputLock(r, i, now) ELSE locks[k]
      BY <3>1 DEF NewLocks
    <3>3. k \in KeysOf(r.outs) => r.outs[i].key = k
      BY DEF KeysOf
    <3> QED BY <3>2, <3>3
  <2> HIDE DEF r, now, i
  <2>3. Entries(r.lock, i) # {} /\ locks'[k] = Stamp(q, now)
    BY <2>2 DEF OutputLock
  <2>4. n \in DOMAIN r.lock /\ r.lock[n].at = i /\ q \in LockRequest
    <3>1. r.lock \in Seq([at : Nat, req : LockRequest])
      BY <2>1, RequestFields
    <3>2. n \in DOMAIN r.lock /\ r.lock[n].at = i
      BY <2>3, <3>1, LatestEntry
    <3> HIDE DEF n
    <3>3. r.lock[n] \in [at : Nat, req : LockRequest]
      BY <3>1, <3>2, ElementOf
    <3> QED BY <3>2, <3>3
  <2>5. r.lock[n].req = q
    OBVIOUS
  <2> HIDE DEF n, q
  <2>6. locks'[k] \in HtlcState
    BY <2>1, <2>3, <2>4, StampType
  <2>7. q.delta \in Nat /\ now \in Nat
    BY <2>1, <2>4, RgbAssumption DEF LockRequest
  <2>8. locks'[k].after > now \/ locks'[k].after = MaxClock \/ q.delta = 0
    <3>1. locks'[k].after = IF now + q.delta > MaxClock THEN MaxClock ELSE now + q.delta
      BY <2>3 DEF Stamp
    <3> QED BY <2>7, <3>1, RgbAssumption
  <2> QED BY <2>2, <2>4, <2>5, <2>6, <2>8 DEF r, now
<1>2. WindowStartsClosed <=> [][A]_vars
  BY DEF WindowStartsClosed
<1> HIDE DEF A
<1> QED BY <1>1, <1>2, RgbInvariant, PTL DEF Spec
=============================================================================
