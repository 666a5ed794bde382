---------------------------- MODULE LegacyProofs ----------------------------
(***************************************************************************)
(* Proofs about the single-flavor server, for both stores, any number of   *)
(* requests, any channel capacity and any epoch length.                    *)
(*                                                                         *)
(* Four invariants carry them.  HeldInv says where the reply channel of a  *)
(* waiting call is: the mailbox or the handler of the actor its request is *)
(* routed to, or the batcher's channel or batch, once.  OwnInv ties what a *)
(* batch or a burn has noted to the audit records of its own calls.        *)
(* MinerInv says that the stored mining state is the miner's memory or     *)
(* what one report makes of it, and ClaimedInv that what reports were     *)
(* granted never runs ahead of the circulation written for them.           *)
(***************************************************************************)
EXTENDS LegacySafety, TokenLemmas

-----------------------------------------------------------------------------
(* The types of the variables *)

Statuses == {"idle", "submit", "wait", "ok", "err"}

CallType == [req : Requests \union {NoReq}, status : Statuses]

JobType ==
    [call : Calls \union {NoCall}, step : {"idle", "burn", "state", "insert"},
     todo : SUBSET Nat, made : SUBSET Nat, failed : BOOLEAN,
     tokens : Seq(Tokens), next : MiningStateType]

\* A call has a request once it was sent, and is idle before.
CallOk(cl, n) ==
    /\ cl \in [Calls -> CallType]
    /\ \A c \in Calls : IF c <= n THEN cl[c].req \in Requests
                                  ELSE cl[c].status = "idle"
    /\ \A c \in Calls : cl[c].status = "submit" => cl[c].req.kind = "replace"

JobOk(j) ==
    /\ j \in JobType
    /\ j.step # "idle" => j.call # NoCall
    /\ j.made \subseteq DOMAIN j.tokens
    /\ j.step \in {"state", "insert"} => j.todo \subseteq DOMAIN j.tokens

BatchOk(q, b, t, r) ==
    /\ q \in Seq(Calls) /\ Len(q) <= BufferSize
    /\ b \in Seq(Calls) /\ t \subseteq DOMAIN b /\ r \in [DOMAIN b -> BOOLEAN]

StoreOk ==
    /\ backend \in Backends
    /\ tokens \in TokenMap
    /\ audit \subseteq (1..sent) \X Nat
    /\ stored \in MiningStateType

ActorsOk ==
    /\ mem \in MiningStateType
    /\ up \subseteq Actors /\ sup \in BOOLEAN
    /\ box \in [Actors -> Seq(Calls)]
    /\ DOMAIN job = Actors /\ \A a \in Actors : JobOk(job[a])

Types ==
    /\ StoreOk /\ ActorsOk
    /\ BatchOk(queue, batch, todo, result) /\ batcher \in BOOLEAN
    /\ CallOk(call, sent) /\ sent \in 0..MaxCalls

\* The keys an insert has created exist until it has completed them.
MadeInv ==
    \A i \in job["miner"].made : tokens[job["miner"].tokens[i].key] # Absent

-----------------------------------------------------------------------------
(* Where the reply channels are *)

Members(s) == {s[i] : i \in DOMAIN s}

Distinct(s) == \A i, j \in DOMAIN s : s[i] = s[j] => i = j

\* Who answers a request: the batcher or an actor.
Home(kind) == IF kind = "replace" THEN "batcher" ELSE ActorOf(kind)

\* The calls that wait for an answer of h.
WaitsAt(cl, h) ==
    {c \in Calls : cl[c].status = "wait" /\ Home(cl[c].req.kind) = h}

\* A mailbox b and the call c being handled hold exactly the calls of W.
ActorHolds(b, c, W) ==
    /\ Distinct(b) /\ c \notin Members(b)
    /\ Members(b) \union ({c} \ {NoCall}) = W

\* So do a channel q and a batch b.
BatcherHolds(q, b, W) ==
    /\ Distinct(q) /\ Distinct(b)
    /\ Members(q) \intersect Members(b) = {}
    /\ Members(q) \union Members(b) = W

HeldInv ==
    /\ \A a \in Actors : ActorHolds(box[a], job[a].call, WaitsAt(call, a))
    /\ BatcherHolds(queue, batch, WaitsAt(call, "batcher"))

-----------------------------------------------------------------------------
(* What has been done for a call *)

\* Every result the batcher holds as ok has its audit record ...
ResultsOwn == \A i \in DOMAIN batch : result[i] => <<batch[i], 0>> \in audit

\* ... and so has every token a burn without an error has done with.
BurnOwn ==
    LET j == job["ledger"]
    IN  j.step = "burn" /\ ~j.failed =>
            \A i \in DOMAIN call[j.call].req.ins \ j.todo : <<j.call, i>> \in audit

OwnInv == ResultsOwn /\ BurnOwn /\ SuccessIsOwn

-----------------------------------------------------------------------------
(* The mining state *)

\* n is what one report makes of m.
OneReport(m, n) ==
    /\ n.count = m.count + 1
    /\ n.diff # m.diff =>
          n.diff - m.diff \in {-1, 1} /\ n.count % ReportsPerEpoch = 0

MinerInv ==
    /\ job["miner"].step # "idle" => "miner" \in up
    /\ stored = mem \/ OneReport(mem, stored)
    /\ job["miner"].step # "idle" => OneReport(mem, job["miner"].next)
    /\ job["miner"].step = "insert" => stored = job["miner"].next
    /\ accepted \in Nat /\ accepted <= mem.count

-----------------------------------------------------------------------------
(* Facts about the operators *)

LEMMA RequestParts ==
    ASSUME NEW r \in Requests
    PROVE  /\ r.kind \in Kinds /\ r.ok \in BOOLEAN
           /\ r.ins \in Seq(Tokens) /\ r.outs \in Seq(Tokens) /\ r.subs \in Seq(Tokens)
           /\ r.diff \in Nat /\ r.pow \in Nat
BY RequestsAssumption

LEMMA HomeOfRequest ==
    ASSUME NEW k \in Kinds
    PROVE  Home(k) \in Actors \union {"batcher"} /\ (k # "replace" => ActorOf(k) \in Actors)
BY DEF Kinds, Home, ActorOf, Actors

LEMMA CallNumbers == Calls \subseteq Nat /\ NoCall \notin Calls
BY BoundsAssumption DEF Calls

LEMMA InitialStateType == InitialState \in MiningStateType
BY BoundsAssumption DEF InitialState, MiningStateType

LEMMA NoJobOk ==
    /\ JobOk(NoJob) /\ NoJob.call = NoCall /\ NoJob.step = "idle" /\ ~NoJob.failed
    /\ NoJob.made = {}
<1>1. NoJob.step = "idle" /\ NoJob.call = NoCall /\ ~NoJob.failed /\ NoJob.made = {}
  BY DEF NoJob
<1>2. NoJob \in JobType
  BY InitialStateType DEF NoJob, JobType
<1> QED BY <1>1, <1>2 DEF JobOk

LEMMA AppendMembers ==
    ASSUME NEW S, NEW s \in Seq(S), NEW c \in S
    PROVE  /\ Append(s, c) \in Seq(S)
           /\ Members(Append(s, c)) = Members(s) \union {c}
           /\ Distinct(s) /\ c \notin Members(s) => Distinct(Append(s, c))
<1> DEFINE t == Append(s, c)
<1>1. /\ t \in Seq(S) /\ DOMAIN t = 1..(Len(s) + 1) /\ DOMAIN s = 1..Len(s) /\ Len(s) \in Nat
      /\ \A i \in DOMAIN s : t[i] = s[i]
      /\ t[Len(s) + 1] = c
  OBVIOUS
<1> HIDE DEF t
<1>2. \A i \in DOMAIN t : i \in DOMAIN s \/ i = Len(s) + 1
  BY <1>1
<1>3. DOMAIN s \subseteq DOMAIN t /\ Len(s) + 1 \in DOMAIN t
  BY <1>1
<1>4. Members(t) = Members(s) \union {c}
  BY <1>1, <1>2, <1>3 DEF Members
<1>5. ASSUME Distinct(s), c \notin Members(s) PROVE Distinct(t)
  BY <1>1, <1>2, <1>5 DEF Distinct, Members
<1> QED BY <1>1, <1>4, <1>5 DEF t

LEMMA TailMembers ==
    ASSUME NEW S, NEW s \in Seq(S), s # <<>>
    PROVE  /\ Tail(s) \in Seq(S) /\ Head(s) \in Members(s) /\ Head(s) \in S
           /\ Distinct(s) =>
                 /\ Members(Tail(s)) = Members(s) \ {Head(s)}
                 /\ Distinct(Tail(s))
<1> DEFINE t == Tail(s)
<1>1. t \in Seq(S) /\ Len(t) = Len(s) - 1 /\ \A i \in 1..Len(t) : t[i] = s[i + 1]
  OBVIOUS
<1>2. Head(s) = s[1] /\ 1 \in DOMAIN s /\ s[1] \in S /\ DOMAIN s = 1..Len(s) /\ Len(s) \in Nat
  OBVIOUS
<1> HIDE DEF t
<1>3. DOMAIN t = 1..Len(t)
  BY <1>1
<1>4. ASSUME Distinct(s) PROVE Distinct(t)
  BY <1>1, <1>2, <1>3, <1>4 DEF Distinct
<1>5. ASSUME Distinct(s) PROVE Members(t) = Members(s) \ {s[1]}
  <2>1. \A i \in DOMAIN t : t[i] \in Members(s) \ {s[1]}
    BY <1>1, <1>2, <1>3, <1>5 DEF Distinct, Members
  <2>2. ASSUME NEW i \in DOMAIN s, s[i] # s[1] PROVE s[i] \in Members(t)
    <3>1. i - 1 \in DOMAIN t /\ t[i - 1] = s[i]
      BY <1>1, <1>2, <1>3, <2>2
    <3> QED BY <3>1 DEF Members
  <2> QED BY <2>1, <2>2 DEF Members
<1> QED BY <1>1, <1>2, <1>4, <1>5 DEF Members, t

LEMMA EmptyMembers ==
    Members(<<>>) = {} /\ Distinct(<<>>) /\ \A S : <<>> \in Seq(S)
BY DEF Members, Distinct

\* What an answer changes of a call, and who waits afterwards.
LEMMA AnsweredCalls ==
    ASSUME call \in [Calls -> CallType], NEW cs, NEW st \in Statuses
    PROVE  /\ Answered(cs, st) \in [Calls -> CallType]
           /\ \A c \in Calls :
                 /\ Answered(cs, st)[c].req = call[c].req
                 /\ Answered(cs, st)[c].status = IF c \in cs THEN st ELSE call[c].status
<1>1. \A c \in Calls : call[c] \in CallType
  OBVIOUS
<1>2. \A c \in Calls :
        /\ [call[c] EXCEPT !.status = st] \in CallType
        /\ [call[c] EXCEPT !.status = st].req = call[c].req
        /\ [call[c] EXCEPT !.status = st].status = st
  BY <1>1 DEF CallType
<1> QED BY <1>1, <1>2 DEF Answered

LEMMA AnsweredWaits ==
    ASSUME call \in [Calls -> CallType], NEW cs, NEW st \in Statuses \ {"wait"}, NEW h
    PROVE  WaitsAt(Answered(cs, st), h) = WaitsAt(call, h) \ cs
BY AnsweredCalls DEF WaitsAt

LEMMA AnsweredOk ==
    ASSUME CallOk(call, sent), NEW cs, NEW st \in {"wait", "ok", "err"},
           \A c \in cs \intersect Calls : c <= sent
    PROVE  CallOk(Answered(cs, st), sent)
<1> DEFINE cl == Answered(cs, st)
<1>1. /\ cl \in [Calls -> CallType]
      /\ \A c \in Calls :
            cl[c].req = call[c].req /\ cl[c].status = IF c \in cs THEN st ELSE call[c].status
  BY AnsweredCalls DEF CallOk, Statuses
<1> HIDE DEF cl
<1>2. CallOk(cl, sent)
  BY <1>1 DEF CallOk
<1> QED BY <1>2 DEF cl

\* A call somebody holds has been sent and waits.
LEMMA HeldCalls ==
    ASSUME Types, HeldInv
    PROVE  /\ \A a \in Actors : Members(box[a]) \subseteq WaitsAt(call, a)
           /\ \A a \in Actors : job[a].call # NoCall => job[a].call \in WaitsAt(call, a)
           /\ Members(queue) \subseteq WaitsAt(call, "batcher")
           /\ Members(batch) \subseteq WaitsAt(call, "batcher")
           /\ \A h : \A c \in WaitsAt(call, h) :
                 c \in Calls /\ c \in 1..sent /\ call[c].req \in Requests
                 /\ call[c].status = "wait"
<1>1. \A a \in Actors : ActorHolds(box[a], job[a].call, WaitsAt(call, a))
  BY DEF HeldInv
<1>2. BatcherHolds(queue, batch, WaitsAt(call, "batcher"))
  BY DEF HeldInv
<1>3. \A c \in Calls : c \in Nat /\ c >= 1 /\ (c > sent => call[c].status = "idle")
                       /\ (c <= sent => call[c].req \in Requests)
  BY DEF Types, CallOk, Calls
<1>4. \A h : \A c \in WaitsAt(call, h) : c \in Calls /\ call[c].status = "wait"
  BY DEF WaitsAt
<1>5. \A h : \A c \in WaitsAt(call, h) : c \in 1..sent /\ call[c].req \in Requests
  BY <1>3, <1>4 DEF Types
<1> QED BY <1>1, <1>2, <1>4, <1>5 DEF ActorHolds, BatcherHolds

-----------------------------------------------------------------------------
(* Types *)

LEMMA TypesInit == Init => Types
<1> SUFFICES ASSUME Init PROVE Types
  OBVIOUS
<1>1. StoreOk
  BY InitialStateType DEF Init, StoreOk, TokenMap
<1>2. ActorsOk
  BY InitialStateType, NoJobOk DEF Init, ActorsOk
<1>3. BatchOk(queue, batch, todo, result)
  BY BoundsAssumption DEF Init, BatchOk
<1>4. call \in [Calls -> CallType]
  BY DEF Init, CallType, Statuses
<1>5. CallOk(call, sent) /\ sent \in 0..MaxCalls
  BY <1>4, BoundsAssumption DEF Init, CallOk, Calls
<1> QED BY <1>1, <1>2, <1>3, <1>5 DEF Init, Types

LEMMA SendTypes ==
    ASSUME Types, NEW c \in Calls, NEW r \in Requests, Send(c, r)
    PROVE  Types'
<1>1. c = sent + 1 /\ sent' = c /\ sent \in Nat /\ c \in Nat /\ sent' \in 0..MaxCalls
  BY BoundsAssumption DEF Send, Types, Calls
<1>2. StatusOf(r) \in Statuses
  BY DEF StatusOf, Statuses
<1>3. CallOk(call', sent')
  <2>1. call' = [call EXCEPT ![c] = [req |-> r, status |-> StatusOf(r)]]
    BY DEF Send
  <2>2. [req |-> r, status |-> StatusOf(r)] \in CallType
    BY <1>2 DEF CallType
  <2>3. /\ call' \in [Calls -> CallType]
        /\ call'[c].req = r /\ call'[c].status = StatusOf(r)
        /\ \A d \in Calls \ {c} : call'[d] = call[d]
    BY <2>1, <2>2 DEF Types, CallOk
  <2>4. StatusOf(r) = "submit" => r.kind = "replace"
    BY DEF StatusOf
  <2> QED BY <1>1, <2>3, <2>4, CallNumbers DEF Types, CallOk
<1>4. StoreOk'
  BY <1>1 DEF Send, storeVars, Types, StoreOk
<1>5. box' \in [Actors -> Seq(Calls)]
  <2>1. CASE StatusOf(r) = "wait"
    <3>1. ActorOf(r.kind) \in Actors
      BY <2>1, RequestParts, HomeOfRequest DEF StatusOf
    <3>2. Append(box[ActorOf(r.kind)], c) \in Seq(Calls)
      BY <3>1 DEF Types, ActorsOk
    <3> QED BY <2>1, <3>2 DEF Send, Types, ActorsOk
  <2> QED BY <2>1 DEF Send, Types, ActorsOk
<1>6. ActorsOk'
  BY <1>5 DEF Send, Types, ActorsOk
<1>7. BatchOk(queue', batch', todo', result') /\ batcher' \in BOOLEAN
  BY DEF Send, batchVars, Types
<1> QED BY <1>1, <1>3, <1>4, <1>6, <1>7 DEF Types

\* A step that leaves the store and the actors alone.
LEMMA BatchTypes ==
    ASSUME Types, UNCHANGED <<backend, storeVars, actorVars, sent>>, batcher' \in BOOLEAN,
           BatchOk(queue', batch', todo', result'), CallOk(call', sent)
    PROVE  Types'
<1>1. StoreOk' /\ ActorsOk' /\ sent' = sent
  BY DEF storeVars, actorVars, Types, StoreOk, ActorsOk
<1> QED BY <1>1 DEF Types

LEMMA BatcherTypes ==
    ASSUME Types, HeldInv,
           \/ \E c \in Calls : Submit(c)
           \/ BatchTake \/ BatchFault \/ BatchReply \/ BatchPanic
    PROVE  Types'
<1>1. ASSUME NEW c \in Calls, Submit(c) PROVE Types'
  <2>1. c <= sent
    BY <1>1, CallNumbers DEF Submit, Types, CallOk
  <2>2. CallOk(call', sent)
    BY <1>1, <2>1, AnsweredOk DEF Submit, Answer, Types, Statuses
  <2>3. BatchOk(queue', batch', todo', result')
    <3>1. CASE queue' = queue
      BY <1>1, <3>1 DEF Submit, Types
    <3>2. CASE Len(queue) < BufferSize /\ queue' = Append(queue, c)
      BY <1>1, <3>2, BoundsAssumption DEF Submit, Types, BatchOk
    <3> QED BY <1>1, <3>1, <3>2 DEF Submit
  <2> QED BY <1>1, <2>2, <2>3, BatchTypes DEF Submit, Types
<1>2. CASE BatchTake
  BY <1>2, BatchTypes, BoundsAssumption DEF BatchTake, BatchOk, Types
<1>3. CASE BatchFault
  <2>1. BatchOk(queue', batch', todo', result')
    BY <1>3 DEF BatchFault, BatchOk, Types
  <2> QED BY <1>3, <2>1, BatchTypes DEF BatchFault, Types
<1>4. CASE BatchReply
  <2> DEFINE Done(c) == \E i \in DOMAIN batch : batch[i] = c
             st(c) == IF result[CHOOSE i \in DOMAIN batch : batch[i] = c] THEN "ok" ELSE "err"
  <2>1. call' = [c \in Calls |-> IF Done(c) THEN [call[c] EXCEPT !.status = st(c)] ELSE call[c]]
    BY <1>4 DEF BatchReply
  <2>2. \A c \in Calls : Done(c) => c <= sent
    BY HeldCalls DEF Members
  <2>3. \A c \in Calls : st(c) \in Statuses /\ st(c) # "submit"
    BY DEF Statuses
  <2> HIDE DEF Done, st
  <2>4. \A c \in Calls : call[c] \in CallType
    BY DEF Types, CallOk
  <2>5. \A c \in Calls : [call[c] EXCEPT !.status = st(c)] \in CallType
                         /\ [call[c] EXCEPT !.status = st(c)].req = call[c].req
                         /\ [call[c] EXCEPT !.status = st(c)].status = st(c)
    BY <2>3, <2>4 DEF CallType
  <2>6. /\ call' \in [Calls -> CallType]
        /\ \A c \in Calls : call'[c].req = call[c].req /\ (~Done(c) => call'[c] = call[c])
        /\ \A c \in Calls : Done(c) => call'[c].status = st(c)
    BY <2>1, <2>4, <2>5
  <2>7. CallOk(call', sent)
    BY <2>2, <2>3, <2>6 DEF CallOk, Types
  <2>8. BatchOk(queue', batch', todo', result')
    BY <1>4 DEF BatchReply, BatchOk, Types
  <2> QED BY <1>4, <2>7, <2>8, BatchTypes DEF BatchReply, Types
<1>5. CASE BatchPanic
  <2>1. CallOk(call', sent)
    BY <1>5, HeldCalls, AnsweredOk DEF BatchPanic, Types, Members, Statuses
  <2>2. BatchOk(queue', batch', todo', result')
    BY <1>5, BoundsAssumption DEF BatchPanic, BatchOk
  <2> QED BY <1>5, <2>1, <2>2, BatchTypes DEF BatchPanic, Types
<1> QED BY <1>1, <1>2, <1>3, <1>4, <1>5

\* A step of the store for the batcher or an actor.
LEMMA StoreTypes ==
    ASSUME StoreOk, UNCHANGED <<backend, stored, sent>>, tokens' \in TokenMap,
           audit' = audit \/ \E c \in 1..sent, i \in Nat : audit' = audit \union {<<c, i>>}
    PROVE  StoreOk'
BY DEF StoreOk

LEMMA ReplaceWritesType ==
    ASSUME StoreOk, NEW r \in Requests
    PROVE  ReplaceWrites(r) \in TokenMap
<1>1. r.ins \in Seq(Tokens) /\ r.outs \in Seq(Tokens) /\ tokens \in TokenMap
  BY RequestParts DEF StoreOk
<1>2. CASE backend = "redis"
  BY <1>1, <1>2, LuaReplaceType DEF ReplaceWrites
<1>3. CASE backend # "redis" /\ ReplaceOk(r)
  <2>1. \A k \in KeysOf(r.ins) : tokens[k] # Absent
    BY <1>3 DEF ReplaceOk, DynamoReplaceOk, KeysOf
  <2>2. MarkSpent(tokens, KeysOf(r.ins)) \in TokenMap
    BY <1>1, <2>1, ListKeys, MarkSpentType
  <2> QED BY <1>1, <1>3, <2>2, PutAllType DEF ReplaceWrites, DynamoReplace
<1>4. CASE backend # "redis" /\ ~ReplaceOk(r)
  BY <1>1, <1>4 DEF ReplaceWrites
<1> QED BY <1>2, <1>3, <1>4

LEMMA BatchRunTypes ==
    ASSUME Types, HeldInv, NEW i \in todo, BatchRun(i)
    PROVE  Types'
<1>1. i \in DOMAIN batch /\ batch[i] \in 1..sent /\ call[batch[i]].req \in Requests
  <2>1. i \in DOMAIN batch
    BY DEF Types, BatchOk
  <2>2. batch[i] \in WaitsAt(call, "batcher")
    BY <2>1, HeldCalls DEF Members
  <2> QED BY <2>1, <2>2, HeldCalls
<1>2. StoreOk'
  BY <1>1, ReplaceWritesType, StoreTypes DEF BatchRun, Types
<1>3. ReplaceOk(call[batch[i]].req) \in BOOLEAN
  BY DEF ReplaceOk, LuaReplaceOk, LuaInputsOk, DynamoReplaceOk
<1>4. BatchOk(queue', batch', todo', result') /\ batcher' \in BOOLEAN
  BY <1>1, <1>3 DEF BatchRun, Types, BatchOk
<1>5. ActorsOk' /\ CallOk(call', sent') /\ sent' \in 0..MaxCalls
  BY DEF BatchRun, Types, ActorsOk, actorVars
<1> QED BY <1>2, <1>4, <1>5 DEF Types

\* The parts of Types that an actor's step may disturb.
LEMMA ActorTypes ==
    ASSUME Types, UNCHANGED <<batchVars, sent>>, StoreOk', ActorsOk', CallOk(call', sent)
    PROVE  Types'
BY DEF Types, batchVars

LEMMA JobChanged ==
    ASSUME ActorsOk, NEW a \in Actors, NEW j, JobOk(j), job' = [job EXCEPT ![a] = j]
    PROVE  DOMAIN job' = Actors /\ \A b \in Actors : JobOk(job'[b])
BY DEF ActorsOk

LEMMA FinishOk ==
    ASSUME Types, HeldInv, NEW a \in Actors, NEW st \in {"ok", "err"}, Finish(a, st)
    PROVE  /\ DOMAIN job' = Actors /\ \A b \in Actors : JobOk(job'[b])
           /\ CallOk(call', sent)
<1>1. DOMAIN job' = Actors /\ \A b \in Actors : JobOk(job'[b])
  BY NoJobOk, JobChanged DEF Finish, Types
<1>2. \A c \in {job[a].call} \intersect Calls : c <= sent
  BY HeldCalls, CallNumbers
<1>3. CallOk(call', sent)
  BY <1>2, AnsweredOk DEF Finish, Answer, Types
<1> QED BY <1>1, <1>3

LEMMA PopOk ==
    ASSUME Types, NEW a \in Actors, NEW c, Head1(a, c), Pop(a)
    PROVE  /\ box' \in [Actors -> Seq(Calls)]
           /\ c \in Members(box[a]) /\ c = Head(box[a]) /\ c \in Calls /\ job[a] = NoJob
<1>1. box[a] \in Seq(Calls) /\ box[a] # <<>> /\ c = Head(box[a]) /\ job[a] = NoJob
  BY DEF Types, ActorsOk, Head1
<1>2. Tail(box[a]) \in Seq(Calls) /\ c \in Members(box[a]) /\ c \in Calls
  BY <1>1, TailMembers
<1> QED BY <1>1, <1>2 DEF Pop, Types, ActorsOk

LEMMA ReadOnlyTypes ==
    ASSUME Types, HeldInv, NEW a \in Actors, NEW c \in Calls, ReadOnly(a, c)
    PROVE  Types'
<1>1. box' \in [Actors -> Seq(Calls)] /\ c \in Members(box[a])
  BY PopOk DEF ReadOnly
<1>2. c \in 1..sent
  <2>1. c \in WaitsAt(call, a)
    BY <1>1, HeldCalls
  <2> QED BY <2>1, HeldCalls
<1>3. CallOk(call', sent)
  BY <1>2, AnsweredOk DEF ReadOnly, Answer, Types, Statuses
<1>4. StoreOk' /\ ActorsOk'
  BY <1>1 DEF ReadOnly, storeVars, Types, StoreOk, ActorsOk
<1> QED BY <1>3, <1>4, ActorTypes DEF ReadOnly

LEMMA BurnTypes ==
    ASSUME Types, HeldInv,
           \/ \E c \in Calls : BurnStart(c)
           \/ \E i \in job["ledger"].todo : BurnOne(i)
           \/ BurnReply \/ BurnFault
    PROVE  Types'
<1> USE DEF Actors
<1>1. ASSUME NEW c \in Calls, BurnStart(c) PROVE Types'
  <2> DEFINE j == [NoJob EXCEPT !.call = c, !.step = "burn",
                                !.todo = DOMAIN call[c].req.ins]
  <2>1. box' \in [Actors -> Seq(Calls)] /\ c \in Members(box["ledger"])
    BY <1>1, PopOk DEF BurnStart
  <2>2. call[c].req \in Requests
    BY <2>1, HeldCalls
  <2>3. DOMAIN call[c].req.ins \in SUBSET Nat
    BY <2>2, RequestParts
  <2>4. JobOk(j)
    BY <2>3, NoJobOk, CallNumbers DEF JobOk, JobType
  <2>5. job' = [job EXCEPT !["ledger"] = j]
    BY <1>1 DEF BurnStart
  <2> HIDE DEF j
  <2>6. ActorsOk'
    BY <1>1, <2>1, <2>4, <2>5, JobChanged DEF BurnStart, Types, ActorsOk
  <2>7. StoreOk'
    BY <1>1 DEF BurnStart, storeVars, Types, StoreOk
  <2> QED BY <1>1, <2>6, <2>7, ActorTypes DEF BurnStart, Types
<1>2. ASSUME NEW i \in job["ledger"].todo, BurnOne(i) PROVE Types'
  <2> DEFINE j == job["ledger"]
             k == call[j.call].req.ins[i].key
  <2>1. /\ j.step = "burn"
        /\ tokens' = IF BurnOk(k) THEN MarkSpent(tokens, {k}) ELSE tokens
        /\ audit' = IF BurnOk(k) THEN audit \union {<<j.call, i>>} ELSE audit
        /\ job' = [job EXCEPT !["ledger"].todo = @ \ {i},
                              !["ledger"].failed = @ \/ ~BurnOk(k)]
    BY <1>2 DEF BurnOne
  <2>2. JobOk(j) /\ j \in JobType /\ j.call # NoCall /\ i \in Nat
    BY <1>2, <2>1 DEF Types, ActorsOk, JobOk, JobType
  <2>3. j.call \in 1..sent
    BY <2>2, HeldCalls
  <2>4. tokens' \in TokenMap
    <3>1. CASE BurnOk(k) /\ k \in Keys
      <4>1. tokens[k] # Absent
        BY <3>1 DEF BurnOk, LuaBurnOk, DynamoBurnOk
      <4> HIDE DEF k
      <4> QED BY <2>1, <3>1, <4>1, MarkSpentType DEF Types, StoreOk
    <3>2. CASE k \notin Keys
      <4> HIDE DEF k
      <4> QED BY <2>1, <3>2 DEF MarkSpent, Types, StoreOk, TokenMap
    <3>3. CASE ~BurnOk(k)
      BY <2>1, <3>3 DEF Types, StoreOk
    <3> QED BY <3>1, <3>2, <3>3
  <2>5. StoreOk'
    BY <1>2, <2>1, <2>2, <2>3, <2>4, StoreTypes DEF BurnOne, Types
  <2> HIDE DEF k
  <2>6. JobOk(job'["ledger"]) /\ DOMAIN job' = Actors
        /\ \A b \in Actors \ {"ledger"} : job'[b] = job[b]
    BY <2>1, <2>2 DEF Types, ActorsOk, JobOk, JobType
  <2>7. ActorsOk'
    BY <1>2, <2>6 DEF BurnOne, Types, ActorsOk
  <2> QED BY <1>2, <2>5, <2>7, ActorTypes DEF BurnOne, Types
<1>3. CASE BurnReply \/ BurnFault
  <2>1. \E st \in {"ok", "err"} : Finish("ledger", st)
    BY <1>3 DEF BurnReply, BurnFault
  <2>2. DOMAIN job' = Actors /\ (\A b \in Actors : JobOk(job'[b])) /\ CallOk(call', sent)
    BY <2>1, FinishOk
  <2>3. StoreOk' /\ ActorsOk'
    BY <1>3, <2>2 DEF BurnReply, BurnFault, storeVars, Types, StoreOk, ActorsOk
  <2> QED BY <1>3, <2>2, <2>3, ActorTypes DEF BurnReply, BurnFault
<1> QED BY <1>1, <1>2, <1>3

LEMMA PayoutIsNat == ASSUME NEW r \in Requests PROVE Payout(r) \in Nat
<1>1. SubsidyAmount \in Nat /\ Len(r.subs) \in Nat /\ MiningAmount \in Nat
  BY BoundsAssumption, RequestParts
<1>2. \A a, b \in Nat : a * b \in Nat
  OBVIOUS
<1>3. SubsidyAmount * Len(r.subs) \in Nat
  BY <1>1, <1>2
<1> QED BY <1>1, <1>3 DEF Payout

LEMMA NextStateType ==
    ASSUME Types, NEW r \in Requests, NEW time \in {"fast", "slow"}
    PROVE  NextState(r, time) \in MiningStateType /\ OneReport(mem, NextState(r, time))
<1> DEFINE count == mem.count + 1
           ends == count % ReportsPerEpoch = 0
           adjusted == AdjustDifficulty(mem.diff, time)
           diff == IF ends THEN adjusted ELSE mem.diff
           epoch == IF ends THEN mem.epoch + 1 ELSE mem.epoch
           circulation == mem.circulation + Payout(r)
<1>1. mem.count \in Nat /\ mem.circulation \in Int /\ mem.diff \in Nat /\ mem.epoch \in Nat
  BY DEF Types, ActorsOk, MiningStateType
<1>2. adjusted \in Nat /\ (adjusted # mem.diff => adjusted - mem.diff \in {-1, 1})
  BY <1>1 DEF AdjustDifficulty, Max2
<1>3. Payout(r) \in Nat
  BY PayoutIsNat
<1>4. NextState(r, time) = [count |-> count, circulation |-> circulation,
                            diff |-> diff, epoch |-> epoch]
  BY DEF NextState
<1> HIDE DEF adjusted, ends
<1>5. count \in Nat /\ circulation \in Int /\ diff \in Nat /\ epoch \in Nat
  BY <1>1, <1>2, <1>3
<1>6. diff # mem.diff => diff - mem.diff \in {-1, 1} /\ ends
  BY <1>2
<1> HIDE DEF diff, epoch, circulation
<1>7. NextState(r, time) \in MiningStateType
  BY <1>4, <1>5 DEF MiningStateType
<1>8. OneReport(mem, NextState(r, time))
  BY <1>4, <1>6 DEF OneReport, ends
<1> QED BY <1>7, <1>8

\* The job a report that passes every check begins.
MineJob(c, time) ==
    [NoJob EXCEPT !.call = c, !.step = "state",
                  !.tokens = RecordsOf(call[c].req),
                  !.todo = FirstOfEachKey(RecordsOf(call[c].req)),
                  !.next = NextState(call[c].req, time)]

LEMMA MineJobOk ==
    ASSUME Types, NEW c \in Calls, call[c].req \in Requests, NEW time \in {"fast", "slow"}
    PROVE  /\ JobOk(MineJob(c, time)) /\ MineJob(c, time).call = c
           /\ MineJob(c, time).step = "state" /\ MineJob(c, time).made = {}
           /\ OneReport(mem, MineJob(c, time).next)
<1> DEFINE ts == RecordsOf(call[c].req)
           ps == FirstOfEachKey(ts)
           n == NextState(call[c].req, time)
           j == [NoJob EXCEPT !.call = c, !.step = "state", !.tokens = ts, !.todo = ps, !.next = n]
<1>1. ts \in Seq(Tokens)
  BY RequestParts DEF RecordsOf
<1>2. ps \in SUBSET Nat /\ ps \subseteq DOMAIN ts
  <2> HIDE DEF ts
  <2> QED BY <1>1 DEF FirstOfEachKey
<1>3. n \in MiningStateType /\ OneReport(mem, n)
  BY NextStateType
<1>4. MineJob(c, time) = j
  BY DEF MineJob
<1> HIDE DEF ts, ps, n
<1>5. /\ j \in JobType /\ j.call = c /\ j.step = "state" /\ j.next = n
      /\ j.todo = ps /\ j.tokens = ts /\ j.made = {}
  BY <1>1, <1>2, <1>3, NoJobOk DEF JobOk, JobType
<1> HIDE DEF j
<1> QED BY <1>2, <1>3, <1>4, <1>5, CallNumbers DEF JobOk

LEMMA MineStartTypes ==
    ASSUME Types, HeldInv, NEW c \in Calls, MineStart(c)
    PROVE  Types'
<1> USE DEF Actors
<1>1. box' \in [Actors -> Seq(Calls)] /\ c \in Members(box["miner"])
  BY PopOk DEF MineStart
<1>2. c \in 1..sent /\ call[c].req \in Requests
  <2>1. c \in WaitsAt(call, "miner")
    BY <1>1, HeldCalls
  <2> QED BY <2>1, HeldCalls
<1>3. StoreOk'
  BY DEF MineStart, storeVars, Types, StoreOk
<1>4. CASE job' = job /\ Answer(c, "err")
  <2>1. CallOk(call', sent)
    BY <1>2, <1>4, AnsweredOk DEF Answer, Types, Statuses
  <2>2. ActorsOk'
    BY <1>1, <1>4 DEF MineStart, Types, ActorsOk
  <2> QED BY <1>3, <2>1, <2>2, ActorTypes DEF MineStart
<1>5. CASE call' = call /\ \E time \in {"fast", "slow"} :
                              job' = [job EXCEPT !["miner"] = MineJob(c, time)]
  <2>1. PICK time \in {"fast", "slow"} : job' = [job EXCEPT !["miner"] = MineJob(c, time)]
    BY <1>5
  <2>2. DOMAIN job' = Actors /\ \A b \in Actors : JobOk(job'[b])
    BY <1>2, <2>1, MineJobOk, JobChanged DEF Types
  <2>3. ActorsOk'
    BY <1>1, <2>2 DEF MineStart, Types, ActorsOk
  <2> QED BY <1>3, <1>5, <2>3, ActorTypes DEF MineStart, Types
<1> QED BY <1>4, <1>5 DEF MineStart, MineJob

\* One field of the miner's job changes.
LEMMA MinerJob ==
    ASSUME ActorsOk
    PROVE  LET j == job["miner"]
           IN  /\ j \in JobType /\ j.todo \in SUBSET Nat /\ j.made \in SUBSET Nat
               /\ j.tokens \in Seq(Tokens) /\ j.next \in MiningStateType
               /\ j.step # "idle" => j.call \in Calls
               /\ j.made \subseteq DOMAIN j.tokens
               /\ j.step \in {"state", "insert"} => j.todo \subseteq DOMAIN j.tokens
BY DEF ActorsOk, JobOk, JobType, Actors

LEMMA MineStateTypes ==
    ASSUME Types, HeldInv, MineState
    PROVE  Types'
<1> USE DEF Actors
<1>1. stored' \in MiningStateType
  BY MinerJob DEF MineState, Types, StoreOk
<1>2. StoreOk'
  BY <1>1 DEF MineState, Types, StoreOk
<1>3. CASE job' = [job EXCEPT !["miner"].step = "insert"] /\ call' = call
  <2>1. JobOk(job'["miner"]) /\ DOMAIN job' = Actors
        /\ \A b \in Actors \ {"miner"} : job'[b] = job[b]
    BY <1>3 DEF MineState, Types, ActorsOk, JobOk, JobType
  <2>2. ActorsOk'
    BY <2>1 DEF MineState, Types, ActorsOk
  <2> QED BY <1>2, <1>3, <2>2, ActorTypes DEF MineState, Types
<1>4. CASE Finish("miner", "err")
  <2>1. DOMAIN job' = Actors /\ (\A b \in Actors : JobOk(job'[b])) /\ CallOk(call', sent)
    BY <1>4, FinishOk DEF Statuses
  <2>2. ActorsOk'
    BY <2>1 DEF MineState, Types, ActorsOk
  <2> QED BY <1>2, <2>1, <2>2, ActorTypes DEF MineState
<1> QED BY <1>3, <1>4 DEF MineState

\* One command or put of insert_tokens, seen from the store.
LEMMA InsertWrites ==
    ASSUME NEW map \in TokenMap, NEW t \in Tokens
    PROVE  /\ HSetNx(map, t) \in TokenMap /\ HSetNx(map, t)[t.key] # Absent
           /\ DynamoPut(map, t, "mined") \in TokenMap
           /\ map[t.key] # Absent => HSetRest(map, t, "mined") \in TokenMap
           /\ \A k \in Keys : map[k] # Absent =>
                 /\ HSetNx(map, t)[k] # Absent /\ DynamoPut(map, t, "mined")[k] # Absent
                 /\ HSetRest(map, t, "mined")[k] # Absent
<1> DEFINE key == t.key
           fresh == [amount |-> t.amount, spent |-> "unset", origin |-> "unset"]
           put == RecordFromSecret(t, "mined")
           rest == [map[key] EXCEPT !.spent = "no", !.origin = "mined"]
<1>1. key \in Keys /\ t.amount \in Int
  BY TokenParts
<1>2. fresh \in TokenRecord /\ put \in TokenRecord
  BY <1>1, FreshRecord DEF TokenRecord
<1>3. map[key] # Absent => rest \in TokenRecord
  BY <1>1 DEF TokenMap, TokenRecord
<1>4. /\ HSetNx(map, t) = [map EXCEPT ![key] = fresh]
      /\ DynamoPut(map, t, "mined") = [map EXCEPT ![key] = put]
      /\ HSetRest(map, t, "mined") = [map EXCEPT ![key] = rest]
  BY DEF HSetNx, DynamoPut, HSetRest
<1> HIDE DEF key, fresh, put, rest
<1> QED BY <1>1, <1>2, <1>3, <1>4, AbsentIsNoRecord DEF TokenMap, key

\* One step of the insert of the miner's job.
Inserts(i) ==
    \/ i \in job["miner"].todo /\ (InsertNx(i) \/ InsertPut(i))
    \/ i \in job["miner"].made /\ InsertRest(i)

\* What it does to the job.
LEMMA InsertJob ==
    ASSUME Types, NEW i, Inserts(i)
    PROVE  LET j == job["miner"]  jj == job'["miner"]
           IN  /\ JobOk(jj) /\ DOMAIN job' = Actors
               /\ \A b \in Actors \ {"miner"} : job'[b] = job[b]
               /\ jj.call = j.call /\ jj.step = j.step /\ jj.next = j.next
               /\ jj.tokens = j.tokens /\ jj.made \subseteq j.made \union {i}
               /\ jj.made \subseteq j.made \/ (InsertNx(i) /\ HSetNxCreates(tokens, j.tokens[i]))
               /\ j.tokens[i] \in Tokens /\ j.step = "insert"
<1> DEFINE j == job["miner"]
<1>1. j \in JobType /\ JobOk(j) /\ j.step = "insert" /\ "miner" \in Actors /\ DOMAIN job = Actors
  BY DEF Types, ActorsOk, JobOk, Actors, Inserts, InsertNx, InsertPut, InsertRest
<1>2. i \in DOMAIN j.tokens /\ j.tokens \in Seq(Tokens)
  BY <1>1 DEF JobOk, JobType, Inserts
<1>3. j.tokens[i] \in Tokens /\ i \in Nat
  BY <1>2
<1>4. CASE InsertNx(i) /\ HSetNxCreates(tokens, j.tokens[i])
  <2>1. job' = [job EXCEPT !["miner"].todo = @ \ {i}, !["miner"].made = @ \union {i}]
    BY <1>4 DEF InsertNx
  <2>2. /\ job'["miner"] \in JobType /\ job'["miner"].call = j.call
        /\ job'["miner"].step = j.step /\ job'["miner"].next = j.next
        /\ job'["miner"].tokens = j.tokens /\ job'["miner"].todo = j.todo \ {i}
        /\ job'["miner"].made = j.made \union {i}
        /\ \A b \in Actors \ {"miner"} : job'[b] = job[b]
    BY <1>1, <1>3, <2>1 DEF JobType
  <2> QED BY <1>1, <1>2, <1>3, <1>4, <2>1, <2>2 DEF JobOk
<1>5. CASE InsertNx(i) /\ ~HSetNxCreates(tokens, j.tokens[i])
  <2>1. job' = [job EXCEPT !["miner"].todo = @ \ {i}, !["miner"].failed = TRUE]
    BY <1>5 DEF InsertNx
  <2>2. /\ job'["miner"] \in JobType /\ job'["miner"].call = j.call
        /\ job'["miner"].step = j.step /\ job'["miner"].next = j.next
        /\ job'["miner"].tokens = j.tokens /\ job'["miner"].todo = j.todo \ {i}
        /\ job'["miner"].made = j.made
        /\ \A b \in Actors \ {"miner"} : job'[b] = job[b]
    BY <1>1, <2>1 DEF JobType
  <2> QED BY <1>1, <1>2, <1>3, <2>1, <2>2 DEF JobOk
<1>6. CASE InsertPut(i)
  <2>1. job' = [job EXCEPT !["miner"].todo = @ \ {i}]
    BY <1>6 DEF InsertPut
  <2>2. /\ job'["miner"] \in JobType /\ job'["miner"].call = j.call
        /\ job'["miner"].step = j.step /\ job'["miner"].next = j.next
        /\ job'["miner"].tokens = j.tokens /\ job'["miner"].todo = j.todo \ {i}
        /\ job'["miner"].made = j.made
        /\ \A b \in Actors \ {"miner"} : job'[b] = job[b]
    BY <1>1, <2>1 DEF JobType
  <2> QED BY <1>1, <1>2, <1>3, <2>1, <2>2 DEF JobOk
<1>7. CASE InsertRest(i)
  <2>1. job' = [job EXCEPT !["miner"].made = @ \ {i}]
    BY <1>7 DEF InsertRest
  <2>2. /\ job'["miner"] \in JobType /\ job'["miner"].call = j.call
        /\ job'["miner"].step = j.step /\ job'["miner"].next = j.next
        /\ job'["miner"].tokens = j.tokens /\ job'["miner"].todo = j.todo
        /\ job'["miner"].made = j.made \ {i}
        /\ \A b \in Actors \ {"miner"} : job'[b] = job[b]
    BY <1>1, <2>1 DEF JobType
  <2> QED BY <1>1, <1>2, <1>3, <2>1, <2>2 DEF JobOk
<1> QED BY <1>4, <1>5, <1>6, <1>7 DEF Inserts

LEMMA InsertTypes ==
    ASSUME Types, MadeInv, NEW i, Inserts(i)
    PROVE  Types' /\ MadeInv'
<1> DEFINE j == job["miner"]
           t == j.tokens[i]
<1>1. /\ DOMAIN job' = Actors /\ \A b \in Actors : JobOk(job'[b])
      /\ job'["miner"].tokens = j.tokens /\ job'["miner"].made \subseteq j.made \union {i}
      /\ job'["miner"].made \subseteq j.made \/ (InsertNx(i) /\ HSetNxCreates(tokens, t))
      /\ t \in Tokens
  BY InsertJob DEF Types, ActorsOk
<1>2. /\ UNCHANGED <<backend, audit, stored, up, sup, box, mem, batchVars, call, sent>>
      /\ InsertNx(i) /\ HSetNxCreates(tokens, t) => tokens' = HSetNx(tokens, t)
      /\ \/ tokens' = HSetNx(tokens, t) \/ tokens' = tokens
         \/ tokens' = DynamoPut(tokens, t, "mined")
         \/ i \in j.made /\ tokens' = HSetRest(tokens, t, "mined")
  BY DEF Inserts, InsertNx, InsertPut, InsertRest
<1>3. tokens \in TokenMap
  BY DEF Types, StoreOk
<1>4. i \in j.made => tokens[t.key] # Absent
  BY DEF MadeInv
<1> HIDE DEF t
<1>5. tokens' \in TokenMap /\ \A k \in Keys : tokens[k] # Absent => tokens'[k] # Absent
  BY <1>1, <1>2, <1>3, <1>4, InsertWrites
<1>6. StoreOk' /\ ActorsOk'
  BY <1>1, <1>2, <1>5 DEF Types, StoreOk, ActorsOk
<1>7. Types'
  BY <1>2, <1>6, ActorTypes DEF Types
<1>8. ASSUME NEW m \in job'["miner"].made PROVE tokens'[j.tokens[m].key] # Absent
  <2>1. CASE m \in j.made
    <3>1. tokens[j.tokens[m].key] # Absent
      BY <2>1 DEF MadeInv
    <3>2. j.tokens[m].key \in Keys
      <4>1. m \in DOMAIN j.tokens /\ j.tokens \in Seq(Tokens)
        BY <2>1, MinerJob DEF Types, Inserts, InsertNx, InsertPut, InsertRest
      <4>2. j.tokens[m] \in Tokens
        BY <4>1
      <4> QED BY <4>2, TokenParts
    <3> QED BY <1>5, <3>1, <3>2
  <2>2. CASE m \notin j.made
    <3>1. m = i /\ tokens' = HSetNx(tokens, t)
      BY <1>1, <1>2, <1>8, <2>2
    <3>2. tokens'[t.key] # Absent
      BY <1>1, <1>3, <3>1, InsertWrites
    <3> QED BY <3>1, <3>2 DEF t
  <2> QED BY <2>1, <2>2
<1> QED BY <1>1, <1>7, <1>8 DEF MadeInv

LEMMA MineReplyTypes ==
    ASSUME Types, HeldInv, MineReply \/ InsertFault
    PROVE  Types'
<1> USE DEF Actors
<1>1. \E st \in {"ok", "err"} : Finish("miner", st)
  BY DEF MineReply, InsertFault
<1>2. DOMAIN job' = Actors /\ (\A b \in Actors : JobOk(job'[b])) /\ CallOk(call', sent)
  BY <1>1, FinishOk
<1>3. mem' \in MiningStateType
  BY MinerJob DEF MineReply, InsertFault, Types, ActorsOk
<1>4. StoreOk' /\ ActorsOk'
  BY <1>2, <1>3 DEF MineReply, InsertFault, storeVars, Types, StoreOk, ActorsOk
<1> QED BY <1>2, <1>4, ActorTypes DEF MineReply, InsertFault

\* Who the actors of gone were about to answer.
LEMMA StopOk ==
    ASSUME Types, HeldInv, NEW gone \in SUBSET Actors, Stop(gone)
    PROVE  /\ up' \subseteq Actors /\ box' \in [Actors -> Seq(Calls)]
           /\ DOMAIN job' = Actors /\ (\A b \in Actors : JobOk(job'[b]))
           /\ CallOk(call', sent)
<1>1. up' \subseteq Actors /\ box' \in [Actors -> Seq(Calls)]
  BY EmptyMembers DEF Stop, Types, ActorsOk
<1>2. DOMAIN job' = Actors /\ \A b \in Actors : JobOk(job'[b])
  BY NoJobOk DEF Stop, Types, ActorsOk
<1>3. \A a \in gone : \A c \in CallersOf(a) : c \in WaitsAt(call, a)
  BY HeldCalls DEF CallersOf, Members
<1>4. \A c \in UNION {CallersOf(a) : a \in gone} : c <= sent
  BY <1>3, HeldCalls
<1>5. CallOk(call', sent)
  BY <1>4, AnsweredOk DEF Stop, Types, Statuses
<1> QED BY <1>1, <1>2, <1>5

LEMMA SupervisionTypes ==
    ASSUME Types, HeldInv,
           (\E a \in Actors : Panic(a) \/ Restart(a)) \/ RestartFails
    PROVE  Types'
<1>1. CASE (\E a \in Actors : Panic(a)) \/ RestartFails
  <2>1. PICK gone \in SUBSET Actors : Stop(gone)
    BY <1>1 DEF Panic, RestartFails
  <2>2. StoreOk' /\ ActorsOk'
    BY <1>1, <2>1, StopOk DEF Panic, RestartFails, storeVars, Types, StoreOk, ActorsOk
  <2> QED BY <1>1, <2>1, <2>2, StopOk, ActorTypes DEF Panic, RestartFails
<1>2. CASE \E a \in Actors : Restart(a)
  <2>1. StoreOk' /\ ActorsOk'
    BY <1>2 DEF Restart, PreStart, storeVars, Types, StoreOk, ActorsOk
  <2> QED BY <1>2, <2>1, ActorTypes DEF Restart, Types
<1> QED BY <1>1, <1>2

LEMMA RebootTypes ==
    ASSUME Types, Reboot
    PROVE  Types'
<1>1. StoreOk' /\ ActorsOk'
  BY NoJobOk, EmptyMembers DEF Reboot, PreStart, storeVars, Types, StoreOk, ActorsOk
<1>2. BatchOk(queue', batch', todo', result') /\ batcher' \in BOOLEAN
  BY BoundsAssumption, EmptyMembers DEF Reboot, BatchOk
<1>3. \A c \in {d \in Calls : Waiting(d)} \intersect Calls : c <= sent
  BY CallNumbers DEF Waiting, Types, CallOk
<1>4. CallOk(call', sent')
  BY <1>3, AnsweredOk DEF Reboot, Types, Statuses
<1> QED BY <1>1, <1>2, <1>4 DEF Reboot, Types

-----------------------------------------------------------------------------
(* What a step does to the miner and to the token records *)

LEMMA MinerFrame ==
    ASSUME Types, [Next]_vars
    PROVE  \/ /\ UNCHANGED <<mem, stored, accepted, claimed>>
              /\ \/ job'["miner"] = job["miner"] /\ ("miner" \in up => "miner" \in up')
                 \/ job'["miner"] = NoJob
           \/ (\E c \in Calls : MineStart(c)) \/ MineState \/ MineReply
           \/ \E i : Inserts(i)
           \/ (\E a \in Actors : Restart(a)) \/ Reboot
<1> DEFINE Frame == /\ UNCHANGED <<mem, stored, accepted, claimed>>
                    /\ \/ job'["miner"] = job["miner"] /\ ("miner" \in up => "miner" \in up')
                       \/ job'["miner"] = NoJob
<1>1. DOMAIN job = Actors /\ "miner" \in Actors /\ "ledger" \in Actors
  BY DEF Types, ActorsOk, Actors
<1>2. CASE (\E c \in Calls, r \in Requests : Send(c, r)) \/ (\E c \in Calls : Submit(c))
  BY <1>2 DEF Send, Submit, storeVars, actorVars, history
<1>3. CASE BatchStep \/ BatchFault \/ BatchPanic
  BY <1>3 DEF BatchStep, BatchTake, BatchReply, BatchRun, BatchFault, BatchPanic,
              storeVars, actorVars, history
<1>4. CASE LedgerStep \/ StatsStep \/ BurnFault
  BY <1>1, <1>4 DEF LedgerStep, StatsStep, BurnStart, ReadOnly, BurnOne, BurnReply,
                    BurnFault, Finish, storeVars, history
<1>5. CASE \E c \in Calls : ReadOnly("miner", c)
  BY <1>5 DEF ReadOnly, storeVars, history
<1>6. CASE InsertFault
  BY <1>1, <1>6 DEF InsertFault, Finish, storeVars, history
<1>7. CASE (\E a \in Actors : Panic(a)) \/ RestartFails
  BY <1>1, <1>7 DEF Panic, RestartFails, Stop, storeVars, history
<1>8. CASE UNCHANGED vars
  BY <1>8 DEF vars
<1> QED BY <1>2, <1>3, <1>4, <1>5, <1>6, <1>7, <1>8 DEF Next, MinerStep, Inserts

LEMMA TokensFrame ==
    ASSUME [Next]_vars
    PROVE  \/ tokens' = tokens
           \/ \E i \in todo : BatchRun(i)
           \/ \E i \in job["ledger"].todo : BurnOne(i)
           \/ \E i : Inserts(i)
<1>2. CASE (\E c \in Calls, r \in Requests : Send(c, r)) \/ (\E c \in Calls : Submit(c))
  BY <1>2 DEF Send, Submit, storeVars
<1>3. CASE BatchTake \/ BatchReply \/ BatchFault \/ BatchPanic
  BY <1>3 DEF BatchTake, BatchReply, BatchFault, BatchPanic, storeVars
<1>4. CASE \/ \E c \in Calls : BurnStart(c) \/ ReadOnly("ledger", c)
           \/ BurnReply \/ BurnFault \/ StatsStep
  BY <1>4 DEF StatsStep, BurnStart, ReadOnly, BurnReply, BurnFault, storeVars
<1>5. CASE \/ \E c \in Calls : MineStart(c) \/ ReadOnly("miner", c)
           \/ MineState \/ MineReply \/ InsertFault
  BY <1>5 DEF MineStart, ReadOnly, MineState, MineReply, InsertFault, storeVars
<1>6. CASE (\E a \in Actors : Panic(a) \/ Restart(a)) \/ RestartFails \/ Reboot
  BY <1>6 DEF Panic, Restart, RestartFails, Reboot, storeVars
<1>7. CASE UNCHANGED vars
  BY <1>7 DEF vars
<1> QED BY <1>2, <1>3, <1>4, <1>5, <1>6, <1>7 DEF Next, BatchStep, LedgerStep, MinerStep, Inserts

\* What a replace or a burn leaves of a record that exists.
LEMMA ReplaceKeeps ==
    ASSUME StoreOk, NEW r \in Requests, NEW k \in Keys, tokens[k] # Absent
    PROVE  /\ ReplaceWrites(r)[k] # Absent
           /\ SpentIn(tokens, k) => SpentIn(ReplaceWrites(r), k)
<1>1. r.ins \in Seq(Tokens) /\ r.outs \in Seq(Tokens) /\ tokens \in TokenMap
  BY RequestParts DEF StoreOk
<1>2. CASE backend = "redis"
  BY <1>1, <1>2, LuaReplaceType, LuaReplaceKeepsSpent DEF ReplaceWrites
<1>3. CASE backend # "redis" /\ ReplaceOk(r)
  <2> DEFINE marked == MarkSpent(tokens, KeysOf(r.ins))
  <2>1. k \notin KeysOf(r.outs)
    BY <1>3 DEF ReplaceOk, DynamoReplaceOk, KeysOf
  <2>2. ReplaceWrites(r)[k] = marked[k]
    BY <1>3, <2>1 DEF ReplaceWrites, DynamoReplace, PutAll
  <2>3. tokens[k] \in TokenRecord
    BY <1>1 DEF TokenMap
  <2>4. marked[k] # Absent
    BY <2>3, ClosedRecord DEF MarkSpent
  <2>5. SpentIn(tokens, k) => SpentIn(marked, k)
    BY <1>1, MarkKeepsSpent
  <2> HIDE DEF marked
  <2> QED BY <2>2, <2>4, <2>5 DEF SpentIn
<1>4. CASE backend # "redis" /\ ~ReplaceOk(r)
  BY <1>4 DEF ReplaceWrites
<1> QED BY <1>2, <1>3, <1>4

LEMMA MarkKeeps ==
    ASSUME tokens \in TokenMap, NEW ks, NEW k \in Keys, tokens[k] # Absent
    PROVE  MarkSpent(tokens, ks)[k] # Absent
<1>1. tokens[k] \in TokenRecord
  BY DEF TokenMap
<1> QED BY <1>1, ClosedRecord DEF MarkSpent

LEMMA MadeStep ==
    ASSUME Types, HeldInv, MadeInv, [Next]_vars
    PROVE  MadeInv'
<1>1. CASE \E i : Inserts(i)
  BY <1>1, InsertTypes
<1>2. CASE ~\E i : Inserts(i)
  <2>1. \A k \in Keys : tokens[k] # Absent => tokens'[k] # Absent
    <3>1. ASSUME NEW i \in todo, BatchRun(i)
          PROVE  \A k \in Keys : tokens[k] # Absent => tokens'[k] # Absent
      <4>1. i \in DOMAIN batch
        BY DEF Types, BatchOk
      <4>2. batch[i] \in WaitsAt(call, "batcher")
        BY <4>1, HeldCalls DEF Members
      <4>3. call[batch[i]].req \in Requests
        BY <4>2, HeldCalls
      <4> QED BY <3>1, <4>3, ReplaceKeeps DEF BatchRun, Types
    <3>2. ASSUME NEW i \in job["ledger"].todo, BurnOne(i)
          PROVE  \A k \in Keys : tokens[k] # Absent => tokens'[k] # Absent
      <4>1. tokens' = tokens \/ \E ks : tokens' = MarkSpent(tokens, ks)
        BY <3>2 DEF BurnOne
      <4> QED BY <4>1, MarkKeeps DEF Types, StoreOk
    <3> QED BY <1>2, <3>1, <3>2, TokensFrame
  <2>2. \/ job'["miner"].made = {}
        \/ job'["miner"].made = job["miner"].made /\ job'["miner"].tokens = job["miner"].tokens
    <3>0. DOMAIN job = Actors /\ "miner" \in Actors
      BY DEF Types, ActorsOk, Actors
    <3>1. ASSUME NEW c \in Calls, MineStart(c)
          PROVE  job' = job \/ job'["miner"].made = {}
      <4>1. c \in Members(box["miner"])
        BY <3>0, <3>1, PopOk DEF MineStart
      <4>2. c \in WaitsAt(call, "miner")
        BY <3>0, <4>1, HeldCalls
      <4>3. call[c].req \in Requests
        BY <4>2, HeldCalls
      <4>4. job' = job \/ \E time \in {"fast", "slow"} :
                            job' = [job EXCEPT !["miner"] = MineJob(c, time)]
        BY <3>1 DEF MineStart, MineJob
      <4> QED BY <3>0, <4>3, <4>4, MineJobOk
    <3>2. CASE MineState
      <4>1. job["miner"] \in JobType
        BY MinerJob DEF Types
      <4>2. job' = [job EXCEPT !["miner"].step = "insert"] \/ job' = [job EXCEPT !["miner"] = NoJob]
        BY <3>2 DEF MineState, Finish
      <4> QED BY <3>0, <4>1, <4>2, NoJobOk DEF JobType
    <3>3. CASE MineReply
      BY <3>0, <3>3, NoJobOk DEF MineReply, Finish
    <3>4. CASE (\E a \in Actors : Restart(a)) \/ Reboot
      BY <3>0, <3>4, NoJobOk DEF Restart, Reboot
    <3> QED BY <1>2, <3>1, <3>2, <3>3, <3>4, MinerFrame, NoJobOk
  <2>3. \A i \in job["miner"].made : job["miner"].tokens[i].key \in Keys
    <3>1. job["miner"].made \subseteq DOMAIN job["miner"].tokens
          /\ job["miner"].tokens \in Seq(Tokens)
      BY MinerJob DEF Types
    <3>2. \A i \in job["miner"].made : job["miner"].tokens[i] \in Tokens
      BY <3>1
    <3> QED BY <3>2, TokenParts
  <2> QED BY <2>1, <2>2, <2>3 DEF MadeInv
<1> QED BY <1>1, <1>2

-----------------------------------------------------------------------------
(* Held calls *)

\* A step that leaves every channel and every waiting call as it is.
LEMMA HeldFrame ==
    ASSUME HeldInv, UNCHANGED <<call, box, queue, batch>>,
           \A a \in Actors : job'[a].call = job[a].call
    PROVE  HeldInv'
BY DEF HeldInv

\* A step of one actor that answers some of the calls it holds.
LEMMA HeldActor ==
    ASSUME HeldInv, NEW a \in Actors, NEW cs \in SUBSET WaitsAt(call, a),
           UNCHANGED <<queue, batch>>,
           \A b \in Actors \ {a} : box'[b] = box[b] /\ job'[b].call = job[b].call,
           \A h : WaitsAt(call', h) = WaitsAt(call, h) \ cs,
           ActorHolds(box'[a], job'[a].call, WaitsAt(call, a) \ cs)
    PROVE  HeldInv'
<1>1. \A h : h # a => WaitsAt(call', h) = WaitsAt(call, h)
  BY DEF WaitsAt
<1>2. \A b \in Actors \ {a} : ActorHolds(box'[b], job'[b].call, WaitsAt(call', b))
  BY <1>1 DEF HeldInv
<1>3. BatcherHolds(queue', batch', WaitsAt(call', "batcher"))
  BY <1>1 DEF HeldInv, Actors
<1> QED BY <1>2, <1>3 DEF HeldInv

LEMMA HeldInit == Init => HeldInv
<1> SUFFICES ASSUME Init PROVE HeldInv
  OBVIOUS
<1>1. \A c \in Calls : call[c].status = "idle"
  BY DEF Init
<1>2. \A h : WaitsAt(call, h) = {}
  BY <1>1 DEF WaitsAt
<1>3. \A a \in Actors : box[a] = <<>> /\ job[a].call = NoCall
  BY NoJobOk DEF Init
<1> QED BY <1>2, <1>3, EmptyMembers DEF Init, HeldInv, ActorHolds, BatcherHolds

LEMMA SendHeld ==
    ASSUME Types, HeldInv, NEW c \in Calls, NEW r \in Requests, Send(c, r)
    PROVE  HeldInv'
<1> DEFINE st == StatusOf(r)
<1>1. call' = [call EXCEPT ![c] = [req |-> r, status |-> st]]
      /\ UNCHANGED <<job, queue, batch>>
  BY DEF Send, batchVars
<1>2. call'[c].req = r /\ call'[c].status = st /\ \A d \in Calls \ {c} : call'[d] = call[d]
  BY <1>1 DEF Types, CallOk
<1>3. call[c].status = "idle"
  BY CallNumbers DEF Send, Types, CallOk
<1>4. \A h : WaitsAt(call', h) =
               WaitsAt(call, h) \union IF st = "wait" /\ Home(r.kind) = h THEN {c} ELSE {}
  BY <1>2, <1>3 DEF WaitsAt
<1>5. \A h : c \notin WaitsAt(call, h)
  BY <1>3 DEF WaitsAt
<1>6. CASE st # "wait"
  <2>1. \A h : WaitsAt(call', h) = WaitsAt(call, h)
    BY <1>4, <1>6
  <2>2. box' = box
    BY <1>6 DEF Send
  <2> QED BY <1>1, <2>1, <2>2 DEF HeldInv
<1>7. CASE st = "wait"
  <2> DEFINE a == ActorOf(r.kind)
  <2>1. r.kind # "replace" /\ a \in Actors /\ Home(r.kind) = a
    BY <1>7, RequestParts, HomeOfRequest DEF StatusOf, Home
  <2>2. box' = [box EXCEPT ![a] = Append(box[a], c)]
    BY <1>7 DEF Send
  <2> HIDE DEF a
  <2>3. box'[a] = Append(box[a], c) /\ box[a] \in Seq(Calls)
        /\ \A b \in Actors \ {a} : box'[b] = box[b]
    BY <2>1, <2>2 DEF Types, ActorsOk
  <2>4. c \notin Members(box[a]) /\ c # job[a].call /\ ActorHolds(box[a], job[a].call, WaitsAt(call, a))
    BY <1>5, <2>1, HeldCalls, CallNumbers DEF HeldInv
  <2>5. ActorHolds(box'[a], job'[a].call, WaitsAt(call', a))
    <3>1. Members(box'[a]) = Members(box[a]) \union {c} /\ Distinct(box'[a])
      BY <2>3, <2>4, AppendMembers DEF ActorHolds
    <3>2. WaitsAt(call', a) = WaitsAt(call, a) \union {c}
      BY <1>4, <1>7, <2>1
    <3> QED BY <1>1, <2>4, <3>1, <3>2 DEF ActorHolds
  <2>6. \A h : h # a => WaitsAt(call', h) = WaitsAt(call, h)
    BY <1>4, <2>1
  <2>7. \A b \in Actors \ {a} : ActorHolds(box'[b], job'[b].call, WaitsAt(call', b))
    BY <1>1, <2>3, <2>6 DEF HeldInv
  <2>8. BatcherHolds(queue', batch', WaitsAt(call', "batcher"))
    BY <1>1, <2>1, <2>6 DEF HeldInv, Actors
  <2> QED BY <2>5, <2>7, <2>8 DEF HeldInv
<1> QED BY <1>6, <1>7

\* The batcher's steps leave the actors' calls as they are.
LEMMA HeldBatcher ==
    ASSUME HeldInv, UNCHANGED <<box, job>>,
           \A h : h # "batcher" => WaitsAt(call', h) = WaitsAt(call, h),
           BatcherHolds(queue', batch', WaitsAt(call', "batcher"))
    PROVE  HeldInv'
BY DEF HeldInv, Actors

LEMMA SubmitHeld ==
    ASSUME Types, HeldInv, NEW c \in Calls, Submit(c)
    PROVE  HeldInv'
<1>1. call[c].status = "submit" /\ Home(call[c].req.kind) = "batcher"
  BY DEF Submit, Types, CallOk, Home
<1>2. \A h : c \notin WaitsAt(call, h)
  BY <1>1 DEF WaitsAt
<1>3. call \in [Calls -> CallType] /\ UNCHANGED <<box, job, batch>>
  BY DEF Submit, actorVars, Types, CallOk
<1>4. CASE Answer(c, "err") /\ queue' = queue
  <2>1. \A h : WaitsAt(call', h) = WaitsAt(call, h)
    BY <1>2, <1>3, <1>4, AnsweredWaits DEF Answer, Statuses
  <2> QED BY <1>3, <1>4, <2>1 DEF HeldInv
<1>5. CASE Answer(c, "wait") /\ queue' = Append(queue, c)
  <2>1. \A d \in Calls : call'[d].req = call[d].req
                         /\ call'[d].status = IF d = c THEN "wait" ELSE call[d].status
    BY <1>3, <1>5, AnsweredCalls DEF Answer, Statuses
  <2>2. \A h : WaitsAt(call', h) = WaitsAt(call, h) \union IF h = "batcher" THEN {c} ELSE {}
    BY <1>1, <2>1 DEF WaitsAt
  <2>3. c \notin Members(queue) /\ c \notin Members(batch)
    BY <1>2, HeldCalls
  <2>4. queue \in Seq(Calls) /\ BatcherHolds(queue, batch, WaitsAt(call, "batcher"))
    BY DEF Types, BatchOk, HeldInv
  <2>5. BatcherHolds(queue', batch', WaitsAt(call', "batcher"))
    BY <1>3, <1>5, <2>2, <2>3, <2>4, AppendMembers DEF BatcherHolds
  <2> QED BY <1>3, <2>2, <2>5, HeldBatcher
<1> QED BY <1>4, <1>5 DEF Submit

LEMMA BatchHeld ==
    ASSUME Types, HeldInv, BatchTake \/ BatchReply \/ BatchPanic
    PROVE  HeldInv'
<1>0. BatcherHolds(queue, batch, WaitsAt(call, "batcher")) /\ call \in [Calls -> CallType]
  BY DEF HeldInv, Types, CallOk
<1>1. CASE BatchTake
  BY <1>0, <1>1, EmptyMembers, HeldBatcher DEF BatchTake, actorVars, BatcherHolds
<1>2. CASE BatchReply
  <2>1. \A c \in Calls :
          /\ c \notin Members(batch) => call'[c] = call[c]
          /\ c \in Members(batch) => call'[c].status # "wait"
    <3> DEFINE Done(c) == \E i \in DOMAIN batch : batch[i] = c
               st(c) == IF result[CHOOSE i \in DOMAIN batch : batch[i] = c] THEN "ok" ELSE "err"
    <3>1. call' = [c \in Calls |-> IF Done(c) THEN [call[c] EXCEPT !.status = st(c)] ELSE call[c]]
      BY <1>2 DEF BatchReply
    <3>2. \A c : Done(c) <=> c \in Members(batch)
      BY DEF Members
    <3>3. \A c : st(c) # "wait"
      OBVIOUS
    <3> HIDE DEF Done, st
    <3>4. \A c \in Calls : [call[c] EXCEPT !.status = st(c)].status = st(c)
      BY <1>0 DEF CallType
    <3> QED BY <3>1, <3>2, <3>3, <3>4
  <2>2. \A h : h # "batcher" => WaitsAt(call', h) = WaitsAt(call, h)
    <3>1. \A c \in Members(batch) : c \in WaitsAt(call, "batcher")
      BY HeldCalls
    <3> QED BY <2>1, <3>1 DEF WaitsAt
  <2>3. WaitsAt(call', "batcher") = WaitsAt(call, "batcher") \ Members(batch)
    BY <2>1 DEF WaitsAt
  <2>4. BatcherHolds(queue', batch', WaitsAt(call', "batcher"))
    BY <1>0, <1>2, <2>3, EmptyMembers DEF BatchReply, BatcherHolds
  <2> QED BY <1>2, <2>2, <2>4, HeldBatcher DEF BatchReply, actorVars
<1>3. CASE BatchPanic
  <2>1. call' = Answered(Members(batch) \union Members(queue), "err")
    BY <1>3 DEF BatchPanic, Members
  <2>2. \A h : WaitsAt(call', h) = WaitsAt(call, h) \ WaitsAt(call, "batcher")
    BY <1>0, <2>1, AnsweredWaits DEF BatcherHolds, Statuses
  <2>3. \A h : h # "batcher" => WaitsAt(call', h) = WaitsAt(call, h)
    BY <2>2 DEF WaitsAt
  <2>4. WaitsAt(call', "batcher") = {}
    BY <2>2
  <2> QED BY <1>3, <2>3, <2>4, EmptyMembers, HeldBatcher DEF BatchPanic, actorVars, BatcherHolds
<1> QED BY <1>1, <1>2, <1>3

\* What the mailbox holds once its head is taken.
LEMMA PopHolds ==
    ASSUME Types, HeldInv, NEW a \in Actors, NEW c, Head1(a, c), Pop(a)
    PROVE  /\ c \in WaitsAt(call, a) /\ c \in Calls /\ call[c].req \in Requests
           /\ \A b \in Actors \ {a} : box'[b] = box[b]
           /\ ActorHolds(box'[a], NoCall, WaitsAt(call, a) \ {c})
           /\ ActorHolds(box'[a], c, WaitsAt(call, a))
           /\ job[a].call = NoCall /\ job[a].step = "idle"
<1>1. c \in Members(box[a]) /\ c = Head(box[a]) /\ c \in Calls /\ job[a] = NoJob
  BY PopOk
<1>2. c \in WaitsAt(call, a)
  BY <1>1, HeldCalls
<1>3. box[a] \in Seq(Calls) /\ box[a] # <<>> /\ box'[a] = Tail(box[a])
      /\ \A b \in Actors \ {a} : box'[b] = box[b]
  BY DEF Types, ActorsOk, Head1, Pop
<1>4. ActorHolds(box[a], NoCall, WaitsAt(call, a))
  BY <1>1, NoJobOk DEF HeldInv
<1>5. Members(box'[a]) = WaitsAt(call, a) \ {c} /\ Distinct(box'[a])
  BY <1>1, <1>3, <1>4, TailMembers DEF ActorHolds
<1>6. NoCall \notin WaitsAt(call, a)
  BY CallNumbers DEF WaitsAt
<1>7. /\ ActorHolds(box'[a], NoCall, WaitsAt(call, a) \ {c})
      /\ ActorHolds(box'[a], c, WaitsAt(call, a))
  BY <1>1, <1>2, <1>5, <1>6, CallNumbers DEF ActorHolds
<1> QED BY <1>1, <1>2, <1>3, <1>7, HeldCalls, NoJobOk

\* The head of a mailbox is answered at once.
LEMMA PopAnswerHeld ==
    ASSUME Types, HeldInv, NEW a \in Actors, NEW c \in Calls, Head1(a, c), Pop(a),
           NEW st \in {"ok", "err"}, Answer(c, st), UNCHANGED <<job, queue, batch>>
    PROVE  HeldInv'
<1>1. \A h : WaitsAt(call', h) = WaitsAt(call, h) \ {c}
  BY AnsweredWaits DEF Answer, Types, CallOk, Statuses
<1>2. {c} \in SUBSET WaitsAt(call, a) /\ ActorHolds(box'[a], job'[a].call, WaitsAt(call, a) \ {c})
  BY PopHolds
<1> QED BY <1>1, <1>2, PopHolds, HeldActor

\* The head of a mailbox is handled: it moves to the actor's job.
LEMMA PopJobHeld ==
    ASSUME Types, HeldInv, NEW a \in Actors, NEW c \in Calls, Head1(a, c), Pop(a),
           UNCHANGED <<call, queue, batch>>, NEW j, j.call = c,
           job' = [job EXCEPT ![a] = j]
    PROVE  HeldInv'
<1> DEFINE none == {}
<1>1. none \in SUBSET WaitsAt(call, a) /\ \A h : WaitsAt(call', h) = WaitsAt(call, h) \ none
  OBVIOUS
<1>2. job'[a].call = c /\ \A b \in Actors \ {a} : job'[b] = job[b] /\ box'[b] = box[b]
  BY PopHolds DEF Types, ActorsOk
<1>3. ActorHolds(box'[a], job'[a].call, WaitsAt(call, a) \ none)
  BY <1>2, PopHolds
<1> HIDE DEF none
<1> QED BY <1>1, <1>2, <1>3, HeldActor

LEMMA FinishHeld ==
    ASSUME Types, HeldInv, NEW a \in Actors, NEW st \in {"ok", "err"}, Finish(a, st),
           UNCHANGED <<box, queue, batch>>
    PROVE  HeldInv'
<1> DEFINE cs == {job[a].call} \ {NoCall}
<1>1. \A h : WaitsAt(call', h) = WaitsAt(call, h) \ {job[a].call}
  BY AnsweredWaits DEF Finish, Answer, Types, CallOk, Statuses
<1>2. \A h : WaitsAt(call', h) = WaitsAt(call, h) \ cs
  BY <1>1, CallNumbers DEF WaitsAt
<1>3. cs \in SUBSET WaitsAt(call, a)
  BY HeldCalls
<1>4. job'[a].call = NoCall /\ \A b \in Actors \ {a} : job'[b] = job[b]
  BY NoJobOk DEF Finish, Types, ActorsOk
<1>5. NoCall \notin WaitsAt(call, a)
  BY CallNumbers DEF WaitsAt
<1>6. ActorHolds(box[a], job[a].call, WaitsAt(call, a))
  BY DEF HeldInv
<1>7. ActorHolds(box'[a], job'[a].call, WaitsAt(call, a) \ cs)
  BY <1>4, <1>5, <1>6 DEF ActorHolds
<1> HIDE DEF cs
<1> QED BY <1>2, <1>3, <1>4, <1>7, HeldActor

LEMMA LedgerHeld ==
    ASSUME Types, HeldInv,
           LedgerStep \/ BurnFault \/ StatsStep \/ \E c \in Calls : ReadOnly("miner", c)
    PROVE  HeldInv'
<1>0. "ledger" \in Actors /\ "miner" \in Actors /\ "stats" \in Actors
  BY DEF Actors
<1>1. ASSUME NEW a \in Actors, NEW c \in Calls, ReadOnly(a, c) PROVE HeldInv'
  BY <1>1, PopAnswerHeld DEF ReadOnly, batchVars
<1>2. ASSUME NEW c \in Calls, BurnStart(c) PROVE HeldInv'
  <2> DEFINE j == [NoJob EXCEPT !.call = c, !.step = "burn", !.todo = DOMAIN call[c].req.ins]
  <2>1. j.call = c
    BY NoJobOk DEF JobOk, JobType
  <2>2. job' = [job EXCEPT !["ledger"] = j] /\ UNCHANGED <<call, queue, batch>>
        /\ Head1("ledger", c) /\ Pop("ledger")
    BY <1>2 DEF BurnStart, batchVars
  <2> HIDE DEF j
  <2> QED BY <1>0, <2>1, <2>2, PopJobHeld
<1>3. ASSUME NEW i \in job["ledger"].todo, BurnOne(i) PROVE HeldInv'
  <2> DEFINE ok == BurnOk(call[job["ledger"].call].req.ins[i].key)
  <2>1. job' = [job EXCEPT !["ledger"].todo = @ \ {i}, !["ledger"].failed = @ \/ ~ok]
        /\ UNCHANGED <<call, box, queue, batch>>
    BY <1>3 DEF BurnOne, batchVars
  <2> HIDE DEF ok
  <2>2. DOMAIN job = Actors /\ job["ledger"] \in JobType
    BY <1>0 DEF Types, ActorsOk, JobOk
  <2>3. \A a \in Actors : job'[a].call = job[a].call
    BY <2>1, <2>2 DEF JobType
  <2> QED BY <2>1, <2>3, HeldFrame
<1>4. CASE BurnReply \/ BurnFault
  BY <1>0, <1>4, FinishHeld DEF BurnReply, BurnFault, batchVars
<1> QED BY <1>0, <1>1, <1>2, <1>3, <1>4 DEF LedgerStep, StatsStep

LEMMA MinerHeld ==
    ASSUME Types, HeldInv,
           \/ (\E c \in Calls : MineStart(c)) \/ MineState \/ (\E i : Inserts(i))
           \/ MineReply \/ InsertFault
    PROVE  HeldInv'
<1>0. "miner" \in Actors
  BY DEF Actors
<1>1. ASSUME NEW c \in Calls, MineStart(c) PROVE HeldInv'
  <2>1. Head1("miner", c) /\ Pop("miner") /\ UNCHANGED <<queue, batch>>
    BY <1>1 DEF MineStart, batchVars
  <2>2. call[c].req \in Requests
    BY <1>0, <2>1, PopHolds
  <2>3. CASE job' = job /\ Answer(c, "err")
    BY <1>0, <2>1, <2>3, PopAnswerHeld
  <2>4. CASE call' = call /\ \E time \in {"fast", "slow"} :
                                job' = [job EXCEPT !["miner"] = MineJob(c, time)]
    <3>1. PICK time \in {"fast", "slow"} : job' = [job EXCEPT !["miner"] = MineJob(c, time)]
      BY <2>4
    <3>2. MineJob(c, time).call = c
      BY <2>2, MineJobOk
    <3> QED BY <1>0, <2>1, <2>4, <3>1, <3>2, PopJobHeld
  <2> QED BY <1>1, <2>3, <2>4 DEF MineStart, MineJob
<1>2. CASE MineState
  <2>1. CASE job' = [job EXCEPT !["miner"].step = "insert"] /\ call' = call
    <3>1. DOMAIN job = Actors /\ job["miner"] \in JobType
      BY <1>0 DEF Types, ActorsOk, JobOk
    <3>2. \A a \in Actors : job'[a].call = job[a].call
      BY <2>1, <3>1 DEF JobType
    <3> QED BY <1>2, <2>1, <3>2, HeldFrame DEF MineState, batchVars
  <2>2. CASE Finish("miner", "err")
    BY <1>0, <1>2, <2>2, FinishHeld DEF MineState, batchVars
  <2> QED BY <1>2, <2>1, <2>2 DEF MineState
<1>3. ASSUME NEW i, Inserts(i) PROVE HeldInv'
  <2>1. \A a \in Actors : job'[a].call = job[a].call
    BY <1>3, InsertJob
  <2>2. UNCHANGED <<call, box, queue, batch>>
    BY <1>3 DEF Inserts, InsertNx, InsertPut, InsertRest, batchVars
  <2> QED BY <2>1, <2>2, HeldFrame
<1>4. CASE MineReply \/ InsertFault
  BY <1>0, <1>4, FinishHeld DEF MineReply, InsertFault, batchVars
<1> QED BY <1>1, <1>2, <1>3, <1>4

LEMMA StopHeld ==
    ASSUME Types, HeldInv, NEW gone \in SUBSET Actors, Stop(gone), UNCHANGED <<queue, batch>>
    PROVE  HeldInv'
<1> DEFINE cs == UNION {CallersOf(a) : a \in gone}
<1>1. \A a \in Actors : CallersOf(a) = WaitsAt(call, a)
  BY DEF HeldInv, ActorHolds, CallersOf, Members
<1>2. \A h : WaitsAt(call', h) = WaitsAt(call, h) \ cs
  BY AnsweredWaits DEF Stop, Types, CallOk, Statuses
<1>3. \A h : WaitsAt(call', h) = IF h \in gone THEN {} ELSE WaitsAt(call, h)
  <2>1. \A c : c \in cs <=> \E a \in gone : c \in WaitsAt(call, a)
    BY <1>1
  <2> HIDE DEF cs
  <2> QED BY <1>2, <2>1 DEF WaitsAt
<1>4. ASSUME NEW a \in Actors
      PROVE  ActorHolds(box'[a], job'[a].call, WaitsAt(call', a))
  <2>1. CASE a \in gone
    BY <1>3, <2>1, NoJobOk, EmptyMembers DEF Stop, ActorHolds
  <2>2. CASE a \notin gone
    BY <1>3, <2>2 DEF Stop, HeldInv
  <2> QED BY <2>1, <2>2
<1>5. BatcherHolds(queue', batch', WaitsAt(call', "batcher"))
  BY <1>3 DEF HeldInv, Actors
<1> QED BY <1>4, <1>5 DEF HeldInv

LEMMA RebootHeld ==
    ASSUME Types, Reboot
    PROVE  HeldInv'
<1>1. \A h : WaitsAt(call', h) = WaitsAt(call, h) \ {c \in Calls : Waiting(c)}
  BY AnsweredWaits DEF Reboot, Types, CallOk, Statuses
<1>2. \A h : WaitsAt(call', h) = {}
  BY <1>1 DEF WaitsAt, Waiting
<1>3. \A a \in Actors : box'[a] = <<>> /\ job'[a].call = NoCall
  BY NoJobOk DEF Reboot
<1> QED BY <1>2, <1>3, EmptyMembers DEF Reboot, HeldInv, ActorHolds, BatcherHolds

LEMMA TypesStep ==
    ASSUME Types, HeldInv, MadeInv, [Next]_vars
    PROVE  Types'
<1>1. CASE \/ \E c \in Calls, r \in Requests : Send(c, r)
           \/ \E c \in Calls : Submit(c)
           \/ BatchStep \/ BatchFault \/ BatchPanic
  BY <1>1, SendTypes, BatcherTypes, BatchRunTypes DEF BatchStep
<1>2. CASE LedgerStep \/ StatsStep \/ BurnFault
  BY <1>2, ReadOnlyTypes, BurnTypes DEF LedgerStep, StatsStep, Actors
<1>3. CASE MinerStep \/ InsertFault
  <2>1. CASE \E c \in Calls : MineStart(c) \/ ReadOnly("miner", c)
    BY <2>1, MineStartTypes, ReadOnlyTypes DEF Actors
  <2>2. CASE MineState \/ MineReply \/ InsertFault
    BY <2>2, MineStateTypes, MineReplyTypes
  <2>3. CASE \E i : Inserts(i)
    BY <2>3, InsertTypes
  <2> QED BY <1>3, <2>1, <2>2, <2>3 DEF MinerStep, Inserts
<1>4. CASE (\E a \in Actors : Panic(a) \/ Restart(a)) \/ RestartFails \/ Reboot
  BY <1>4, SupervisionTypes, RebootTypes
<1>5. CASE UNCHANGED vars
  <2>1. StoreOk' /\ ActorsOk'
    BY <1>5 DEF vars, Types, StoreOk, ActorsOk
  <2> QED BY <1>5, <2>1 DEF vars, Types
<1> QED BY <1>1, <1>2, <1>3, <1>4, <1>5 DEF Next

LEMMA HeldStep ==
    ASSUME Types, HeldInv, [Next]_vars
    PROVE  HeldInv'
<1>1. CASE (\E c \in Calls, r \in Requests : Send(c, r)) \/ \E c \in Calls : Submit(c)
  BY <1>1, SendHeld, SubmitHeld
<1>2. CASE BatchStep \/ BatchFault \/ BatchPanic
  <2>1. CASE BatchTake \/ BatchReply \/ BatchPanic
    BY <2>1, BatchHeld
  <2>2. CASE (\E i \in todo : BatchRun(i)) \/ BatchFault
    BY <2>2, HeldFrame DEF BatchRun, BatchFault, actorVars
  <2> QED BY <1>2, <2>1, <2>2 DEF BatchStep
<1>3. CASE LedgerStep \/ StatsStep \/ BurnFault
  BY <1>3, LedgerHeld
<1>4. CASE MinerStep \/ InsertFault
  BY <1>4, LedgerHeld, MinerHeld DEF MinerStep, Inserts
<1>5. CASE (\E a \in Actors : Panic(a)) \/ RestartFails
  <2>1. \E gone \in SUBSET Actors : Stop(gone)
    BY <1>5 DEF Panic, RestartFails
  <2> QED BY <1>5, <2>1, StopHeld DEF Panic, RestartFails, batchVars
<1>6. CASE \E a \in Actors : Restart(a)
  BY <1>6, HeldFrame DEF Restart, batchVars
<1>7. CASE Reboot
  BY <1>7, RebootHeld
<1>8. CASE UNCHANGED vars
  BY <1>8, HeldFrame DEF vars
<1> QED BY <1>1, <1>2, <1>3, <1>4, <1>5, <1>6, <1>7, <1>8 DEF Next

LEMMA HeldInvariant == Spec => [](Types /\ HeldInv /\ MadeInv)
<1>1. Init => Types /\ HeldInv /\ MadeInv
  <2>1. Init => MadeInv
    BY NoJobOk DEF Init, MadeInv, Actors
  <2> QED BY <2>1, TypesInit, HeldInit
<1>2. Types /\ HeldInv /\ MadeInv /\ [Next]_vars => (Types /\ HeldInv /\ MadeInv)'
  BY TypesStep, HeldStep, MadeStep
<1> QED BY <1>1, <1>2, PTL DEF Spec

\* A waiting call is held in one place, any other call in none.
LEMMA OnePlace ==
    ASSUME Types, HeldInv, NEW c \in Calls
    PROVE  IF call[c].status = "wait" THEN \E x : Places(c) = {x} ELSE Places(c) = {}
<1> DEFINE InBox(b, n) == n \in DOMAIN box[b] /\ box[b][n] = c
           At(x) == \/ \E b \in Actors : \E n : InBox(b, n) /\ x = <<b, n>>
                    \/ \E b \in Actors : job[b].call = c /\ x = <<b, 0>>
                    \/ \E n \in DOMAIN queue : queue[n] = c /\ x = <<"queue", n>>
                    \/ \E n \in DOMAIN batch : batch[n] = c /\ x = <<"batch", n>>
<1>1. \A x : x \in Places(c) <=> At(x)
  <2> DEFINE BoxOf(a) == {<<a, i>> : i \in {n \in DOMAIN box[a] : box[a][n] = c}}
             Boxes == UNION {BoxOf(a) : a \in Actors}
             Jobs == {<<a, 0>> : a \in {x \in Actors : job[x].call = c}}
             Queued == {<<"queue", i>> : i \in {n \in DOMAIN queue : queue[n] = c}}
             Batched == {<<"batch", i>> : i \in {n \in DOMAIN batch : batch[n] = c}}
  <2>1. Places(c) = Boxes \union Jobs \union Queued \union Batched
    BY DEF Places
  <2>2. \A a, x : x \in BoxOf(a) <=> \E n : InBox(a, n) /\ x = <<a, n>>
    OBVIOUS
  <2>3. \A x : x \in Boxes <=> \E a \in Actors : x \in BoxOf(a)
    <3> HIDE DEF BoxOf
    <3> QED OBVIOUS
  <2>4. \A x : x \in Jobs <=> \E b \in Actors : job[b].call = c /\ x = <<b, 0>>
    OBVIOUS
  <2>5. \A x : x \in Queued <=> \E n \in DOMAIN queue : queue[n] = c /\ x = <<"queue", n>>
    OBVIOUS
  <2>6. \A x : x \in Batched <=> \E n \in DOMAIN batch : batch[n] = c /\ x = <<"batch", n>>
    OBVIOUS
  <2> HIDE DEF Boxes, Jobs, Queued, Batched, BoxOf, InBox
  <2> QED BY <2>1, <2>2, <2>3, <2>4, <2>5, <2>6
<1>2. /\ \A b \in Actors : \A n : InBox(b, n) => c \in WaitsAt(call, b)
      /\ \A b \in Actors : job[b].call = c => c \in WaitsAt(call, b)
      /\ \A n \in DOMAIN queue : queue[n] = c => c \in WaitsAt(call, "batcher")
      /\ \A n \in DOMAIN batch : batch[n] = c => c \in WaitsAt(call, "batcher")
  BY HeldCalls, CallNumbers DEF Members
<1>3. CASE call[c].status # "wait"
  <2>1. \A h : c \notin WaitsAt(call, h)
    BY <1>3 DEF WaitsAt
  <2>2. \A x : ~At(x)
    BY <1>2, <2>1
  <2> QED BY <1>1, <1>3, <2>2
<1>4. CASE call[c].status = "wait"
  <2> DEFINE h == Home(call[c].req.kind)
  <2>1. c \in WaitsAt(call, h) /\ \A g : c \in WaitsAt(call, g) => g = h
    BY <1>4 DEF WaitsAt
  <2>2. h \in Actors \union {"batcher"}
    BY <2>1, HeldCalls, RequestParts, HomeOfRequest
  <2> HIDE DEF h
  <2>3. \E x : At(x) /\ \A y : At(y) => y = x
    <3>1. CASE h \in Actors
      <4>1. ActorHolds(box[h], job[h].call, WaitsAt(call, h)) /\ "batcher" # h
        BY <3>1 DEF HeldInv, Actors
      <4>2. CASE job[h].call = c
        <5>1. \A n : ~InBox(h, n)
          BY <4>1, <4>2 DEF ActorHolds, Members
        <5>2. At(<<h, 0>>)
          BY <3>1, <4>2
        <5>3. \A y : At(y) => y = <<h, 0>>
          BY <1>2, <2>1, <4>1, <5>1
        <5> QED BY <5>2, <5>3
      <4>3. CASE job[h].call # c
        <5>1. PICK n : InBox(h, n)
          BY <2>1, <4>1, <4>3 DEF ActorHolds, Members
        <5>2. \A m : InBox(h, m) => m = n
          BY <4>1, <5>1 DEF ActorHolds, Distinct
        <5>3. At(<<h, n>>)
          BY <3>1, <5>1
        <5>4. \A y : At(y) => y = <<h, n>>
          BY <1>2, <2>1, <4>1, <4>3, <5>2
        <5> QED BY <5>3, <5>4
      <4> QED BY <4>2, <4>3
    <3>2. CASE h = "batcher"
      <4>1. BatcherHolds(queue, batch, WaitsAt(call, h)) /\ h \notin Actors
        BY <3>2 DEF HeldInv, Actors
      <4>2. \A b \in Actors : job[b].call # c /\ \A n : ~InBox(b, n)
        BY <1>2, <2>1, <4>1
      <4>3. CASE c \in Members(queue)
        <5>1. PICK n \in DOMAIN queue : queue[n] = c
          BY <4>3 DEF Members
        <5>2. /\ \A m \in DOMAIN queue : queue[m] = c => m = n
              /\ \A m \in DOMAIN batch : batch[m] # c
          BY <4>1, <4>3, <5>1 DEF BatcherHolds, Distinct, Members
        <5>3. At(<<"queue", n>>)
          BY <5>1
        <5>4. \A y : At(y) => y = <<"queue", n>>
          BY <4>2, <5>2
        <5> QED BY <5>3, <5>4
      <4>4. CASE c \in Members(batch)
        <5>1. PICK n \in DOMAIN batch : batch[n] = c
          BY <4>4 DEF Members
        <5>2. /\ \A m \in DOMAIN batch : batch[m] = c => m = n
              /\ \A m \in DOMAIN queue : queue[m] # c
          BY <4>1, <4>4, <5>1 DEF BatcherHolds, Distinct, Members
        <5>3. At(<<"batch", n>>)
          BY <5>1
        <5>4. \A y : At(y) => y = <<"batch", n>>
          BY <4>2, <5>2
        <5> QED BY <5>3, <5>4
      <4> QED BY <2>1, <4>1, <4>3, <4>4 DEF BatcherHolds
    <3> QED BY <2>2, <3>1, <3>2
  <2> HIDE DEF At
  <2>4. PICK x : At(x) /\ \A y : At(y) => y = x
    BY <2>3
  <2>5. Places(c) = {x}
    BY <1>1, <2>4
  <2> QED BY <1>4, <2>5
<1> QED BY <1>3, <1>4

\* The variables of the server have their types, and a reply channel is in
\* exactly one mailbox, handler, channel or batch while its call waits and
\* nowhere afterwards: no caller is forgotten and none is answered twice.
THEOREM LegacyTypeCorrect == Spec => []TypeOK
<1>1. ASSUME Types, HeldInv PROVE TypeOK
  <2>1. \A c \in Calls : call[c].status \in {"idle", "submit", "wait", "ok", "err"}
    BY <1>1 DEF Types, CallOk, CallType, Statuses
  <2>2. \A c \in Calls :
          Cardinality(Places(c)) = IF call[c].status = "wait" THEN 1 ELSE 0
    BY <1>1, OnePlace, FS_EmptySet, FS_Singleton
  <2>3. DOMAIN result = DOMAIN batch /\ todo \subseteq DOMAIN batch /\ Len(queue) <= BufferSize
    BY <1>1 DEF Types, BatchOk
  <2> QED BY <1>1, <2>1, <2>2, <2>3 DEF Types, StoreOk, ActorsOk, TypeOK
<1> QED BY <1>1, HeldInvariant, PTL

-----------------------------------------------------------------------------
(* A success is the caller's own *)

LEMMA AuditGrows == [Next]_vars => audit \subseteq audit'
<1> SUFFICES ASSUME [Next]_vars PROVE audit \subseteq audit'
  OBVIOUS
<1>1. CASE (\E c \in Calls, r \in Requests : Send(c, r)) \/ (\E c \in Calls : Submit(c))
  BY <1>1 DEF Send, Submit, storeVars
<1>2. CASE BatchStep \/ BatchFault \/ BatchPanic
  BY <1>2 DEF BatchStep, BatchTake, BatchReply, BatchRun, BatchFault, BatchPanic, storeVars
<1>3. CASE LedgerStep \/ StatsStep \/ BurnFault
  BY <1>3 DEF LedgerStep, StatsStep, BurnStart, ReadOnly, BurnOne, BurnReply, BurnFault, storeVars
<1>4. CASE MinerStep \/ InsertFault
  BY <1>4 DEF MinerStep, MineStart, ReadOnly, MineState, InsertNx, InsertPut, InsertRest,
              MineReply, InsertFault, storeVars
<1>5. CASE (\E a \in Actors : Panic(a) \/ Restart(a)) \/ RestartFails \/ Reboot
  BY <1>5 DEF Panic, Restart, RestartFails, Reboot, storeVars
<1>6. CASE UNCHANGED vars
  BY <1>6 DEF vars
<1> QED BY <1>1, <1>2, <1>3, <1>4, <1>5, <1>6 DEF Next

LEMMA BatchFrame ==
    ASSUME [Next]_vars
    PROVE  \/ UNCHANGED <<batch, result>> \/ batch' = <<>>
           \/ BatchTake \/ (\E i \in todo : BatchRun(i)) \/ BatchFault
<1>1. CASE (\E c \in Calls, r \in Requests : Send(c, r)) \/ (\E c \in Calls : Submit(c))
  BY <1>1 DEF Send, Submit, batchVars
<1>2. CASE BatchReply \/ BatchPanic \/ Reboot
  BY <1>2 DEF BatchReply, BatchPanic, Reboot
<1>3. CASE LedgerStep \/ StatsStep \/ BurnFault
  BY <1>3 DEF LedgerStep, StatsStep, BurnStart, ReadOnly, BurnOne, BurnReply, BurnFault, batchVars
<1>4. CASE MinerStep \/ InsertFault
  BY <1>4 DEF MinerStep, MineStart, ReadOnly, MineState, InsertNx, InsertPut, InsertRest,
              MineReply, InsertFault, batchVars
<1>5. CASE (\E a \in Actors : Panic(a) \/ Restart(a)) \/ RestartFails
  BY <1>5 DEF Panic, Restart, RestartFails, batchVars
<1>6. CASE UNCHANGED vars
  BY <1>6 DEF vars
<1> QED BY <1>1, <1>2, <1>3, <1>4, <1>5, <1>6 DEF Next, BatchStep

LEMMA ResultsOwnStep ==
    ASSUME Types, ResultsOwn, [Next]_vars
    PROVE  ResultsOwn'
<1>0. audit \subseteq audit' /\ result \in [DOMAIN batch -> BOOLEAN]
  BY AuditGrows DEF Types, BatchOk
<1>1. CASE UNCHANGED <<batch, result>>
  BY <1>0, <1>1 DEF ResultsOwn
<1>2. CASE batch' = <<>>
  BY <1>2 DEF ResultsOwn
<1>3. CASE BatchTake
  BY <1>3 DEF BatchTake, ResultsOwn
<1>4. ASSUME NEW i \in todo, BatchRun(i) PROVE ResultsOwn'
  <2> DEFINE ok == ReplaceOk(call[batch[i]].req)
  <2>1. /\ audit' = IF ok THEN audit \union {<<batch[i], 0>>} ELSE audit
        /\ result' = [result EXCEPT ![i] = ok] /\ batch' = batch
    BY <1>4 DEF BatchRun
  <2> HIDE DEF ok
  <2> QED BY <1>0, <2>1 DEF ResultsOwn
<1>5. CASE BatchFault
  <2>1. batch' = batch /\ \A i \in DOMAIN batch : result'[i] => result[i]
    BY <1>0, <1>5 DEF BatchFault
  <2> QED BY <1>0, <2>1 DEF ResultsOwn
<1> QED BY <1>1, <1>2, <1>3, <1>4, <1>5, BatchFrame

\* Who is answered by a step, and with what.
LEMMA CallFrame ==
    ASSUME [Next]_vars
    PROVE  \/ call' = call
           \/ \E c \in Calls, r \in Requests : Send(c, r)
           \/ \E cs, st : st \in {"wait", "err"} /\ call' = Answered(cs, st)
           \/ \E a \in Actors, c \in Calls : ReadOnly(a, c)
           \/ BurnReply \/ MineReply \/ BatchReply
<1>1. CASE \E c \in Calls : Submit(c)
  BY <1>1 DEF Submit, Answer
<1>2. CASE BatchTake \/ (\E i \in todo : BatchRun(i)) \/ BatchFault \/ BatchPanic
  BY <1>2 DEF BatchTake, BatchRun, BatchFault, BatchPanic
<1>3. CASE \/ \E c \in Calls : BurnStart(c)
           \/ \E i \in job["ledger"].todo : BurnOne(i)
           \/ BurnFault
  BY <1>3 DEF BurnStart, BurnOne, BurnFault, Finish, Answer
<1>4. CASE \/ \E c \in Calls : MineStart(c)
           \/ MineState \/ InsertFault
           \/ \E i \in job["miner"].todo : InsertNx(i) \/ InsertPut(i)
           \/ \E i \in job["miner"].made : InsertRest(i)
  BY <1>4 DEF MineStart, MineState, InsertNx, InsertPut, InsertRest, InsertFault, Finish, Answer
<1>5. CASE (\E a \in Actors : Panic(a) \/ Restart(a)) \/ RestartFails \/ Reboot
  BY <1>5 DEF Panic, Restart, RestartFails, Reboot, Stop
<1>6. CASE UNCHANGED vars
  BY <1>6 DEF vars
<1>7. CASE StatsStep \/ \E c \in Calls : ReadOnly("ledger", c) \/ ReadOnly("miner", c)
  BY <1>7 DEF StatsStep, Actors
<1> QED BY <1>1, <1>2, <1>3, <1>4, <1>5, <1>6, <1>7 DEF Next, BatchStep, LedgerStep, MinerStep

\* What the reply of a batch does to a call.
LEMMA BatchReplyCalls ==
    ASSUME Types, BatchReply, NEW c \in Calls
    PROVE  /\ call'[c].req = call[c].req
           /\ c \notin Members(batch) => call'[c] = call[c]
           /\ c \in Members(batch) /\ call'[c].status = "ok" =>
                 \E i \in DOMAIN batch : batch[i] = c /\ result[i]
<1> DEFINE Done == \E i \in DOMAIN batch : batch[i] = c
           i == CHOOSE i \in DOMAIN batch : batch[i] = c
           st == IF result[i] THEN "ok" ELSE "err"
<1>1. call'[c] = IF Done THEN [call[c] EXCEPT !.status = st] ELSE call[c]
  BY DEF BatchReply
<1>2. Done <=> c \in Members(batch)
  BY DEF Members
<1>3. Done => i \in DOMAIN batch /\ batch[i] = c
  OBVIOUS
<1> HIDE DEF Done, i
<1>4. st = "ok" => result[i]
  OBVIOUS
<1> HIDE DEF st
<1>5. [call[c] EXCEPT !.status = st].req = call[c].req /\ [call[c] EXCEPT !.status = st].status = st
  BY DEF Types, CallOk, CallType
<1> QED BY <1>1, <1>2, <1>3, <1>4, <1>5

\* The request of a call does not change once it was sent.
LEMMA RequestsKept ==
    ASSUME Types, [Next]_vars, NEW c \in Calls, c <= sent
    PROVE  call'[c].req = call[c].req
<1>0. call \in [Calls -> CallType]
  BY DEF Types, CallOk
<1>1. ASSUME NEW cs, NEW st \in Statuses, call' = Answered(cs, st)
      PROVE  call'[c].req = call[c].req
  BY <1>0, <1>1, AnsweredCalls
<1>2. ASSUME NEW d \in Calls, NEW r \in Requests, Send(d, r)
      PROVE  call'[c].req = call[c].req
  <2>1. d # c
    BY <1>2, CallNumbers DEF Send, Types
  <2> QED BY <1>0, <1>2, <2>1 DEF Send
<1>3. CASE (\E a \in Actors, d \in Calls : ReadOnly(a, d)) \/ BurnReply \/ MineReply
  BY <1>1, <1>3 DEF ReadOnly, BurnReply, MineReply, Finish, Answer, Statuses
<1>4. CASE BatchReply
  BY <1>4, BatchReplyCalls
<1> QED BY <1>1, <1>2, <1>3, <1>4, CallFrame DEF Statuses

LEMMA LedgerFrame ==
    ASSUME Types, [Next]_vars
    PROVE  \/ job'["ledger"] = job["ledger"] \/ job'["ledger"] = NoJob
           \/ \E c \in Calls : BurnStart(c)
           \/ \E i \in job["ledger"].todo : BurnOne(i)
<1>0. DOMAIN job = Actors /\ "miner" \in Actors /\ "ledger" \in Actors /\ "ledger" # "miner"
  BY DEF Types, ActorsOk, Actors
<1>1. CASE (\E c \in Calls, r \in Requests : Send(c, r)) \/ (\E c \in Calls : Submit(c))
  BY <1>1 DEF Send, Submit, actorVars
<1>2. CASE BatchStep \/ BatchFault \/ BatchPanic
  BY <1>2 DEF BatchStep, BatchTake, BatchReply, BatchRun, BatchFault, BatchPanic, actorVars
<1>3. CASE \/ BurnReply \/ BurnFault \/ StatsStep
           \/ \E c \in Calls : ReadOnly("ledger", c) \/ ReadOnly("miner", c)
  BY <1>0, <1>3 DEF StatsStep, ReadOnly, BurnReply, BurnFault, Finish
<1>4. CASE \E i : Inserts(i)
  BY <1>0, <1>4, InsertJob
<1>5. CASE (\E c \in Calls : MineStart(c)) \/ MineState \/ MineReply \/ InsertFault
  BY <1>0, <1>5 DEF MineStart, MineState, MineReply, InsertFault, Finish
<1>6. CASE (\E a \in Actors : Panic(a) \/ Restart(a)) \/ RestartFails \/ Reboot
  BY <1>0, <1>6 DEF Panic, Restart, RestartFails, Reboot, Stop
<1>7. CASE UNCHANGED vars
  BY <1>7 DEF vars
<1> QED BY <1>1, <1>2, <1>3, <1>4, <1>5, <1>6, <1>7 DEF Next, LedgerStep, MinerStep, Inserts

LEMMA BurnOwnStep ==
    ASSUME Types, HeldInv, BurnOwn, [Next]_vars
    PROVE  BurnOwn'
<1> DEFINE j == job["ledger"]
           jj == job'["ledger"]
<1>0. audit \subseteq audit' /\ "ledger" \in Actors /\ DOMAIN job = Actors /\ j \in JobType
  BY AuditGrows DEF Types, ActorsOk, JobOk, Actors
<1>1. j.step = "burn" => j.call \in Calls /\ call'[j.call].req = call[j.call].req
  <2> SUFFICES ASSUME j.step = "burn"
               PROVE  j.call \in Calls /\ call'[j.call].req = call[j.call].req
    OBVIOUS
  <2>1. j.call # NoCall
    BY <1>0 DEF Types, ActorsOk, JobOk
  <2>2. j.call \in WaitsAt(call, "ledger")
    BY <1>0, <2>1, HeldCalls
  <2>3. j.call \in Calls /\ j.call \in 1..sent
    BY <2>2, HeldCalls
  <2> QED BY <2>3, RequestsKept
<1>2. CASE jj = j
  BY <1>0, <1>1, <1>2 DEF BurnOwn
<1>3. CASE jj = NoJob
  BY <1>3, NoJobOk DEF BurnOwn
<1>4. ASSUME NEW c \in Calls, BurnStart(c) PROVE BurnOwn'
  <2> DEFINE ps == DOMAIN call[c].req.ins
  <2>1. job' = [job EXCEPT !["ledger"] = [NoJob EXCEPT !.call = c, !.step = "burn", !.todo = ps]]
        /\ call' = call
    BY <1>4 DEF BurnStart
  <2>2. jj.call = c /\ jj.todo = ps
    <3> HIDE DEF ps
    <3> QED BY <1>0, <2>1, NoJobOk DEF JobOk, JobType
  <2> QED BY <2>1, <2>2 DEF BurnOwn
<1>5. ASSUME NEW i \in j.todo, BurnOne(i) PROVE BurnOwn'
  <2> DEFINE ok == BurnOk(call[j.call].req.ins[i].key)
  <2>1. /\ audit' = IF ok THEN audit \union {<<j.call, i>>} ELSE audit
        /\ job' = [job EXCEPT !["ledger"].todo = @ \ {i}, !["ledger"].failed = @ \/ ~ok]
        /\ call' = call /\ j.step = "burn"
    BY <1>5 DEF BurnOne
  <2> HIDE DEF ok
  <2>2. jj.call = j.call /\ jj.todo = j.todo \ {i} /\ (~jj.failed => ~j.failed /\ ok)
    BY <1>0, <2>1 DEF JobType
  <2> QED BY <1>0, <2>1, <2>2 DEF BurnOwn
<1> QED BY <1>2, <1>3, <1>4, <1>5, LedgerFrame

\* What success owes to call c with request r, given the audit records au.
OwnDone(r, c, au) ==
    /\ r.kind = "replace" => <<c, 0>> \in au
    /\ r.kind = "burn" => \A i \in DOMAIN r.ins : <<c, i>> \in au

LEMMA SuccessParts == SuccessIsOwn <=>
    \A c \in Calls : call[c].status = "ok" => OwnDone(call[c].req, c, audit)
BY DEF SuccessIsOwn, OwnDone

LEMMA AnswerOwn ==
    ASSUME Types, SuccessIsOwn, audit \subseteq audit', NEW cs, NEW st \in Statuses,
           call' = Answered(cs, st),
           st = "ok" => \A c \in cs \intersect Calls : OwnDone(call[c].req, c, audit')
    PROVE  SuccessIsOwn'
<1>1. \A c \in Calls : call'[c].req = call[c].req
                       /\ call'[c].status = IF c \in cs THEN st ELSE call[c].status
  BY AnsweredCalls DEF Types, CallOk
<1>2. \A c \in Calls : OwnDone(call[c].req, c, audit) => OwnDone(call[c].req, c, audit')
  BY DEF OwnDone
<1>3. \A c \in Calls : call'[c].status = "ok" => OwnDone(call'[c].req, c, audit')
  BY <1>1, <1>2, SuccessParts
<1> QED BY <1>3 DEF SuccessIsOwn, OwnDone

LEMMA SuccessStep ==
    ASSUME Types, HeldInv, OwnInv, [Next]_vars
    PROVE  SuccessIsOwn'
<1>0. audit \subseteq audit' /\ SuccessIsOwn /\ {"ok", "err", "wait"} \subseteq Statuses
  BY AuditGrows DEF OwnInv, Statuses
<1>1. CASE call' = call
  BY <1>0, <1>1 DEF SuccessIsOwn
<1>2. ASSUME NEW c \in Calls, NEW r \in Requests, Send(c, r) PROVE SuccessIsOwn'
  <2>1. StatusOf(r) # "ok"
    BY DEF StatusOf
  <2>2. call' = [call EXCEPT ![c] = [req |-> r, status |-> StatusOf(r)]]
    BY <1>2 DEF Send
  <2>3. \A d \in Calls : call'[d].status = "ok" => call'[d] = call[d]
    BY <2>1, <2>2 DEF Types, CallOk
  <2> QED BY <1>0, <2>3 DEF SuccessIsOwn
<1>3. ASSUME NEW cs, NEW st \in {"wait", "err"}, call' = Answered(cs, st) PROVE SuccessIsOwn'
  BY <1>0, <1>3, AnswerOwn
<1>4. ASSUME NEW a \in Actors, NEW c \in Calls, ReadOnly(a, c) PROVE SuccessIsOwn'
  <2>1. call[c].req.kind \in {"health", "target", "stats"}
    BY <1>4 DEF ReadOnly
  <2>2. OwnDone(call[c].req, c, audit')
    BY <2>1 DEF OwnDone
  <2>3. call' = Answered({c}, "ok") \/ call' = Answered({c}, "err")
    BY <1>4 DEF ReadOnly, Answer
  <2> QED BY <1>0, <2>2, <2>3, AnswerOwn
<1>5. CASE BurnReply
  <2> DEFINE j == job["ledger"]
             st == IF j.failed THEN "err" ELSE "ok"
  <2>1. /\ j.step = "burn" /\ (j.todo = {} \/ j.failed)
        /\ call' = Answered({j.call}, st) /\ audit' = audit
    BY <1>5 DEF BurnReply, Finish, Answer, storeVars
  <2>2. j.call # NoCall /\ "ledger" \in Actors
    BY <1>5 DEF Types, ActorsOk, JobOk, Actors, BurnReply
  <2>3. j.call \in WaitsAt(call, "ledger")
    BY <2>2, HeldCalls
  <2>4. call[j.call].req.kind # "replace"
    BY <2>3 DEF WaitsAt, Home
  <2>5. ~j.failed => \A i \in DOMAIN call[j.call].req.ins : <<j.call, i>> \in audit
    BY <1>5, <2>1 DEF OwnInv, BurnOwn, BurnReply
  <2>6. st = "ok" => OwnDone(call[j.call].req, j.call, audit')
    BY <2>1, <2>4, <2>5 DEF OwnDone
  <2>7. st \in Statuses
    BY DEF Statuses
  <2> HIDE DEF st
  <2> QED BY <1>0, <2>1, <2>6, <2>7, AnswerOwn
<1>6. CASE MineReply
  <2> DEFINE j == job["miner"]
             st == IF j.failed THEN "err" ELSE "ok"
  <2>1. call' = Answered({j.call}, st)
    BY <1>6 DEF MineReply, Finish, Answer
  <2>2. j.call \in WaitsAt(call, "miner")
    <3>1. j.call # NoCall /\ "miner" \in Actors
      BY <1>6 DEF Types, ActorsOk, JobOk, Actors, MineReply
    <3> QED BY <3>1, HeldCalls
  <2>3. call[j.call].req \in Requests /\ Home(call[j.call].req.kind) = "miner"
    BY <2>2, HeldCalls DEF WaitsAt
  <2>4. call[j.call].req.kind \notin {"replace", "burn"}
    BY <2>3 DEF Home, ActorOf
  <2>5. OwnDone(call[j.call].req, j.call, audit') /\ st \in Statuses
    BY <2>4 DEF OwnDone, Statuses
  <2> HIDE DEF st
  <2> QED BY <1>0, <2>1, <2>5, AnswerOwn
<1>7. CASE BatchReply
  <2>1. audit' = audit
    BY <1>7 DEF BatchReply, storeVars
  <2>2. ASSUME NEW c \in Calls, call'[c].status = "ok" PROVE OwnDone(call'[c].req, c, audit')
    <3>1. CASE c \notin Members(batch)
      BY <1>0, <1>7, <2>1, <2>2, <3>1, BatchReplyCalls, SuccessParts
    <3>2. CASE c \in Members(batch)
      <4>1. PICK i \in DOMAIN batch : batch[i] = c /\ result[i]
        BY <1>7, <2>2, <3>2, BatchReplyCalls
      <4>2. <<c, 0>> \in audit
        BY <4>1 DEF OwnInv, ResultsOwn
      <4>3. c \in WaitsAt(call, "batcher")
        BY <3>2, HeldCalls
      <4>4. call[c].req \in Requests /\ Home(call[c].req.kind) = "batcher"
        BY <4>3, HeldCalls DEF WaitsAt
      <4>5. call[c].req.kind = "replace"
        BY <4>4, RequestParts, HomeOfRequest DEF Home, Actors
      <4> QED BY <1>7, <2>1, <4>2, <4>5, BatchReplyCalls DEF OwnDone
    <3> QED BY <3>1, <3>2
  <2> QED BY <2>2 DEF SuccessIsOwn, OwnDone
<1> QED BY <1>1, <1>2, <1>3, <1>4, <1>5, <1>6, <1>7, CallFrame

\* A caller that is told success had its own operation done, whatever it was
\* batched with and whatever failed beside it: the audit record of its
\* replace, or of every token it burned, is in the store.
THEOREM SuccessIsTheCallersOwn == Spec => []SuccessIsOwn
<1>1. Init => OwnInv
  BY NoJobOk DEF Init, OwnInv, ResultsOwn, BurnOwn, SuccessIsOwn, Actors
<1>2. Types /\ HeldInv /\ OwnInv /\ [Next]_vars => OwnInv'
  BY ResultsOwnStep, BurnOwnStep, SuccessStep DEF OwnInv
<1>3. OwnInv => SuccessIsOwn
  BY DEF OwnInv
<1> QED BY <1>1, <1>2, <1>3, HeldInvariant, PTL DEF Spec

-----------------------------------------------------------------------------
(* The miner's memory and the store *)

LEMMA MinerStates ==
    ASSUME Types
    PROVE  /\ mem.count \in Nat /\ stored.count \in Nat /\ job["miner"].next.count \in Nat
           /\ mem.diff \in Nat /\ stored.diff \in Nat /\ job["miner"].next.diff \in Nat
           /\ "miner" \in Actors /\ DOMAIN job = Actors /\ job["miner"] \in JobType
<1>1. "miner" \in Actors /\ DOMAIN job = Actors /\ job["miner"] \in JobType
  BY DEF Types, ActorsOk, JobOk, Actors
<1>2. mem \in MiningStateType /\ stored \in MiningStateType /\ job["miner"].next \in MiningStateType
  BY <1>1 DEF Types, ActorsOk, StoreOk, JobType
<1> QED BY <1>1, <1>2 DEF MiningStateType

\* What a miner's step does to the states of mining.
LEMMA MinerMoves ==
    ASSUME Types, HeldInv, MinerInv, [Next]_vars
    PROVE  /\ MinerInv'
           /\ mem' = mem \/ OneReport(mem, mem')
<1> DEFINE j == job["miner"]
           jj == job'["miner"]
<1>0. /\ "miner" \in Actors /\ DOMAIN job = Actors /\ j \in JobType
      /\ mem.count \in Nat /\ stored.count \in Nat /\ j.next.count \in Nat
  BY MinerStates
<1>1. CASE /\ UNCHANGED <<mem, stored, accepted, claimed>>
           /\ \/ jj = j /\ ("miner" \in up => "miner" \in up')
              \/ jj = NoJob
  BY <1>1, NoJobOk DEF MinerInv
<1>2. ASSUME NEW c \in Calls, MineStart(c) PROVE MinerInv' /\ mem' = mem
  <2>1. /\ UNCHANGED <<mem, stored, accepted, up>> /\ Head1("miner", c) /\ Pop("miner")
        /\ "miner" \in up
    BY <1>2 DEF MineStart, Head1, storeVars, history
  <2>2. CASE job' = job
    BY <2>1, <2>2 DEF MinerInv
  <2>3. CASE \E time \in {"fast", "slow"} : job' = [job EXCEPT !["miner"] = MineJob(c, time)]
    <3>1. PICK time \in {"fast", "slow"} : job' = [job EXCEPT !["miner"] = MineJob(c, time)]
      BY <2>3
    <3>2. call[c].req \in Requests
      BY <1>0, <2>1, PopHolds
    <3>3. jj.step = "state" /\ OneReport(mem, jj.next)
      BY <1>0, <3>1, <3>2, MineJobOk
    <3> QED BY <2>1, <3>3 DEF MinerInv
  <2> QED BY <1>2, <2>1, <2>2, <2>3 DEF MineStart, MineJob
<1>3. CASE MineState
  <2>1. UNCHANGED <<mem, accepted, up>> /\ j.step = "state"
    BY <1>3 DEF MineState, history
  <2>2. CASE stored' = j.next /\ job' = [job EXCEPT !["miner"].step = "insert"]
    <3>1. jj.step = "insert" /\ jj.next = j.next
      BY <1>0, <2>2 DEF JobType
    <3> QED BY <2>1, <2>2, <3>1 DEF MinerInv
  <2>3. CASE stored' \in {stored, j.next} /\ Finish("miner", "err")
    <3>1. jj = NoJob
      BY <1>0, <2>3 DEF Finish
    <3> QED BY <2>1, <2>3, <3>1, NoJobOk DEF MinerInv
  <2> QED BY <1>3, <2>1, <2>2, <2>3 DEF MineState
<1>4. CASE MineReply
  <2>1. UNCHANGED <<stored, up>> /\ j.step = "insert" /\ jj = NoJob
    BY <1>0, <1>4 DEF MineReply, Finish, storeVars
  <2>2. stored = j.next /\ OneReport(mem, j.next) /\ accepted \in Nat /\ accepted <= mem.count
    BY <2>1 DEF MinerInv
  <2>3. CASE j.failed
    BY <1>4, <2>1, <2>3, NoJobOk DEF MineReply, MinerInv, history
  <2>4. CASE ~j.failed
    <3>1. mem' = j.next /\ accepted' = accepted + 1
      BY <1>4, <2>4 DEF MineReply
    <3>2. accepted' \in Nat /\ accepted' <= mem'.count
      BY <1>0, <2>2, <3>1 DEF OneReport
    <3> QED BY <2>1, <2>2, <3>1, <3>2, NoJobOk DEF MinerInv
  <2> QED BY <2>3, <2>4
<1>5. ASSUME NEW i, Inserts(i) PROVE MinerInv' /\ mem' = mem
  <2>1. UNCHANGED <<mem, stored, accepted, up>>
    BY <1>5 DEF Inserts, InsertNx, InsertPut, InsertRest, history
  <2>2. jj.step = j.step /\ jj.next = j.next
    BY <1>5, InsertJob
  <2> QED BY <2>1, <2>2 DEF MinerInv
<1>6. CASE (\E a \in Actors : Restart(a)) \/ Reboot
  <2>1. /\ UNCHANGED <<stored, accepted>> /\ mem' \in {mem, stored}
        /\ \/ jj = j /\ up \subseteq up' /\ (mem' # mem => "miner" \notin up)
           \/ jj = NoJob
    BY <1>0, <1>6 DEF Restart, Reboot, PreStart, storeVars, history
  <2>2. accepted <= stored.count
    BY <1>0 DEF MinerInv, OneReport
  <2>3. mem' = mem \/ OneReport(mem, mem')
    BY <2>1 DEF MinerInv
  <2>4. CASE mem' = mem
    BY <2>1, <2>4, NoJobOk DEF MinerInv
  <2>5. CASE mem' # mem
    <3>1. jj.step = "idle" /\ mem' = stored
      BY <2>1, <2>5, NoJobOk DEF MinerInv
    <3> QED BY <2>1, <2>2, <2>3, <3>1 DEF MinerInv
  <2> QED BY <2>3, <2>4, <2>5
<1> QED BY <1>1, <1>2, <1>3, <1>4, <1>5, <1>6, MinerFrame

LEMMA MinerInvariant == Spec => []MinerInv
<1>1. Init => MinerInv
  BY NoJobOk DEF Init, MinerInv, Actors, InitialState
<1>2. Types /\ HeldInv /\ MinerInv /\ [Next]_vars => MinerInv'
  BY MinerMoves
<1> QED BY <1>1, <1>2, HeldInvariant, PTL DEF Spec

\* The stored mining state is the miner's memory or one report ahead of it,
\* also while a report is between its writes, after one that failed there and
\* across restarts.
THEOREM StoreLeadsByOneReport == Spec => []MemoryTracksStore
<1>1. Types /\ MinerInv => MemoryTracksStore
  BY MinerStates DEF MinerInv, OneReport, MemoryTracksStore
<1> QED BY <1>1, HeldInvariant, MinerInvariant, PTL

\* The difficulty miners are told moves by one bit at most, and only with the
\* report that completes an epoch, restarts included.
THEOREM DifficultyMovesByEpoch == Spec => TargetMovesByEpoch
<1> DEFINE A == mem'.diff # mem.diff =>
                   /\ mem'.diff - mem.diff \in {-1, 1}
                   /\ mem'.count % ReportsPerEpoch = 0
<1>1. Types /\ HeldInv /\ MinerInv /\ [Next]_vars => [A]_vars
  <2> SUFFICES ASSUME Types, HeldInv, MinerInv, [Next]_vars PROVE A
    OBVIOUS
  <2>1. mem' = mem \/ OneReport(mem, mem')
    BY MinerMoves
  <2> QED BY <2>1 DEF OneReport
<1>2. TargetMovesByEpoch <=> [][A]_vars
  BY DEF TargetMovesByEpoch
<1> HIDE DEF A
<1> QED BY <1>1, <1>2, HeldInvariant, MinerInvariant, PTL DEF Spec

-----------------------------------------------------------------------------
(* What reports are granted *)

\* n adds what report r was granted to m.
Grants(r, m, n) ==
    Payout(r) \in Nat /\ n.circulation = m.circulation + Payout(r)

ClaimedInv ==
    /\ claimed \in Nat /\ claimed <= mem.circulation
    /\ mem.circulation <= stored.circulation
    /\ job["miner"].step # "idle" =>
          Grants(call[job["miner"].call].req, mem, job["miner"].next)

LEMMA ReportGrants ==
    ASSUME Types, NEW r \in Requests, NEW time
    PROVE  Grants(r, mem, NextState(r, time))
<1>1. NextState(r, time).circulation = mem.circulation + Payout(r)
  BY DEF NextState
<1> QED BY <1>1, PayoutIsNat DEF Grants

LEMMA Circulations ==
    ASSUME Types
    PROVE  mem.circulation \in Int /\ stored.circulation \in Int
           /\ job["miner"].next.circulation \in Int
<1>1. "miner" \in Actors /\ DOMAIN job = Actors /\ job["miner"] \in JobType
  BY DEF Types, ActorsOk, JobOk, Actors
<1>2. mem \in MiningStateType /\ stored \in MiningStateType /\ job["miner"].next \in MiningStateType
  BY <1>1 DEF Types, ActorsOk, StoreOk, JobType
<1> QED BY <1>2 DEF MiningStateType

\* The report being handled keeps its request.
LEMMA ReportKept ==
    ASSUME Types, HeldInv, [Next]_vars, job["miner"].step # "idle"
    PROVE  call'[job["miner"].call].req = call[job["miner"].call].req
<1> DEFINE c == job["miner"].call
<1>1. c \in Calls
  BY MinerJob DEF Types
<1>2. c \in WaitsAt(call, "miner")
  BY <1>1, CallNumbers DEF HeldInv, ActorHolds, Actors
<1>3. c <= sent
  BY <1>1, <1>2, CallNumbers DEF Types, CallOk, WaitsAt
<1> QED BY <1>1, <1>3, RequestsKept

LEMMA ClaimedStep ==
    ASSUME Types, HeldInv, MinerInv, ClaimedInv, [Next]_vars
    PROVE  ClaimedInv'
<1> DEFINE j == job["miner"]
           jj == job'["miner"]
<1>0. /\ "miner" \in Actors /\ DOMAIN job = Actors /\ j \in JobType
      /\ mem.circulation \in Int /\ stored.circulation \in Int /\ j.next.circulation \in Int
  BY MinerStates, Circulations
<1>k. ASSUME j.step # "idle"
      PROVE  Grants(call'[j.call].req, mem, j.next)
  <2>1. Grants(call[j.call].req, mem, j.next)
    BY <1>k DEF ClaimedInv
  <2>2. call'[j.call].req = call[j.call].req
    BY <1>k, ReportKept
  <2> QED BY <2>1, <2>2, Zenon
<1>1. CASE /\ UNCHANGED <<mem, stored, accepted, claimed>>
           /\ \/ jj = j /\ ("miner" \in up => "miner" \in up')
              \/ jj = NoJob
  <2>1. CASE jj = j
    BY <1>1, <1>k, <2>1 DEF ClaimedInv
  <2>2. CASE jj = NoJob
    BY <1>1, <2>2, NoJobOk DEF ClaimedInv
  <2> QED BY <1>1, <2>1, <2>2
<1>2. ASSUME NEW c \in Calls, MineStart(c) PROVE ClaimedInv'
  <2>1. /\ UNCHANGED <<mem, stored, claimed>> /\ Head1("miner", c) /\ Pop("miner")
    BY <1>2 DEF MineStart, storeVars, history
  <2>2. CASE job' = job
    BY <1>k, <2>1, <2>2 DEF ClaimedInv
  <2>3. CASE /\ UNCHANGED call
             /\ \E time \in {"fast", "slow"} : job' = [job EXCEPT !["miner"] = MineJob(c, time)]
    <3>1. PICK time \in {"fast", "slow"} : job' = [job EXCEPT !["miner"] = MineJob(c, time)]
      BY <2>3
    <3>2. call[c].req \in Requests
      BY <1>0, <2>1, PopHolds
    <3>3. Grants(call[c].req, mem, NextState(call[c].req, time))
      BY <3>2, ReportGrants
    <3>4. jj.call = c /\ jj.next = NextState(call[c].req, time)
      BY <1>0, <3>1 DEF MineJob, NoJob
    <3>5. Grants(call'[jj.call].req, mem', jj.next)
      BY <2>1, <2>3, <3>3, <3>4, Zenon
    <3> QED BY <2>1, <3>5 DEF ClaimedInv
  <2> QED BY <1>2, <2>1, <2>2, <2>3 DEF MineStart, MineJob
<1>3. CASE MineState
  <2>1. UNCHANGED <<mem, claimed>> /\ j.step = "state"
    BY <1>3 DEF MineState, history
  <2>2. mem.circulation <= j.next.circulation
    BY <1>0, <2>1 DEF ClaimedInv, Grants
  <2>3. CASE stored' = j.next /\ job' = [job EXCEPT !["miner"].step = "insert"]
    <3>1. jj.call = j.call /\ jj.next = j.next
      BY <1>0, <2>3 DEF JobType
    <3>2. Grants(call'[jj.call].req, mem', jj.next)
      BY <1>k, <2>1, <3>1
    <3> QED BY <2>1, <2>2, <2>3, <3>2 DEF ClaimedInv
  <2>4. CASE stored' \in {stored, j.next} /\ Finish("miner", "err")
    <3>1. jj = NoJob
      BY <1>0, <2>4 DEF Finish
    <3> QED BY <2>1, <2>2, <2>4, <3>1, NoJobOk DEF ClaimedInv
  <2> QED BY <1>3, <2>1, <2>3, <2>4 DEF MineState
<1>4. CASE MineReply
  <2>1. UNCHANGED stored /\ j.step = "insert" /\ jj = NoJob
    BY <1>0, <1>4 DEF MineReply, Finish, storeVars
  <2>2. stored = j.next /\ Grants(call[j.call].req, mem, j.next)
    BY <2>1 DEF MinerInv, ClaimedInv
  <2>3. CASE j.failed
    BY <1>4, <2>1, <2>3, NoJobOk DEF MineReply, ClaimedInv, history
  <2>4. CASE ~j.failed
    <3>1. mem' = j.next /\ claimed' = claimed + Payout(call[j.call].req)
      BY <1>4, <2>4 DEF MineReply
    <3>2. claimed' \in Nat /\ claimed' <= j.next.circulation
      BY <1>0, <2>2, <3>1 DEF ClaimedInv, Grants
    <3> QED BY <1>0, <2>1, <2>2, <3>1, <3>2, NoJobOk DEF ClaimedInv
  <2> QED BY <2>3, <2>4
<1>5. ASSUME NEW i, Inserts(i) PROVE ClaimedInv'
  <2>1. UNCHANGED <<mem, stored, claimed>>
    BY <1>5 DEF Inserts, InsertNx, InsertPut, InsertRest, history
  <2>2. jj.step = j.step /\ jj.next = j.next /\ jj.call = j.call
    BY <1>5, InsertJob
  <2>3. j.step # "idle" => Grants(call'[jj.call].req, mem', jj.next)
    BY <1>k, <2>1, <2>2
  <2> QED BY <2>1, <2>2, <2>3 DEF ClaimedInv
<1>6. CASE (\E a \in Actors : Restart(a)) \/ Reboot
  <2>1. /\ UNCHANGED <<stored, claimed>> /\ mem' \in {mem, stored}
        /\ \/ jj = j /\ (mem' # mem => "miner" \notin up)
           \/ jj = NoJob
    BY <1>0, <1>6 DEF Restart, Reboot, PreStart, storeVars, history
  <2>2. CASE mem' = mem
    BY <1>k, <2>1, <2>2, NoJobOk DEF ClaimedInv
  <2>3. CASE mem' # mem
    <3>1. jj.step = "idle" /\ mem' = stored
      BY <2>1, <2>3, NoJobOk DEF MinerInv
    <3> QED BY <1>0, <2>1, <3>1 DEF ClaimedInv
  <2> QED BY <2>2, <2>3
<1> QED BY <1>1, <1>2, <1>3, <1>4, <1>5, <1>6, MinerFrame

\* The stored mining state counts every report answered with success and its
\* circulation includes what each was granted, whatever fails, panics or
\* restarts between the two writes of a report.
THEOREM AcceptedReportsAreCounted == Spec => []AcceptedIsCounted
<1>1. Init => ClaimedInv
  BY NoJobOk DEF Init, ClaimedInv, Actors, InitialState
<1>2. Types /\ HeldInv /\ MinerInv /\ ClaimedInv /\ [Next]_vars => ClaimedInv'
  BY ClaimedStep
<1>3. ASSUME Types, MinerInv, ClaimedInv PROVE AcceptedIsCounted
  <2>1. accepted <= stored.count
    BY <1>3, MinerStates DEF MinerInv, OneReport
  <2>2. claimed <= stored.circulation
    BY <1>3, Circulations DEF ClaimedInv
  <2> QED BY <2>1, <2>2 DEF AcceptedIsCounted
<1> QED BY <1>1, <1>2, <1>3, HeldInvariant, MinerInvariant, PTL DEF Spec

-----------------------------------------------------------------------------
(* Spent tokens *)

\* A spent token stays spent on both stores, whatever interleaves: only the
\* insert that is creating its key, or a put that names it again, revives it.
THEOREM SpentTokensStaySpent == Spec => SpentStays
<1> DEFINE A == \A k \in Keys :
                   tokens[k] # Absent /\ tokens[k].spent = "yes" /\ ~Inserting(k)
                   => tokens'[k] # Absent /\ tokens'[k].spent = "yes"
<1>1. Types /\ HeldInv /\ [Next]_vars => [A]_vars
  <2> SUFFICES ASSUME Types, HeldInv, [Next]_vars, NEW k \in Keys,
                      SpentIn(tokens, k), ~Inserting(k)
               PROVE  SpentIn(tokens', k)
    BY DEF SpentIn
  <2>0. tokens \in TokenMap
    BY DEF Types, StoreOk
  <2>1. ASSUME NEW i \in todo, BatchRun(i) PROVE SpentIn(tokens', k)
    <3>1. i \in DOMAIN batch
      BY DEF Types, BatchOk
    <3>2. batch[i] \in WaitsAt(call, "batcher")
      BY <3>1, HeldCalls DEF Members
    <3>3. call[batch[i]].req \in Requests
      BY <3>2, HeldCalls
    <3>4. tokens[k] # Absent /\ StoreOk
      BY DEF SpentIn, Types
    <3> QED BY <2>1, <3>3, <3>4, ReplaceKeeps DEF BatchRun
  <2>2. ASSUME NEW i \in job["ledger"].todo, BurnOne(i) PROVE SpentIn(tokens', k)
    <3>1. tokens' = tokens \/ \E ks : tokens' = MarkSpent(tokens, ks)
      BY <2>2 DEF BurnOne
    <3> QED BY <2>0, <3>1, MarkKeepsSpent
  <2>3. ASSUME NEW i, Inserts(i) PROVE SpentIn(tokens', k)
    <3> DEFINE t == job["miner"].tokens[i]
    <3>1. t \in Tokens
      BY <2>3, InsertJob
    <3>2. \/ tokens' = tokens
          \/ HSetNxCreates(tokens, t) /\ tokens' = HSetNx(tokens, t)
          \/ /\ i \in job["miner"].made \/ (backend = "dynamodb" /\ i \in job["miner"].todo)
             /\ tokens' = HSetRest(tokens, t, "mined") \/ tokens' = DynamoPut(tokens, t, "mined")
      BY <2>3 DEF Inserts, InsertNx, InsertPut, InsertRest
    <3>3. CASE /\ i \in job["miner"].made \/ (backend = "dynamodb" /\ i \in job["miner"].todo)
               /\ tokens' = HSetRest(tokens, t, "mined") \/ tokens' = DynamoPut(tokens, t, "mined")
      <4>1. k # t.key
        BY <3>3 DEF Inserting
      <4> HIDE DEF t
      <4>2. tokens'[k] = tokens[k]
        BY <2>0, <3>3, <4>1 DEF HSetRest, DynamoPut, TokenMap
      <4> QED BY <4>2 DEF SpentIn
    <3> HIDE DEF t
    <3> QED BY <2>0, <3>1, <3>2, <3>3, HSetNxKeepsSpent
  <2> QED BY <2>1, <2>2, <2>3, TokensFrame
<1>2. SpentStays <=> [][A]_vars
  BY DEF SpentStays
<1> HIDE DEF A
<1> QED BY <1>1, <1>2, HeldInvariant, PTL DEF Spec
=============================================================================
