---------------------------- MODULE LegacyServer ----------------------------
(***************************************************************************)
(* The single-flavor server of crates/server: HTTP handlers that hand a    *)
(* request to a batching task (replace) or to one of three supervised      *)
(* actors (burn and health_check: ledger; mining reports and the target:   *)
(* miner; statistics: stats), over a Redis or a DynamoDB store.            *)
(*                                                                         *)
(* An actor handles one message at a time; each command it sends to the    *)
(* store is an action, so the other actors and the batcher come between.   *)
(* The miner keeps the mining state in memory and writes it through.  The  *)
(* supervisor restarts an actor that panicked; nobody restarts the batcher.*)
(***************************************************************************)
EXTENDS RedisStore, DynamoStore, FiniteSets, FiniteSetsExt

CONSTANTS
    Requests,         \* the requests clients send
    Backends,         \* the stores the configuration may name
    BufferSize,       \* capacity of the batcher's channel (100 000)
    ReportsPerEpoch,  \* mining_config.reports_per_epoch
    MiningAmount,     \* mining_amount_wats
    SubsidyAmount,    \* subsidy_amount_wats
    InitialDifficulty,
    MaxCalls,         \* bound: requests sent in a behaviour
    MaxFaults,        \* bound: failed store calls, panics and restarts
    NoReq,            \* no request yet
    NoCall            \* the actor handles no message

Kinds == {"replace", "burn", "health", "mine", "target", "stats"}

\* `ok` stands for the checks on the request alone: the size of the body,
\* its JSON, the terms, the lists that must not be empty, the token strings.
\* A report carries its outputs, its subsidy outputs, the difficulty written
\* in the preimage and the leading zero bits of the preimage's hash.
ASSUME RequestsAssumption ==
    \A r \in Requests :
        r \in [kind : Kinds, ok : BOOLEAN, ins : Seq(Tokens),
               outs : Seq(Tokens), subs : Seq(Tokens), diff : Nat, pow : Nat]

ASSUME BoundsAssumption ==
    /\ BufferSize \in Nat \ {0} /\ ReportsPerEpoch \in Nat \ {0}
    /\ MiningAmount \in Nat /\ SubsidyAmount \in Nat
    /\ InitialDifficulty \in Nat /\ MaxCalls \in Nat /\ MaxFaults \in Nat
    /\ Backends \subseteq {"redis", "dynamodb"}
    /\ NoReq \notin Requests /\ NoCall \notin Nat

VARIABLES
    backend,   \* the store create_store made
    tokens,    \* the store's token records
    audit,     \* the store's audit records: <<c, 0>> of the replace
               \* of call c, <<c, i>> of the i-th token of a burn
    stored,    \* the store's MiningState
    up,        \* the actors that run
    sup,       \* whether the supervisor runs
    box,       \* per actor: the mailbox, a sequence of calls
    job,       \* per actor: the message being handled
    mem,       \* MinerState::mining_state
    queue,     \* the batcher's channel
    batch,     \* the requests the batcher took
    todo,      \* positions of batch whose operation has not run
    result,    \* per position of batch: whether its operation returned ok
    batcher,   \* whether batcher_loop runs
    call,      \* per request sent: the request and its answer
    sent,      \* requests sent so far
    faults,    \* faults so far
    accepted,  \* history: reports answered with success
    claimed    \* history: what those reports were allowed to mint

storeVars == <<tokens, audit, stored>>
batchVars == <<queue, batch, todo, result, batcher>>
actorVars == <<up, sup, box, job, mem>>
history == <<accepted, claimed>>
vars == <<backend, tokens, audit, stored, up, sup, box, job, mem, queue,
          batch, todo, result, batcher, call, sent, faults, accepted, claimed>>

-----------------------------------------------------------------------------
(* State *)

\* Requests are numbered in the order they arrive; the number stands for the
\* reply channel and for the uuid of the audit record.
Calls == 1..MaxCalls

Actors == {"ledger", "miner", "stats"}

\* MiningState::initial
InitialState ==
    [count |-> 0, circulation |-> 0, diff |-> InitialDifficulty, epoch |-> 0]

NoJob == [call |-> NoCall, step |-> "idle", todo |-> {}, made |-> {},
          failed |-> FALSE, tokens |-> <<>>, next |-> InitialState]

\* WebcashServer::start on an empty store: the miner's pre_start found no
\* mining state and wrote the initial one.
Init ==
    /\ backend \in Backends
    /\ tokens = [k \in Keys |-> Absent]
    /\ audit = {}
    /\ stored = InitialState
    /\ up = Actors
    /\ sup = TRUE
    /\ box = [a \in Actors |-> <<>>]
    /\ job = [a \in Actors |-> NoJob]
    /\ mem = InitialState
    /\ queue = <<>> /\ batch = <<>> /\ todo = {} /\ result = <<>>
    /\ batcher = TRUE
    /\ call = [c \in Calls |-> [req |-> NoReq, status |-> "idle"]]
    /\ sent = 0 /\ faults = 0
    /\ accepted = 0 /\ claimed = 0

Waiting(c) == call[c].status \in {"submit", "wait"}

\* Answer every call of cs; an answer to nobody changes nothing.
Answered(cs, status) ==
    [c \in Calls |-> IF c \in cs THEN [call[c] EXCEPT !.status = status]
                                   ELSE call[c]]

Answer(c, status) == call' = Answered({c}, status)

Fault == faults < MaxFaults /\ faults' = faults + 1

-----------------------------------------------------------------------------
(* HTTP handlers *)

\* route: the actor whose handle a handler asks the supervisor for.
ActorOf(kind) ==
    CASE kind \in {"burn", "health"} -> "ledger"
      [] kind \in {"mine", "target"} -> "miner"
      [] kind = "stats" -> "stats"

\* parse_and_validate_replace: positive amounts, checked sums, balance.  The
\* amounts are those written in the strings; the stored ones are not read.
ValidReplace(r) ==
    /\ \A i \in DOMAIN r.ins : r.ins[i].amount > 0
    /\ \A i \in DOMAIN r.outs : r.outs[i].amount > 0
    /\ ~Overflows(r.ins) /\ ~Overflows(r.outs)
    /\ Total(r.ins) = Total(r.outs)
    /\ Total(r.ins) > 0

\* The status a request has once its handler has done what needs no store:
\* refused, about to be sent to the batcher, or cast to an actor's mailbox.
StatusOf(r) ==
    IF ~r.ok THEN "err"
    ELSE IF r.kind = "replace"
         THEN IF ValidReplace(r) THEN "submit" ELSE "err"
         ELSE IF ActorOf(r.kind) \in up THEN "wait" ELSE "err"

Send(c, r) ==
    /\ c = sent + 1
    /\ sent' = c
    /\ call' = [call EXCEPT ![c] = [req |-> r, status |-> StatusOf(r)]]
    /\ box' = IF StatusOf(r) = "wait"
              THEN [box EXCEPT ![ActorOf(r.kind)] = Append(@, c)]
              ELSE box
    /\ UNCHANGED <<backend, storeVars, up, sup, job, mem, batchVars, faults,
                   history>>

-----------------------------------------------------------------------------
(* The batcher *)

\* Mutant: an unbounded channel.
SubmitUnbounded(c) ==
    /\ call[c].status = "submit" /\ batcher
    /\ queue' = Append(queue, c)
    /\ Answer(c, "wait")
    /\ UNCHANGED <<backend, storeVars, actorVars, batch, todo, result,
                   batcher, sent, faults, history>>

\* BatchReplacerHandle::replace: send waits while the channel is full and
\* fails once the loop is gone.
Submit(c) ==
    /\ call[c].status = "submit"
    /\ \/ /\ batcher /\ Len(queue) < BufferSize
          /\ queue' = Append(queue, c)
          /\ Answer(c, "wait")
       \/ /\ ~batcher
          /\ Answer(c, "err")
          /\ UNCHANGED queue
    /\ UNCHANGED <<backend, storeVars, actorVars, batch, todo, result,
                   batcher, sent, faults, history>>

\* Mutant: the loop waits for a second request before it runs a batch.
BatchTakePairs ==
    /\ batcher /\ batch = <<>> /\ Len(queue) > 1
    /\ batch' = queue
    /\ queue' = <<>>
    /\ todo' = DOMAIN queue
    /\ result' = [i \in DOMAIN queue |-> FALSE]
    /\ UNCHANGED <<backend, storeVars, actorVars, batcher, call, sent,
                   faults, history>>

\* batcher_loop: recv one request, then drain what the channel holds.
BatchTake ==
    /\ batcher /\ batch = <<>> /\ queue # <<>>
    /\ batch' = queue
    /\ queue' = <<>>
    /\ todo' = DOMAIN queue
    /\ result' = [i \in DOMAIN queue |-> FALSE]
    /\ UNCHANGED <<backend, storeVars, actorVars, batcher, call, sent,
                   faults, history>>

\* REPLACE_LUA keeps what it wrote before it returned an error; exec_replace
\* is one transaction.
ReplaceOk(r) ==
    IF backend = "redis" THEN LuaReplaceOk(tokens, r.ins, r.outs)
                         ELSE DynamoReplaceOk(tokens, r.ins, r.outs)

ReplaceWrites(r) ==
    IF backend = "redis" THEN LuaReplace(tokens, r.ins, r.outs)
    ELSE IF ReplaceOk(r) THEN DynamoReplace(tokens, r.ins, r.outs)
    ELSE tokens

\* The operation at position i runs on the store.  A Redis pipeline runs in
\* order, with other connections' commands between its own; the DynamoDB
\* transactions of a batch run side by side.
BatchRun(i) ==
    /\ i \in todo
    /\ backend = "redis" => \A j \in todo : i <= j
    /\ LET c == call[batch[i]]
       IN  /\ tokens' = ReplaceWrites(c.req)
           /\ audit' = IF ReplaceOk(c.req) THEN audit \union {<<batch[i], 0>>}
                                           ELSE audit
           /\ result' = [result EXCEPT ![i] = ReplaceOk(c.req)]
    /\ todo' = todo \ {i}
    /\ UNCHANGED <<backend, stored, actorVars, queue, batch, batcher, call,
                   sent, faults, history>>

\* The connection breaks under the pipeline: every operation is reported as
\* failed, those that have run included.  A DynamoDB call fails alone, after
\* or before its transaction was applied.
BatchFault ==
    /\ batch # <<>>
    /\ Fault
    /\ IF backend = "redis"
       THEN todo' = {} /\ result' = [i \in DOMAIN batch |-> FALSE]
       ELSE \/ \E i \in todo : todo' = todo \ {i} /\ UNCHANGED result
            \/ \E i \in DOMAIN batch \ todo :
                   result' = [result EXCEPT ![i] = FALSE] /\ UNCHANGED todo
    /\ UNCHANGED <<backend, storeVars, actorVars, queue, batch, batcher,
                   call, sent, history>>

\* Mutant: the results are zipped with the batch in reverse.
BatchReplyReversed ==
    /\ batch # <<>> /\ todo = {}
    /\ call' = [c \in Calls |->
           IF \E i \in DOMAIN batch : batch[i] = c
           THEN [call[c] EXCEPT !.status =
                   IF result[Len(batch) + 1
                             - (CHOOSE i \in DOMAIN batch : batch[i] = c)]
                   THEN "ok" ELSE "err"]
           ELSE call[c]]
    /\ batch' = <<>> /\ result' = <<>>
    /\ UNCHANGED <<backend, storeVars, actorVars, queue, todo, batcher, sent,
                   faults, history>>

\* batcher_loop: the results are zipped with the requests of the batch.
BatchReply ==
    /\ batch # <<>> /\ todo = {}
    /\ call' = [c \in Calls |->
           IF \E i \in DOMAIN batch : batch[i] = c
           THEN [call[c] EXCEPT !.status =
                   IF result[CHOOSE i \in DOMAIN batch : batch[i] = c]
                   THEN "ok" ELSE "err"]
           ELSE call[c]]
    /\ batch' = <<>> /\ result' = <<>>
    /\ UNCHANGED <<backend, storeVars, actorVars, queue, todo, batcher, sent,
                   faults, history>>

\* The loop panics while it runs a batch (an expect on a request it builds):
\* the receiver and every pending reply are dropped.
BatchPanic ==
    /\ batch # <<>>
    /\ Fault
    /\ batcher' = FALSE
    /\ call' = Answered({batch[i] : i \in DOMAIN batch}
                        \union {queue[i] : i \in DOMAIN queue}, "err")
    /\ queue' = <<>> /\ batch' = <<>> /\ todo' = {} /\ result' = <<>>
    /\ UNCHANGED <<backend, storeVars, actorVars, sent, history>>

-----------------------------------------------------------------------------
(* Actors: gen_server dispatches the messages of a mailbox one at a time *)

\* The actor is idle and c's request is the head of its mailbox.
Head1(a, c) ==
    /\ a \in up /\ job[a] = NoJob
    /\ box[a] # <<>> /\ c = Head(box[a])

Pop(a) == box' = [box EXCEPT ![a] = Tail(@)]

\* Handlers with one read of the store or of the actor's memory: they change
\* nothing, and an error of the store is an error of the request.
ReadOnly(a, c) ==
    /\ Head1(a, c)
    /\ call[c].req.kind \in {"health", "target", "stats"}
    /\ Pop(a)
    /\ \/ Answer(c, "ok") /\ UNCHANGED faults
       \/ call[c].req.kind # "target" /\ Fault /\ Answer(c, "err")
    /\ UNCHANGED <<backend, storeVars, up, sup, job, mem, batchVars, sent,
                   history>>

Finish(a, status) ==
    /\ job' = [job EXCEPT ![a] = NoJob]
    /\ Answer(job[a].call, status)

-----------------------------------------------------------------------------
(* The ledger actor: burn *)

\* do_burn: one burn record per token, then one batch_burn.
BurnStart(c) ==
    /\ Head1("ledger", c)
    /\ call[c].req.kind = "burn"
    /\ Pop("ledger")
    /\ job' = [job EXCEPT !["ledger"] =
                  [NoJob EXCEPT !.call = c, !.step = "burn",
                                !.todo = DOMAIN call[c].req.ins]]
    /\ UNCHANGED <<backend, storeVars, up, sup, mem, batchVars, call, sent,
                   faults, history>>

BurnOk(k) ==
    IF backend = "redis" THEN LuaBurnOk(tokens, k) ELSE DynamoBurnOk(tokens, k)

\* One script or one transaction of batch_burn.  A token that cannot be
\* burned does not stop the others.
BurnOne(i) ==
    LET j == job["ledger"]
        k == call[j.call].req.ins[i].key
    IN  /\ j.step = "burn" /\ i \in j.todo
        /\ backend = "redis" => \A n \in j.todo : i <= n
        /\ tokens' = IF BurnOk(k) THEN MarkSpent(tokens, {k}) ELSE tokens
        /\ audit' = IF BurnOk(k) THEN audit \union {<<j.call, i>>}
                                 ELSE audit
        /\ job' = [job EXCEPT !["ledger"].todo = @ \ {i},
                              !["ledger"].failed = @ \/ ~BurnOk(k)]
        /\ UNCHANGED <<backend, stored, up, sup, box, mem, batchVars, call,
                       sent, faults, history>>

\* The first error of the batch is the answer.  try_join_all does not wait
\* for the transactions that are left.
BurnReply ==
    LET j == job["ledger"]
    IN  /\ j.step = "burn"
        /\ j.todo = {} \/ (backend = "dynamodb" /\ j.failed)
        /\ Finish("ledger", IF j.failed THEN "err" ELSE "ok")
        /\ UNCHANGED <<backend, storeVars, up, sup, box, mem, batchVars,
                       sent, faults, history>>

BurnFault ==
    /\ job["ledger"].step = "burn"
    /\ Fault
    /\ Finish("ledger", "err")
    /\ UNCHANGED <<backend, storeVars, up, sup, box, mem, batchVars, sent,
                   history>>

-----------------------------------------------------------------------------
(* The miner actor: handle_mining_report *)

\* The records of the outputs, then those of the subsidy outputs.
RecordsOf(r) == r.outs \o r.subs

\* BTreeMap of the reversed records: the first record of a hash wins.  The
\* map is in the order of the hashes, which the model leaves open.
FirstOfEachKey(ts) ==
    {i \in DOMAIN ts : \A n \in 1..(i - 1) : ts[n].key # ts[i].key}

\* The circulation a report is granted: by the configuration and the number of
\* its subsidy outputs, whatever amounts they carry.
Payout(r) == MiningAmount + SubsidyAmount * Len(r.subs)

\* PHASE A, against the state in memory.  The timestamp check is the choice
\* of MineStart.  i64 sums of a release build wrap.
ReportAdmissible(r) ==
    /\ r.pow >= mem.diff
    /\ r.diff = mem.diff
    /\ r.outs # <<>>
    /\ Wrap(Total(r.outs)) = MiningAmount
    /\ SubsidyAmount > 0 => \A i \in DOMAIN r.subs :
                                r.subs[i].amount = SubsidyAmount
    /\ mem.circulation + Payout(r) <= MaxWats

Max2(a, b) == IF a >= b THEN a ELSE b

\* Mutant: a fast epoch raises the difficulty without the clamp.
AdjustDifficultySteep(diff, time) ==
    CASE time \in {"fast", "exact"} -> diff + 3
      [] time = "slow" -> Max2(diff - 1, 1)

\* adjust_difficulty as the miner calls it: the epoch has exactly the
\* expected reports, so only the time it took decides.
AdjustDifficulty(diff, time) ==
    CASE time \in {"fast", "exact"} -> diff + 1
      [] time = "slow" -> Max2(diff - 1, 1)

\* Step 9: the next state, in production mode.
NextState(r, time) ==
    LET count == mem.count + 1
        ends == count % ReportsPerEpoch = 0
    IN  [count |-> count,
         circulation |-> mem.circulation + Payout(r),
         diff |-> IF ends THEN AdjustDifficulty(mem.diff, time) ELSE mem.diff,
         epoch |-> IF ends THEN mem.epoch + 1 ELSE mem.epoch]

\* Everything up to the first write; `fresh` is whether the timestamp lies
\* within the five minutes around the server's clock.
MineStart(c) ==
    LET r == call[c].req
    IN  /\ Head1("miner", c)
        /\ r.kind = "mine"
        /\ Pop("miner")
        /\ \E fresh \in BOOLEAN, time \in {"fast", "slow"} :
               IF fresh /\ ReportAdmissible(r)
               THEN /\ job' = [job EXCEPT !["miner"] =
                         [NoJob EXCEPT !.call = c, !.step = "state",
                                       !.tokens = RecordsOf(r),
                                       !.todo = FirstOfEachKey(RecordsOf(r)),
                                       !.next = NextState(r, time)]]
                    /\ UNCHANGED call
               ELSE Answer(c, "err") /\ UNCHANGED job
        /\ UNCHANGED <<backend, storeVars, up, sup, mem, batchVars, sent,
                       faults, history>>

\* Step 10: update_mining_state overwrites whatever the store holds.  When
\* the call fails the write may have been applied or not.
MineState ==
    LET j == job["miner"]
    IN  /\ j.step = "state"
        /\ \/ /\ stored' = j.next
              /\ job' = [job EXCEPT !["miner"].step = "insert"]
              /\ UNCHANGED <<call, faults>>
           \/ /\ Fault
              /\ stored' \in {stored, j.next}
              /\ Finish("miner", "err")
        /\ UNCHANGED <<backend, tokens, audit, up, sup, box, mem, batchVars,
                       sent, history>>

\* Step 11, insert_tokens on Redis: a pipeline of HSETNX ...
InsertNx(i) ==
    LET j == job["miner"]
        t == j.tokens[i]
    IN  /\ j.step = "insert" /\ backend = "redis"
        /\ i \in j.todo
        /\ IF HSetNxCreates(tokens, t)
           THEN /\ tokens' = HSetNx(tokens, t)
                /\ job' = [job EXCEPT !["miner"].todo = @ \ {i},
                                      !["miner"].made = @ \union {i}]
           ELSE /\ job' = [job EXCEPT !["miner"].todo = @ \ {i},
                                      !["miner"].failed = TRUE]
                /\ UNCHANGED tokens
        /\ UNCHANGED <<backend, audit, stored, up, sup, box, mem, batchVars,
                       call, sent, faults, history>>

\* ... then a pipeline of HSET for the keys it created.
InsertRest(i) ==
    LET j == job["miner"]
    IN  /\ j.step = "insert" /\ j.todo = {}
        /\ i \in j.made
        /\ tokens' = HSetRest(tokens, j.tokens[i], "mined")
        /\ job' = [job EXCEPT !["miner"].made = @ \ {i}]
        /\ UNCHANGED <<backend, audit, stored, up, sup, box, mem, batchVars,
                       call, sent, faults, history>>

\* insert_tokens on DynamoDB: unconditional puts, in batches whose unprocessed
\* items are not looked at.
InsertPut(i) ==
    LET j == job["miner"]
    IN  /\ j.step = "insert" /\ backend = "dynamodb"
        /\ i \in j.todo
        /\ tokens' \in {tokens, DynamoPut(tokens, j.tokens[i], "mined")}
        /\ job' = [job EXCEPT !["miner"].todo = @ \ {i}]
        /\ UNCHANGED <<backend, audit, stored, up, sup, box, mem, batchVars,
                       call, sent, faults, history>>

\* Mutant: the state in memory is not replaced.
MineReplyForgets ==
    LET j == job["miner"]
    IN  /\ j.step = "insert" /\ j.todo = {} /\ j.made = {}
        /\ Finish("miner", IF j.failed THEN "err" ELSE "ok")
        /\ IF j.failed
           THEN UNCHANGED <<mem, history>>
           ELSE /\ mem' = mem
                /\ accepted' = accepted + 1
                /\ claimed' = claimed + Payout(call[j.call].req)
        /\ UNCHANGED <<backend, storeVars, up, sup, box, batchVars, sent,
                       faults>>

\* The state in memory follows only after both writes.
MineReply ==
    LET j == job["miner"]
    IN  /\ j.step = "insert" /\ j.todo = {} /\ j.made = {}
        /\ Finish("miner", IF j.failed THEN "err" ELSE "ok")
        /\ IF j.failed
           THEN UNCHANGED <<mem, history>>
           ELSE /\ mem' = j.next
                /\ accepted' = accepted + 1
                /\ claimed' = claimed + Payout(call[j.call].req)
        /\ UNCHANGED <<backend, storeVars, up, sup, box, batchVars, sent,
                       faults>>

\* insert_tokens fails between two of its commands.
InsertFault ==
    /\ job["miner"].step = "insert"
    /\ Fault
    /\ Finish("miner", "err")
    /\ UNCHANGED <<backend, storeVars, up, sup, box, mem, batchVars, sent,
                   history>>

-----------------------------------------------------------------------------
(* Supervision *)

CallersOf(a) ==
    {box[a][i] : i \in DOMAIN box[a]} \union ({job[a].call} \ {NoCall})

\* Every actor of gone stops: its mailbox and the reply channels of its
\* callers are dropped, and each of them is told so.
Stop(gone) ==
    /\ up' = up \ gone
    /\ box' = [a \in Actors |-> IF a \in gone THEN <<>> ELSE box[a]]
    /\ job' = [a \in Actors |-> IF a \in gone THEN NoJob ELSE job[a]]
    /\ call' = Answered(UNION {CallersOf(a) : a \in gone}, "err")

\* A handler panics between two calls of the store.
Panic(a) ==
    /\ a \in up /\ job[a] # NoJob
    /\ Fault
    /\ Stop({a})
    /\ UNCHANGED <<backend, storeVars, sup, mem, batchVars, sent, history>>

\* Mutant: the restarted miner begins from the initial state.
PreStartFresh == InitialState

\* MinerActor::pre_start: the state the store holds.
PreStart == stored

\* restart_child spawns the actor anew and publishes its handle.
Restart(a) ==
    /\ sup /\ a \in Actors \ up
    /\ up' = up \union {a}
    /\ mem' = IF a = "miner" THEN PreStart ELSE mem
    /\ UNCHANGED <<backend, storeVars, sup, box, job, batchVars, call, sent,
                   faults, history>>

\* get_mining_state fails in pre_start: restart_child returns the error, the
\* supervisor fails with it, and the actors linked to it are stopped.  It takes a
\* panic before it, which MaxFaults has counted.
RestartFails ==
    /\ sup /\ "miner" \notin up
    /\ sup' = FALSE
    /\ Stop(Actors)
    /\ UNCHANGED <<backend, storeVars, mem, batchVars, sent, history, faults>>

\* The process is restarted: what was only in memory is gone.
Reboot ==
    /\ Fault
    /\ up' = Actors /\ sup' = TRUE /\ batcher' = TRUE
    /\ box' = [a \in Actors |-> <<>>]
    /\ job' = [a \in Actors |-> NoJob]
    /\ mem' = PreStart
    /\ queue' = <<>> /\ batch' = <<>> /\ todo' = {} /\ result' = <<>>
    /\ call' = Answered({c \in Calls : Waiting(c)}, "err")
    /\ UNCHANGED <<backend, storeVars, sent, history>>

-----------------------------------------------------------------------------
BatchStep == BatchTake \/ BatchReply \/ \E i \in todo : BatchRun(i)

LedgerStep ==
    \/ \E c \in Calls : BurnStart(c) \/ ReadOnly("ledger", c)
    \/ \E i \in job["ledger"].todo : BurnOne(i)
    \/ BurnReply

MinerStep ==
    \/ \E c \in Calls : MineStart(c) \/ ReadOnly("miner", c)
    \/ MineState
    \/ \E i \in job["miner"].todo : InsertNx(i) \/ InsertPut(i)
    \/ \E i \in job["miner"].made : InsertRest(i)
    \/ MineReply

StatsStep == \E c \in Calls : ReadOnly("stats", c)

Next ==
    \/ \E c \in Calls, r \in Requests : Send(c, r)
    \/ \E c \in Calls : Submit(c)
    \/ BatchStep \/ LedgerStep \/ MinerStep \/ StatsStep
    \/ BatchFault \/ BatchPanic \/ BurnFault \/ InsertFault
    \/ \E a \in Actors : Panic(a) \/ Restart(a)
    \/ RestartFails \/ Reboot

\* Tokio polls every task that is ready: the handlers, the batcher, the
\* actors and the supervisor move on.  Calls and faults owe nothing.
Fairness ==
    /\ \A c \in Calls : WF_vars(Submit(c))
    /\ WF_vars(BatchStep) /\ WF_vars(LedgerStep) /\ WF_vars(MinerStep)
    /\ WF_vars(StatsStep)
    /\ \A a \in Actors : WF_vars(Restart(a))

Spec == Init /\ [][Next]_vars /\ Fairness
=============================================================================
