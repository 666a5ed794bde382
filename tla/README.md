# A TLA+ development of webycash-server

webycash-server is a family of bearer-token ledgers in Rust. A token is a
secret; the server stores a record under the hash of the secret and witnesses
the transfer of the token by closing one record and opening others. Around the
ledger stand a referee for swaps, an older actor-based server and the text form
of tokens. This directory models them in TLA+, checks the models with TLC on
small instances and proves with TLAPS, for every instance, most of the safety
properties of the ledger, the RGB store, the referee and the legacy server.

Paths below are relative to the repository.

## 1. Inventory

| Part | Where | State it keeps | Operations |
|---|---|---|---|
| Ledger server | `crates/server-core` | the nonce cache; the locals of in-flight handlers | `replace`, `mining_report`, `issue`, `burn`, `health_check` (and 1:1 variants for collectibles); `target`, `stats`, `terms` only read |
| Storage contract | `crates/storage/src/lib.rs` | token records, audit records, one `MiningState` | `insert_tokens`, `get_tokens`, `check_tokens`, `batch_replace`, `batch_burn`, `get/update_mining_state` |
| Redis backend | `redis_backend.rs` | a HASH per token, a key per audit record | two Lua scripts; pipelines for the rest |
| DynamoDB backend | `dynamodb_backend.rs` | an item per token, audit table | `TransactWriteItems`, `BatchWriteItem`, `BatchGetItem` |
| FoundationDB backend | `fdb_backend.rs` | a key per token and audit record | one transaction per call, with automatic retry |
| Redis + FDB composite | `redis_fdb_backend.rs` | a Redis cache over FoundationDB | write-through, read-through |
| Auth | `crates/auth` | registered issuers; nonces seen | `verify`, `check_and_insert` |
| Assets | `crates/asset-{core,webcash,voucher,rgb}` | none | record building, field codec, HTLC predicate (RGB), token strings |
| Mining | `crates/mining`, `crates/server/src/protocol/mining.rs` | none | proof of work, difficulty adjustment |
| Referee | `referee/` | swap rows, two party indexes, audit chain, MuSig2 sessions (in memory) | `start_swap`, `advance_swap`, `cancel_swap`, `list_by_party` |
| Legacy server | `crates/server`, `crates/macros` | mailboxes, the batcher's channel, the miner's state; its own stores | the ledger API in an actor style, restarts by a supervisor |

How they interact: `serve` spawns one tokio task per connection; a handler
validates its request, then calls the store through `LedgerStore`, one await per
call. Handlers share the store and the nonce cache and nothing else. For RGB a
hook between the read of the inputs and the commit judges their locks. The
referee is a client of the Webcash and RGB servers and of a push provider; its
calls share the swap row, the audit log and the sessions, and a scheduler calls
`advance`. In the legacy server HTTP handlers send a replace to one batching task
and everything else to one of three actors, which a supervisor restarts.

What is hard: handlers interleave at every await; most handlers make two or three
store calls that are not atomic together; the backends implement one contract
with different primitives (script without rollback, serializable
transaction with blind retry, conditional transaction next to unconditional
batches, a cache in front of the truth); a client that disconnects makes hyper
drop its handler at an await; a restart loses the nonce cache, the MuSig2
sessions, mailboxes and channels. `PROJECT.json` lists these hazards at their
lines.

What makes each part correct:

- the ledger: a token is consumed once; the audit trail and the spent flags agree;
  no value changes without a trace in it; records are never rewritten; namespaces
  do not mix;
- a backend: all-or-nothing replace and burn, insert only of fresh keys;
- locked tokens: only the claim owner with the preimage, or the refund owner after
  the deadline, moves them;
- health checks: what a client is told is true;
- the referee: no nonce signs twice; a signature leaves only for its reason; what
  is stored is audited; a swap ends, in a row that stays;
- a party's history: complete, in order, current;
- the legacy server: an answer belongs to its request; accepted reports are
  counted; the target moves by epochs;
- token strings: one meaning per text, exact amounts;
- every handler: it answers.

## 2. Modules

```
TokenRecords            tokens, records, sums of amounts
 |- FdbStore            what the FoundationDB backend accepts and writes
 |- RedisStore          the Lua scripts, HSETNX and HSET
 |- DynamoStore         the transactions and the unconditional puts
 |- SealRegistry        the abstract specification of a ledger
 |
 |- LedgerServer        the three stores: handlers x store calls x failures
 |   |- LedgerSafety - LedgerRefinement (=> SealRegistry) - MCLedger
 |- RgbServer           FdbStore behind a Redis cache; locks and the replace hook
 |   |- RgbSafety - MCRgb
 |- LegacyServer        RedisStore, DynamoStore; actors, batcher, supervisor
     |- LegacySafety - MCLegacy

RefereeSwap             the swap orchestrator, await by await
 |- RefereeSafety - MCReferee
SwapHistory             list_by_party of four stores, racing writers
 |- HistorySafety - MCHistory
TokenCodec              parsers and Display of the five token types
 |- CodecSafety - MCCodec

TokenLemmas             lemmas about records, sums and the stores' operators
 |- LedgerTypeProofs - LedgerProofs - LedgerRefinementProofs
 |- RgbProofs
 |- LegacyProofs
RefereeProofs
HistoryProofs
```

Each component has one module with its state and actions, one with its
properties, and an MC module with the constants of its runs.

Definitions whose comment begins with "Mutant:" are deliberate errors. Nothing
uses them; each stands next to the definition it would replace and shows that
some property depends on that definition.

### The ledger (`LedgerServer`)

A **token string** is `[key, amount]`: the storage key (public hash under its
namespace) and the amount written in the string. `KeyNs` gives the namespace of
a key, so `KeyStrategy` is a function and key collisions do not exist. A
**record** is `[amount, spent, origin]` or `Absent`; the value `"unset"` is a
field of a Redis HASH that has not been written. Times and ids are left out.

A **worker** is one request task. `pc[p]` is its next store call, `req[p]` the
request, `work[p]` the locals that live across an await, `reply[p]` the last
answer. `landed` and `accepted` are history variables. A request's
field `ok` stands for the checks that look at the request alone (JSON, terms,
token syntax, proof of work, issuer, signature).

| Action | Code |
|---|---|
| `Refuse`, `AcceptEmpty`, `Accept`, `AcceptIssue` | everything a handler does before its first store call; `AcceptIssue` includes `NonceCache::check_and_insert` |
| `ReadInputs`, `CommitReplace` | `replace`: `get_tokens`, then `batch_replace` |
| `CommitBurn` | `burn` |
| `InsertTransaction` / `InsertNx`, `InsertFill` / `InsertPut`, `InsertNothing` | `insert_tokens` of FoundationDB / Redis / DynamoDB, and of an empty batch |
| `ReadMining`, `WriteMining` | the accounting of `mining_report` |
| `HealthGet`, `HealthCheck` | the two reads of `health_check` |
| `StoreFails` | a store call that returns an error and had no (further) effect |
| `ReplaceAckLost`, `BurnAckLost`, `InsertAckLost` | a write that happened and whose acknowledgement was lost; on FoundationDB `run` tries again, the others report an error |
| `ClientGone` | the connection closes and the handler's future is dropped |
| `Restart` | the process stops and starts again |

A Redis pipeline is not atomic, so its commands are taken one by one; a Lua
script is one step; the puts of a `BatchWriteItem` land in any order, each on its
own. MiningState is reduced to its two figures.

### RGB over the composite store (`RgbServer`)

`tokens` and `locks` are the FoundationDB record and its `htlc_state`; `cache` is
what the Redis HASH of a key holds, the `amount_wats` field apart from the
fields the second pipeline writes, because a record that has only the first does
not decode. A preimage is named by its hash and an owner by the key an output of
that secret has.

| Action | Code |
|---|---|
| `Receive` | the handler up to its first store call; `replace` reads the clock here |
| `CacheGet`, `FdbGet` | the two halves of `get_tokens`; the hook (`validate_replace_request`, `augment_output_records`) runs on what they return |
| `CacheNx`, `CacheRest` | `insert_tokens` of Redis, for warming and for mirroring; each may fail half-way |
| `Commit`, `Issue`, `Burn`, `Check` | one FoundationDB transaction each |
| `Tick`, `CacheLoss` | the clock; eviction |

### The referee (`RefereeSwap`)

A call is a **script**: the awaits it still has to make, each with the phase it
is made for. One action is one await, so calls on one swap interleave at each of
them; `CallFails` and `Restart` cut a script anywhere, and a restart loses the
sessions. An audit tip is modelled by what its hash commits to, the sequence of
phases from `init`.

| Action | Code |
|---|---|
| `Start`, `Advance`, `Cancel` | the HTTP handlers and the reads and checks before the first await that changes something |
| `Audit`, `AuditContended` | `audit_phase` over the list, FoundationDB or DynamoDB log |
| `PersistGet`, `PersistPut` | `persist`: the row is read, then overwritten |
| `Mint`, `HtlcGet`, `HtlcPut`, `Close` | the RGB records of a swap |
| `Verify`, `Check`, `Push`, `PushIgnored` | the verifier, webcash.org, the push provider |
| `Sign`, `SignRefused`, `SignFails`, `Discard` | `partial_sign` and `discard_session` |
| `LegSpent` | a wallet spends Bob's webcash (external) |

### The swap history (`SwapHistory`)

`rows` are the stored transactions, reduced to the two parties, the creation time
and the number of the write that made them; `index` holds per role the row as it
was indexed. `Batches` are the range reads of FoundationDB: one `get_range` in
Iterator mode, whose answer ends at a size the client library chooses. `UpsertNew` and `UpsertNext` are writes of other processes,
`Propagate` is DynamoDB updating an index. A listing is `ListMemory`, or
`ReadBobIndex`, `ReadAliceIndex`, `FetchRow`* (Redis), `ScanIndexes`, `FetchRow`*
(FoundationDB), `Query`("bob"), `Query`("alice") (DynamoDB).

### The legacy server (`LegacyServer`)

Requests are numbered; the number is the reply channel and the id of the audit
record. `Send` is an HTTP handler, `Submit` its wait for a place in the batcher's
channel, `BatchTake`, `BatchRun`, `BatchReply` one round of `batcher_loop`. An actor
takes the head of its mailbox and then makes one store command per step:
`BurnStart`, `BurnOne`, `BurnReply`; `MineStart`, `MineState`, `InsertNx`,
`InsertRest` or `InsertPut`, `MineReply`; `ReadOnly`. `Panic`, `BatchPanic`, `Restart`,
`RestartFails` and `Reboot` are the ways a process part dies and comes back: all
reply channels it held are dropped, which the callers see as an error.

### Token strings (`TokenCodec`)

A text is a sequence of symbols; `"e"` and `"E"` stand for the hex letters of each
case, `"secret"` and `"public"` are one symbol each. The parsers are lists of
segments matched greedily, as the nom combinators are, and the amount is
converted by `ParseAmount` with its two checked operations. Lengths, base and the
number of decimals are constants. The state machine edits a token's text symbol by
symbol and keeps what each of the ten parsers makes of it.

## 3. Properties and runs

### The ledger

All runs use `MCLedger`. Three tokens (amounts 2, 1, 1; `MaxWats` = 3, so that sums
overflow) are the fewest with which a replace can split, merge and chain; in
`LedgerFdb` clients also write tokens with amounts that are not the records'; lists
have at most two tokens, empty and repeated ones included (a repeated token meets
lists of at most one token on the other side). A fourth token belongs to a second
contract. Two workers suffice for every race of two handlers. `MaxReports` bounds
accepted mining reports, `MaxCommits` audit records; on FoundationDB a token is
spent once, so 9 is never reached.

| Run | Backend | Shows |
|---|---|---|
| `LedgerFdb` | FDB, vouchers | signed issue, replace and burn over two contracts, a nonce cache of size 1 and all failures: `TypeOK`, `SingleUse`, `SpentIffAudited`, `AuditIsCausal`, `ValueIsAudited` (what is unspent or burned differs from what was minted by what the replaces of the audit trail overstate), `AuditInOneNamespace`, `RecordsStable`, `ImplementsRegistry` |
| `LedgerLive` | FDB, webcash | reports, readers, a replace and a burn with all failures: `HealthTruthful` (an answer from two reads), `CountNeverAhead` (failing reads and writes of MiningState), `EveryRequestAnswered` under `FairSpec` |
| `LedgerRedis` | Redis | the two-pipeline insert with failures: `OnlyCreatorRevives` |
| `LedgerDynamo` | DynamoDB | `NoUnauditedSpend` with failures, overwriting and dropped puts |

### The other components

| Run | Instance | Shows |
|---|---|---|
| `RgbHtlc` | both flavors, two workers, one Redis fault; clock 0..2, so that a lock of delta 1 opens and one of delta 9 saturates; the right, wrong, missing and malformed witnesses | `CacheAgrees` (what Redis can decode is FoundationDB's record), hence `LockHolds` (a lock judged on a cached record by an old clock is respected at commit), `NoDoubleSpend`, `HealthFresh` although Redis keeps spent inputs as unspent, `WindowStartsClosed` |
| `RefereeRace` | one swap, two overlapping calls, budget 2, one fault, DynamoDB log with 2 append retries | `TypeOK`, `NonceUsedOnce`, `SettleNeedsSpent`, `RefundNeedsExhaustion`, `RowIsAudited`, `AuditIsChained`, `NoSignatureAfterCancel` |
| `RefereeSerial` | one swap, calls one after the other, budget 3, two faults | `TerminalIsFinal`; `SwapResolves` under `FairSpec`: a lost or used-up signing session is the only thing that keeps a pushed swap from ending |
| `LegacyActors` | both stores, three requests out of eight (reports that share a secret, replaces of one token, a burn of two, reads), channel of 2, epochs of 2 reports, one fault (a panic may be followed by a restart that fails) | `TypeOK` (a waiting call is in exactly one place), `SuccessIsOwn`, `AcceptedIsCounted` (the count, and the circulation a report was granted), `MemoryTracksStore`, `SpentStays`, `TargetMovesByEpoch`, `EveryCallAnswered` |
| `SwapHistory` | four backends, three swaps (one more than the limit), every side the party can be on, four writes, two seconds | `HistoryComplete` (memory and Redis), `HistoryOrdered`, `HistoryFresh` (all but DynamoDB) |
| `TokenCodec` | texts up to two edits from four tokens and from every amount; amounts up to 9 in units of 4, so that the largest is no whole number (as with `i64::MAX`) | `GrammarExact`, `RoundTrip` |

A swap shares nothing with another swap but the worker pool, so one swap
suffices. Two overlapping calls are the fewest that race; three requests to the
legacy server are the fewest that mine a token, race for it, and have one more
batch or epoch after it. `CHECK_DEADLOCK FALSE` stands in the referee's, the legacy
server's and the codec's configurations: a finished swap, the end of `MaxCalls`
and the end of `MaxEdits` stop there.

Symmetry of the workers is used where no liveness is checked.

### Where code and documentation disagree

A run states what is documented and TLC shows the behaviour that contradicts it:

| Run | Documented | What happens |
|---|---|---|
| `RedisReplaceAtomic` | replace is all-or-nothing (`storage/src/lib.rs:117`) | `REPLACE_LUA` marks inputs before it checks outputs; on a conflict they stay spent, without audit record |
| `RefereeTerminal` | terminal phases cannot transition (`referee/docs/transaction-model.md:98`) | overlapping calls write back rows they read before the terminal one |

The others can be read off the models and have no run.

*Ledger.* `replace` is documented as "Conservation law enforced: sum of input amounts ==
sum of output amounts" (`server-core/src/lib.rs:570`), and an audit record's total as
"Conserved" (`storage/src/lib.rs:50`). The sums are over the amounts written in the token
strings (`server-core/src/lib.rs:617`), which the hash does not cover and no backend
compares with the records: a string that claims more than its record holds creates
value, one that claims less destroys it. `ValueIsAudited` says how much can be
read off the audit trail; the law as documented is false, and `LedgerFdb` reaches both
cases. A burn between the two pipelines of the Redis insert is overwritten by
the second one, which writes `spent = 0` (`redis_backend.rs:152`; `storage/src/lib.rs:216`
"Permanent destruction."). DynamoDB's insert rewrites an existing record
(`dynamodb_backend.rs:229`; `storage/src/lib.rs:186` "Backends fail-fast on the first
conflict."). On FoundationDB the retry after an unknown commit outcome meets its
own writes and is reported as rejected (`fdb_backend.rs:275`; `storage/src/lib.rs:134`).
`update_mining_state` is called a compare-and-swap (`storage/src/lib.rs:225`), and read
and write are two unconditional calls, so concurrent reports lose counts.
`REPLACE_LUA` checks every input before it marks any, so a request that lists one
token twice commits on Redis; FoundationDB and DynamoDB refuse it.
`total_circulation_wats` is documented as the sum of all unspent amounts; `burn` does
not touch `MiningState`. `NonceCache` is called a bounded LRU; a full cache is cleared
before the nonce is looked up (`Retained`), so the latest nonce is admitted again.
The token store still refuses the repeated issue, which `ImplementsRegistry` covers.
`crates/mining` calls its dynamic mode self-adjusting; `current_difficulty` returns
the initial value and `adjust_difficulty` has no caller in `server-core`.

*RGB.* The witness names the owner that the lock is compared with; the hook never
compares it with the output secret (`asset-rgb/src/lib.rs:473` ignores it), where
`htlc/predicate.rs:30` says the caller cross-checks it. `evaluate` refuses the refund
owner when the request also carries the right preimage, where `predicate.rs:11`
says "OR". `burn` runs no hook, so a locked token can be burned.
`redis_fdb_backend.rs:10` says cached entries are invalidated on mutation; lines
107-111 skip it (`NoDoubleSpend` and `HealthFresh` show why this is harmless).
`redis_backend.rs:258` takes the number of fields of every output from the first
one; outputs with and without `htlc_state` in one replace would be cut wrongly.

*Referee.* Calls may overlap: the scheduler invokes `advance` and "clients can also call
it", "Idempotent" (`docs/client-implementation.md:47`). Two overlapping advances, one
that saw the leg spent and one that saw the budget used up, release the settle and the
refund signature. One fault does the same without overlap: `advance_swap` signs and
pushes the settle before it persists the row, so a call cut in between leaves
`insert-pushed` behind; if webcash.org then answers a health check with a status the
client cannot place, later calls abort, invalidate and sign the refund. The other
order does not happen in serial calls (`SerialRefundsStand`).
A failed call is called "safe to retry", the next one resuming "from where the previous
one stopped" (`orchestrator.rs:421`), and after a restart "the refund path engages"
(`store/mod.rs:35`). `partial_sign` consumes the session before the push and the row, and
a restart loses all sessions: from then on `sign` is refused on every call, and the swap
stays in `insert-pushed` or `invalidated` for good (`SessionLost`, the exception
`SwapResolves` names).
The audit log is a tree, not a line: overlapping calls, and a call retried after its
append, add entries with the same `prior_tip`. `docs/api.md:127` says each entry's
`prior_tip` "MUST equal" the hash of the prior entry, `docs/client-implementation.md:166`
has clients check it and `tests/orchestrator_e2e.rs:271` does. `AuditIsChained` is what
remains true: every entry has its prior one in the log, in a legal order, back to `init`.
The FoundationDB audit log overwrites its entry 0: the zero-padded number
of the last entry is parsed after `trim_start_matches('0')` (`audit/fdb.rs:116`), and
`docs/architecture.md:182` says entries are never modified. `FdbAppend` models it;
`AuditIsChained` is stated for the other logs. `orchestrator.rs:20` says "Idempotent on retry", while
every `start_swap` makes a fresh id. `advance_from_aborted` passes `bob_acked = true`
without waiting for an ack.

*History.* `store/mod.rs:59` wants row and indexes updated atomically; DynamoDB's
secondary indexes follow later, and `list_by_party` reads one page of each. On
FoundationDB it makes one `get_range(&opts, 1, false)` per index in the default Iterator
mode and never asks `more()` (`store/fdb.rs:144-161`): a party with more than some 4 KB of
index keys on one side, a few dozen swaps, gets a truncated history, where the trait
says "Capped at 1000 results".
`mark_terminal` has no caller. Memory orders swaps of one second by ascending id,
Redis and FoundationDB by descending id.

*Legacy.* A failed pipeline reports `Failed` for operations that ran
(`db/mod.rs:105`). The clamp of the adjustment to two bits never binds, and an
epoch of exactly the target time counts as fast. Subsidy amounts are not checked when `subsidy_amount` is 0 (`miner.rs:173`), its
value in the environment's default (`config.rs:202`), `config/production.toml:17`,
`config/testnet.toml:14` and the deployment (`terraform/webcash-server-k8s/main.tf:310`),
and the sum of the outputs is a plain `.sum()` that wraps in a release build
(`miner.rs:157`), so a report may create tokens worth more than it adds to the
circulation; `CHANGELOG.md:280` and `ROADMAP.md:24` claim overflow-safe amounts and
subsidy validation. `AcceptedIsCounted` therefore speaks of what a report was granted
(`Payout`). DynamoDB's insert ignores `unprocessed_items` (`db/dynamodb.rs:190-196`), so
an accepted report's tokens may be missing. After a report that failed past its first write, the
stored circulation may go down with the next one. A failed store read while the
miner restarts takes the supervisor down, and nobody supervises the batcher.

*Token strings.* The legacy parser ignores what follows the secret, so it reads a
voucher as webcash (`protocol/token.rs`); `GrammarExact` says exactly how far that
goes. `Amount::from_str` is documented as `digits[.digits]` and takes further signs
("--5", "1.-5"); the token parsers never pass such a text. A contract id has 1 to 64
characters by its own parser and no upper limit in the token parsers. Voucher and
RGB20 share one form.

### Fairness

- *Ledger.* `FairSpec` assumes weak fairness of `Serve(p)` for every worker: tokio
  keeps polling a task whose future is ready, and a store that answers makes it
  ready. A lost acknowledgement cannot repeat for ever: the retry meets the
  writes of the attempt before it and ends with a conflict.
- *Referee.* Weak fairness of each worker's awaits, for the same reason, and of
  `Advance` on a swap: the documentation of `advance_swap` has a scheduler call it
  until the swap is terminal.
- *Legacy.* Weak fairness of the waiting senders, the batcher, each actor and each
  restart: they are tasks that tokio polls.

No failure, no request and no wallet is fair.

## 4. Proofs

TLAPS checks the following for all sets of keys, tokens, requests, workers and
swaps, and for every value of the bounds.

| Theorem | Module | For | Property |
|---|---|---|---|
| `TypeCorrect` | `LedgerTypeProofs` | all backends | `TypeOK` (with `HandlersOk`) |
| `CommitsStayInNamespace` | `LedgerProofs` | all backends | `AuditInOneNamespace` |
| `CountStaysBehind` | | all backends | `CountNeverAhead` |
| `EverySealIsSingleUse` | | FDB | `SingleUse` |
| `SpendsAreAudited` | | FDB | `SpentIffAudited` |
| `AuditTrailIsCausal` | | FDB | `AuditIsCausal` |
| `RecordsAreStable` | | FDB | `RecordsStable` |
| `HealthStaysTrue` | | FDB | `HealthTruthful` |
| `NothingSpentUnaudited` | | FDB, DynamoDB | `NoUnauditedSpend` |
| `OnlyItsCreatorRevives` | | FDB, Redis | `OnlyCreatorRevives` |
| `ServerImplementsRegistry` | `LedgerRefinementProofs` | FDB | `ImplementsRegistry` |
| `EveryChangeOfValueIsAudited` | | FDB | `ValueIsAudited` |
| `CacheIsFaithful` | `RgbProofs` | both flavors | `CacheAgrees` |
| `LocksHold` | | | `LockHolds` |
| `SpendsOnce` | | | `NoDoubleSpend` |
| `HealthIsFresh` | | | `HealthFresh` |
| `WindowsStartClosed` | | | `WindowStartsClosed` |
| `RefereeTypeCorrect` | `RefereeProofs` | all logs | `TypeOK` |
| `NoncesAreUsedOnce` | | all logs | `NonceUsedOnce` |
| `SettlesOnlySpent` | | all logs | `SettleNeedsSpent` |
| `CanceledStaysUnsigned` | | all logs | `NoSignatureAfterCancel` |
| `RowsAreAudited` | | list, DynamoDB log | `RowIsAudited` |
| `LogsAreChained` | | list, DynamoDB log | `AuditIsChained` |
| `RefundsAreExhausted` | | list, DynamoDB log | `RefundNeedsExhaustion` |
| `TerminalRowsAreFinal` | | all logs, `Serial` | `TerminalIsFinal` |
| `SerialClosesOneWay` | | all logs, `Serial` | at most one member in each `closes[s]` |
| `SerialRefundsStand` | | all logs, `Serial` | a row whose refund is signed is invalidated or refunded |
| `LegacyTypeCorrect` | `LegacyProofs` | both stores | `TypeOK` |
| `SuccessIsTheCallersOwn` | | both stores | `SuccessIsOwn` |
| `StoreLeadsByOneReport` | | both stores | `MemoryTracksStore` |
| `AcceptedReportsAreCounted` | | both stores, any subsidy | `AcceptedIsCounted` |
| `DifficultyMovesByEpoch` | | both stores | `TargetMovesByEpoch` |
| `SpentTokensStaySpent` | | both stores | `SpentStays` |
| `HistoriesAreComplete` | `HistoryProofs` | memory, Redis | `HistoryComplete` |
| `HistoriesAreOrdered` | | all four | `HistoryOrdered` |
| `HistoriesAreFresh` | | memory, Redis, FDB | `HistoryFresh` |

A theorem that names backends is false on the others, and section 3 says why:
Redis leaves marks of a refused replace, a DynamoDB put has no condition, the
FoundationDB audit log overwrites its entry 0 and its listing is cut short.

### The ledger

`HandlersOk` is the first half of the inductive invariant: what a
handler knows between two awaits (its request is of the kind its step is for, a
replace past validation is admissible, a Redis insert only completes records it
created). Without it `TypeOK` is not inductive: `InsertFill` writes fields of a
record that has to exist, and the namespace result needs the admissibility that
was established several steps before the commit. `LedgerProofs` then forgets the
handlers: seen from the store every step mints (`Mints`), commits (`Commits`) or
leaves tokens and audit alone (`StepsOfStore`), whether it is a first attempt, a
retry or a lost acknowledgement. The second half, `LedgerInv`, joins
`SpentIffAudited`, `SingleUse` and `AuditIsCausal`: that an input is unspent says
by the first conjunct that no audit record consumed it, which keeps the second;
that an output key is absent says that no record produced or consumed it, which
keeps the third. None of the three is inductive alone. `RecordsStable` follows
from the same case split, and the refinement maps `Mints` to `Mint`, a replace to
`Transfer`, a burn to `Burn` and everything else to a stutter.

`ValueInv` makes `ValueIsAudited` inductive: with `LedgerInv` a mint adds the same
fresh keys to the unspent and to the minted ones, a burn moves a key from unspent to
burned, and a replace exchanges unspent keys for fresh ones whose records hold the
amounts of the output strings. Their total is the one the audit record carries, since
the handler has balanced the strings with checked sums, and the amounts of the closed
records are what that total is compared with (`CommitGap`). The sums are over sets of
any finite size; that the store is finite is part of the invariant, not an assumption.

`CountNeverAhead` speaks of the count alone; inductive is `CountInv`, which adds the
reports accepted and not yet accounted for (`Uncounted`, a finite set of workers
whose size the proof moves up and down) and says that a worker about to write a
count read it from a state that was behind too. `HealthTruthful` needs what the
first read has left in a handler (`ReadTrue`); it stays true because records are
stable. `NoUnauditedSpend` and `OnlyCreatorRevives` are inductive with the type
invariant, by one lemma for each way a store writes.

### RGB

`RgbInv` says for every handler at every step what its locals are worth: the
records it is about to mirror or warm are FoundationDB's or spent since, the locks
the hook judged are those of the records, and the clock it read is not ahead. With
that, a half-written or stale HASH either does not decode or agrees
(`CacheAgrees`), and the commit's own check that inputs are unspent gives the
rest. `CacheAgrees` alone is not inductive: a warming pipeline writes what was read
many steps earlier.

### The referee

`SwapInv` gives for each call the scripts it can still be at and ties them to the
swap: a live session excludes a signature, a script with a settle step belongs to a
row that has seen the webcash spent, a canceled swap has no sessions. `TipInv`
adds, for a log that appends, that every state a call carries and every row has its
tip in the log, and that the tip commits to the attempts. The two are separate
because the second is false for the FoundationDB log and nothing in the first
needs it. The proof has one lemma per await and one for the tail of a script.

`TerminalIsFinal` is about calls that read a row, work for several awaits and write
it back. The code has no lock per swap, and `RefereeTerminal` shows what overlapping
calls do, so the last three theorems have the hypothesis `[]Serial`: no two calls are on
the same swap at once (calls on different swaps overlap as they like). `SerialInv` says
that the row is where the next step of the call that works on it expects it: the phase
the step will write may follow the stored one, and what comes after the write finds its
own phase. A terminal phase is followed by none, which is `TerminalRowsAreFinal`; a
record of the HTLC is closed as the row says, which is `SerialClosesOneWay`; a refund is
signed from an invalidated row, which nothing but "refunded" follows, which is
`SerialRefundsStand`. All three hold with any number of faults. That the two signatures
are never both released is no theorem: section 3 says how the code releases both.

### The legacy server

`HeldInv` says where the reply channel of a waiting call is: in the mailbox or the
handler of the actor its request is routed to, or in the batcher's channel or batch,
once. `OwnInv` ties the results a batch holds, and the tokens a burn is done with, to
the audit records under the number of the call itself. `MinerInv` says that the
stored state is the memory or what one report makes of it, that the state a report
in progress will write is the memory plus one report, and that a report past its
first write finds it stored; `MadeInv` that the keys an insert has created still
exist when it completes them. Frame lemmas name for each of these which actions can
disturb it.

`ClaimedInv` carries `AcceptedIsCounted`: what accepted reports were granted is at most
the circulation in memory, that is at most the stored one, and the state a report in
progress will write adds its own `Payout` to the memory.

### The history

`HistoryInv` has three parts. `StoreInv`: an index entry is an earlier row of the
swap it names, and the stores that write their own indexes have one for every row.
`ListInv`: what a listing has collected so far agrees with rows that go on changing,
which holds because a later row of a swap has the same parties and creation time
(`ListGrows`). `CoverInv`: every swap stored when the listing began is among those
it has met, or `Limit` others that are not older are (memory and Redis). The last is what survives the
cut of each index at `Limit`: `HistoryComplete` itself speaks of answers only. For
memory one more argument is needed: the alice side leaves out swaps with
oneself, also one that the cut has dropped from the bob side; then the bob side
alone is a full page of newer swaps. Below these stands the sorting: a finite set
with a strict total order has a sorted sequence, in which an element's place is the
number of those before it (`SortedExists`), and a cut keeps the front
(`CappedSorted`, `AnswerIsFull`).

### Common

`Total` is a recursive function. That it exists and unfolds is proved in
`TokenLemmas` by taking the least index at which it would fail (`LeastElement`,
from the well-foundedness of `<` on the naturals), which is how induction over
data is done here. `SmallestSet` does the same for finite sets, and carries the sums
of amounts: they unfold (`SumUnfolds`), in any order (`SumRemove`), split over disjoint
sets (`SumUnion`) and agree with `Total` on a list of different tokens (`SumOfList`).

*Assumptions* (named, in the modules that declare the constants): tokens are
key-amount pairs, requests have the fields of `RequestType`, burn and health
requests name one token, `Absent`, `NoReq`, `NoLock` and `NoCall` are not records,
requests, locks and calls, bounds are natural numbers, a referee has a swap to
work on, swap ids are finitely many naturals and there is a party.

*What the proofs changed in the models.* A lock asked for with a delta of 0 is
accepted (`htlc/state.rs`, `stamp_into_state`) and its refund window is open from
the start; `WindowStartsClosed` now says so, and `RgbHtlc` has such a lock. CASE
expressions whose guards overlap, which leave the value open, became IF/ELSE in the
order of the code. The tokens of a legacy report are written in any order: they
come from a map ordered by hashes, which the model does not order. `SwapHistory`
sorts and filters with `Sorted` and `Taken`, which take sets where the library's
sort and filter take operators that the provers do not look into.

*Only model-checked.* `GrammarExact` and `RoundTrip`: they rest on what the parsers
compute for texts of any length, and on numerals, whose powers of the base the provers
do not unfold. `EveryRequestAnswered`,
`SwapResolves` and `EveryCallAnswered` are liveness, out of this prover's reach, as is
`ENABLED`.

## 5. Abstractions and limits

- A write in flight when its call fails or the server stops has taken effect
  by then or never does. A write that lands later is the same as the one of
  a handler that was still running.
- DynamoDB reads of the ledger are taken as strongly consistent, and chunks of
  25 as one batch.
- A health check names one token; buckets of several namespaces are independent
  reads.
- Amounts are integers scaled down to `MaxWats`; sums are checked, wrapping or
  saturating as in the code.
- `update_mining_state` of the ledger writes two figures; difficulty fields are
  configuration there, and part of the state in `LegacyServer`, where the time an
  epoch took is a choice between fast and slow.
- Hashes, signatures, zero-knowledge proofs and proof of work are injective names
  and verdicts.
- In `RefereeSwap` an await that took effect and reported an error is the failure
  one await later; audit entries that differ in their timestamp only are one.
- Redis lists a party's swaps under one connection lock, so the writers of
  `SwapHistory` are other processes.

### Not modelled

Binaries and configuration (wiring), compute kernels and the AluVM binding
(SHA-256; the script form of the HTLC predicate has no caller), Groth16 and
signature arithmetic, conformance tests and deployment. In the legacy server
`LedgerEffect` and its interpreter have no caller, and `db/foundationdb.rs` and
`db/redis_fdb.rs` belong to a feature whose code does not match the `LedgerStore`
trait. `Server` has `target`, `stats` and `terms`, which only read.

## 6. Plan

1. *(done)* Records, three backends, the splittable handlers, the registry, the
   type theorem, the safety theorems and the refinement on FoundationDB.
2. *(done)* The composite store with RGB locks; the referee; the swap history; the
   legacy actors; token strings.
3. *(done)* Theorems about the ledger on every backend, RGB, the referee, the
   legacy server and the history (section 4).
4. *(done)* For the referee, the theorems about calls one after the other. For the
   legacy server, the circulation of accepted reports. Amounts in token strings that
   differ from the records', faults in serial swaps, the early end of FoundationDB's
   range reads and dropped puts in the legacy store.
