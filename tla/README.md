# Model checking silkrpc

This directory holds TLA+ models of the parts of silkrpc (`src/silkworm/silkrpc`)
whose correctness depends on interleavings, call orders and boundary cases.
Each model comes with the TLC configurations that check it.
`PROJECT.json` lists:

- the components;
- the runs and their properties;
- the seeded faults (mutants) that show each property can fail;
- the map from every TLA+ definition to the source lines it translates;
- the findings;
- the hazards.

## The system and its parts

silkrpc is a JSON-RPC daemon in front of an Erigon node. The numbering
follows `spec.md`.

| Part | Source | What it does | Model |
|---|---|---|---|
| C5 coherent state cache | `ethdb/kv/state_cache.cpp` | Keeps one root per view id (the node's transaction id). A root holds a key→value map of PlainState and one of Code, plus `ready`/`canonical` flags. Two LRU eviction lists belong to the latest view. A `std::shared_mutex` guards it all. | `StateCache` |
| C6 cached database | `ethdb/kv/cached_database.cpp` | Sends `get_one(PlainState\|Code)` through the cache view of the request's transaction, else to the transaction. | `StateCache` |
| C4 state-change subscription | not under `src/` | A long-lived task that hands each change batch of the node to `on_new_block`. | `StateCache` (from the spec) |
| C12 streaming JSON writer | `json/stream.cpp` | Writes objects and arrays incrementally. A stack of markers decides where `,` goes. | `JsonStream` |
| C8 gas-price oracle | `core/gas_price_oracle.cpp` | Walks back from a block, pools low priority fees, and returns a percentile. | `GasPriceOracle` |
| C9/C10 tracers and trace executor | `core/evm_trace.cpp` | Build call, VM and state-diff traces from EVM callbacks. `trace_filter` streams them. | `TraceTracer` (call tracer), `VmTraceTracer` (VM tracer), `EvmTracers` (the EVM driving both), `StateDiffTracer` (state-diff and intra-block-state tracers), `TraceFilter` (`trace_filter`/`trace_block`) refining `TraceWindow` |
| C7 storage walker | `core/storage_walker.cpp` | Merges plain storage with history for `debug_storageRangeAt`. | `StorageWalker` |
| C1 KV streaming RPC | `grpc/bidi_streaming_rpc.hpp` | The bidirectional gRPC call of one remote transaction: open and read, write and read, close. | `BidiStreamingRpc` |
| Conversions | `common/util.cpp` | `to_dec` prints a uint256 in decimal; `base64_encode`. | `Util` |
| C11/C13 parity handlers | `commands/parity_api.cpp` | `parity_getBlockReceipts` and `parity_listStorageKeys`: parse params, begin a remote transaction, read through it in a try block, close it. | `ParityApi` |
| Other handlers and types | `commands/net_api.cpp`, `commands/web3_api.cpp`, `http/methods.hpp`, `types/*`, … | One backend call turned into a reply, method-name constants, formatting. | not modelled |

How the parts interact:

- Request coroutines run on a pool of `io_context` threads. A request pins
  a transaction at the node's current view.
- `CachedDatabase::get_one` asks `get_view` for the cache view of that view
  id. `get_root` creates the root if it is missing.
- A root becomes `ready` only when the subscription applies the view's
  batch (`on_new_block` → `advance_root` → `evict_roots`). Until then reads
  go to the transaction.
- On a cache miss, `get`/`get_code` await the remote read while still
  holding the shared lock. They then take the exclusive lock and `add` the
  value to the root they found before.
- `trace_filter` (C10) writes its results through `json::Stream` (C12).
- The trace executor runs each transaction of a block with the selected
  tracers (C9). The intra-block-state tracer carries balances, nonces and
  code from one transaction to the next through `StateAddresses`.
- Remote database reads go over the KV `Tx` stream (C1), one
  `BidiStreamingRpc` call per remote transaction.
- A handler (C11/C13) begins a remote transaction, makes its reads in a
  try block whose catch clauses turn exceptions into the reply, and closes
  the transaction after the try.

## Modules

### `StateCache` (C4, C5, C6)

**State.** The cache's fields map to variables as follows:

| Code | Model |
|---|---|
| `state_view_roots_` | `roots` (view → `[cache, ready, canonical]`; `cache[t][k]` is the value or `NotCached`) |
| `latest_state_view_id_` | `latest` |
| `state_evictions_` / `code_evictions_` | `evictions["PlainState"]` / `evictions["Code"]` (front first) |
| holders of the shared lock | `shared` |

- The exclusive lock is never held across a step. Every exclusive section
  in the code is synchronous, so `ExclusiveFree` (nobody holds the lock
  shared) is its acquisition guard.
- The remote node is `db` (view → table → key → value), `dbView` and
  `stream` (the batches in flight).
- A request's variables are `pc`, `txView`, `table`, `key`, `result` and
  `rootLost`.
- `rootLost` is set when `evict_roots` erases the root that a miss holds
  an iterator to.

**Threads.**

- Each coroutine belongs to a context (`ReaderCtx`, `SubscriberCtx`).
- A coroutine blocked on the mutex, or working under it, holds its thread:
  its `pc` is in `RunningPcs`.
- While one coroutine holds the thread, no other coroutine of that context
  can resume (`Runnable`). This is the `io_context` one-thread rule, and it
  is what makes the self-deadlock reachable.

**Actions.** Each action is the whole code segment between two points where
the coroutine waits (a lock or an `await`):

| Action | Code |
|---|---|
| `Begin` | transaction at the current view, `get_one` enters `get_view` |
| `GetView` | `get_view`/`get_root` under the exclusive lock |
| `Lookup` | `get`/`get_code` under the shared lock: absent root, hit, or miss |
| `LruPush` | the `push_front` half of a hit |
| `DbReply` | the remote read returns: empty → `nullopt`, else unlock shared |
| `AddMiss` | exclusive lock, `add`/`add_code` through the saved iterator |
| `DbDirect` | fallback read on the transaction |
| `Finish` | the handler replies |
| `Recv` | the subscription takes a batch; an empty one is skipped at `on_new_block`:74 |
| `OnNewBlock` | `advance_root` (inherit a canonical predecessor's maps or rebuild the lists), `evict_roots`, every change through `ProcessChange`/`Add`, `ready` |
| `Commit`, `CommitEmpty`, `StreamBreak` | the node and the stream, from the spec |

Two modelling choices need explaining:

- `evict_roots`' threshold is computed in `uint64_t`. `MaxViewIdToDelete`
  returns a value above every modelled view when the subtraction wraps.
- `add` dereferences `replaced` after the erase. The model removes the
  replaced entry by key, which is what the code intends.

**Properties.**

| Property | Kind | What it says |
|---|---|---|
| `TypeOK` | type | — |
| `CacheCoherent` | safety | Every entry of every root equals the node's value at that root's view. |
| `LatestCacheBounded` | safety | The latest root respects `max_state_keys`/`max_code_keys`. |
| `EvictionsMatchLatest` | safety | The eviction lists hold each key of the latest root exactly once. The only exceptions are keys a hit is moving; this is what `SILKWORM_ASSERT(num_erased == 1)` relies on. |
| `ReadCoherent` | safety | A read returns the value its transaction sees. |
| `NoWriteToErasedRoot` | safety | — |
| `LatestRootPresent` | safety | The latest view's root is present (spec: eviction "never drops the latest"). |
| `RootsDroppedOnlyWhenOld` | action | A step drops only roots at least `max_views` views behind the new latest view (spec 3). `evict_roots` runs with the previous latest id, before `latest_state_view_id_` moves on. From a cold start the bound wraps (finding 2) and the property fails as well. |
| `NoSelfDeadlock` | safety | No thread waits for the exclusive lock while a coroutine of the same thread holds the shared lock across a remote read. |

### `JsonStream` (C12)

**State.**

- `stack` is `Stream::stack_`, with markers 1–4 as in the code.
- `out` is the output abstracted to tokens: `{ } [ ] ,`, `K` (a quoted
  name and its colon) and `v` (one dumped value).
- `doc` is the caller's open containers.

**Actions.** One action per public method. Their guards are the caller's
contract: values go where a value may go, names go in objects, and every
close matches its open.

**Properties.**

- `DocumentWellFormed`: a finished document is accepted by `JsonWellFormed`,
  a recursive-descent recogniser (`ParseValue`, `ParseElems`,
  `ParseMembers`).
- `StackMatchesDoc`: the marker stack is exactly the one the nesting calls
  for.

### `GasPriceOracle` (C8)

**State.**

- `chain` is any chain of `StartBlock` blocks, chosen in `Init`. A
  transaction is its priority fee and whether the beneficiary sent it.
- `block_number` and `tx_prices` are the loop state of `suggested_price`.

**Actions.**

- `LoadBlockPrices` is one loop iteration, i.e. one call to
  `load_block_prices`.
- `SuggestPrice` is the sort, the percentile and the clamp.

**Properties.** They are checked against the algorithm as spec 4.8 states
it, without reusing the code's sort:

- `BlockSamplesLowest`: each block adds its lowest qualifying fees.
- `PriceIsPercentile`: the price is characterised by ranks. The pool
  reaches three samples, so the position `(n - 1) * 60 / 100` is 0 or 1,
  and a position off by one picks a different sample.
- `PoolWithinMaxSamples`: the pool never holds more than `MAX_SAMPLES` fees.

### `TraceTracer`, `VmTraceTracer` and `EvmTracers` (C9, the tracers)

`TraceTracer` (the call tracer of the `trace` type) and `VmTraceTracer`
(the VM tracer of the `vmTrace` type) hold only state and callbacks. Each
callback is an operator that takes the tracer's fields and returns them
updated. `EvmTracers` extends both and plays the EVM that drives them, as
`trace_call`/`trace_block` attach both tracers to one execution.

**TraceTracer state.** The fields keep their names: `traces_`,
`index_stack_`, `start_gas_` (tops at the end), `created_address_`,
`current_depth_` and `initial_gas_`. A `Trace` is a record of `type`,
`trace_address`, `sub_traces`, `error`, `gas_used`, and whether
`trace_result` and its `code`/`output` optionals are engaged (`result`,
`code`, `output`). `UNDEFINED` is `EVMC_UNDEFINED_INSTRUCTION`. `FAIL`
stands for every other status that resets `trace_result`. The error
strings are not modelled.

**VmTraceTracer state.** VmTrace objects are numbered. Number 1 is
`vm_trace_`; the others are owned through an op's `sub` (a
`std::shared_ptr`), and `traces_stack_` holds plain references to them. An
op is its code, its index (the prefix and its position, as a sequence of
numbers rather than the string `"tx-d0-d1-k"`), its `sub` and whether a
precompile ran under it. It also keeps its gas figures:

- `gas_cost`, `used` (`trace_ex.used`), `depth` and `pgas`
  (`precompiled_call_gas`);
- `vm_start_gas_`, the tracer's `start_gas_` stack.

`Settle` is the settlement of the previous op in `on_instruction_start`.
`EndGas` is the status switch of `on_execution_end`. The memory, stack and
storage copies are not modelled, and neither is `call_gas_cap`, which is
written and never read back.

**The EVM.** The EVM is not in the repository. It is modelled from spec 4.9
as the driver that issues the callbacks, and it keeps the truth the tracers
must reproduce:

- `frames` are the active frames, `path` and `children` the call tree,
  `instrs` the instructions each frame executed and `oppath` the position
  of the op that started each frame.
- `TraceTracer` is given a frame's start number as its start gas, so a
  `gas_used` says whose start gas was used.
- `VmTraceTracer` is given the gas of a small EVM (`OpGas`, `Forwarded`,
  `PrecompileGas`):
  - plain instructions cost 2, calls 1 and STOP 0;
  - a call forwards half of what is left after its cost, and a precompile
    uses 1;
  - the caller gets back what its callee left: nothing after a failure.

  The top frame starts with `TxGas`. The gas is a function of the path, so
  it adds no states. `instrs` records the gas before each instruction and
  the gas each call forwarded; `results` records each frame's status and
  `gas_left`.
- `Step` executes one plain instruction; `Precompile` a call to a
  precompile (`on_instruction_start`, then `on_precompiled_run`). Both are
  bounded by `MaxExtraOps`.
- `CallFrame` executes a CALL, DELEGATECALL or CREATE instruction and
  starts its frame: `on_execution_start` of both tracers. A CREATE to an
  address with code fails before any callback and is not a frame.
- `EndFrame` executes the frame's last instruction (STOP, or the failing
  one) and calls `on_execution_end`. With tracers attached the EVM runs
  calls to accounts without code too; such a frame executes only the
  implicit STOP, whose trace the VM tracer clears.
- A CREATE frame then waits for `CreationCompleted`
  (`on_creation_completed`), which deploys its code on success.
- `RewardGranted` is `on_reward_granted` with the top frame's status.

**Properties.**

- `TracesMatchCallTree`: each trace has its frame's path as
  `trace_address`, the number of frames it started as `sub_traces`, and a
  `gas_used` computed from its own start gas.
- `NoUndefinedBehaviour`: no callback reads the top of an empty stack or
  writes through a reset `trace_result`.
- `VmTracesLive`: every VmTrace on `traces_stack_` is still owned from
  `vm_trace_`, so the tracer never writes through a freed trace. Without
  precompiles run from a nested frame this follows from
  `VmTraceMatchesExecution`, so the `tracers` run does not check it; it
  is stated for the nested-precompile case, which breaks it
  (`vm_nested_precompile.cfg`).
- `VmTraceMatchesExecution`: each frame's VmTrace lists the instructions
  the frame executed, each with its hierarchical index, and under each
  call the number of the trace of the frame it started.
- `VmGasAccounted`: the cost and `used` figures follow the rule of spec
  4.9.
  - An op's `gas_cost` is the gas before it minus the gas after it.
  - The exception is a CALL or DELEGATECALL that started a frame or ran a
    precompile: its `gas_cost` is the gas before it minus the gas the
    callee received.
  - Its `used` is the gas after it.
  - The last op of an ended frame is settled by the result's `gas_left`,
    except after an undefined instruction.

  These figures are written by four callbacks, across frames of different
  depths: the next instruction, the callee's start, the precompile's run
  and the frame's end. A mutant that settles a call again when its caller
  resumes breaks the property.
- `VmUsedNonNegative` (no op's `used` is below zero) fails on the code:
  see finding 20.

### `StorageWalker` (C7, the storage walker)

`storage_range_at` (the `debug_storageRangeAt` walk) collects, from a
start location on, the storage slots of an account as they were after a
block. It calls `walk_of_storages` at `block_number + 1`, which merges two
cursors:

- the PlainState cursor, over the slots the account has now;
- the StorageHistory cursor, over the shards of each slot's change blocks.

A slot the history shows changed at or after the block is read from
PlainStorageChangeSet, which holds its value before that change.

**The database.** The node's tables are not in the repository; they are
modelled from spec 4.7. `Init` draws `writes`, a history of `MaxBlock`
blocks over the slots `Locs`, in which each write changes its slot. From
it, `Init` derives `plain_state`, `storage_history` (shards of `ShardSize`
blocks, keyed by their last block, the last shard by `LastShard`, the
node's `~0`) and `change_sets`. A location is a number. `NoLoc` (0) is the
empty key, which compares below every location as empty bytes do.

**The walk.**

| Action | Code |
|---|---|
| `Seek` | the cursor setup and the first `next(cursor, number)` (lines 96–128) |
| `Iterate` | one iteration of the `while` loop: compare, collect, advance (lines 131–175) |
| `Finish` | the break when both cursors are empty (line 132) |

`ps`, `sh` and `h_loc` are `ps_skv`, `sh_skv` (positions; one past the end
is the empty value) and `h_loc`. `storage` is `storage_range_at`'s
`std::set`, and `Collect` is its collector lambda, with the `int16_t` to
`size_t` comparison of `max_result`.

**Properties.**

- `HistoryCursorAligned`: while the walk runs, `sh_skv` is the first shard
  of `h_loc` keyed at or above the block. So the bitmap seek finds
  `h_loc`'s first change at or after the block.
- `WalkTerminates`: the loop ends.
- `StoredValuesHistorical`: every collected slot holds its value at the
  block.
- `RangeMatchesHistory`: at the end, the set holds the first
  `max_result + 1` slots of the storage at the block.

### `BidiStreamingRpc` (C1, the KV streaming RPC)

`BidiStreamingRpc` is the client end of the KV `Tx` stream. Each public
operation is an `async_compose` over agrpc operations, and each
completion from the gRPC completion queue resumes the composed operation
with `ok`:

- `request_and_read`: `agrpc::request`, then `ReadNext` reads the first
  reply;
- `write_and_read`: `agrpc::write`, then `ReadNext` reads the reply;
- `writes_done_and_finish`: answers from `status_` if the call is already
  finished, else `agrpc::writes_done` then `finish`.

Any step that completes not ok chains into the private `finish`. `Finish`
emplaces an OK `grpc::Status` in `status_`, starts `agrpc::finish`, and
sets UNKNOWN if that completes not ok.

**State.** `reader_writer_`, `status_` (`"none"`, `"ok"`, `"error"`) and
`reply_` are the members. A reply is the number of the server's message
it carries, and 0 is the default reply. `call` and `pending` are the
public operation and the agrpc operation it waits for. The caller is the
KV client of spec 4.1, which is not in the repository: it opens, makes up
to `MaxWrites` requests while no error came back, and closes. The server
is also from spec 4.1. It answers each request, may end the call with OK
or an error status at any time (a transport failure is an error), and
ends it with OK once the client half-closes. `finishes` and
`finish_failed` are history variables.

| Action | Code |
|---|---|
| `RequestAndRead`, `WriteAndRead`, `WritesDoneAndFinish` | the initiating `operator()(op)` of each composed operation |
| `RequestDone`, `WriteDone` | `ReadNext::operator()(op, ok)`: read, or `finish` |
| `ReadDone` | `ReadNext::operator()(op, ok, ReadDoneTag)`: return `reply_`, or `finish` |
| `WritesDoneDone` | `WritesDoneAndFinish::operator()(op, ok)`: `finish` |
| `FinishDone` | `Finish::operator()(op, ok)` and the outer `(op, ec)` handler |
| `ServerReply`, `ServerEnd` | the server, from the spec |

**Properties.**

- `CallsComplete` (liveness): every operation returns to its caller.
- `CloseReportsStatus`: the close reports no error exactly when the server
  ended the call with OK and no `agrpc::finish` failed.
- `ReadReplyFresh`: a read operation that returns no error returns the
  reply its own read received.

### `StateDiffTracer` (C9, the state-diff tracer)

`trace_block` traces each transaction of a block with a fresh
`StateDiffTracer` and the block's one `IntraBlockStateTracer`, pushed in
that order. Both read and write `StateAddresses`, an overlay of balance,
nonce and code over `initial_ibs`, the block's pre-state. The state-diff
tracer compares `StateAddresses` (the pre-state) with the executor's
`IntraBlockState` (the post-state). The intra-block tracer then records
the post-state of every touched account for the next transaction.
`trace_block_transactions` and `trace_calls` (`trace_callMany`) drive
the same tracers over a sequence of transactions or calls; they differ
when `executor.call` fails its gas pre-check. The first records the error
at that index and goes on. The second sets the result's
`pre_check_error`, clears the traces already collected and stops.

**State.** An account is `NoAccount` or a record of balance, nonce, code
and storage over the values {0, 1}. An existing account may be empty:
such accounts predate EIP-161, and whether the executor has already
deleted a touched empty account when `on_reward_granted` runs is not in
the repository, so both outcomes are allowed. This is what reaches the
`to_be_removed` erasure of a newly created empty account. `initial` is `initial_ibs`, `world` the executor's state and
`original` the state at the transaction's start
(`get_original_storage`). `balances_`, `nonces_` and `codes_` are the
overlay. `StateAddresses::exists` is declared in `evm_trace.hpp`, which
is not in the repository; the model takes it to be
`initial_ibs_.exists`, as the getters fall back to `initial_ibs_`.
`method` is the driver, chosen in `Init`. `traces` holds the results, each
a flag for a pre-check error and a state diff. `pre_check_error` is set
once a call has failed the pre-check. `EVMExecutor::call` is not in the
repository; following spec 4.9, a failed pre-check runs no tracer and
leaves the state unchanged.

| Action | Code |
|---|---|
| `Execute` | the EVM runs a transaction: the touched accounts change, and `on_instruction_start` records every key an `SSTORE` writes |
| `RewardGranted` | `StateDiffTracer::on_reward_granted` (three branches, `all_equals` and `to_be_removed` erasures), then `IntraBlockStateTracer::on_reward_granted`, and the driver pushes the result |
| `PreCheckFailed` | `execution_result.pre_check_error` in `trace_block_transactions` (record it and go on) and `trace_calls` (set it, `result.traces.clear()`, `break`) |

`DV` and `Marker` are `DiffValue` and its `to_json` (`"*"`, `"-"`, `"+"`,
`"="`).

**Properties.**

- `OverlayCurrent`: between transactions, `StateAddresses` gives every
  address's balance, nonce and code as the executor's state has them.
- `DiffCoversChanges`: the expected diff is taken from spec 4.9, comparing
  the account at the transaction's start (`original`) with the account
  after it, not from the code's existence test. Every touched account
  that changed has an entry whose fields are the Born, Died, Changed or
  Same value of that change, and whose storage lists the slots that
  changed. A newly created empty account with no storage write has none.
  The "from" values come from the overlay, so for the second transaction
  this also checks what `IntraBlockStateTracer` recorded for the first.
  Accounts created or deleted earlier in the block are excluded: for them
  the code diverges (finding 21).
- `DiffAgainstTxPreState`: the same for every touched account, without
  the exclusion. It fails (`state_diff_reborn.cfg`).
- `NoSpuriousEntries`: no entry has all fields Same and no storage.

### `TraceFilter` and `TraceWindow` (C10, `trace_filter`)

`trace_filter` reads its from and to blocks and rejects a request whose
from block lies above its to block. Otherwise it opens the result array
and walks the blocks, calling `trace_block` on each. `trace_block` traces
the block's transactions, keeps the call frames that pass the address
filter, and writes each to the stream once `after` is used up, until
`count` runs out. With no address filter it then adds a reward trace,
which uses up `after` and `count` like a frame. `after` and `count` live
in one `Filter` that every `trace_block` call shares.

**State.** `req` is the request together with the chain it runs on. A
block is the sequence of its transactions' call frames: both nested loops
of `trace_block` leave on the same `count` test, so transaction
boundaries do not matter. A frame is its sender and its recipient, which
is `None` for a creation. `written` is the sequence of items written,
where `<<b, i>>` is the i-th frame of block b and `<<b, 0>>` is its
reward. `reads` holds the blocks read from the database. `count` is
unsigned: `Dec` wraps 0 to `CountMax`.

| Action | Code |
|---|---|
| `Start` | `trace_filter` up to the loop: the two block reads, the range check with its error, `open_array`, `Filter` |
| `TraceStep` | the `while (block_number++ <= to)` test and one whole `trace_block` (`ScanFrames`, then `Reward`) |
| `LoopEnd` | the loop test failing |
| `Advance` | the `count == 0` break, else `to_block` or the read of block `block_number` |
| `Close` | `close_array` |

Each action runs from one `co_await` to the next. `trace_block` runs its
loops after its only `co_await`.

`TraceWindow` is the abstract specification, taken from spec 4.10. Its
`Window(r)` is the sequence of kept frames and rewards of blocks from..to,
after the first `after`, with at most `count` of them. The stream only
ever holds a prefix of the window (`Extend`), and the array is closed
(`Close`) once the stream holds all of it. `TraceFilter` instantiates it
as `Abstract`, with this mapping:

- `request <- req`;
- `out <- written`;
- `status <- "init"`, `"open"`, `"closed"` or `"error"` from `pc`.

**Properties.**

- `WindowSpec` (`Abstract!Spec`, with its weak fairness) means three things:
  - every step of `trace_filter` is a step of `TraceWindow`, or leaves it unchanged;
  - the array is closed exactly when the stream holds the whole window;
  - every request is eventually answered.
- `ReadsWithinRange`: no block outside from..to is read. This only appears
  in a reproduction.

### `Util` (`common/util.cpp`)

`to_dec` and `base64_encode` are modelled as operators. A call is chosen in
`Init`, and one step computes its result.

- **`to_dec`** copies the four words of the number and drops leading zero
  words (`DropZeroWords`). It then shifts the number's bits into a buffer
  of decimal digits, one bit at a time, doubling the buffer each time
  (`ShiftIn`, `DoubleDigits`), and skips leading zeros. Words are
  `WordBits` wide, and the digit buffer is sized by the code's rule. With
  64-bit words that rule gives 256 / 3 + 1 digits.
- **`base64_encode`** is modelled per group of three bytes, including the
  short tails. A character is its index in the alphabet, and the padding
  character is `=`, or `.` in the url alphabet.

**Properties.**

- `ToDecCorrect`: the digits are the number's decimal digits, with no
  leading zero.
- `Base64Correct`: the output is the RFC 4648 encoding computed from the
  bit string.

### `ParityApi` (C11/C13, `commands/parity_api.cpp`)

Both parity handlers, for one account address. An action is one step
between two `co_await`s, and every remote call either returns or throws.

- **State.** `req` is the request: a wrong param count (`few`), a
  mistyped param (`mistyped`), or parsed params (`quantity`, `offset`,
  `block_id`). `accounts` is the account (incarnation and storage
  locations) at each block; PlainState is the latest block's storage of
  the account's current incarnation (`Plain`). `blocks` gives each block's
  transaction count, whether its receipts are stored, and its base fee.
  `pc`, `tx`, `failure` and `reply` are the handler's position, the
  database transaction, the exception its catch clauses got, and the
  reply. `block_number`, `account`, `v`, `keys` and `receipts` are its
  locals.
- **Actions.** `ParseParams` is the code before the transaction: the
  count check and the `get<T>()` calls, which throw out of the handler on
  a mistyped param. `Begin` is `database_->begin()`. The try block is
  `GetBlockNumber`, `ReadAccount` (an absent account throws
  `domain_error`), `SeekBoth` and `NextDup` (one loop pass: push the key,
  `next_dup`, break past the last dup), `LoopExit`, `ReadBlock` and
  `GetReceipts`. Each of them may throw (`Throw`). `GetReceipts` includes
  the pricing loop, which has no await. `Catch` is the catch ladder, and
  `Close` is `tx->close()`, which may also throw out.
- **Abstractions.** A location is a number, and seek order is number
  order. A receipt is its transaction's index plus the price written into
  it. `Price` stands for `effective_gas_price(base_fee.value_or(0))`.
  `block_id` is the string `get_block_number` parses: `"latest"` or a
  block number.

**Properties.**

- `ErrorCodesSpec`: spec 7's error code for a transport or internal
  failure inside the try, -32000. It fails: the handlers answer every
  exception other than `invalid_argument` with error 100
  (`parity_error_code.cfg`, finding 22).
- `StorageKeysPage`: at the latest block, the reply lists the account's
  locations from `offset` on, at most `quantity` of them, in order. The
  reference `Page` sorts the set and cuts it.
- `ReceiptsPriced`: the reply has one receipt per transaction, each
  priced with its own transaction's effective gas price.
- `NoExceptionEscapes`, `ReceiptsInBounds` and `StorageKeysAtBlock` fail
  on the code (findings 17–19).

## Runs

| Run | Expect | Shows |
|---|---|---|
| `cache_coherence` | pass | `TypeOK`, `CacheCoherent`, `LatestCacheBounded` and `RootsDroppedOnlyWhenOld` hold. The setup is two requests on separate threads, a warm cache, views 1–3, a lossy stream and two accounts. One key per table means every insert evicts. The Code table, whose `get_code`/`add_code` repeat `get`/`add` line for line, is exercised in `evictions_single`. |
| `evictions_single` | pass | `EvictionsMatchLatest` holds with one request. The setup is a cold start, lost and empty batches, storage keys cached, views 1–4 and `max_views` 1. View 4 is needed for a lost batch to be followed by a non-canonical advance over a non-empty list. |
| `json_separators` | pass | Every document up to depth 3 and 9 tokens without array-in-array is well formed, and the stack matches. |
| `gas_price` | pass | Checked over all chains of 3 blocks × 2 transactions with fees {1,2,3,5}: `kDefaultMinPrice` 2, `kDefaultMaxPrice` 4, `kSamples` 1, `kCheckBlocks` 3. The per-block limit, the pool limit, the walk reaching block 1, percentile positions 0 and 1, and the clamp all happen. |
| `tracers` | pass | Every execution of up to four frames, three deep, over an account with code and a fresh one, with one extra instruction or precompile. Calls succeed, revert, fail or hit an undefined instruction; creations of fresh accounts succeed or revert. The top frame has 12 gas. Both tracers reproduce the execution and do nothing undefined, and every settled op's `cost` and `used` follow spec 4.9's rule. |
| `erased_root_write` | violation | Finding 4. |
| `storage_walk` | pass | Every three-block history of two slots with values 1 and 2, in shards of two blocks, queried at every block from each slot with `max_result` 0 or 1. The history cursor stays aligned and the walk ends. |
| `bidi_stream` | pass | One transaction with up to three requests. The server ends the call at any point with OK or an error, and `agrpc::finish` succeeds or fails. Every operation completes, and the close reports the call's status. |
| `parity_handlers` | pass | Both parity handlers over every request shape, two blocks, two incarnations, three storage locations, quantity 0–3 and offsets at and past a location. Blocks hold up to two transactions, with or without stored receipts and base fee. Every remote call fails or returns. `StorageKeysPage` and `ReceiptsPriced` hold. |
| `trace_filter` | pass | Every chain of two blocks with up to two frames each, drawn from three kinds. Every address filter (none, `from`, `to`, both), `after` 0–2, `count` 1–3 and every block range. `trace_filter` refines `TraceWindow`. |
| `util_conversions` | pass | `to_dec` of every 12-bit number in 3-bit words, and `base64_encode` of 340 byte strings in both alphabets, equal their reference definitions. |
| `state_diff` | pass | Every block of two transactions over an address that is born, dies, changes any field or its slot, or is only touched. `StateAddresses` follows the state from one transaction to the next. Every changed account's entry is its change since the transaction's start, except for accounts created or deleted earlier in the block (finding 21). A newly created empty account is erased. The overlay stays current under both drivers, with a pre-check failure at either call. |

Twenty-one more configurations reproduce findings 1–3 and 5–22, but
`PROJECT.json` does not list them as runs:

- `self_deadlock.cfg` (`MC_StateCache`, `NoSelfDeadlock`);
- `cold_start_evicts_latest.cfg` (`MC_StateCache`, `LatestRootPresent`);
- `storage_misplaced_slot.cfg` (`MC_StorageWalker`, `StoredValuesHistorical`);
- `storage_cleared_tail.cfg` (`MC_StorageWalker`, `RangeMatchesHistory`);
- `state_diff_empty_entry.cfg` (`MC_StateDiffTracer`, `NoSpuriousEntries`);
- `evicted_view_read.cfg` (`MC_StateCache`, `ReadCoherent`);
- `trace_prefunded_create.cfg` (`MC_EvmTracers`, `TracesMatchCallTree`);
- `json_nested_arrays.cfg` (`MC_JsonStream`, `DocumentWellFormed`);
- `gas_pool_overflow.cfg` (`MC_GasPriceOracle`, `PoolWithinMaxSamples`);
- `trace_failed_create.cfg` (`MC_EvmTracers`, `NoUndefinedBehaviour`);
- `lru_race.cfg` (`MC_StateCache`, `EvictionsMatchLatest`);
- `vm_nested_precompile.cfg` (`MC_EvmTracers`, `VmTracesLive`);
- `trace_filter_count_zero.cfg` (`MC_TraceFilter`, `WindowSpec`);
- `trace_filter_reads_past_to.cfg` (`MC_TraceFilter`, `ReadsWithinRange`);
- `bidi_stale_reply.cfg` (`MC_BidiStreamingRpc`, `ReadReplyFresh`);
- `parity_exception_escapes.cfg` (`MC_ParityApi`, `NoExceptionEscapes`);
- `parity_receipts_oob.cfg` (`MC_ParityApi`, `ReceiptsInBounds`);
- `parity_keys_at_block.cfg` (`MC_ParityApi`, `StorageKeysAtBlock`);
- `vm_undefined_used.cfg` (`MC_EvmTracers`, `VmUsedNonNegative`);
- `state_diff_reborn.cfg` (`MC_StateDiffTracer`, `DiffAgainstTxPreState`);
- `parity_error_code.cfg` (`MC_ParityApi`, `ErrorCodesSpec`).

Run them with `tlc -config <cfg> <MC module>`. Each ends in the
counterexample its finding describes.

In `PROJECT.json`, each passing property has a mutant: a plausible bug in
the mapped code, which TLC finds under the run's own configuration.

## Findings

1. **Self-deadlock.** `get`/`get_code` hold the shared lock across the
   remote read (state_cache.cpp:248). If the subscription shares the
   request's `io_context`, `on_new_block` blocks the thread that must resume
   the request.
2. **uint64 wrap.** `latest_state_view_id_ - max_views + 1` wraps before
   enough views have been applied (state_cache.cpp:361). `evict_roots` then
   erases every root, including the new latest one, and `latest_state_view_`
   dangles.
3. **Empty read of an evicted view.** An evicted view's read answers empty
   bytes, not the database value (cached_database.cpp:40). This departs from
   spec 4.6.
4. **Write through a stale iterator.** A miss adds through `root_it` after
   unlock and relock (state_cache.cpp:257). The root may be gone by then.
5. **LRU race.** Hits mutate the eviction list under the shared lock
   (state_cache.cpp:238). The same key ends up in the list twice, and a
   later eviction trips the `num_erased == 1` assertion.
6. **Missing separator.** `open_array` skips the entry separator step
   (stream.cpp:59), so an array inside an array is written as `[[]v]`.
7. **Pool overflow.** The pool can exceed `kMaxSamples` by up to
   `kSamples - 1` (gas_price_oracle.cpp:43).
8. **Prefunded CREATE traced as a call.** `on_execution_start` calls a frame
   a creation only if its recipient does not exist yet (evm_trace.cpp:694).
   A CREATE to an address that already holds a balance is popped by
   `on_execution_end` and again by `on_creation_completed`, which removes
   its caller's entry. The caller's next child gets `trace_address` `[]`
   and is not counted in `sub_traces`.
9. **Failed CREATE.** `on_execution_end` resets `trace_result` of a
   creation that fails (evm_trace.cpp:814). `on_creation_completed` then
   writes `gas_used` through the empty optional (evm_trace.cpp:850).
10. **Nested precompile frees a live VmTrace.** `on_precompiled_run` hangs
    the precompile's empty VmTrace under the last op of `vm_trace_`, not of
    the current trace (evm_trace.cpp:630). In a nested frame that op is the
    call that started the frame, so its `sub`, the only owner of the
    running frame's VmTrace, is replaced. `traces_stack_` then refers to a
    freed VmTrace, and the frame's next op is written through it.
11. **Cleared slot reported under the next live slot.** When the history
    cursor is behind the plain-state cursor, the slot at `h_loc` existed at
    the block but is cleared now. `walk_of_storages` reads its old value
    from the change set but hands the collector `ps_skv.key2`, the next
    live slot's location (storage_walker.cpp:159). `storage_range_at`
    stores the old value under the live slot and later drops the live
    slot's own value as a duplicate. The cleared slot is missing.
12. **Cleared slots after the last live slot are dropped.** Once the
    plain-state cursor is exhausted, its empty `key1` compares below the
    history cursor's (storage_walker.cpp:135). The collector is then called
    with the zero address and stops the walk, so slots cleared since the
    block that sort after every live slot are never returned.
13. **A closed stream answers with the previous reply.** If the server ends
    the call with OK while a read is pending, the read fails and
    `ReadNext` calls `finish`. `Finish` sets `status_` to OK, the server's
    status is OK, and the operation completes with no error and the stale
    `reply_` (bidi_streaming_rpc.hpp:76, 157). The caller takes that as
    the answer to its request. It then writes again, the write fails, and
    `finish` runs a second time on the same call. gRPC allows one `Finish`
    per call, and only `writes_done_and_finish` checks `status_`.
14. **All-`"="` entries in `stateDiff`.** `on_reward_granted` takes
    `state_diff_[address_key]` for every touched address, which creates a
    default entry (evm_trace.cpp:1000). For an address that neither existed
    before nor exists after, for example the target of a zero-value call
    to an empty address, no branch fills or erases it. The output then
    holds `{"balance":"=","code":"=","nonce":"=","storage":{}}`. Spec 4.9
    says an address whose fields are all Same is removed.
15. **`count` 0 returns everything.** `trace_block` decrements
    `filter.count` for a written frame before testing it for 0
    (evm_trace.cpp:1176). With `"count": 0`, the first kept frame is
    written and the count wraps, so the walk writes every later kept frame
    and reward too. Spec 4.10 says `count` is a limit, so a count of 0
    should write nothing. If the first frame is dropped or only uses up
    `after`, the first count test stops the walk and nothing is written.
    The answer therefore depends on the first frame.
16. **A read past `toBlock`.** The loop's `block_number++` runs before the
    test. After the last block is traced, the loop reads block
    `to_block + 1` (evm_trace.cpp:1413) and only then leaves. Spec 4.10
    walks only `[from_block, to_block]`. With `toBlock` at the chain head
    there is no such block. Whether `read_block_by_number` then throws is
    up to code that is not in the repository. If it does, a request that
    `count` does not cut short fails after the array was opened.
17. **Exceptions escape the parity handlers.** Both handlers parse their
    params with `get<T>()` before the try block (parity_api.cpp:50, 93,
    94, 97, 101). They also call `database_->begin()` before it and
    `tx->close()` after it. A mistyped param, for example a number for
    the address, throws `nlohmann::json::type_error` out of the handler.
    So does a failing begin or close. Spec 7 says no exception escapes a
    handler.
18. **`parity_getBlockReceipts` writes past an empty vector.**
    `get_receipts` returns an empty `Receipts` when the block's receipts
    are not stored (receipts.cpp:34, "NOT YET IMPLEMENTED"). The handler
    still runs `receipts[i].effective_gas_price = ...` for every
    transaction of the block (parity_api.cpp:65). For a block with
    transactions that is a write through a null data pointer, and the
    process crashes.
19. **`parity_listStorageKeys` ignores the block.** `read_account` reads
    the account at the requested block, but the keys come from
    PlainState, the latest state, under that block's incarnation
    (parity_api.cpp:119–120). A request for an older block lists today's
    keys, or none once the account has been recreated. The handler's
    TODO comment says it awaits Erigon2u1.
20. **Negative `used` after an undefined instruction.** For
    `EVMC_UNDEFINED_INSTRUCTION`, `VmTraceTracer::on_execution_end`
    computes the last op's figures as follows (evm_trace.cpp:670–672):
    - `cost = start_gas - gas_before`, the gas the frame used before the
      op;
    - `used = gas_before - cost`.

    Once a frame has used more than half of its start gas, `used` is
    negative, though every other op's `used` is the gas left. For example,
    a frame starts with 12 gas, forwards 5 to a callee that fails, and
    reaches the undefined op with 5 left. It reports `cost` 7 and `used` -2
    (`vm_undefined_used.cfg`). Spec 4.9 only says the status adjusts the
    figures, so the finding is the impossible gas-left value.
21. **State diffs of later transactions use the block's pre-state for
    existence.** `on_reward_granted` takes `initial_exists` from
    `StateAddresses::exists` (evm_trace.cpp:998). `IntraBlockStateTracer`
    updates the overlay's balance, nonce and code, but not existence.
    The model takes `exists` to fall back to `initial_ibs` like the
    getters do; its definition is in `evm_trace.hpp`, which is not in the
    repository. Under that reading, an account created in one transaction
    of a block is still "new" for every later one, and so is reported
    Born again when it changes. An account deleted later in the block is
    wrongly described too. In the shortest trace
    (`state_diff_reborn.cfg`), an account created empty in the first
    transaction is deleted in the second. The code gives it an entry whose
    balance, code and nonce are all Same, instead of Died.
22. **Internal failures answer error 100.** Both parity handlers map every
    exception other than `invalid_argument` to error 100, including
    `catch (...)` (parity_api.cpp:72–77, 141–146). Spec 7 surfaces
    transport, upstream and internal failures as -32000 and keeps 100 for
    domain rejections (`parity_error_code.cfg`).

## Bounds and why they suffice

- **StateCache.** Two readers on distinct threads give every pair of
  interleaved segments. Three views with `max_views` 2 give eviction of a
  root that a reader holds. One key per table gives eviction on every new
  key. Warm and cold starts are separate runs. The cold-start wrap is only
  shown as a violation, because the pass runs would hit it and stop there.
- **JsonStream.** Depth 3 covers an object in an array in an object, and
  the reverse. Nine tokens allow two siblings at each level.
- **Tracers.** Four frames three deep give a creation with a child, a
  sibling after a creation, and a delegatecall inside a created contract.
  One extra instruction lets a frame run an op before or after its call,
  or a precompile. Five frames four deep took over half an hour. One
  account with code and one fresh address are enough for every
  classification the tracer makes. The prefunded run adds an existing
  account without code.
- **Tracer gas.** `TxGas` 12 forwards 5 to a first callee, 2 to a second
  and none to a third. The deepest frames therefore meet the gas guards:
  too little gas for a plain instruction, or a precompile with nothing to
  use. A frame that loses a failed callee's gas has used more than half of
  its start gas, which is the case finding 20 needs.
- **StorageWalker.** Two slots and three blocks give every relative order
  of a live slot, a slot cleared since the block and a slot changed after
  it. Two values tell a slot's value from its neighbour's. Shards of two
  blocks give a slot of two shards, so both skips in `next()` happen. The
  query starts at each slot, at every block, and caps after one or two
  slots.
- **BidiStreamingRpc.** Three requests let the server end the call
  before the first reply, between replies and after the last one. They
  also let the caller write after a stale success, which gives the second
  `finish`. The server's status and `finish`'s `ok` take every value.
- **StateDiffTracer.** `on_reward_granted` computes each address's entry
  from that address alone, so one address shows every branch. Its
  accounts range over every non-empty record of values {0, 1} and one
  slot, plus none. Two transactions let the second start from the
  overlay the first recorded: born, died, changed and untouched accounts
  follow each other in every order. Empty existing accounts reach the
  `to_be_removed` erasure. A pre-check failure at the first or the
  second call covers both the skip and the break.
- **TraceFilter.** Two blocks let `after` and `count` run out in the
  first block, at its reward, or in the second block. Two frames per
  block let one be skipped and the next one written. The three frame kinds
  make each address filter keep some frames and drop others, and include
  a creation with no `to`. `after` of 2 outlasts a block of one frame and
  its reward. `count` of 3 outlasts every window of a one-frame chain.
  Counts start at 1; count 0 is finding 15.
- **Util.** Words of 3 bits keep the code's structure: four words, a
  top-bit mask and a digit buffer sized by the same rule. Every 12-bit
  number covers every count of leading zero words, and every bit of every
  word set or clear. The bytes 0, 90, 165 and 255 set and clear every
  bit. Strings of 1–4 bytes give every tail length, plus a full group
  followed by a tail.
- **ParityApi.** Three locations let a page start before, at or between
  them, end inside the storage or at its end, and skip one. Quantities 0–3
  cover the empty page and a page cut short. Offsets 2 and 4 are at a
  location and past every location, and no offset starts at 0. Two blocks
  and two incarnations give a historical request whose account was
  changed or recreated since. Zero to two transactions, with receipts
  stored or not, give the empty block, the priced loop and the
  out-of-bounds write.
- **GasPriceOracle.** One sample per block out of up to two transactions
  exercises the per-block choice of the lowest fee. A three-sample pool
  over three blocks gives pools of 0 to 3 samples. The percentile
  position is therefore 0 or 1, so an off-by-one position picks another
  sample. Position 2 needs pools of five samples. Four blocks, or three
  transactions per block, multiply the chains past what TLC checks in
  minutes. The pool overshoot needs more than one sample per block and
  is reproduced separately (`gas_pool_overflow.cfg`).

## Fairness

Two liveness properties are checked. The first is `WalkTerminates`, under weak fairness of
the walk. `walk_of_storages` is one coroutine that only waits for its own
cursor reads, so it moves on whenever the database answers. The property
asks whether the loop itself can spin, not whether the database answers.

`CallsComplete` is checked under weak fairness of every completion
handler, of the server's reply and of the server's end after a
half-close. The completion queue delivers a tag for every started agrpc
operation, with `ok` false if the call broke, so each started step
completes. The server side is spec 4.1's KV server: it answers every
request and returns when the client's stream ends.

`WindowSpec` includes `TraceWindow`'s weak fairness. It is checked under
weak fairness of `trace_filter`'s next-state relation. The handler is one
coroutine, and every await it makes (block reads, tracing a block) is
taken to return. The property asks whether the walk can stall or close
early, not whether the database answers.

Nothing justifies fairness elsewhere:

- `std::shared_mutex` gives no fairness guarantee.
- A request's remote read may never return.
- The node may stop committing.

Deadlock checking is on for the `StateCache` runs. It is off for
`JsonStream`, `GasPriceOracle`, `EvmTracers`, `StorageWalker`,
`BidiStreamingRpc`, `StateDiffTracer`, `TraceFilter`, `Util` and
`ParityApi`. Their runs end when the document
is complete, the price is computed, the transaction or block is traced,
the walk is done, the caller stops using the stream, the handler has
written its answer or thrown, or the conversion has returned.

## Not modelled (yet)

The plan for the next sittings, in this order:

1. `trace_filter` writing through `JsonStream`, with the token
   abstraction of `JsonStream` in place of `written`. `trace_call`,
   `trace_transaction` and `execute` set up tracers per transaction, and
   the C9 modules model those tracers.
2. The VM tracer's memory, stack and storage copies (`copy_memory`,
   `copy_stack`, `get_stack_count`, `copy_store`), which need an EVM stack
   and memory in the driver. Also existence in `StateAddresses`, once its
   header is available.
3. The remaining gRPC client wrappers, if the repository gains them
   (the KV client itself is not in `src/`).
4. The storage walker's account walk, if the repository gains one. Also a
   start location between two slots.

The access-list tracer is not modelled: `evm_access_list_tracer.hpp` only
declares the class, and its definitions are not in the repository.
`net_api.cpp` and `web3_api.cpp` each turn one backend call into a reply,
and `http/methods.hpp` only names the methods. They hold no state and are
left out, as are the types. So are
`check_tx_fee_less_cap` and the rest of `common/util.cpp`:

- `check_tx_fee_less_cap` has no caller in the repository. Its test is
  float arithmetic on a uint64 product. The product wraps for fees of
  2^64 wei and more, which is a hazard in `PROJECT.json`.
- The rest of `common/util.cpp` is string tables and a chain lookup.
