# TLA+ models of ArrowKV

This directory holds TLA+ specifications of the concurrent parts of ArrowKV's
stream-log storage engine, of its buffer codec and of the catalog, binder and
expression executor of its query engine, the TLC configurations that check
them, and `PROJECT.json`, which maps every definition to the lines of
source it models. Paths below are relative to the repository root
(`src/src/...`); `spec.md` is the design document of the repository.

## 1. The system

| Part | Source | State | Operations |
|---|---|---|---|
| Stream database (`StreamDB`, `StreamFlow`) | `runtime/src/storage/database/streamdb.rs` | map of streams under one mutex; per stream a `PartialStream` and a `PipelinedWriter` under the stream's mutex; the version set; the log engine | `open`, `create`, `recover`, `write`, `seal`, `truncate`, `read`, `get_segment_reader`, `poll_entries`, the grace-period loop |
| Request channel of the log engine | `runtime/src/stream/channel.rs` | `requests`, `waitting` under a mutex, a condition variable | `new`, `append`, `shutdown`, `take` |
| I/O scheduler of the replication client | `runtime/src/stream/client/group/io.rs` | the tasks it spawned, the messages posted to the group's channel | `send_heartbeat`, `seal_segment`, `handle_writes`, `handle_learns`, and the tasks `learn`, `flush_write`, `flush_sealing`, `promote` |
| Buffer codec | `engine/src/bwtree/util.rs` | a write pointer, a read pointer, the buffer | `put_*`, `get_*`, `length_prefixed_slice_size` |
| `PartialStream`, `PipelinedWriter`, `VersionSet`, log worker | not in `src/` (spec.md 3, 4.2-4.5) | index of a stream, pending transactions, versions, log files | written from the design document |
| Observer state machine | not in `src/` (spec.md 4.7) | | not modelled yet |
| Catalog set | `query_engine/src/catalog_v2/catalog_set.rs` | two hash maps (index to entry, name to index) and the last index | `create_entry`, `get_entry`, `get_mut_entry`, `replace_entry`, `scan_entries` |
| Builtin functions | `query_engine/src/function/mod.rs` | the catalog | `initialize`, `add_table_functions`, `add_scalar_functions` |
| Statement binder | `query_engine/src/planner/binder/statement/bind_insert.rs`, `query_engine/src/planner_v2/binder/query_node/bind_select_node.rs` | the binder's table index; reads the catalog | `bind_insert`, `bind_query_body`, `bind_select_body`, `bind_values`, `expand_star_expressions`, `bind_select_item` |
| Bound expressions and their binder | `query_engine/src/binder/expression/mod.rs` | none (trees) | `nullable`, `return_type`, `get_referenced_column_catalog`, `output_column_catalog`, `bind_expr`, `bind_column_ref_from_identifiers` |
| Expression executor, table scan | `query_engine/src/execution/expression_executor.rs`, `query_engine/src/executor/table_scan.rs` | none | `execute`, `execute_scalar`, `execute_internal`, `TableScanExecutor::execute` |
| Tenant file system | `engine/src/file/fs/tenant.rs` | the directory tree | not modelled (section 6) |
| Physical plan, crate roots | `query_engine/src/execution/physical_plan/mod.rs`, `lib.rs` | | not modelled: declarations without behaviour |

How they interact. A caller of `StreamDB::write` or `seal` takes the stream's
mutex, asks the `PartialStream` for a transaction, hands it to the
`PipelinedWriter` and returns. The writer passes the record through the
`Channel` to the one log worker, which takes whole batches, appends and syncs
them, and answers; the writer then applies the transactions to the index and
wakes the readers whose wakers are registered. `truncate` reads the stream's
state, installs a version edit in the `VersionSet`, and refreshes every stream.
On the client side the `IOScheduler` turns the intents of the group's state
machine into RPCs against such replicas and posts one message per answer.

What makes this hard: calls interleave wherever a mutex is released
(`truncate` releases the stream's mutex between reading the state and
installing the edit; the grace-period loop snapshots the keys and then locks
stream after stream); `write` and `seal` return before their record is synced,
so a crash separates what the caller believes from what the disk holds; the
channel relies on one flag and `notify_one` to wake the worker; the tasks of
the scheduler answer in any order.

The query engine is sequential: one thread binds and runs a statement. What is
hard there is of another kind: state kept twice (the two maps of the catalog,
the alias positions beside the select list, the insertion map beside the
insert list), hash maps walked in an order the program does not fix, calls
that fail half way (`initialize`), and boundaries of loops and panics
(`todo!()`, `unwrap`, `expect`, `assert!`) on inputs the parser can produce.

## 2. Modules

| Module | Models | Notes |
|---|---|---|
| `LogQueue` | the promise of the channel: a queue whose consumer takes everything queued, in order | abstract specification |
| `Channel` | `channel.rs` | implements `LogQueue` under the refinement mapping `queue <- requests`, `batches <- taken` |
| `PartialStream` | the index of one stream and the transactions (spec.md 3, 4.3, 4.4) | operators only; every definition is written from the design document, and the module's header lists the readings it fixes |
| `StreamDB` | `streamdb.rs`, with the writer, the log worker and the version set behind it | extends `PartialStream` |
| `IOScheduler` | `io.rs` | |
| `BufCodec` | `bwtree/util.rs` | |
| `CatalogMap` | the promise of the catalog set: a map from names to entries, with the answer of every call | abstract specification |
| `CatalogSet` | `catalog_set.rs` | a state machine of its own; implements `CatalogMap` under the refinement mapping `entryOf <- NamedEntries` |
| `Outcome` | the three ways a call ends: `Ok(value)`, `Err(error)`, `Panic` | records, so that TLC can compare any two |
| `Binder` | `bind_insert.rs`, `bind_select_node.rs` | operators from the inputs of a bind function to its outcome |
| `Expression` | `binder/expression/mod.rs`, `expression_executor.rs`, `table_scan.rs` | recursive operators over expression trees |
| `QueryEngine` | `function/mod.rs`, and the calls of the binder and the executor as actions over the catalog | extends `CatalogSet`, `Binder`, `Expression` |
| `MCChannel`, `MCStreamDB`, `MCIOScheduler`, `MCBufCodec`, `MCQueryEngine` | constants for TLC | |

### Channel

Variables: `requests` and `waitting` are the fields of `ChannelCore`; `pc` is
where each consumer stands in `take` (`ready`, `parked` inside `Condvar::wait`,
`woken`, `stopped`); `taken` records the batches returned. `append` and
`shutdown` hold the mutex from start to end and are one action each
(`AppendRecord`, `Shutdown`, both through `PushAndWake`). `take` is one action
per critical section: `TakeWait` (the `while` body: set the flag and wait) and
`TakeBatch` (`std::mem::take`). `NotifyOne` moves one parked consumer to
`woken`; `SpuriousWakeup` is the wake-up the condition variable may produce on
its own.

### StreamDB

Disk: `current` (the CURRENT file), `manifest` (the version the manifest
holds), `files` (numbered files), `log` (the synced records). Memory: `db`,
`version`, `nextFile`, `present` and `storage` (the map of streams and each
stream's `PartialStream`), `pending`, `inflight`, `committed`, `wakers` (the
`PipelinedWriter`), `logq` (the channel, abstracted to the queue `LogQueue`
shows it to be), `tr` and `rd` (the program counters of the truncating callers
and of the readers). `ret` is the result of the last call.

Atomicity follows the locks of the source:

* `Write` and `Seal` are one action: `must_get_stream` and the `StreamFlow`
  method each run under a mutex, and nothing is read in one and used in the
  other. `WritePanics` is the write of a range that ends at the last index in
  a build with overflow checks: `first_index + num_entries` panics after
  `storage.write` and before `writer.submit`, and the unwinding releases the
  mutex. In a build without them the sum wraps, which is `Write` with
  `HintRange`; both are enabled for such a range.
* `truncate` is six actions. `TruncateBegin` is `stream_meta` under the
  stream's mutex; `TruncateRefuse` / `TruncateInstall` are the check on
  `keep_seq` and `truncate_stream`; `TruncateInstallErr` is `truncate_stream`
  answering an error, which `?` returns before the grace-period loop (the
  version set is taken to have installed nothing); `GraceSnapshot` takes the
  keys of the map; `GraceRefresh` refreshes one stream; `TruncateReturn`
  returns `Ok`.
* `must_get_stream` is one step with the call that follows it. It reads
  `version_set.current()` without the version set's lock (the TODO in the
  code); the read cannot miss a truncation of the stream it creates, because
  every truncate of a stream creates the stream before it installs.
* `Read` (`read`, `get_segment_reader`) creates a reader; `PollSome` and
  `PollNone` are `poll_entries`, one lock each.
* `FlushBegin`, `LogSync`, `FlushApply` are the writer handing records to the
  log worker, the worker writing and syncing a batch, and the writer applying
  the committed transactions and waking readers. `Rotate` starts a new log file.
* `Crash` discards the memory and keeps the disk; `Open` recovers from it.
  `OpenFails` is a recovery that ends in an error (the `unwrap` of
  `VersionSet::recover`, the `?` after `analyze_db_layout` and
  `recover_log_engine`): the caller has no database and the disk is as
  `create` left it.

Data abstraction: an entry is its index; the index space has `IndexSpace`
values in place of 2^32 (`HintRange` wraps modulo `IndexSpace` as
`first_index + num_entries` wraps in a release build); a `Sequence` is ordered
by `epoch * IndexSpace + index`.

`Durable(s)` is the index of stream `s` that `recover` would rebuild from the
manifest and the log as they are; `RecoveryRebuildsIndex` compares the index
in memory with it whenever nothing of the stream is on its way to the log.

### IOScheduler

`tasks` is the sequence of the tasks spawned with the program counter of each;
`channel` is the sequence of messages posted by `on_msg` and `on_promote`, each
tagged with the task that posted it. The entry points spawn tasks
(`SendHeartbeat`, `SealSegment`, `HandleWrites`, `HandleLearns`); every other
action is one answer of an RPC to one task: `FlushWriteOk` / `FlushWriteErr`,
`FlushSealingOk` / `FlushSealingErr`, `SealSegmentOk` / `SealSegmentErr`,
`LearnReadOk` / `LearnReadErr`, then `LearnBatch`, `LearnStreamErr`,
`LearnEnd`; `HeartbeatOk` / `HeartbeatErr`, then per promote command
`GetSegmentsErr`, `PromoteDelivered`, and, when the master answers another
number of descriptors than the command asks, `PromotePanics` (no descriptor)
or `PromoteMiscounted` (a release build, where `debug_assert_eq!` is absent).

`learn` posts a `learned` for whatever the stream yields; of the entries the
message keeps whether there are none (`empty`), which is how the receiver
tells the end of the stream. Whether the stream of the store (outside `src/`)
may yield a batch without entries is the constant `BatchEmpty`. The run
`ioscheduler` takes it not to (`BatchEmpty = {FALSE}`); with `{FALSE, TRUE}`
TLC finds `LearnEndIsLast` violated after two steps of one task: `learn` has
no guard against an empty batch, and the receiver is told the end of a stream
that goes on. `PromoteOf` is the message `promote` builds: the descriptors are
matched to the epochs by position, the command's epoch last.

### BufCodec

`buf` is the buffer, `wpos` and `rpos` the two raw pointers as offsets,
`fields` what was put and `got` what the reader returned. Integers are written
least significant byte first in 1, 4 and 8 bytes; a byte has `Base` values.
`PutLengthPrefixedPanics` is the `assert!` of `put_length_prefixed_slice` on a
slice longer than `u32::MAX`; `panicked` ends the series of calls.

### CatalogSet and QueryEngine

`cat` is the `CatalogSet` (`entries`, `mapping`, `current_entry`), `ret` what
the last call was given and answered, `table_index` the counter behind
`generate_table_index`. Every method takes the set by reference and runs to
its end, so a call is one action. `ScanEntries` and `BindExprCall` choose the
order in which the hash map yields its items (`SetToSeqs`). `Initialize`
registers the builtins in the order of the source up to the first name the
catalog refuses and answers that error; what it registered stays.

`CatalogMap` is what a caller may rely on without knowing of indexes: its one
variable `entryOf` maps a name to its entry, and each of its actions is a call
with the answer it gives. `NamedEntries` reads that map off the two hash maps
of the code (`mapping` followed by `entries`), and `ImplementsCatalogMap` says
that every step of the query engine is a call of the abstract map with the
same answer, or leaves the map alone.

The bind functions are operators that answer `Ok(node)`, `Err(error)` or
`Panic`, with the early returns in the order of the code. A select item is its
kind (`UnnamedExpr`, `ExprWithAlias`, `Wildcard`, `QualifiedWildcard`), its
alias and a name for its expression; a table is its list of columns with
types. Positions are 1-based in the models, so `INVALID_INDEX` is 0.
`BindQueryBodyCall` takes the table index before it looks at the body, as
`bind_query_body` does. `bind_insert` belongs to the first planner, whose
`bind_query` is not the binder of `bind_select_node.rs`: `BindInsertCall`
takes what `bind_query` answers, an error or the types of a plan, as an input.

Expressions are records with a `kind`; `Nullable`, `ReturnType`,
`ReferencedColumns` and `OutputColumnCatalog` follow the `match` of each
method, and a `...Panics` operator beside each says where it ends in
`todo!()`, `unreachable!()`, `unwrap()` of `None` or an index into an empty
vector. `ExecuteInternal` evaluates a tree against a batch; a function pointer
is a name the constant operator `Apply` evaluates, `to_lowercase` is the
constant operator `Lower` (the instance maps `"A"` to `"a"`). `IsBoundExpr`
is the shape the enum `BoundExpr` and its structs give a tree; `QueryEngine`
assumes it of every expression of the instance, and TLC checks the assumption
before it starts.

Calls into code outside `src/` are inputs or are read as their name says:
`Catalog::create_table_function` and `create_scalar_function` end in
`create_entry` under the function's name; `Catalog::get_table` is `get_entry`
narrowed to tables; `bind_query`, `bind_table_ref`,
`bind_expression`, `bind_expression_list_ref` and
`cast_logical_operator_to_types` answer `Ok` or an error as the input says.

## 3. Runs

| Run | Configuration | Result | What it shows |
|---|---|---|---|
| `channel` | `MCChannel.cfg` | holds, 784 states | `NoLostWakeup`: requests are never queued with the worker parked and nobody on the way to the mutex. `ImplementsLogQueue`: every behaviour of the channel is a behaviour of `LogQueue`. `EveryRequestTaken` (liveness): a queued request is taken as long as a worker runs. |
| `streamdb` | `MCStreamDB.cfg` | holds, about 1.26 million states | `TruncationSafety`: the durable truncation point never passes the durable acked sequence. `NoReaderSleepsOnData`: a suspended reader has its waker registered or nothing to read. `AckedSeqMonotonic`: the acked sequence a stream reports never goes back, across a crash and recovery. `TruncatedNotReadable`: after a truncate has returned no reader is handed an entry below its `keep_seq`. `RecoveryRebuildsIndex`: when nothing of a stream is pending or in flight and no truncate is under way, its index in memory is the one recovery would rebuild from the manifest and the log. |
| `streamdb_epochs` | `MCStreamDBEpochs.cfg` | holds, about 476 thousand states | `NoStaleRecord`: no write of a writer below the promised epoch is in the log. `NextFileNumberFresh`: after every recovery `next_file_number` is above every file on disk. |
| `streamdb_streams` | `MCStreamDBStreams.cfg` | holds, about 882 thousand states | `RecoveryRebuildsIndex` with two streams in one log: the replay gives a stream the records of that stream only. `TruncatedNotReadable` with two streams, two concurrent truncates and two truncation points. |
| `ioscheduler` | `MCIOScheduler.cfg` | holds, about 458 thousand states | `MessageOfIntent`: a message carries the target and epochs of the task that posted it and is of a type its kind may post. `OneAnswerPerMutation`: a finished write or seal task has posted exactly one message. `LearnEndIsLast`: no message of a learn task follows the one that ends its stream, and a `store_timeout` of it stands alone. `PromoteOfCommand`: a promotion answered with the number of descriptors asked for names the descriptor of the command's epoch as the new segment and those of the pending epochs, in order, as the broken ones. |
| `bufcodec` | `MCBufCodec.cfg` | holds, about 32 thousand states | `RoundTrip`, `PointersAgree` |
| `query_engine` | `MCQueryEngine.cfg` | holds, about 21 thousand states | `NamesOwnTheirEntries`: the two maps of the catalog are one bijection between names and entries. `BuiltinsResolve`: after an `initialize` that answered `Ok` every builtin name leads to its function. `AliasesSurviveStar`: the position an alias of the WHERE clause leads to is the item carrying it, after any star expansion. `InsertMapIsInverse`: the insertion map feeds every table column from the insert position that names it, with that position's type. `NullableHasCause`: an expression that says it may be null reads a nullable column. `ColumnRefOrderFree`: what a bare column binds to does not depend on the hash order. `ConjunctionCoversAll`: a conjunction is its function folded over every child. `ImplementsCatalogMap`: every behaviour of the catalog, the registration of the builtins included, is a behaviour of `CatalogMap`. |
| `streamdb_staled_write` | `MCStreamDBStaled.cfg` | violated | a write below the promised epoch returns `Ok` |
| `streamdb_seal_durable` | `MCStreamDBSeal.cfg` | violated | `seal` returns before its record is durable |
| `io_learn_answer` | `MCIOSchedulerLearn.cfg` | violated | a learn whose stream fails midway posts no terminal message |
| `io_promote_count` | `MCIOSchedulerPromote.cfg` | violated | a promote with the wrong number of descriptors is delivered |
| `streamdb_index_overflow` | `MCStreamDBOverflow.cfg` | violated | a write whose range ends at the last index panics |

The five violated properties state what `spec.md` says of the program; the
traces are what the code does:

1. `StreamFlow::write` (streamdb.rs 249-266) hands the result of
   `PartialStream::write`, the error `Staled` included, to the writer, drops
   the waiter and returns `Ok((index, acked_index))`. spec.md 4.4 and 8 say the
   stale writer gets `Staled`.
2. `StreamFlow::seal` (streamdb.rs 278, `//waiter?;`) returns before the seal
   record is synced; a crash then forgets the promise. spec.md 8 says
   operations return after durability.
3. `learn` (io.rs 171-177) breaks out of its loop on a stream error without
   posting `store_timeout` or the terminal `learned`. spec.md 4.8.
4. `promote` (io.rs 296) checks the number of descriptors with
   `debug_assert_eq!` only. spec.md 4.7.
5. `StreamFlow::write` (streamdb.rs 257) adds `first_index + num_entries` as
   a plain `u32` sum. For a range that ends at the last index the sum
   overflows: a build with overflow checks panics after the write was handed
   to `PartialStream::write` and before it is submitted, a build without
   them asks `continuous_index` about an empty range. spec.md 9 asks for
   checked or saturating index arithmetic.

The query engine is a non-goal of `spec.md`, which therefore states nothing of
it; what the models showed of the code's behaviour there is recorded here
without a run of its own:

* `nullable` of a binary operator is `left && right`: an operator over a
  nullable column and a constant says it cannot be null.
* An insert list that names a column twice is accepted: the later position
  feeds the column, the value of the earlier one is dropped, and the count
  check passes.
* `initialize` keeps what it registered before the first refusal, so a second
  `initialize` is always refused by the first name.
* `output_column_catalog` panics on a binary operator without a return type
  (`unwrap`) and on an aggregate without arguments (`exprs[0]`).

Each property of a passing run is paired in `PROJECT.json` with a faulty
variant of a definition (a wait without the flag, an install without the check
on `keep_seq`, a recovery that ignores the log, ...) under which TLC finds the
property violated.

## 4. Bounds

* `channel`: one consumer (the log engine runs one worker), two records, three
  appends and one shutdown. Three appends are enough for an append to arrive
  before, during and after a wait of the worker. With two consumers
  `NoLostWakeup` does not hold: one `waitting` flag cannot tell how many
  consumers are parked. The channel is sound for the single worker it has.
* `streamdb`: one stream, one epoch, `IndexSpace = 3` (indices 1 and 2),
  batches of one and two entries, one truncator, one reader with limit 2, four
  calls, one crash. Four calls allow write, write, truncate, read in every
  order with the log worker and the crash in every position.
* `streamdb_epochs`: writer epochs 1 and 2 against one segment, up to three
  numbered files, two crashes: a seal by epoch 2, a write by epoch 1, rotation,
  and recovery after each.
* `streamdb_streams`: two streams (a symmetry set: no operator tells them
  apart), two truncators, the truncation points (1, 1) and (1, 2), writes of
  two entries that acknowledge both, no crash. Two points let the two
  truncates of one stream install the higher point first and the lower one
  after it; `truncate` accepts the lower one (it compares `keep_seq` with
  `acked_seq` only), and the run shows that the merge of the version set is
  what keeps the entries hidden. A crash is left to `streamdb`:
  `RecoveryRebuildsIndex` compares the index with what a replay of the disk
  would give in every state, so the replay of a log shared by two streams is
  checked without one.
* `ioscheduler`: two targets, epochs 1 and 2, three tasks, two learn batches,
  descriptor lists of length 0, 1 and 2 against a command with one pending
  epoch (too few, too many, as asked); a heartbeat answered with an unknown
  command and two promotions, so that a promotion whose `get_segments` fails
  has commands behind it.
* `query_engine`: three names (`t`, `add`, `sub`) and `MaxEntries = 3`, so the
  catalog fills up and a builtin name can be taken by a table before
  `initialize` runs; one table `t(a Int, b Text)`; select lists with a star
  before and after an aliased item, a repeated alias, an unknown table and an
  expression that does not bind; insert lists that are empty, reordered, with
  a name twice and with an unknown name, over sources of one and two columns;
  22 bound expressions of every kind, nested; three bind contexts (two tables that
  share a column name, one table beside an alias, no table at all); conjunctions of two and three
  children. `MaxTableIndex = 1`: the table index only counts the calls.
* `streamdb_index_overflow`: the bounds of `streamdb_epochs` without
  truncators and readers.
* `bufcodec`: `Base = 2`, so a `u32` has 16 values and a `u64` 256; three
  fields; slices of length 0, 1 and 2, a slice of 15 bytes, the longest whose
  length a `u32` holds, and one of 16, on which the assert fails; a buffer of
  21 bytes, which holds the longest prefixed slice and one more field.

Every bound is a named constant (`MaxCalls`, `MaxCrashes`, `MaxFiles`,
`MaxAppends`, `MaxShutdowns`, `MaxTasks`, `MaxBatches`, `MaxFields`,
`Capacity`, `MaxEntries`, `MaxTableIndex`). Deadlock checking is off where a bounded run ends with nothing
left to do.

The record literals of `MCQueryEngine` and `MCIOScheduler` name their fields in
the order in which the names first appear in the module. TLC keeps the fields
of a record in that order; written otherwise, a constant shared by two workers
is rearranged by one while the other reads it.

## 5. Fairness

Only `Channel` has a liveness property, under `WF_vars(Take(c))` for each
consumer: a worker that is at the mutex acquires it in the end, because every
critical section of the channel is a few statements long. Nothing is assumed
of producers or of spurious wake-ups. The other specifications are
`Init /\ [][Next]_vars`.

## 6. Not modelled

* File formats, checksums, record layout and the directory scan of recovery:
  the disk is the set of numbered files, the version in the manifest and the
  sequence of synced records.
* Payloads of entries, error strings, logging.
* Mutex poisoning (`lock().unwrap()` in `channel.rs`): a panic of a lock
  holder is outside the model.
* The observer state machine, the master and the transport: the scheduler's
  RPCs answer nondeterministically.
* The tenant file system (`tenant.rs`): its state is the directory tree,
  shared between processes. `create_bucket` tests `exists()` before
  `create_dir_all`, `delete_bucket` removes what a lister walks; both are in
  the list of hazards. The module keeps no state and decides nothing beyond
  that one test: a model of it would take the atomicity of the directory
  calls from the platform and would show properties of the file system, and
  spec.md 1 names the tenant and bucket abstraction a non-goal.
* `append` after `shutdown` (`channel.rs` 60-72): the request is queued and
  may never be taken. It is modelled (`AppendRecord` is enabled after
  `Shutdown`), and `EveryRequestTaken` promises nothing once the worker has
  ended; no property says the request is refused, because the code does not
  refuse it.
* `physical_plan/mod.rs` (an enum and `children()`), the `Debug` formatting
  and the `contains_*` visitors of `binder/expression/mod.rs`.
* In the query engine, SQL syntax, Arrow arrays and the text of errors: a
  statement is the shape the binder branches on.

## 7. Plan

What is left of `src/` outside the models is declarations (`lib.rs`,
`physical_plan/mod.rs`), formatting, and the tenant wrapper, whose behaviour
is the file system's. The items below need code that is not in `src/` (the
observer state machine, the log worker's loop) or state spaces beyond the
instances checked here.

1. Compose `StreamDB` with `Channel` in place of the abstract `logq`, and check
   the safety properties of `streamdb` over the composition.
2. An abstract specification of a replica (acknowledged entries are durable
   and readable) and `StreamDB` shown to implement the part of it the code
   keeps; `RecoveryRebuildsIndex` is the part of it about the index.
3. The observer state machine from spec.md 4.7, composed with `IOScheduler`
   and replicas, with liveness of a write under a fair transport.
