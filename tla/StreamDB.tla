------------------------------ MODULE StreamDB ------------------------------
(***************************************************************************)
(* The stream database of one storage node                                 *)
(* (src/src/runtime/src/storage/database/streamdb.rs): StreamDB, its map   *)
(* of StreamFlow, and the calls open, recover, write, seal, truncate, read *)
(* and poll_entries, together with what they drive: the per-stream index   *)
(* (PartialStream.tla), the pipelined writer, the log engine and the       *)
(* version set.                                                            *)
(*                                                                         *)
(* Atomicity.  Every call of StreamDB takes the database mutex (in         *)
(* must_get_stream or might_get_stream) and then the mutex of one stream.  *)
(* The first critical section only looks a stream up or inserts an empty   *)
(* one, which commutes with every step of another thread, so a call is one *)
(* step per stream critical section.  truncate has several: stream_meta,   *)
(* the installation of the version edit, the snapshot of the stream keys   *)
(* and one refresh per stream; they are one action each, and the steps of  *)
(* other threads come between them.                                        *)
(*                                                                         *)
(* The pipelined writer, the log engine, the version set and the segment   *)
(* reader have no source under src/; their actions (Submit, FlushBegin,    *)
(* LogSync, FlushApply, Rotate, and the reader's side of Read and          *)
(* PollEntries) are written from sections 4.2 to 4.6 of the specification. *)
(* The log engine's queue is the group-commit queue LogQueue.tla           *)
(* describes and Channel.tla implements.                                   *)
(*                                                                         *)
(* Durable state: the CURRENT file, the manifest, the numbered files and   *)
(* the log.  Crash keeps these and throws the rest away.                   *)
(***************************************************************************)
EXTENDS PartialStream, Sequences, SequencesExt

CONSTANTS
    Streams,         \* stream ids
    WriterEpochs,    \* the writer epochs callers present
    AckSeqs,         \* the acked sequences writers piggy-back on a write
    KeepSeqs,        \* the keep_seq arguments of truncate
    BatchSizes,      \* the numbers of entries callers put in one write
    ReadLimit,       \* the limit a reader is opened with
    Truncators,      \* the threads that call truncate
    Readers,         \* the tasks that own a segment reader
    MaxCalls,        \* bound on the calls of write, seal, truncate and read
    MaxCrashes,      \* bound on the crashes
    MaxFiles         \* bound on the numbered files

ASSUME
    /\ WriterEpochs \subseteq Nat
    /\ AckSeqs \subseteq Sequence /\ KeepSeqs \subseteq Sequence
    /\ BatchSizes \subseteq Nat /\ ReadLimit \in Nat \ {0}
    /\ MaxCalls \in Nat /\ MaxCrashes \in Nat /\ MaxFiles \in Nat

VARIABLES
    \* on disk
    current,         \* the CURRENT file exists
    manifest,        \* the version the manifest holds: stream id -> StreamMeta
    files,           \* the numbers of the files in the directory
    log,             \* the records of the log files, in the order written
    \* in memory, gone at a crash
    db,              \* "open" when a StreamDB value exists
    version,         \* version_set.current(): stream id -> StreamMeta
    nextFile,        \* version_set's next_file_number
    present,         \* the keys of StreamDBCore.streams
    storage,         \* StreamCore.storage of each stream
    pending,         \* PipelinedWriter: the transactions submitted, not flushed
    inflight,        \* PipelinedWriter: the batch handed to the log engine
    committed,       \* the streams whose in-flight batch the log engine has synced
    wakers,          \* PipelinedWriter: the registered reading wakers
    logq,            \* the log engine's queue of batches
    tr,              \* the truncate call of each truncator thread
    rd,              \* the segment reader of each reader task
    \* what callers were told
    ret,             \* the result of the latest call
    truncAcks,       \* the truncations that returned Ok
    calls,           \* the number of calls so far
    crashes          \* the number of crashes so far

disk    == <<current, manifest, files, log>>
flows   == <<present, storage, pending, inflight, committed, wakers, logq>>
history == <<truncAcks, calls, crashes>>
vars    == <<disk, db, version, nextFile, flows, tr, rd, ret, history>>

-----------------------------------------------------------------------------
Txn == [kind : {"write"}, seg : Epochs, wep : WriterEpochs, acked_seq : Nat,
        first : Indices, n : BatchSizes]
          \cup [kind : {"seal"}, seg : Epochs, wep : WriterEpochs]
          \cup {NoTxn}

\* A record of the log: a transaction and the stream it belongs to.
LogRecord == [stream : Streams, txn : Txn \ {NoTxn}]

IdleTruncator == [pc |-> "idle"]
IdleReader    == [pc |-> "idle"]
NoResult      == [op |-> "none"]

\* Version::stream_version(stream_id)
StreamVersion(ver, s) == IF s \in DOMAIN ver THEN ver[s] ELSE EmptyMeta

\* The memory of a process that has not opened the database.
Closed ==
    /\ db = "closed"
    /\ version = <<>> /\ nextFile = 0
    /\ present = {}
    /\ storage = [s \in Streams |-> NewPartialStream(EmptyMeta)]
    /\ pending = [s \in Streams |-> <<>>]
    /\ inflight = [s \in Streams |-> <<>>]
    /\ committed = {}
    /\ wakers = [s \in Streams |-> {}]
    /\ logq = <<>>
    /\ tr = [t \in Truncators |-> IdleTruncator]
    /\ rd = [r \in Readers |-> IdleReader]
    /\ ret = NoResult

\* An empty directory and a process that has not opened it.
Init ==
    /\ current = FALSE /\ manifest = <<>> /\ files = {} /\ log = <<>>
    /\ Closed
    /\ truncAcks = {} /\ calls = 0 /\ crashes = 0

-----------------------------------------------------------------------------
\* StreamDB::open and StreamDB::recover

\* Faulty variant of RecordsOf: every record of the log is taken for one of
\* stream s.
RecordsOfAnyStream(s, records) == [i \in DOMAIN records |-> records[i].txn]

\* The records of stream s in a log, as transactions in log order.
RecordsOf(s, records) ==
    LET mine == SelectSeq(records, LAMBDA rec : rec.stream = s)
    IN  [i \in DOMAIN mine |-> mine[i].txn]

\* recover_log_engine: the index of stream s, rebuilt from the version and the
\* records of the log.
Replay(ver, s, records) ==
    FoldLeft(Apply, NewPartialStream(StreamVersion(ver, s)), RecordsOf(s, records))

\* The streams recovery finds: those of the version and those of the log.
Recovered(ver, records) ==
    DOMAIN ver \cup {records[i].stream : i \in DOMAIN records}

\* Faulty variant of RecoverFrom: next_file_number is max_file_number.
RecoverSameFileNumber(ver, onDisk) ==
    /\ version' = ver
    /\ nextFile' = Max(onDisk)
    /\ present' = Recovered(ver, log)
    /\ storage' = [s \in Streams |-> Replay(ver, s, log)]
    /\ db' = "open"

\* Faulty variant of RecoverFrom: the streams recover_log_engine rebuilt are
\* dropped, the map of streams holds what the version knows.
RecoverWithoutLog(ver, onDisk) ==
    /\ version' = ver
    /\ nextFile' = Max(onDisk) + 1
    /\ present' = DOMAIN ver
    /\ storage' = [s \in Streams |-> NewPartialStream(StreamVersion(ver, s))]
    /\ db' = "open"

\* StreamDB::recover on a directory whose manifest holds ver and whose
\* numbered files are onDisk.
RecoverFrom(ver, onDisk) ==
    /\ version' = ver
    /\ nextFile' = Max(onDisk) + 1
    /\ present' = Recovered(ver, log)
    /\ storage' = [s \in Streams |-> Replay(ver, s, log)]
    /\ db' = "open"

\* open without CURRENT and without create_if_missing: Error::NotFound.
OpenNotFound ==
    /\ db = "closed" /\ ~current
    /\ ret' = [op |-> "open", result |-> "NotFound"]
    /\ UNCHANGED <<disk, db, version, nextFile, flows, tr, rd, history>>

\* StreamDB::create: VersionSet::create writes an empty manifest, numbered 1,
\* and CURRENT.
Create ==
    /\ current' = TRUE
    /\ files' = {1}

\* open whose recover fails: VersionSet::recover answers an error and the
\* unwrap panics, or analyze_db_layout or recover_log_engine answers one and
\* `?` returns it.  The caller has no database; what create wrote stays.
OpenFails ==
    /\ db = "closed"
    /\ \/ current /\ UNCHANGED <<current, files>>
       \/ ~current /\ Create
    /\ ret' = [op |-> "open", result |-> "Err"]
    /\ UNCHANGED <<manifest, log, db, version, nextFile, flows, tr, rd, history>>

\* open: create if CURRENT is missing, then recover.
Open ==
    /\ db = "closed"
    /\ \/ current /\ UNCHANGED <<current, files>>
       \/ ~current /\ Create
    /\ RecoverFrom(manifest, files')
    /\ ret' = [op |-> "open", result |-> "Ok"]
    /\ UNCHANGED <<manifest, log, pending, inflight, committed, wakers, logq,
                   tr, rd, history>>

\* The process dies: the memory is lost, the directory stays.
Crash ==
    /\ db = "open"
    /\ crashes < MaxCrashes
    /\ crashes' = crashes + 1
    /\ db' = "closed"
    /\ version' = <<>> /\ nextFile' = 0
    /\ present' = {}
    /\ storage' = [s \in Streams |-> NewPartialStream(EmptyMeta)]
    /\ pending' = [s \in Streams |-> <<>>]
    /\ inflight' = [s \in Streams |-> <<>>]
    /\ committed' = {}
    /\ wakers' = [s \in Streams |-> {}]
    /\ logq' = <<>>
    /\ tr' = [t \in Truncators |-> IdleTruncator]
    /\ rd' = [r \in Readers |-> IdleReader]
    /\ ret' = NoResult
    /\ UNCHANGED <<disk, truncAcks, calls>>

-----------------------------------------------------------------------------
\* The pipelined writer and the log engine

\* PipelinedWriter::submit: a transaction joins the pending ones; an error
\* joins nothing.
Submit(s, txn) ==
    pending' = [pending EXCEPT ![s] = IF txn = STALED THEN @ ELSE Append(@, txn)]

\* The writer hands its pending transactions to the log engine, if it has no
\* batch in flight.
FlushBegin(s) ==
    /\ db = "open"
    /\ pending[s] # <<>> /\ inflight[s] = <<>>
    /\ inflight' = [inflight EXCEPT ![s] = pending[s]]
    /\ pending' = [pending EXCEPT ![s] = <<>>]
    /\ logq' = Append(logq, s)
    /\ UNCHANGED <<disk, db, version, nextFile, present, storage, committed,
                   wakers, tr, rd, ret, history>>

\* The records of the batch of stream s; the empty transaction of stream_meta
\* leaves no record.
BatchRecords(s) ==
    LET txns == SelectSeq(inflight[s], LAMBDA txn : txn # NoTxn)
    IN  [i \in DOMAIN txns |-> [stream |-> s, txn |-> txns[i]]]

\* The log worker takes every queued batch, appends their records to the log
\* file in queue order and syncs once (the group commit).
LogSync ==
    /\ db = "open"
    /\ logq # <<>>
    /\ log' = log \o FlattenSeq([i \in DOMAIN logq |-> BatchRecords(logq[i])])
    /\ committed' = committed \cup ToSet(logq)
    /\ logq' = <<>>
    /\ UNCHANGED <<current, manifest, files, db, version, nextFile, present,
                   storage, pending, inflight, wakers, tr, rd, ret, history>>

\* The writer learns of the commit: it applies the batch to the index in
\* order and wakes every registered reader.
FlushApply(s) ==
    /\ db = "open"
    /\ s \in committed
    /\ storage' = [storage EXCEPT ![s] = FoldLeft(Apply, @, inflight[s])]
    /\ inflight' = [inflight EXCEPT ![s] = <<>>]
    /\ committed' = committed \ {s}
    /\ rd' = [r \in Readers |-> IF r \in wakers[s] /\ rd[r].pc = "pending"
                                   THEN [rd[r] EXCEPT !.pc = "ready"] ELSE rd[r]]
    /\ wakers' = [wakers EXCEPT ![s] = {}]
    /\ UNCHANGED <<disk, db, version, nextFile, present, pending, logq, tr,
                   ret, history>>

\* The log file manager closes the active file and opens the next one, under
\* the number the version set allocates.
Rotate ==
    /\ db = "open"
    /\ Cardinality(files) < MaxFiles
    /\ files' = files \cup {nextFile}
    /\ nextFile' = nextFile + 1
    /\ UNCHANGED <<current, manifest, log, db, version, flows, tr, rd, ret,
                   history>>

-----------------------------------------------------------------------------
\* StreamDB::write and StreamDB::seal

\* StreamFlow::new_empty
NewEmpty(s) == NewPartialStream(StreamVersion(version, s))

\* StreamDB::must_get_stream: the stream's state, inserted empty if absent.
MustGetStream(s) == IF s \in present THEN storage[s] ELSE NewEmpty(s)

\* first_index..(first_index + num_entries), with the u32 addition of a
\* release build.
HintRange(first, n) ==
    {i \in Indices : first <= i /\ i < (first + n) % IndexSpace}

\* Faulty variant of FlowWrite: the result of storage.write is looked at, and
\* the transaction is submitted all the same.
FlowWriteKeepsStaled(s, seg, wep, acked, first, n) ==
    LET st  == MustGetStream(s)
        txn == PsWrite(st, wep, seg, acked, first, n)
    IN  /\ Submit(s, WriteTxn(seg, wep, acked, first, n))
        /\ ret' = [op |-> "write", result |-> "Ok", staled |-> txn = STALED,
                   index |-> ContinuousIndex(st, seg, HintRange(first, n)),
                   acked |-> AckedIndex(st, seg)]

\* StreamFlow::write, under the stream's mutex: storage.write, continuous_index,
\* acked_index, writer.submit.  The waiter is dropped and the call returns Ok
\* whatever storage.write answered.
FlowWrite(s, seg, wep, acked, first, n) ==
    LET st  == MustGetStream(s)
        txn == PsWrite(st, wep, seg, acked, first, n)
    IN  /\ Submit(s, txn)
        /\ ret' = [op |-> "write", result |-> "Ok", staled |-> txn = STALED,
                   index |-> ContinuousIndex(st, seg, HintRange(first, n)),
                   acked |-> AckedIndex(st, seg)]

\* StreamDB::write
Write(s, seg, wep, acked, first, n) ==
    /\ db = "open"
    /\ calls < MaxCalls
    /\ calls' = calls + 1
    /\ first + n <= IndexSpace
    /\ present' = present \cup {s}
    /\ storage' = [storage EXCEPT ![s] = MustGetStream(s)]
    /\ FlowWrite(s, seg, wep, acked, first, n)
    /\ UNCHANGED <<disk, db, version, nextFile, inflight, committed, wakers,
                   logq, tr, rd, truncAcks, crashes>>

\* StreamDB::write of a range that ends at the top of the index space, in a
\* build with overflow checks: first_index + num_entries panics under the
\* stream's mutex, after must_get_stream and storage.write and before
\* writer.submit.  The unwinding releases the mutex; nothing is submitted.
WritePanics(s, seg, wep, acked, first, n) ==
    /\ db = "open"
    /\ calls < MaxCalls
    /\ calls' = calls + 1
    /\ first + n = IndexSpace
    /\ present' = present \cup {s}
    /\ storage' = [storage EXCEPT ![s] = MustGetStream(s)]
    /\ ret' = [op |-> "write", result |-> "Panic",
               staled |-> PsWrite(MustGetStream(s), wep, seg, acked, first, n) = STALED]
    /\ UNCHANGED <<disk, db, version, nextFile, pending, inflight, committed,
                   wakers, logq, tr, rd, truncAcks, crashes>>

\* Faulty variant of FlowSeal: the index is sealed and no transaction is
\* submitted.
FlowSealUnsubmitted(s, seg, wep) ==
    LET st == PsSeal(MustGetStream(s), seg, wep)
    IN  /\ storage' = [storage EXCEPT ![s] = st]
        /\ UNCHANGED pending
        /\ ret' = [op |-> "seal", result |-> "Ok", stream |-> s, seg |-> seg,
                   wep |-> wep, acked |-> AckedIndex(st, seg)]

\* StreamFlow::seal, under the stream's mutex: storage.seal, acked_index,
\* writer.submit.  The waiter is not awaited.
FlowSeal(s, seg, wep) ==
    LET st == PsSeal(MustGetStream(s), seg, wep)
    IN  /\ storage' = [storage EXCEPT ![s] = st]
        /\ Submit(s, SealTxn(seg, wep))
        /\ ret' = [op |-> "seal", result |-> "Ok", stream |-> s, seg |-> seg,
                   wep |-> wep, acked |-> AckedIndex(st, seg)]

\* StreamDB::seal
Seal(s, seg, wep) ==
    /\ db = "open"
    /\ calls < MaxCalls
    /\ calls' = calls + 1
    /\ present' = present \cup {s}
    /\ FlowSeal(s, seg, wep)
    /\ UNCHANGED <<disk, db, version, nextFile, inflight, committed, wakers,
                   logq, tr, rd, truncAcks, crashes>>

-----------------------------------------------------------------------------
\* StreamDB::truncate

\* StreamFlow::stream_meta(keep_seq), under the stream's mutex: the acked
\* sequence and the sealed table as they are in memory, and an empty
\* transaction submitted behind the pending ones.  The waiter is not awaited.
StreamMeta(st, keep) ==
    [acked_seq |-> st.acked_seq, initial_seq |-> U64(keep),
     replicas |-> SealedEpoches(st)]

\* truncate, first step: must_get_stream(stream_id).stream_meta(keep_seq).
TruncateBegin(t, s, keep) ==
    /\ db = "open"
    /\ calls < MaxCalls
    /\ calls' = calls + 1
    /\ tr[t].pc = "idle"
    /\ present' = present \cup {s}
    /\ storage' = [storage EXCEPT ![s] = MustGetStream(s)]
    /\ Submit(s, NoTxn)
    /\ tr' = [tr EXCEPT ![t] = [pc |-> "meta", stream |-> s, keep |-> keep,
                                meta |-> StreamMeta(MustGetStream(s), keep),
                                todo |-> {}]]
    /\ UNCHANGED <<disk, db, version, nextFile, inflight, committed, wakers,
                   logq, rd, ret, truncAcks, crashes>>

\* truncate, the check: keep_seq beyond the acked sequence of the meta is
\* Error::InvalidArgument.
TruncateRefuse(t) ==
    /\ tr[t].pc = "meta"
    /\ U64(tr[t].keep) > tr[t].meta.acked_seq
    /\ tr' = [tr EXCEPT ![t] = IdleTruncator]
    /\ ret' = [op |-> "truncate", result |-> "InvalidArgument"]
    /\ UNCHANGED <<disk, db, version, nextFile, flows, rd, history>>

\* VersionSet::truncate_stream: the edit is written to the manifest and the
\* new version becomes the current one.
InstallEdit(s, meta) ==
    LET new == [x \in DOMAIN version \cup {s} |->
                    IF x = s THEN MergeMeta(StreamVersion(version, s), meta)
                             ELSE version[x]]
    IN  /\ version' = new
        /\ manifest' = new

\* Faulty variant of TruncateInstall: the edit is installed whatever keep_seq is.
TruncateInstallUnchecked(t) ==
    /\ tr[t].pc = "meta"
    /\ InstallEdit(tr[t].stream, tr[t].meta)
    /\ tr' = [tr EXCEPT ![t].pc = "installed"]
    /\ UNCHANGED <<current, files, log, db, nextFile, flows, rd, ret, history>>

\* truncate, the check passed: version_set.truncate_stream(stream_meta).
TruncateInstall(t) ==
    /\ tr[t].pc = "meta"
    /\ U64(tr[t].keep) <= tr[t].meta.acked_seq
    /\ InstallEdit(tr[t].stream, tr[t].meta)
    /\ tr' = [tr EXCEPT ![t].pc = "installed"]
    /\ UNCHANGED <<current, files, log, db, nextFile, flows, rd, ret, history>>

\* truncate, version_set.truncate_stream answers an error: `?` returns it, and
\* the grace-period loop does not run.  The version set is taken to install
\* nothing when it fails.
TruncateInstallErr(t) ==
    /\ tr[t].pc = "meta"
    /\ U64(tr[t].keep) <= tr[t].meta.acked_seq
    /\ tr' = [tr EXCEPT ![t] = IdleTruncator]
    /\ ret' = [op |-> "truncate", result |-> "Err"]
    /\ UNCHANGED <<disk, db, version, nextFile, flows, rd, history>>

\* Faulty variant of GraceSnapshot: the snapshot of the keys is taken as empty,
\* so that truncate returns without a refresh.
GraceSkipped(t) ==
    /\ tr[t].pc = "installed"
    /\ tr' = [tr EXCEPT ![t].pc = "grace", ![t].todo = {}]
    /\ UNCHANGED <<disk, db, version, nextFile, flows, rd, ret, history>>

\* advance_grace_peiod_of_version_set, first critical section: the keys of the
\* stream map are copied under the database mutex.
GraceSnapshot(t) ==
    /\ tr[t].pc = "installed"
    /\ tr' = [tr EXCEPT ![t].pc = "grace", ![t].todo = present]
    /\ UNCHANGED <<disk, db, version, nextFile, flows, rd, ret, history>>

\* Faulty variant of GraceRefresh: the loop ends after its first turn.
GraceFirstOnly(t) ==
    /\ tr[t].pc = "grace"
    /\ \E s \in tr[t].todo :
          /\ storage' = [storage EXCEPT
                            ![s] = RefreshVersions(@, StreamVersion(version, s))]
          /\ tr' = [tr EXCEPT ![t].todo = {}]
    /\ UNCHANGED <<disk, db, version, nextFile, present, pending, inflight,
                   committed, wakers, logq, rd, ret, history>>

\* advance_grace_peiod_of_version_set, one turn of the loop: the next stream of
\* the snapshot, in the order of the hash map, has its versions refreshed
\* under its mutex.  Streams are never removed from the map, so
\* might_get_stream finds each of them.
GraceRefresh(t) ==
    /\ tr[t].pc = "grace"
    /\ \E s \in tr[t].todo :
          /\ storage' = [storage EXCEPT
                            ![s] = RefreshVersions(@, StreamVersion(version, s))]
          /\ tr' = [tr EXCEPT ![t].todo = @ \ {s}]
    /\ UNCHANGED <<disk, db, version, nextFile, present, pending, inflight,
                   committed, wakers, logq, rd, ret, history>>

\* truncate returns Ok once the loop is over.
TruncateReturn(t) ==
    /\ tr[t].pc = "grace"
    /\ tr[t].todo = {}
    /\ truncAcks' = truncAcks \cup
                      {[stream |-> tr[t].stream, keep |-> U64(tr[t].keep)]}
    /\ tr' = [tr EXCEPT ![t] = IdleTruncator]
    /\ ret' = [op |-> "truncate", result |-> "Ok"]
    /\ UNCHANGED <<disk, db, version, nextFile, flows, rd, calls, crashes>>

-----------------------------------------------------------------------------
\* StreamDB::read, StreamDB::get_segment_reader and StreamFlow::poll_entries

\* read of a stream that is not in the map: might_get_stream is
\* Error::NotFound.
ReadNotFound(r, s) ==
    /\ db = "open"
    /\ calls < MaxCalls
    /\ calls' = calls + 1
    /\ rd[r].pc = "idle"
    /\ s \notin present
    /\ ret' = [op |-> "read", result |-> "NotFound"]
    /\ UNCHANGED <<disk, db, version, nextFile, flows, tr, rd, truncAcks,
                   crashes>>

\* Faulty variant of Read: a reader on a stream that might_get_stream did not
\* find.
ReadUnchecked(r, s, seg, start, acked) ==
    /\ db = "open"
    /\ calls < MaxCalls
    /\ calls' = calls + 1
    /\ rd[r].pc = "idle"
    /\ rd' = [rd EXCEPT ![r] = [pc |-> "ready", stream |-> s, seg |-> seg,
                                next |-> start, limit |-> ReadLimit,
                                acked |-> acked]]
    /\ ret' = [op |-> "read", result |-> "Ok"]
    /\ UNCHANGED <<disk, db, version, nextFile, flows, tr, truncAcks, crashes>>

\* read of a stream of the map: a SegmentReader on the stream.
Read(r, s, seg, start, acked) ==
    /\ db = "open"
    /\ calls < MaxCalls
    /\ calls' = calls + 1
    /\ rd[r].pc = "idle"
    /\ s \in present
    /\ rd' = [rd EXCEPT ![r] = [pc |-> "ready", stream |-> s, seg |-> seg,
                                next |-> start, limit |-> ReadLimit,
                                acked |-> acked]]
    /\ ret' = [op |-> "read", result |-> "Ok"]
    /\ UNCHANGED <<disk, db, version, nextFile, flows, tr, truncAcks, crashes>>

\* get_segment_reader: the same reader under the name the replication
\* server calls.
GetSegmentReader(r, s, seg, start, acked) == Read(r, s, seg, start, acked)

\* What scan_entries answers the reader r now.
Scanned(r) ==
    ScanEntries(storage[rd[r].stream], rd[r].seg, rd[r].next, rd[r].limit,
                rd[r].acked)

\* poll_entries with entries to return: the reader moves past them, and is
\* dropped once it has returned `limit` entries.
PollSome(r) ==
    /\ rd[r].pc = "ready"
    /\ Scanned(r) # {}
    /\ rd' = [rd EXCEPT ![r] =
                 IF Cardinality(Scanned(r)) = rd[r].limit
                    THEN IdleReader
                    ELSE [@ EXCEPT !.next = Max(Scanned(r)) + 1,
                                   !.limit = @ - Cardinality(Scanned(r))]]
    /\ UNCHANGED <<disk, db, version, nextFile, flows, tr, ret, history>>

\* Faulty variant of PollNone: Ok(None) without register_reading_waiter.
PollNoneUnregistered(r) ==
    /\ rd[r].pc = "ready"
    /\ Scanned(r) = {}
    /\ rd' = [rd EXCEPT ![r].pc = "pending"]
    /\ UNCHANGED <<disk, db, version, nextFile, flows, tr, ret, history>>

\* poll_entries with nothing to return: the task's waker is registered with
\* the writer, under the same lock as the scan, and the task suspends.
PollNone(r) ==
    /\ rd[r].pc = "ready"
    /\ Scanned(r) = {}
    /\ wakers' = [wakers EXCEPT ![rd[r].stream] = @ \cup {r}]
    /\ rd' = [rd EXCEPT ![r].pc = "pending"]
    /\ UNCHANGED <<disk, db, version, nextFile, present, storage, pending,
                   inflight, committed, logq, tr, ret, history>>

-----------------------------------------------------------------------------
Next ==
    \/ OpenNotFound
    \/ Open
    \/ OpenFails
    \/ Crash
    \/ Rotate
    \/ \E s \in Streams, seg \in Epochs, wep \in WriterEpochs, acked \in AckSeqs,
          first \in Indices, n \in BatchSizes :
            \/ Write(s, seg, wep, acked, first, n)
            \/ WritePanics(s, seg, wep, acked, first, n)
    \/ \E s \in Streams, seg \in Epochs, wep \in WriterEpochs : Seal(s, seg, wep)
    \/ \E t \in Truncators, s \in Streams, keep \in KeepSeqs : TruncateBegin(t, s, keep)
    \/ \E t \in Truncators :
          \/ TruncateRefuse(t)
          \/ TruncateInstall(t)
          \/ TruncateInstallErr(t)
          \/ GraceSnapshot(t)
          \/ GraceRefresh(t)
          \/ TruncateReturn(t)
    \/ \E r \in Readers, s \in Streams :
          \/ ReadNotFound(r, s)
          \/ \E seg \in Epochs, start \in Indices, acked \in BOOLEAN :
                \/ Read(r, s, seg, start, acked)
                \/ GetSegmentReader(r, s, seg, start, acked)
    \/ \E r \in Readers : PollSome(r) \/ PollNone(r)
    \/ \E s \in Streams : FlushBegin(s) \/ FlushApply(s)
    \/ LogSync

Spec == Init /\ [][Next]_vars

-----------------------------------------------------------------------------
TypeOK ==
    /\ current \in BOOLEAN /\ db \in {"closed", "open"}
    /\ \A s \in DOMAIN manifest : s \in Streams /\ IsMeta(manifest[s])
    /\ \A s \in DOMAIN version : s \in Streams /\ IsMeta(version[s])
    /\ files \subseteq 1..MaxFiles /\ nextFile \in 0..(MaxFiles + 1)
    /\ log \in Seq(LogRecord)
    /\ present \subseteq Streams
    /\ \A s \in Streams : IsPartialStream(storage[s])
    /\ pending \in [Streams -> Seq(Txn)] /\ inflight \in [Streams -> Seq(Txn)]
    /\ committed \subseteq Streams /\ logq \in Seq(Streams)
    /\ wakers \in [Streams -> SUBSET Readers]
    /\ \A t \in Truncators :
          \/ tr[t] = IdleTruncator
          \/ /\ tr[t].pc \in {"meta", "installed", "grace"}
             /\ tr[t].stream \in present /\ tr[t].keep \in KeepSeqs
             /\ IsMeta(tr[t].meta) /\ tr[t].todo \subseteq present
    /\ \A r \in Readers :
          \/ rd[r] = IdleReader
          \/ /\ rd[r].pc \in {"ready", "pending"}
             /\ rd[r].stream \in present /\ rd[r].seg \in Epochs
             /\ rd[r].next \in 1..IndexSpace /\ rd[r].limit \in 1..ReadLimit
             /\ rd[r].acked \in BOOLEAN
    /\ ret.op \in {"none", "open", "write", "seal", "truncate", "read"}
    /\ calls \in 0..MaxCalls /\ crashes \in 0..MaxCrashes

\* The index of stream s that a recovery from the directory as it is now
\* would build.
Durable(s) == Replay(manifest, s, log)

\* The acked sequence of stream s: the one in memory while the database is
\* open, the one on disk while it is not.
AckedSeqOf(s) == IF db = "open" THEN storage[s].acked_seq ELSE Durable(s).acked_seq

\* The acked sequence of a stream never decreases over the life of the stream,
\* a crash and the recovery that follows included: recover must rebuild from
\* the manifest and the log at least what the writers had applied
\* (StreamDB::recover and recover_log_engine, against the post-commit updates
\* of the pipelined writer).
AckedSeqMonotonic ==
    [][\A s \in Streams : AckedSeqOf(s)' >= AckedSeqOf(s)]_vars

\* Truncation never passes the acked sequence: the truncation point the
\* manifest holds for a stream is at most the acked sequence that a recovery
\* of the stream finds.  truncate reads the acked sequence in one critical
\* section (stream_meta) and installs the edit in a later one (the check of
\* keep_seq and version_set.truncate_stream).
TruncationSafety ==
    \A s \in DOMAIN manifest : manifest[s].initial_seq <= Durable(s).acked_seq

\* Once truncate(stream, keep_seq) has returned Ok, no reader is handed an
\* entry of the stream below keep_seq, although streams learn of a new
\* version only when advance_grace_peiod_of_version_set reaches them, and
\* although the database may crash and recover in between.
Delivers(r) ==
    /\ rd[r].pc = "ready" /\ db' = "open"
    /\ rd'[r] # rd[r] /\ rd'[r].pc # "pending"

TruncatedNotReadable ==
    [][\A r \in Readers : Delivers(r) =>
          \A i \in Scanned(r), a \in truncAcks :
              a.stream = rd[r].stream => rd[r].seg * IndexSpace + i >= a.keep]_vars

\* Specification, section 8, "Idempotence": replaying the log on recovery
\* yields the partial stream the memory held.  Whenever a stream of an open
\* database has nothing pending or in flight and no truncate is under way,
\* its index in memory is the one a recovery would rebuild from the manifest
\* and the log: seal changes the index when it is called and once more when
\* its record is applied, truncate installs in the manifest what it read
\* from memory, and recover replays both (StreamFlow::seal, StreamDB::truncate
\* and StreamDB::recover).
RecoveryRebuildsIndex ==
    (db = "open" /\ \A t \in Truncators : tr[t] = IdleTruncator)
        => \A s \in present :
              (pending[s] = <<>> /\ inflight[s] = <<>>) => storage[s] = Durable(s)

\* No record of a write follows, in the log, the record of a seal of the same
\* segment made with a higher writer epoch: the validation of write and the
\* promise of seal happen under the stream's mutex in the order in which
\* their transactions are submitted, and writer, queue and log worker keep
\* that order (StreamFlow::write and StreamFlow::seal).
NoStaleRecord ==
    \A i, j \in DOMAIN log :
        (/\ i < j
         /\ log[i].stream = log[j].stream
         /\ log[i].txn.kind = "seal" /\ log[j].txn.kind = "write"
         /\ log[i].txn.seg = log[j].txn.seg)
            => log[j].txn.wep >= log[i].txn.wep

\* A suspended reader has nothing to read: whenever entries become readable
\* for it, the commit that made them so wakes it, because poll_entries
\* registers the waker in the critical section of the scan that found
\* nothing.
NoReaderSleepsOnData ==
    \A r \in Readers : rd[r].pc = "pending" => Scanned(r) = {}

\* The next file number is above the number of every file in the directory,
\* also after a crash that left files the manifest does not name
\* (set_next_file_number(max_file_number + 1) in recover).
NextFileNumberFresh ==
    db = "open" => \A f \in files : f < nextFile

\* Specification, section 8, "Durability on successful return": when seal has
\* returned Ok, its record is on disk, so that a recovery promises at least
\* the writer epoch of the seal.  StreamFlow::seal returns with the waiter
\* of the transaction not awaited.
SealDurableOnReturn ==
    ret.op = "seal" => Durable(ret.stream).promised[ret.seg] >= ret.wep

\* Specification, section 8, "Staled writes": a write whose writer epoch is
\* below the promised epoch of the segment returns Staled.  StreamFlow::write
\* hands the result of storage.write to the writer and returns Ok.
StaledWriteRejected ==
    (ret.op = "write" /\ ret.staled) => ret.result = "Staled"

\* Specification, sections 4.6 and 9: write answers the continuous index of
\* the segment with the written range counted, and index arithmetic is
\* checked or saturating.  StreamFlow::write computes the end of the range as
\* first_index + num_entries in u32: for a range that ends at the last index
\* the sum overflows, which panics in a build with overflow checks and wraps
\* to an empty range in one without.
WriteIndexCoversRange ==
    [][\A s \in Streams, seg \in Epochs, wep \in WriterEpochs, acked \in AckSeqs,
          first \in Indices, n \in BatchSizes :
            (Write(s, seg, wep, acked, first, n) \/ WritePanics(s, seg, wep, acked, first, n))
                => /\ ret'.result = "Ok"
                   /\ ret'.index = ContinuousIndex(MustGetStream(s), seg,
                                                   first..(first + n - 1))]_vars

=============================================================================
