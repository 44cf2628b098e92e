---------------------------- MODULE IOScheduler ----------------------------
(***************************************************************************)
(* The I/O scheduler of a stream observer                                  *)
(* (src/src/runtime/src/stream/client/group/io.rs): the adapter that turns *)
(* the intents of the observer state machine (heartbeat, seal_segment,     *)
(* Mutate, Learn) into tasks on the runtime, and the outcome of each task  *)
(* into messages on the state machine's event channel.                     *)
(*                                                                         *)
(* Every entry point spawns and returns: it is one step.  A task is one    *)
(* step per await: the step is the answer of the call the task waits for   *)
(* (of the master or of the transport) and what the task does with it up   *)
(* to its next await or its end.  The answers are the environment's        *)
(* choice: Ok with a value of a small set, or an error.  Tasks run         *)
(* concurrently, so their steps interleave in every order.                 *)
(*                                                                         *)
(* Data abstraction: entries and bytes are left out (a write is its range, *)
(* a learned batch is empty or not); a segment descriptor is its epoch;    *)
(* the observer meta of a heartbeat is left out.  The field `from` of a    *)
(* message is not in the program: it names the task that posted it.        *)
(***************************************************************************)
EXTENDS Naturals, Sequences, FiniteSets, SequencesExt, TLC

CONSTANTS
    Targets,         \* the replicas of the copy set
    Epochs,          \* segment and writer epochs
    Ranges,          \* the index ranges of writes
    Indexes,         \* the indexes a replica answers with
    WriteLists,      \* the Vec<Mutate> arguments of handle_writes
    LearnLists,      \* the Vec<Learn> arguments of handle_learns
    CommandLists,    \* the Vec<Command> answers of the master to a heartbeat
    SegmentLists,    \* the answers of get_segments in which no descriptor is None
    MaxTasks,        \* bound on the tasks spawned
    MaxBatches,      \* bound on the batches of one learn stream
    BatchEmpty       \* whether a batch the stream yields may be without entries

ASSUME BatchEmpty \subseteq BOOLEAN /\ BatchEmpty # {}

VARIABLES
    tasks,           \* the tasks spawned so far, in the order of the spawns
    channel          \* what was put on the event channel, in order

vars == <<tasks, channel>>

Mutate  == [kind : {"write"}, target : Targets, seg : Epochs, wep : Epochs, range : Ranges]
             \cup [kind : {"seal"}, target : Targets, seg : Epochs, wep : Epochs]
Learn   == [target : Targets, seg : Epochs, wep : Epochs]
Command == [type : {"nop", "promote", "unknown"}, epoch : Epochs, pending : Seq(Epochs)]

Ids     == DOMAIN tasks
Running == {id \in Ids : tasks[id].pc # "done"}

Init ==
    /\ tasks = <<>>
    /\ channel = <<>>

\* runtime.spawn of a sequence of tasks
Spawn(new) ==
    /\ Len(tasks) + Len(new) <= MaxTasks
    /\ tasks' = tasks \o new

\* channel.on_msg and channel.on_promote
Post(id, msg) == channel' = Append(channel, msg @@ [from |-> id])

Finish(id)   == tasks' = [tasks EXCEPT ![id].pc = "done"]

-----------------------------------------------------------------------------
\* The entry points of the Scheduler trait

\* send_heartbeat
SendHeartbeat ==
    /\ Spawn(<<[kind |-> "heartbeat", pc |-> "rpc"]>>)
    /\ UNCHANGED channel

\* seal_segment(segment_epoch, writer_epoch)
SealSegment(seg, wep) ==
    /\ Spawn(<<[kind |-> "seal_segment", pc |-> "rpc", seg |-> seg, wep |-> wep]>>)
    /\ UNCHANGED channel

\* Faulty variant of HandleWrites: flush_write for every Mutate.
HandleWritesAsWrites(mutates) ==
    /\ Spawn([i \in DOMAIN mutates |->
                [mutates[i] EXCEPT !.kind = "write"] @@ [pc |-> "rpc"]])
    /\ UNCHANGED channel

\* handle_writes: flush_sealing or flush_write for every Mutate, in order.
HandleWrites(mutates) ==
    /\ Spawn([i \in DOMAIN mutates |-> mutates[i] @@ [pc |-> "rpc"]])
    /\ UNCHANGED channel

\* handle_learns: learn for every Learn, in order.
HandleLearns(learns) ==
    /\ Spawn([i \in DOMAIN learns |->
                learns[i] @@ [kind |-> "learn", pc |-> "rpc", batches |-> 0]])
    /\ UNCHANGED channel

-----------------------------------------------------------------------------
\* The tasks of seal_segment, flush_write and flush_sealing

Waiting(id, kind) == id \in Ids /\ tasks[id].kind = kind /\ tasks[id].pc = "rpc"

\* seal_segment: the master answers Ok, the message is recovered.
SealSegmentOk(id) ==
    /\ Waiting(id, "seal_segment")
    /\ Post(id, [type |-> "recovered", seg |-> tasks[id].seg, wep |-> tasks[id].wep])
    /\ Finish(id)

\* seal_segment: the master answers an error, the message is con_cluster_timeout.
SealSegmentErr(id) ==
    /\ Waiting(id, "seal_segment")
    /\ Post(id, [type |-> "con_cluster_timeout", seg |-> tasks[id].seg,
                 wep |-> tasks[id].wep])
    /\ Finish(id)

\* flush_write: transport.write answers Ok((matched_index, acked_index)).
FlushWriteOk(id, matched, acked) ==
    /\ Waiting(id, "write")
    /\ Post(id, [type |-> "received", target |-> tasks[id].target,
                 seg |-> tasks[id].seg, wep |-> tasks[id].wep,
                 matched |-> matched, acked |-> acked])
    /\ Finish(id)

\* Faulty variant of FlushWriteErr: the error is logged and nothing is posted.
FlushWriteErrSilent(id) ==
    /\ Waiting(id, "write")
    /\ Finish(id)
    /\ UNCHANGED channel

\* flush_write: transport.write answers an error, the message is write_timeout
\* with the range of the write.
FlushWriteErr(id) ==
    /\ Waiting(id, "write")
    /\ Post(id, [type |-> "write_timeout", target |-> tasks[id].target,
                 seg |-> tasks[id].seg, wep |-> tasks[id].wep,
                 range |-> tasks[id].range])
    /\ Finish(id)

\* Faulty variant of FlushSealingOk: the two epochs change places in the
\* message.
FlushSealingOkSwapped(id, acked) ==
    /\ Waiting(id, "seal")
    /\ Post(id, [type |-> "sealed", target |-> tasks[id].target,
                 seg |-> tasks[id].wep, wep |-> tasks[id].seg, acked |-> acked])
    /\ Finish(id)

\* flush_sealing: transport.seal answers Ok(acked_index).
FlushSealingOk(id, acked) ==
    /\ Waiting(id, "seal")
    /\ Post(id, [type |-> "sealed", target |-> tasks[id].target,
                 seg |-> tasks[id].seg, wep |-> tasks[id].wep, acked |-> acked])
    /\ Finish(id)

\* flush_sealing: transport.seal answers an error, the message is store_timeout.
FlushSealingErr(id) ==
    /\ Waiting(id, "seal")
    /\ Post(id, [type |-> "store_timeout", target |-> tasks[id].target,
                 seg |-> tasks[id].seg, wep |-> tasks[id].wep])
    /\ Finish(id)

-----------------------------------------------------------------------------
\* The task of learn

\* StreamLogMsg::learned; of the entries only whether there are none is kept,
\* which is how the receiver tells the end of the stream.
Learned(id, empty) ==
    [type |-> "learned", target |-> tasks[id].target, seg |-> tasks[id].seg,
     wep |-> tasks[id].wep, empty |-> empty]

\* transport.read answers an error: store_timeout, and the task returns.
LearnReadErr(id) ==
    /\ Waiting(id, "learn")
    /\ Post(id, [type |-> "store_timeout", target |-> tasks[id].target,
                 seg |-> tasks[id].seg, wep |-> tasks[id].wep])
    /\ Finish(id)

\* transport.read answers a stream.
LearnReadOk(id) ==
    /\ Waiting(id, "learn")
    /\ tasks' = [tasks EXCEPT ![id].pc = "streaming"]
    /\ UNCHANGED channel

Streaming(id) == id \in Ids /\ tasks[id].pc = "streaming"

\* The stream yields Some(Ok(entries)): learned with whatever the batch
\* holds, and the loop goes on.
LearnBatch(id) ==
    /\ Streaming(id)
    /\ tasks[id].batches < MaxBatches
    /\ \E empty \in BatchEmpty : Post(id, Learned(id, empty))
    /\ tasks' = [tasks EXCEPT ![id].batches = @ + 1]

\* The stream yields Some(Err(status)): a warning, and the loop breaks.
LearnStreamErr(id) ==
    /\ Streaming(id)
    /\ Finish(id)
    /\ UNCHANGED channel

\* Faulty variant of LearnEnd: the learned without entries is posted and the
\* loop goes on (no `break`).
LearnEndKeepsOn(id) ==
    /\ Streaming(id)
    /\ Post(id, Learned(id, TRUE))
    /\ UNCHANGED tasks

\* The stream yields None: learned without entries, and the loop breaks.
LearnEnd(id) ==
    /\ Streaming(id)
    /\ Post(id, Learned(id, TRUE))
    /\ Finish(id)

-----------------------------------------------------------------------------
\* The task of send_heartbeat: execute_master_command and promote

\* execute_master_command does nothing for Nop and for an unknown command
\* type, so what is left of a list of commands is its Promote commands.
Promotes(commands) == SelectSeq(commands, LAMBDA cmd : cmd.type = "promote")

\* The task after the commands `rest`: at the get_segments of the first, or done.
After(id, rest) ==
    tasks' = [tasks EXCEPT ![id] = [kind |-> "heartbeat", todo |-> rest,
                                    pc |-> IF rest = <<>> THEN "done" ELSE "segments"]]

\* stream.heartbeat answers an error: a warning.
HeartbeatErr(id) ==
    /\ Waiting(id, "heartbeat")
    /\ Finish(id)
    /\ UNCHANGED channel

\* stream.heartbeat answers Ok(commands).
HeartbeatOk(id, commands) ==
    /\ Waiting(id, "heartbeat")
    /\ After(id, Promotes(commands))
    /\ UNCHANGED channel

Promoting(id) == id \in Ids /\ tasks[id].pc = "segments"

\* promote: get_segments is an error, of the call or because a descriptor is
\* None (Error::NotFound); a warning, and the next command.
GetSegmentsErr(id) ==
    /\ Promoting(id)
    /\ After(id, Tail(tasks[id].todo))
    /\ UNCHANGED channel

\* Faulty variant of PromoteOf: the new segment is taken from the front of the
\* descriptors.
PromoteOfFirst(cmd, segments) ==
    [type |-> "promote", epoch |-> cmd.epoch, pending |-> cmd.pending,
     new_seg |-> Head(segments), broken_segments |-> Tail(segments)]

\* The Promote the task builds for cmd from the descriptors: the last one is
\* the new segment, the others are the broken segments.
PromoteOf(cmd, segments) ==
    [type |-> "promote", epoch |-> cmd.epoch, pending |-> cmd.pending,
     new_seg |-> Last(segments), broken_segments |-> Front(segments)]

\* promote: get_segments answers one descriptor per epoch asked for; on_promote.
PromoteDelivered(id, segments) ==
    LET cmd == Head(tasks[id].todo)
    IN  /\ Promoting(id)
        /\ Len(segments) = Len(cmd.pending) + 1
        /\ Post(id, PromoteOf(cmd, segments))
        /\ After(id, Tail(tasks[id].todo))

\* promote: get_segments answers another number of descriptors, and the build
\* checks debug_assert_eq!, or there is no descriptor to pop: the task panics.
PromotePanics(id, segments) ==
    /\ Promoting(id)
    /\ Len(segments) # Len(Head(tasks[id].todo).pending) + 1
    /\ After(id, <<>>)
    /\ UNCHANGED channel

\* promote: get_segments answers another number of descriptors, at least one,
\* and the build leaves debug_assert_eq! out: on_promote with what was answered.
PromoteMiscounted(id, segments) ==
    LET cmd == Head(tasks[id].todo)
    IN  /\ Promoting(id)
        /\ Len(segments) # Len(cmd.pending) + 1
        /\ segments # <<>>
        /\ Post(id, PromoteOf(cmd, segments))
        /\ After(id, Tail(tasks[id].todo))

-----------------------------------------------------------------------------
Call ==
    \/ SendHeartbeat
    \/ \E seg \in Epochs, wep \in Epochs : SealSegment(seg, wep)
    \/ \E mutates \in WriteLists : HandleWrites(mutates)
    \/ \E learns \in LearnLists : HandleLearns(learns)

Step(id) ==
    \/ SealSegmentOk(id) \/ SealSegmentErr(id)
    \/ \E matched \in Indexes, acked \in Indexes : FlushWriteOk(id, matched, acked)
    \/ FlushWriteErr(id)
    \/ \E acked \in Indexes : FlushSealingOk(id, acked)
    \/ FlushSealingErr(id)
    \/ LearnReadErr(id) \/ LearnReadOk(id)
    \/ LearnBatch(id) \/ LearnStreamErr(id) \/ LearnEnd(id)
    \/ HeartbeatErr(id)
    \/ \E commands \in CommandLists : HeartbeatOk(id, commands)
    \/ GetSegmentsErr(id)
    \/ \E segments \in SegmentLists :
          \/ PromoteDelivered(id, segments)
          \/ PromotePanics(id, segments)
          \/ PromoteMiscounted(id, segments)

Next == Call \/ \E id \in 1..MaxTasks : Step(id)

Spec == Init /\ [][Next]_vars

-----------------------------------------------------------------------------
Task ==
    [kind : {"heartbeat"}, pc : {"rpc", "done"}]
      \cup [kind : {"heartbeat"}, pc : {"segments", "done"}, todo : Seq(Command)]
      \cup [kind : {"seal_segment"}, pc : {"rpc", "done"}, seg : Epochs, wep : Epochs]
      \cup [kind : {"write"}, pc : {"rpc", "done"}, target : Targets, seg : Epochs,
            wep : Epochs, range : Ranges]
      \cup [kind : {"seal"}, pc : {"rpc", "done"}, target : Targets, seg : Epochs,
            wep : Epochs]
      \cup [kind : {"learn"}, pc : {"rpc", "streaming", "done"}, target : Targets,
            seg : Epochs, wep : Epochs, batches : 0..MaxBatches]

TypeOK ==
    /\ tasks \in Seq(Task) /\ Len(tasks) <= MaxTasks
    /\ \A i \in DOMAIN channel :
          /\ channel[i].from \in Ids
          /\ channel[i].type \in {"recovered", "con_cluster_timeout", "received",
                                  "write_timeout", "sealed", "store_timeout",
                                  "learned", "promote"}

\* The messages a task has posted, in the order of the channel.
PostedBy(id) == SelectSeq(channel, LAMBDA msg : msg.from = id)

\* The message types that end a task of each kind.
Terminal(kind) ==
    CASE kind = "seal_segment" -> {"recovered", "con_cluster_timeout"}
      [] kind = "write"        -> {"received", "write_timeout"}
      [] kind = "seal"         -> {"sealed", "store_timeout"}
      [] kind = "learn"        -> {"store_timeout", "learned"}
      [] kind = "heartbeat"    -> {"promote"}

IsTerminal(msg) ==
    /\ msg.type \in Terminal(tasks[msg.from].kind)
    /\ msg.type = "learned" => msg.empty

\* Every message names the intent it answers: the target, the segment epoch
\* and the writer epoch of a message are those of the Mutate, the Learn or
\* the seal_segment whose task posted it, however the tasks interleave.  The
\* state machine files the answer under these three (flush_write,
\* flush_sealing, learn and seal_segment pass them through two calls each).
MessageOfIntent ==
    \A i \in DOMAIN channel :
        LET msg == channel[i]  task == tasks[msg.from]
        IN  msg.type # "promote" =>
              /\ msg.type \in Terminal(task.kind)
              /\ msg.seg = task.seg /\ msg.wep = task.wep
              /\ "target" \in DOMAIN msg => msg.target = task.target

\* A task of seal_segment, flush_write or flush_sealing posts nothing while
\* its call is outstanding and exactly one message when it is over, whether
\* the call succeeded or failed: a timeout is a message, never a task that
\* ends silently.
OneAnswerPerMutation ==
    \A id \in Ids :
        tasks[id].kind \in {"seal_segment", "write", "seal"} =>
            Len(PostedBy(id)) = IF tasks[id].pc = "done" THEN 1 ELSE 0

\* The state machine learns that a learn stream is over from a message in
\* the stream itself, a learned without entries or a store_timeout: no message
\* of the task follows it in the channel, and a store_timeout, which answers
\* the read that opens the stream, has none before it either (learn: the
\* `return` after store_timeout, the `break` after the last learned).  The
\* learned of a batch is posted with whatever the stream yields, so this
\* holds of a store whose stream yields no batch without entries
\* (BatchEmpty = {FALSE}); with such a batch the receiver is told the end
\* and handed more.
LearnEndIsLast ==
    \A i, j \in DOMAIN channel :
        LET msg == channel[i]
        IN  (/\ tasks[msg.from].kind = "learn" /\ IsTerminal(msg)
             /\ channel[j].from = msg.from)
                => /\ j <= i
                   /\ msg.type = "store_timeout" => j = i

\* A promotion whose answer has the number of descriptors asked for names
\* the segment of the command's epoch as the new one and the segments of the
\* pending epochs, in their order, as the broken ones: promote asks for
\* pending_epochs with the epoch pushed behind them and takes the new segment
\* from the back of the answer (promote: push(cmd.epoch), segments.pop()).
PromoteOfCommand ==
    \A i \in DOMAIN channel :
        LET msg == channel[i]
        IN  (msg.type = "promote" /\ Len(msg.broken_segments) = Len(msg.pending))
                => msg.new_seg = msg.epoch /\ msg.broken_segments = msg.pending

\* Specification, section 4.8: "On each task completion, deliver exactly one
\* terminal message to the state machine's event channel (success or a typed
\* timeout)".  For learn the terminal message is store_timeout or the learned
\* without entries; learn breaks out of its loop on an error of the stream
\* with a warning only.
LearnAnswered ==
    \A id \in Ids :
        (tasks[id].kind = "learn" /\ tasks[id].pc = "done") =>
            \E i \in DOMAIN channel : channel[i].from = id /\ IsTerminal(channel[i])

\* Specification, section 4.7: "A mismatch between expected and returned
\* segment count during get_segments is a protocol violation and transitions
\* the observer back to Following", so no Promote built from such an answer
\* reaches the state machine.  promote checks the count with
\* debug_assert_eq! only.
PromoteMatchesCommand ==
    \A i \in DOMAIN channel :
        channel[i].type = "promote" =>
            Len(channel[i].broken_segments) = Len(channel[i].pending)

=============================================================================
