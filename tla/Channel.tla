------------------------------ MODULE Channel ------------------------------
(***************************************************************************)
(* The request channel between the stream writers and the log worker      *)
(* (src/src/runtime/src/stream/channel.rs).                               *)
(*                                                                         *)
(* A Channel is a Vec of requests and a flag `waitting` under one mutex,  *)
(* with a condition variable.  Producers call append (or shutdown), which *)
(* pushes a request and, if the flag is set, clears it and calls          *)
(* notify_one.  The consumer calls take, which parks on the condition     *)
(* variable while the Vec is empty (setting the flag first) and otherwise *)
(* returns the whole Vec, leaving it empty.                               *)
(*                                                                         *)
(* append and shutdown hold the mutex from their first to their last      *)
(* statement, so each is one step.  take gives the mutex up inside        *)
(* Condvar::wait, so it is one step per critical section: from the lock   *)
(* (or the wake-up) to the wait or to the return.                         *)
(*                                                                         *)
(* Data abstraction: a record is a member of Records; the oneshot sender  *)
(* of a request is the number of the call that created it.                *)
(***************************************************************************)
EXTENDS Naturals, Sequences, FiniteSets, SequencesExt

CONSTANTS
    Consumers,       \* the threads that call take (the log worker)
    Records,         \* the records producers append
    NONE,            \* Request.record = None, the shutdown marker
    MaxAppends,      \* bound on the calls of append
    MaxShutdowns     \* bound on the calls of shutdown

ASSUME
    /\ Consumers # {}
    /\ NONE \notin Records
    /\ MaxAppends \in Nat /\ MaxShutdowns \in Nat

VARIABLES
    requests,        \* ChannelCore.requests
    waitting,        \* ChannelCore.waitting (the source's spelling)
    pc,              \* where each consumer is in take
    taken,           \* history: the batches take has returned, in order
    nextSender       \* the number of the next oneshot channel to be created

vars == <<requests, waitting, pc, taken, nextSender>>

-----------------------------------------------------------------------------
\* struct Request: the sender half of the caller's oneshot channel, and the
\* record, or NONE for a shutdown.
Request == [sender : 1..(MaxAppends + MaxShutdowns), record : Records \cup {NONE}]

\* A consumer is "ready" when it is about to lock the mutex in take, "parked"
\* inside Condvar::wait, "woken" when it left the wait and is about to lock
\* the mutex again, "stopped" once take has delivered it a shutdown.
PcValues == {"ready", "parked", "woken", "stopped"}

Parked == {c \in Consumers : pc[c] = "parked"}
AtLock == {c \in Consumers : pc[c] \in {"ready", "woken"}}

RecordsOf(batch) == {batch[i].record : i \in DOMAIN batch}

\* Every request pushed so far, in the order of the pushes as long as the
\* channel keeps that order.
Pushed == FlattenSeq(taken) \o requests

ShutdownCalls == Cardinality({i \in DOMAIN Pushed : Pushed[i].record = NONE})
AppendCalls   == (nextSender - 1) - ShutdownCalls

\* Channel::new
Init ==
    /\ requests = <<>>
    /\ waitting = FALSE
    /\ pc = [c \in Consumers |-> "ready"]
    /\ taken = <<>>
    /\ nextSender = 1

-----------------------------------------------------------------------------
\* Faulty variant of PushRequest: the record is pushed without the sender the
\* worker answers on.
PushBareRecord(record) ==
    /\ requests' = Append(requests, record)
    /\ nextSender' = nextSender + 1

\* core.requests.push(Request { sender, record })
PushRequest(record) ==
    /\ requests' = Append(requests, [sender |-> nextSender, record |-> record])
    /\ nextSender' = nextSender + 1

\* Condvar::notify_one: one of the threads parked on the condition variable,
\* if there is one, leaves the wait.  A thread that already left it is not
\* parked any more, so the notification then goes to nobody.
NotifyOne ==
    \/ \E c \in Parked : pc' = [pc EXCEPT ![c] = "woken"]
    \/ Parked = {} /\ UNCHANGED pc

\* Faulty variant of PushAndWake: the push without the test of `waitting` and
\* the notify_one that follows it.
PushQuietly(record) ==
    /\ PushRequest(record)
    /\ UNCHANGED <<waitting, pc, taken>>

\* The body append and shutdown share: the push, then
\* if core.waitting { core.waitting = false; notify_one() }
PushAndWake(record) ==
    /\ PushRequest(record)
    /\ IF waitting
          THEN waitting' = FALSE /\ NotifyOne
          ELSE UNCHANGED <<waitting, pc>>
    /\ UNCHANGED taken

\* Channel::append(record)
AppendRecord(record) ==
    /\ AppendCalls < MaxAppends
    /\ PushAndWake(record)

\* Channel::shutdown(): a request whose record is None and whose receiver is
\* dropped at once.
Shutdown ==
    /\ ShutdownCalls < MaxShutdowns
    /\ PushAndWake(NONE)

-----------------------------------------------------------------------------
\* Faulty variant of TakeWait: the wait without `core.waitting = true`.
ParkWithoutFlag(c) ==
    /\ c \in AtLock
    /\ requests = <<>>
    /\ pc' = [pc EXCEPT ![c] = "parked"]
    /\ UNCHANGED <<requests, waitting, taken, nextSender>>

\* take, with requests empty: set the flag and park in Condvar::wait.
TakeWait(c) ==
    /\ c \in AtLock
    /\ requests = <<>>
    /\ waitting' = TRUE
    /\ pc' = [pc EXCEPT ![c] = "parked"]
    /\ UNCHANGED <<requests, taken, nextSender>>

\* Faulty variant of TakeBatch: the requests are returned and also left in
\* the Vec (a clone in the place of std::mem::take).
TakeCopy(c) ==
    /\ c \in AtLock
    /\ requests # <<>>
    /\ taken' = Append(taken, requests)
    /\ pc' = [pc EXCEPT ![c] = IF NONE \in RecordsOf(requests) THEN "stopped" ELSE "ready"]
    /\ UNCHANGED <<requests, waitting, nextSender>>

\* take, with requests non-empty: std::mem::take(&mut core.requests).  The
\* worker that is handed a shutdown marker leaves its loop ("A shutdown is
\* delivered if record is None").
TakeBatch(c) ==
    /\ c \in AtLock
    /\ requests # <<>>
    /\ taken' = Append(taken, requests)
    /\ requests' = <<>>
    /\ pc' = [pc EXCEPT ![c] = IF NONE \in RecordsOf(requests) THEN "stopped" ELSE "ready"]
    /\ UNCHANGED <<waitting, nextSender>>

\* Channel::take()
Take(c) == TakeWait(c) \/ TakeBatch(c)

\* Condvar::wait may return without a notification.
SpuriousWakeup(c) ==
    /\ pc[c] = "parked"
    /\ pc' = [pc EXCEPT ![c] = "woken"]
    /\ UNCHANGED <<requests, waitting, taken, nextSender>>

-----------------------------------------------------------------------------
Next ==
    \/ \E r \in Records : AppendRecord(r)
    \/ Shutdown
    \/ \E c \in Consumers : Take(c)
    \/ \E c \in Consumers : SpuriousWakeup(c)

\* A consumer that is at the mutex gets it in the end: every critical section
\* of the channel is a handful of statements.  Nothing is assumed of the
\* producers, nor of spurious wake-ups.
Fairness == \A c \in Consumers : WF_vars(Take(c))

Spec == Init /\ [][Next]_vars /\ Fairness

-----------------------------------------------------------------------------
TypeOK ==
    /\ requests \in Seq(Request)
    /\ waitting \in BOOLEAN
    /\ pc \in [Consumers -> PcValues]
    /\ taken \in Seq(Seq(Request))
    /\ nextSender \in 1..(MaxAppends + MaxShutdowns + 1)

\* The channel implements the group-commit queue of LogQueue: in whatever
\* order producers and consumers take the mutex, append and shutdown queue
\* their request behind the earlier ones, and take hands over everything
\* queued and leaves nothing behind (channel.rs, take and append).
LQ == INSTANCE LogQueue WITH Items <- Request, queue <- requests, batches <- taken

ImplementsLogQueue == LQ!Spec

\* No wake-up is lost: while requests are queued, a consumer that has not
\* been handed a shutdown is not left parked with nobody on the way to the
\* mutex.  This is what the `waitting` flag of take and the notify_one of
\* append must achieve between them (channel.rs, take's loop and append's
\* `if core.waitting`).
NoLostWakeup ==
    (requests # <<>> /\ Parked # {}) => AtLock # {}

\* Every queued request is taken in the end, as long as some consumer has not
\* been shut down: the receiver returned by append is answered only after
\* take has handed the request to the worker (channel.rs, append and take).
EveryRequestTaken ==
    (requests # <<>> /\ \E c \in Consumers : pc[c] # "stopped") ~> (requests = <<>>)

=============================================================================
