---------------------------- MODULE PartialStream ----------------------------
(***************************************************************************)
(* The per-stream index (PartialStream), the transactions it hands to the *)
(* pipelined writer, and the part of a Version that belongs to one stream *)
(* (StreamMeta).  The stream database of StreamDB.tla calls these; their  *)
(* source is not part of the repository's src/ tree, so every operator    *)
(* here is written from sections 3, 4.3 and 4.4 of the specification.     *)
(*                                                                         *)
(* Data abstraction: an entry is its index (payloads are not told apart);  *)
(* a log location is left out, so the index of a segment is the set of    *)
(* the indices that are present.                                          *)
(*                                                                         *)
(* Readings of the specification that this module fixes:                  *)
(*  - write validates against promised_epoch and changes nothing: the     *)
(*    index and acked_seq change when the transaction is applied after    *)
(*    the commit (4.4 "to apply post-commit", 4.5 "applies all in-memory   *)
(*    index updates");                                                     *)
(*  - seal raises promised_epoch and marks the segment at once (4.4       *)
(*    "sets promised_epoch"), and the record does the same on replay;     *)
(*  - a segment that was never sealed promises its own epoch (3:          *)
(*    promised_epoch >= segment_epoch);                                   *)
(*  - continuous_index counts the hinted range as present;                *)
(*  - a version edit of a stream merges with the version by maximum.      *)
(***************************************************************************)
EXTENDS Naturals, FiniteSets, FiniteSetsExt

CONSTANTS
    Epochs,          \* the segment epochs, a set of positive numbers
    IndexSpace       \* the size of the index space, 2^32 in the program

ASSUME
    /\ Epochs \subseteq Nat \ {0}
    /\ IndexSpace \in Nat \ {0, 1}

\* An entry index: u32, index 0 is not used.
Indices == 1..(IndexSpace - 1)

\* struct Sequence { epoch, index }, and its conversion to u64
\* (epoch << 32 | index), which keeps the lexicographic order.
Sequence == [epoch : Epochs \cup {0}, index : 0..(IndexSpace - 1)]
ZeroSeq  == [epoch |-> 0, index |-> 0]
U64(seq) == seq.epoch * IndexSpace + seq.index
SeqMax(a, b) == IF U64(a) >= U64(b) THEN a ELSE b

MaxOf(a, b) == IF a >= b THEN a ELSE b
MinOf(a, b) == IF a <= b THEN a ELSE b

-----------------------------------------------------------------------------
\* StreamMeta: what a version holds of one stream.  replicas maps each sealed
\* epoch to its promised epoch.
EmptyMeta == [acked_seq |-> 0, initial_seq |-> 0, replicas |-> <<>>]

IsMeta(m) ==
    /\ DOMAIN m = {"acked_seq", "initial_seq", "replicas"}
    /\ m.acked_seq \in Nat /\ m.initial_seq \in Nat
    /\ DOMAIN m.replicas \subseteq Epochs
    /\ \A e \in DOMAIN m.replicas : m.replicas[e] \in Nat

\* The edit StreamTruncate applied to the stream's part of a version.
MergeMeta(old, new) ==
    [acked_seq   |-> MaxOf(old.acked_seq, new.acked_seq),
     initial_seq |-> MaxOf(old.initial_seq, new.initial_seq),
     replicas    |-> [e \in DOMAIN old.replicas \cup DOMAIN new.replicas |->
                        MaxOf(IF e \in DOMAIN old.replicas THEN old.replicas[e] ELSE 0,
                              IF e \in DOMAIN new.replicas THEN new.replicas[e] ELSE 0)]]

-----------------------------------------------------------------------------
\* PartialStream::new(stream_version): an index without entries, with the
\* seals, the acked sequence and the truncation point of the version.
NewPartialStream(meta) ==
    [entries     |-> [e \in Epochs |-> {}],
     promised    |-> [e \in Epochs |-> IF e \in DOMAIN meta.replicas
                                          THEN MaxOf(e, meta.replicas[e]) ELSE e],
     sealed      |-> DOMAIN meta.replicas,
     acked_seq   |-> meta.acked_seq,
     initial_seq |-> meta.initial_seq]

IsPartialStream(st) ==
    /\ DOMAIN st = {"entries", "promised", "sealed", "acked_seq", "initial_seq"}
    /\ st.entries \in [Epochs -> SUBSET Indices]
    /\ st.promised \in [Epochs -> Nat]
    /\ st.sealed \subseteq Epochs
    /\ st.acked_seq \in Nat /\ st.initial_seq \in Nat

\* Transactions.  STALED stands for the error of a rejected write.
WriteTxn(seg, wep, acked, first, n) ==
    [kind |-> "write", seg |-> seg, wep |-> wep, acked_seq |-> U64(acked),
     first |-> first, n |-> n]
SealTxn(seg, wep) == [kind |-> "seal", seg |-> seg, wep |-> wep]
NoTxn  == [kind |-> "none"]
STALED == [kind |-> "staled"]

\* PartialStream::write: the transaction, or the error Staled.
PsWrite(st, wep, seg, acked, first, n) ==
    IF wep < st.promised[seg] THEN STALED ELSE WriteTxn(seg, wep, acked, first, n)

\* PartialStream::seal: the stream after the call; the transaction is
\* SealTxn(seg, wep).
PsSeal(st, seg, wep) ==
    [st EXCEPT !.promised[seg] = MaxOf(@, wep), !.sealed = @ \cup {seg}]

\* What the commit of a transaction does to the index; recovery replays the
\* records of the log through the same operator.
Apply(st, txn) ==
    CASE txn.kind = "write" ->
            [st EXCEPT !.entries[txn.seg] = @ \cup (txn.first..(txn.first + txn.n - 1)),
                       !.acked_seq = MaxOf(@, txn.acked_seq)]
      [] txn.kind = "seal"  -> PsSeal(st, txn.seg, txn.wep)
      [] OTHER              -> st

\* PartialStream::continuous_index(epoch, range): the largest i with every
\* index of 1..i present or in the range.
ContinuousIndex(st, seg, range) ==
    LET have == st.entries[seg] \cup range
    IN  Max({0} \cup {i \in Indices : 1..i \subseteq have})

\* PartialStream::acked_index(epoch): how far the stream's acked sequence
\* reaches into the segment, never past what is continuously present.
AckedIndex(st, seg) ==
    LET epoch == st.acked_seq \div IndexSpace
        index == st.acked_seq % IndexSpace
        cont  == ContinuousIndex(st, seg, {})
    IN  IF epoch > seg THEN cont
        ELSE IF epoch = seg THEN MinOf(index, cont)
        ELSE 0

\* PartialStream::sealed_epoches: (epoch, promised epoch) of the sealed segments.
SealedEpoches(st) == [e \in st.sealed |-> st.promised[e]]

\* The indices a scan may return: present, not below start, not truncated,
\* and acked if the reader requires it.
Readable(st, seg, start, require_acked) ==
    {i \in st.entries[seg] :
        /\ i >= start
        /\ seg * IndexSpace + i >= st.initial_seq
        /\ require_acked => i <= AckedIndex(st, seg)}

\* PartialStream::scan_entries: the first `limit` readable indices; the empty
\* set stands for None.
ScanEntries(st, seg, start, limit, require_acked) ==
    LET all == Readable(st, seg, start, require_acked)
    IN  {i \in all : Cardinality({j \in all : j < i}) < limit}

\* PartialStream::refresh_versions: the stream takes the current version of
\* its truncation point.
RefreshVersions(st, meta) ==
    [st EXCEPT !.initial_seq = MaxOf(@, meta.initial_seq)]

=============================================================================
