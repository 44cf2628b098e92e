------------------------------ MODULE BufCodec ------------------------------
(***************************************************************************)
(* The little-endian buffer writer and reader of the tree engine          *)
(* (src/src/engine/src/bwtree/util.rs): BufWriter and BufReader, two raw  *)
(* pointers that walk over a buffer.  A page is encoded by a series of    *)
(* put calls and decoded by the same series of get calls; nothing in the  *)
(* buffer says where a field ends, except the length prefix of a          *)
(* length-prefixed slice.                                                 *)
(*                                                                         *)
(* The buffer is a function from offsets to bytes, a pointer is an offset. *)
(* Integers keep their widths in bytes (1, 4 and 8); the model's byte has  *)
(* Base values where the program's has 256.  Both types are unsafe: the   *)
(* caller must stay inside the buffer, which the guards of the put        *)
(* actions stand for.  The reader is handed the layout (the kinds of the  *)
(* fields and the lengths of the plain slices), as the decoder of a page  *)
(* is.                                                                    *)
(***************************************************************************)
EXTENDS Naturals, Sequences, FiniteSets, SequencesExt, Functions

CONSTANTS
    Base,            \* the number of values of a byte
    Capacity,        \* the size of the buffer
    Values32,        \* the u32 values that are put
    Values64,        \* the u64 values that are put
    Slices,          \* the byte slices that are put
    MaxFields        \* bound on the fields put

ASSUME
    /\ Base \in Nat \ {0, 1} /\ Capacity \in Nat /\ MaxFields \in Nat
    /\ Values32 \subseteq 0..(Base^4 - 1) /\ Values64 \subseteq 0..(Base^8 - 1)
    /\ Slices \subseteq Seq(0..(Base - 1))

VARIABLES
    buf,             \* the buffer
    wpos,            \* BufWriter.0, as an offset from the start of the buffer
    rpos,            \* BufReader.0, as an offset from the start of the buffer
    fields,          \* what was put, in order: the kind and the value
    got,             \* what the get calls have returned, in order
    panicked         \* an assert failed: the thread is unwinding

vars == <<buf, wpos, rpos, fields, got, panicked>>

Byte == 0..(Base - 1)
Kinds == {"u8", "u32", "u64", "slice", "prefixed"}

\* std::mem::size_of of the integer types
SizeOf(kind) == CASE kind = "u8" -> 1 [] kind = "u32" -> 4 [] kind = "u64" -> 8

\* Faulty variant of ToLe: the bytes are not cut to their width.
ToLeWhole(v, len) == [i \in 1..len |-> v \div Base^(i - 1)]

\* v.to_le() seen as bytes: the least significant byte first.
ToLe(v, len) == [i \in 1..len |-> (v \div Base^(i - 1)) % Base]

\* Faulty variant of FromLe: the most significant byte first.
FromBe(bytes) ==
    FoldLeft(LAMBDA acc, b : acc * Base + b, 0, bytes)

\* <$t>::from_le(v): the value of bytes that are least significant first.
FromLe(bytes) ==
    FoldRight(LAMBDA b, acc : acc * Base + b, bytes, 0)

\* copy_from_nonoverlapping: the buffer with bytes written at offset pos.
Written(pos, bytes) ==
    [off \in DOMAIN buf |->
        IF off \in pos..(pos + Len(bytes) - 1) THEN bytes[off - pos + 1] ELSE buf[off]]

\* copy_to_nonoverlapping and from_raw_parts: len bytes of the buffer at pos.
BytesAt(pos, len) == [i \in 1..len |-> buf[pos + i - 1]]

\* BufWriter::length_prefixed_slice_size
LengthPrefixedSliceSize(slice) == SizeOf("u32") + Len(slice)

\* BufWriter::new and BufReader::new on the same buffer.
Init ==
    /\ buf = [off \in 0..(Capacity - 1) |-> 0]
    /\ wpos = 0 /\ rpos = 0
    /\ fields = <<>> /\ got = <<>>
    /\ panicked = FALSE

-----------------------------------------------------------------------------
\* The writer puts bytes at its pointer and skips them.
Put(kind, value, bytes) ==
    /\ ~panicked
    /\ Len(fields) < MaxFields
    /\ wpos + Len(bytes) <= Capacity
    /\ buf' = Written(wpos, bytes)
    /\ wpos' = wpos + Len(bytes)
    /\ fields' = Append(fields, [kind |-> kind, value |-> value])
    /\ UNCHANGED <<rpos, got, panicked>>

\* put_u8, put_u32, put_u64
PutInt(kind, v) == Put(kind, v, ToLe(v, SizeOf(kind)))

\* put_slice
PutSlice(slice) == Put("slice", slice, slice)

\* Faulty variant of PutLengthPrefixedSlice: no assert, and the length is cut
\* to u32 by the cast.
PutLengthPrefixedUnasserted(slice) ==
    Put("prefixed", slice, ToLe(Len(slice), SizeOf("u32")) \o slice)

\* put_length_prefixed_slice: the length as u32 (ToLe keeps the low four
\* bytes, as the cast does), then the slice.
PutLengthPrefixedSlice(slice) ==
    /\ Len(slice) <= Base^4 - 1
    /\ Put("prefixed", slice, ToLe(Len(slice), SizeOf("u32")) \o slice)

\* put_length_prefixed_slice of a slice longer than u32::MAX: the assert
\* fails before anything is written.
PutLengthPrefixedPanics(slice) ==
    /\ ~panicked
    /\ Len(slice) > Base^4 - 1
    /\ panicked' = TRUE
    /\ UNCHANGED <<buf, wpos, rpos, fields, got>>

-----------------------------------------------------------------------------
\* The field the reader is at.
NextField == fields[Len(got) + 1]

Reading(kinds) == Len(got) < Len(fields) /\ NextField.kind \in kinds

\* The reader returns value and skips len bytes.
Get(value, len) ==
    /\ ~panicked
    /\ got' = Append(got, value)
    /\ rpos' = rpos + len
    /\ UNCHANGED <<buf, wpos, fields, panicked>>

\* get_u8, get_u32, get_u64
GetInt ==
    /\ Reading({"u8", "u32", "u64"})
    /\ LET len == SizeOf(NextField.kind)
       IN  Get(FromLe(BytesAt(rpos, len)), len)

\* get_slice(len), with the length the layout gives
GetSlice ==
    /\ Reading({"slice"})
    /\ LET len == Len(NextField.value)
       IN  Get(BytesAt(rpos, len), len)

\* get_length_prefixed_slice: get_u32, then get_slice of that length
GetLengthPrefixedSlice ==
    /\ Reading({"prefixed"})
    /\ LET len == FromLe(BytesAt(rpos, SizeOf("u32")))
       IN  Get(BytesAt(rpos + SizeOf("u32"), len), SizeOf("u32") + len)

-----------------------------------------------------------------------------
Next ==
    \/ \E v \in Byte : PutInt("u8", v)
    \/ \E v \in Values32 : PutInt("u32", v)
    \/ \E v \in Values64 : PutInt("u64", v)
    \/ \E slice \in Slices :
          \/ PutSlice(slice)
          \/ PutLengthPrefixedSlice(slice)
          \/ PutLengthPrefixedPanics(slice)
    \/ GetInt
    \/ GetSlice
    \/ GetLengthPrefixedSlice

Spec == Init /\ [][Next]_vars

-----------------------------------------------------------------------------
TypeOK ==
    /\ buf \in [0..(Capacity - 1) -> Byte]
    /\ panicked \in BOOLEAN
    /\ wpos \in 0..Capacity /\ rpos \in 0..Capacity
    /\ \A i \in DOMAIN fields :
          /\ fields[i].kind \in Kinds
          /\ IF fields[i].kind \in {"slice", "prefixed"}
                THEN fields[i].value \in Seq(Byte)
                ELSE fields[i].value \in 0..(Base^(SizeOf(fields[i].kind)) - 1)
    /\ Len(fields) <= MaxFields /\ Len(got) <= Len(fields)

\* What is put is what is got: the series of get calls that mirrors a series
\* of put calls returns the values that were put, in order, whatever the
\* widths and the values of the fields before (put_int! against get_int!,
\* put_length_prefixed_slice against get_length_prefixed_slice).
RoundTrip ==
    \A i \in DOMAIN got : got[i] = fields[i].value

\* The size of an encoded field, as the callers compute it to size a page.
EncodedSize(field) ==
    CASE field.kind = "slice"    -> Len(field.value)
      [] field.kind = "prefixed" -> LengthPrefixedSliceSize(field.value)
      [] OTHER                   -> SizeOf(field.kind)

\* The two pointers agree with the sizes the callers compute: the writer is
\* at the sum of the sizes of the fields put, the reader at the sum of the
\* sizes of the fields got, so the reader never runs past the writer and a
\* page sized by length_prefixed_slice_size is filled exactly (skip in put
\* and get, length_prefixed_slice_size).
PointersAgree ==
    /\ wpos = SumFunction([i \in DOMAIN fields |-> EncodedSize(fields[i])])
    /\ rpos = SumFunction([i \in DOMAIN got |-> EncodedSize(fields[i])])

=============================================================================
