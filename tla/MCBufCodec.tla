----------------------------- MODULE MCBufCodec -----------------------------
(***************************************************************************)
(* BufCodec for model checking: the slices that are put.                   *)
(***************************************************************************)
EXTENDS BufCodec

\* The empty slice, a slice of one byte, a slice of two different bytes, the
\* longest slice whose length a u32 holds (15 bytes when a byte has two
\* values) and a slice one byte longer.
MCSlices ==
    {<<>>, <<1>>, <<0, 1>>, [i \in 1..15 |-> i % 2], [i \in 1..16 |-> 1]}

=============================================================================
