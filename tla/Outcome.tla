------------------------------- MODULE Outcome ------------------------------
(***************************************************************************)
(* What a call of the query engine answers: Ok(value), Err(error), or a    *)
(* panic (todo!, unreachable!, expect, unwrap, assert!, an index out of    *)
(* range).  NONE is Option::None.                                          *)
(***************************************************************************)
CONSTANT NONE

Panic      == [ok |-> FALSE, panic |-> TRUE]
Err(error) == [ok |-> FALSE, panic |-> FALSE, err |-> error]
Ok(value)  == [ok |-> TRUE, value |-> value]

=============================================================================
