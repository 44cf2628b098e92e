----------------------------- MODULE MCChannel -----------------------------
(***************************************************************************)
(* Channel, instantiated for TLC: the log engine's single worker thread,  *)
(* two distinguishable records, three appends and one shutdown.           *)
(***************************************************************************)
EXTENDS Channel

CONSTANTS w1, r1, r2

MCConsumers == {w1}
MCRecords == {r1, r2}

=============================================================================
