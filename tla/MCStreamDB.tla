----------------------------- MODULE MCStreamDB -----------------------------
(***************************************************************************)
(* StreamDB for model checking: the small sets the configurations give    *)
(* the constants that are sets of records, and the symmetry of the        *)
(* stream ids.                                                             *)
(***************************************************************************)
EXTENDS StreamDB

CONSTANTS s1, s2, t1, t2, c1

\* Writers acknowledge the first or the second entry of the first segment.
MCAckSeqs == {[epoch |-> 1, index |-> 1], [epoch |-> 1, index |-> 2]}

\* Writers that acknowledge what they write in full.
MCAckAll == {[epoch |-> 1, index |-> 2]}

\* The truncation point: the second entry of the first segment, which is
\* beyond what is acknowledged until a writer acknowledges it.
MCKeepSeqs == {[epoch |-> 1, index |-> 2]}

\* Two truncation points, so that two truncates of one stream may ask for
\* different ones and install them in either order.
MCKeepBoth == {[epoch |-> 1, index |-> 1], [epoch |-> 1, index |-> 2]}

\* Stream ids are only compared for equality.
StreamSymmetry == Permutations({s1, s2})

=============================================================================
