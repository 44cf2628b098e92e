---------------------------- MODULE MCIOScheduler ----------------------------
(***************************************************************************)
(* IOScheduler for model checking: the lists the state machine, the master *)
(* and the transport hand over.                                            *)
(***************************************************************************)
EXTENDS IOScheduler

CONSTANTS n1, n2, rg

W(target, seg) == [target |-> target, seg |-> seg, kind |-> "write", wep |-> 2, range |-> rg]
S(target, seg) == [target |-> target, seg |-> seg, kind |-> "seal", wep |-> 2]

\* A write fanned out to both replicas, a seal of the old segment on both, and
\* a seal followed by a write on one replica.
MCWriteLists == {<<W(n1, 2), W(n2, 2)>>, <<S(n1, 1), S(n2, 1)>>, <<S(n1, 1), W(n1, 2)>>}

MCLearnLists == {<<[target |-> n1, seg |-> 1, wep |-> 2]>>}

Promote(pending) == [pending |-> pending, type |-> "promote", epoch |-> 2]

\* The master answers nothing to do, a promotion with one broken segment, or
\* an unknown command followed by two promotions, so that a promotion has
\* commands behind it when its get_segments fails.
MCCommandLists ==
    {<<[pending |-> <<>>, type |-> "nop", epoch |-> 1]>>,
     <<Promote(<<1>>)>>,
     <<[pending |-> <<>>, type |-> "unknown", epoch |-> 1], Promote(<<>>), Promote(<<1>>)>>}

\* get_segments answers no descriptor, one or two.
MCSegmentLists == {<<>>, <<2>>, <<1, 2>>}

=============================================================================
