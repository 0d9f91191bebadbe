-------------------------- MODULE MCCooperatorLoop -------------------------
(* Instances of CooperatorLoop for TLC.                                      *)
EXTENDS CooperatorLoop

CONSTANTS c1, c2, c3, k1

MCCtx == {c1, c2, c3}
MCCont == {k1}
MCCoord == MCCtx \cup MCCont \cup {Gate}
MCSubmitted == {c3}

MCOrder == <<c1, c2, c3>>

\* Two Contexts are enough to starve a Continuation.
PairCtx == {c1, c2}
PairCoord == PairCtx \cup MCCont \cup {Gate}
PairOrder == <<c1, c2>>

============================================================================
