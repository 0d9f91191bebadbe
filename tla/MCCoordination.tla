-------------------------- MODULE MCCoordination ---------------------------
(* Instances of Coordination for TLC.                                        *)
EXTENDS Coordination, TLC

CONSTANTS c1, c2, c3, l1, l2

MCCtx == {c1, c2, c3}
MCLock == {l1, l2}
MCCoord == MCLock \cup MCCtx
MCArgLists == {<<l1>>, <<l1, l2>>, <<l2, l1>>}

OneLock == {l1}
OneLockCoord == OneLock \cup MCCtx
OneLockArgs == {<<l1>>}

Contexts == Permutations(MCCtx)

============================================================================
