--------------------------- MODULE MCContextTree ---------------------------
(* Instances of ContextTree for TLC.                                         *)
EXTENDS ContextTree, TLC

CONSTANTS c1, c2, c3, c4

MCCtx == {c1, c2, c3}
MCCoord == {Killed(c) : c \in MCCtx} \cup {LastChild(c) : c \in MCCtx}

MCCtx4 == {c1, c2, c3, c4}
MCCoord4 == {Killed(c) : c \in MCCtx4} \cup {LastChild(c) : c \in MCCtx4}

Contexts4 == Permutations(MCCtx4)

\* For liveness: nobody is spawned again or killed again.
Once ==
    \A c \in Ctx :
        /\ ~Alive(c) /\ Alive(c)' => ~signaled[c]
        /\ Free(c) /\ frame'[c].op = "descend" => ~signaled[frame'[c].target]

DeepSpec == Init /\ [][Next /\ Once]_vars

OnceSpec == Init /\ [][Next /\ Once]_vars /\ Fairness

============================================================================
