----------------------------- MODULE Scheduler -----------------------------
(* The lists a Cooperator keeps its Contexts on, and the calls that move a   *)
(* Context between them (coop/cooperator.cpp).                               *)
(*                                                                           *)
(* A cooperator is one thread, so between two context switches nothing else  *)
(* touches these lists: each call is an operator from the record of the      *)
(* cooperator's fields to the record after the call, and a handler that      *)
(* makes several calls composes them.  The other modules keep this record,   *)
(* with more fields of their own, in a variable named rt.                    *)
(*                                                                           *)
(*   state      Context::m_state ("EXITED": no live Context of that name)    *)
(*   yielded    Cooperator::m_yielded, head first                            *)
(*   blocked    Cooperator::m_blocked (its order is never used)              *)
(*   scheduled  Cooperator::m_scheduled (NoCtx: the loop itself runs)        *)
(*   budget     Cooperator::m_directYieldsRemaining                          *)
EXTENDS Integers, Sequences

CONSTANTS
    Ctx,                \* the Contexts of one cooperator
    NoCtx,              \* the null Context*
    DirectYieldBudget   \* directYieldBudget; 0 when directYield is off

ASSUME SchedulerAssumption ==
    /\ NoCtx \notin Ctx
    /\ DirectYieldBudget \in Nat

States == {"RUNNING", "YIELDED", "BLOCKED", "EXITED"}

----------------------------------------------------------------------------
(* The steps the calls below are made of.                                    *)

PushYielded(s, c) ==
    [s EXCEPT !.state[c] = "YIELDED", !.yielded = Append(@, c)]

PushBlocked(s, c) ==
    [s EXCEPT !.state[c] = "BLOCKED", !.blocked = @ \cup {c}]

Run(s, c) ==
    [s EXCEPT !.state[c] = "RUNNING", !.scheduled = c]

PopYielded(s) ==
    [s EXCEPT !.yielded = Tail(@)]

RemoveBlocked(s, c) ==
    [s EXCEPT !.blocked = @ \ {c}]

\* Back in the loop: HandleCooperatorResumption has filed the Context already.
ToLoop(s) ==
    [s EXCEPT !.scheduled = NoCtx]

\* Mutant of CanSwitchDirect: the budget is not consulted.
SwitchUnbounded(s) ==
    s.yielded # <<>>

CanSwitchDirect(s) ==
    s.budget > 0 /\ s.yielded # <<>>

SpendBudget(s) ==
    [s EXCEPT !.budget = @ - 1]

RefillBudget(s) ==
    [s EXCEPT !.budget = DirectYieldBudget]

----------------------------------------------------------------------------
(* The Cooperator's calls.                                                   *)

\* Mutant of YieldFrom: the Context switched to stays on the yielded list.
YieldKeepingHead(s, c) ==
    IF CanSwitchDirect(s) THEN Run(PushYielded(SpendBudget(s), c), Head(s.yielded))
    ELSE ToLoop(PushYielded(s, c))

\* Cooperator::YieldFrom, after its IO governor.
YieldFrom(s, c) ==
    IF CanSwitchDirect(s)
    THEN Run(PushYielded(PopYielded(SpendBudget(s)), c), Head(s.yielded))
    ELSE ToLoop(PushYielded(s, c))

\* Cooperator::Resume, called by the loop on the Context it popped.
Resume(s) ==
    Run(RefillBudget(PopYielded(s)), Head(s.yielded))

\* Cooperator::Block by the running Context.
Block(s, c) ==
    IF CanSwitchDirect(s)
    THEN Run(PopYielded(PushBlocked(SpendBudget(s), c)), Head(s.yielded))
    ELSE ToLoop(PushBlocked(s, c))

\* Mutant of Unblock: a Context that was already woken is queued once more.
UnblockTwice(s, c, schedule) ==
    IF schedule THEN Run(PushYielded(RemoveBlocked(s, c), s.scheduled), c)
    ELSE PushYielded(RemoveBlocked(s, c), c)

\* Mutant of Unblock: a Context that is switched to stays on the blocked list.
UnblockLinked(s, c, schedule) ==
    IF s.state[c] # "BLOCKED" THEN s
    ELSE IF schedule THEN Run(PushYielded(s, s.scheduled), c)
    ELSE PushYielded(RemoveBlocked(s, c), c)

\* Cooperator::Unblock.  With schedule the caller yields to c at once.
Unblock(s, c, schedule) ==
    IF s.state[c] # "BLOCKED" THEN s
    ELSE IF schedule THEN Run(PushYielded(RemoveBlocked(s, c), s.scheduled), c)
    ELSE PushYielded(RemoveBlocked(s, c), c)

\* Cooperator::EnterContext: a spawned Context runs before its spawner goes on.
EnterContext(s, c) ==
    Run(IF s.scheduled = NoCtx THEN s ELSE PushYielded(s, s.scheduled), c)

\* The end of CoopContextEntry: the switch to the loop that never returns.
ExitContext(s, c) ==
    ToLoop([s EXCEPT !.state[c] = "EXITED"])

----------------------------------------------------------------------------
Members(seq) == {seq[i] : i \in DOMAIN seq}

Distinct(seq) == \A i, j \in DOMAIN seq : seq[i] = seq[j] => i = j

\* What Cooperator::SanityCheck asserts: every Context is on the list its
\* state names and on no other, and only the scheduled one is RUNNING.
SanityCheck(s) ==
    /\ Distinct(s.yielded)
    /\ Members(s.yielded) = {c \in Ctx : s.state[c] = "YIELDED"}
    /\ s.blocked = {c \in Ctx : s.state[c] = "BLOCKED"}
    /\ \A c \in Ctx : s.state[c] = "RUNNING" <=> s.scheduled = c

============================================================================
