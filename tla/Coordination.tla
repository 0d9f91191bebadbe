---------------------------- MODULE Coordination ---------------------------
(* Contexts of one cooperator that lock, wait on several things at once and  *)
(* kill each other: Coordinator, Signal, MultiCoordinator (CoordinateWith,   *)
(* CoordinateWithKill) and the scheduler under them, interleaved at every    *)
(* context switch.                                                           *)
(*                                                                           *)
(* A Coordinator is named by a Lock, or by the Context whose kill Signal it  *)
(* is inside (Context::m_killedSignal).                                      *)
EXTENDS Coordinator

CONSTANTS
    Lock,       \* the Coordinators used as locks or as completions of IO
    External,   \* the owner of a Lock held by IO in flight
    ArgLists    \* the coordinator lists handed to CoordinateWith

ASSUME CoordinationAssumption ==
    /\ Lock \cap Ctx = {}
    /\ Coord = Lock \cup Ctx
    /\ External \notin Ctx \cup {NoCtx}
    /\ ArgLists \subseteq Seq(Lock)
    /\ \A args \in ArgLists : Distinct(args) /\ args # <<>>

VARIABLES
    rt,         \* the cooperator's record
    signaled,   \* Signal::m_signaled of each kill signal
    frame,      \* where each Context is inside the call it is making
    owner       \* who a Lock has been granted to (not in the code: a
                \* Coordinator knows only that it is held)

vars == <<rt, signaled, frame, owner>>

\* A call on the coordinators args: MultiCoordinator's scan is about to look at
\* args[at], and args[winner] is the first that it found to have fired.
Call(op, args) ==
    [op |-> op, args |-> args, at |-> 1, winner |-> 0, schedule |-> FALSE]

Idle == Call("none", <<>>)

Running(c) == rt.scheduled = c

Free(c) == Running(c) /\ frame[c].op = "none"

\* Whom a release of x hands it to.
Heir(x) ==
    IF rt.waiters[x] = <<>> \/ Head(rt.waiters[x]) \notin Ctx
    THEN NoCtx ELSE Head(rt.waiters[x])

\* A Coordinated goes out of scope when the call that waited on it returns.
Forget(s, c) == [s EXCEPT !.satisfied[c] = {}]

Return(c) == frame' = [frame EXCEPT ![c] = Idle]

----------------------------------------------------------------------------
Init ==
    /\ rt = NewRuntime(Ctx)
    /\ signaled = [c \in Ctx |-> FALSE]
    /\ frame = [c \in Ctx |-> Idle]
    /\ owner = [x \in Lock |-> NoCtx]

\* A Context is spawned by the loop or by the running Context.
Spawn(c) ==
    /\ rt.state[c] = "EXITED"
    /\ rt.scheduled # NoCtx => Free(rt.scheduled)
    /\ rt' = EnterContext(rt, c)
    /\ UNCHANGED <<signaled, frame, owner>>

ResumeNext ==
    /\ Running(NoCtx)
    /\ rt.yielded # <<>>
    /\ rt' = Resume(rt)
    /\ UNCHANGED <<signaled, frame, owner>>

Yield(c) ==
    /\ Free(c)
    /\ rt' = YieldFrom(rt, c)
    /\ UNCHANGED <<signaled, frame, owner>>

----------------------------------------------------------------------------
(* Coordinator                                                               *)

AcquireLock(c, x) ==
    /\ Free(c)
    /\ owner[x] # c
    /\ rt' = Acquire(rt, x, c)
    /\ IF rt.held[x]
       THEN /\ frame' = [frame EXCEPT ![c] = Call("acquire", <<x>>)]
            /\ UNCHANGED owner
       ELSE /\ owner' = [owner EXCEPT ![x] = c]
            /\ UNCHANGED frame
    /\ UNCHANGED signaled

\* Signal::Wait on the kill signal of d.
WaitSignal(c, d) ==
    /\ Free(c)
    /\ ~signaled[d]
    /\ rt' = Acquire(rt, d, c)
    /\ frame' = [frame EXCEPT ![c] = Call("acquire", <<d>>)]
    /\ UNCHANGED <<signaled, owner>>

AcquireReturns(c) ==
    /\ Running(c)
    /\ frame[c].op = "acquire"
    /\ rt' = Forget(rt, c)
    /\ Return(c)
    /\ UNCHANGED <<signaled, owner>>

ReleaseLock(c, x, schedule) ==
    /\ Free(c)
    /\ owner[x] = c
    /\ owner' = [owner EXCEPT ![x] = Heir(x)]
    /\ rt' = Release(rt, x, schedule)
    /\ UNCHANGED <<signaled, frame>>

\* Coordinator::Flash on a held coordinator: its Acquire ...
FlashLock(c, x) ==
    /\ Free(c)
    /\ owner[x] # c
    /\ rt.held[x]
    /\ rt' = Acquire(rt, x, c)
    /\ frame' = [frame EXCEPT ![c] = Call("flash", <<x>>)]
    /\ UNCHANGED <<signaled, owner>>

\* ... and the Release that follows.
FlashReturns(c) ==
    LET x == frame[c].args[1]
    IN  /\ Running(c)
        /\ frame[c].op = "flash"
        /\ owner' = [owner EXCEPT ![x] = Heir(x)]
        /\ rt' = Release(Forget(rt, c), x, TRUE)
        /\ Return(c)
        /\ UNCHANGED signaled

\* IO: Handle::Submit leaves the coordinator held until the completion ...
SubmitOp(c, x) ==
    /\ Free(c)
    /\ owner[x] = c
    /\ owner' = [owner EXCEPT ![x] = External]
    /\ UNCHANGED <<rt, signaled, frame>>

\* ... which Handle::Finalize turns into a release, from a Poll made by the
\* loop or by the running Context.
CompleteOp(x) ==
    /\ owner[x] = External
    /\ rt.scheduled # NoCtx => Free(rt.scheduled)
    /\ owner' = [owner EXCEPT ![x] = Heir(x)]
    /\ rt' = Release(rt, x, FALSE)
    /\ UNCHANGED <<signaled, frame>>

----------------------------------------------------------------------------
(* MultiCoordinator                                                          *)

AddAllAsBlocked(s, args, c) ==
    [s EXCEPT !.satisfied[c] = {},
              !.waiters = [x \in Coord |-> IF x \in Members(args)
                                           THEN Append(s.waiters[x], c)
                                           ELSE s.waiters[x]]]

\* The lists CoordinateWith and CoordinateWithKill (which puts the caller's
\* kill signal first) pass on; a single argument is a plain Acquire.
WaitLists(c) ==
    {args \in ArgLists \cup {<<c>> \o a : a \in ArgLists} : Len(args) > 1}

\* The fast path takes the first free coordinator.  A Signal that wins it is
\* reset at once (ResetCoordinator), so its coordinator does not change.
CoordinateFast(c, args) ==
    /\ Free(c)
    /\ \A i \in DOMAIN args : args[i] \in Lock => owner[args[i]] # c
    /\ \E i \in DOMAIN args :
        /\ ~rt.held[args[i]]
        /\ \A j \in 1 .. i - 1 : rt.held[args[j]]
        /\ IF args[i] \in Lock
           THEN /\ rt' = TryAcquire(rt, args[i])
                /\ owner' = [owner EXCEPT ![args[i]] = c]
           ELSE UNCHANGED <<rt, owner>>
    /\ UNCHANGED <<signaled, frame>>

CoordinateBlock(c, args) ==
    /\ Free(c)
    /\ \A i \in DOMAIN args : args[i] \in Lock => owner[args[i]] # c
    /\ \A i \in DOMAIN args : rt.held[args[i]]
    /\ rt' = Block(AddAllAsBlocked(rt, args, c), c)
    /\ frame' = [frame EXCEPT ![c] = Call("multi", args)]
    /\ UNCHANGED <<signaled, owner>>

\* Past args[at]; the first that fired is the winner.
Advance(k, fired) ==
    [k EXCEPT !.at = @ + 1, !.winner = IF fired /\ @ = 0 THEN k.at ELSE @]

\* Mutant of CoordinateScan: whatever else fired is kept.
ScanKeepingLosers(c) ==
    LET k == frame[c]
        x == k.args[k.at]
        fired == x \in rt.satisfied[c]
    IN  /\ Running(c)
        /\ k.op = "multi"
        /\ k.at <= Len(k.args)
        /\ frame' = [frame EXCEPT ![c] = Advance(k, fired)]
        /\ rt' = IF fired THEN rt ELSE RemoveAsBlocked(rt, x, c)
        /\ UNCHANGED <<signaled, owner>>

\* One turn of the scan after the Block: what did not fire is unlinked, the
\* leftmost that fired wins, any other that fired is released.
CoordinateScan(c) ==
    LET k == frame[c]
        x == k.args[k.at]
        fired == x \in rt.satisfied[c]
    IN  /\ Running(c)
        /\ k.op = "multi"
        /\ k.at <= Len(k.args)
        /\ frame' = [frame EXCEPT ![c] = Advance(k, fired)]
        /\ \/ /\ ~fired
              /\ rt' = RemoveAsBlocked(rt, x, c)
              /\ UNCHANGED owner
           \/ /\ fired /\ k.winner = 0
              /\ UNCHANGED <<rt, owner>>
           \/ /\ fired /\ k.winner # 0
              /\ rt' = Release(rt, x, FALSE)
              /\ owner' = IF x \in Lock THEN [owner EXCEPT ![x] = Heir(x)] ELSE owner
        /\ UNCHANGED signaled

CoordinateReturns(c) ==
    /\ Running(c)
    /\ frame[c].op = "multi"
    /\ frame[c].at > Len(frame[c].args)
    /\ rt' = Forget(rt, c)
    /\ Return(c)
    /\ UNCHANGED <<signaled, owner>>

----------------------------------------------------------------------------
(* Context::Kill of a Context without children.  Killing one that is already *)
(* signaled steals an empty list and changes nothing.                        *)

Kill(c, d, schedule) ==
    /\ Free(c)
    /\ rt.state[d] # "EXITED"
    /\ ~signaled[d]
    /\ signaled' = [signaled EXCEPT ![d] = TRUE]
    /\ rt' = OpenSignal(rt, d)
    /\ frame' = [frame EXCEPT ![c] = [Call("notify", <<d>>) EXCEPT !.schedule = schedule]]
    /\ UNCHANGED owner

NotifyNext(c) ==
    LET d == frame[c].args[1]
    IN  /\ Running(c)
        /\ frame[c].op = "notify"
        /\ rt.waiters[d] # <<>>
        /\ rt' = NotifyHead(rt, d, frame[c].schedule)
        /\ UNCHANGED <<signaled, frame, owner>>

\* Mutant of NotifyReturns: the loop may end with waiters left.
NotifyReturnsEarly(c) ==
    /\ Running(c)
    /\ frame[c].op = "notify"
    /\ Return(c)
    /\ UNCHANGED <<rt, signaled, owner>>

NotifyReturns(c) ==
    /\ Running(c)
    /\ frame[c].op = "notify"
    /\ rt.waiters[frame[c].args[1]] = <<>>
    /\ Return(c)
    /\ UNCHANGED <<rt, signaled, owner>>

----------------------------------------------------------------------------
\* A Context inside a call goes on with it when it runs.
Proceed(c) ==
    \/ AcquireReturns(c)
    \/ FlashReturns(c)
    \/ CoordinateScan(c)
    \/ CoordinateReturns(c)
    \/ NotifyNext(c)
    \/ NotifyReturns(c)

Start(c) ==
    \/ Yield(c)
    \/ \E x \in Lock :
        \/ AcquireLock(c, x)
        \/ FlashLock(c, x)
        \/ SubmitOp(c, x)
        \/ \E schedule \in BOOLEAN : ReleaseLock(c, x, schedule)
    \/ \E d \in Ctx :
        \/ WaitSignal(c, d)
        \/ \E schedule \in BOOLEAN : Kill(c, d, schedule)
    \/ \E args \in WaitLists(c) : CoordinateFast(c, args) \/ CoordinateBlock(c, args)

Next ==
    \/ ResumeNext
    \/ \E x \in Lock : CompleteOp(x)
    \/ \E c \in Ctx : Spawn(c) \/ Start(c) \/ Proceed(c)

Spec == Init /\ [][Next]_vars

\* A client that waits for nothing while it owns a Lock.
NoHoldAndWait ==
    \A c \in Ctx : frame[c].op = "none" /\ frame'[c].op \in {"acquire", "flash", "multi"}
        => \A x \in Lock : owner[x] # c

\* The loop keeps resuming what is runnable, IO completes, and a running
\* Context goes on with its call or, outside one, sooner or later yields.
Fairness ==
    /\ WF_vars(ResumeNext)
    /\ \A x \in Lock : WF_vars(CompleteOp(x))
    /\ \A c \in Ctx : WF_vars(Proceed(c)) /\ WF_vars(Yield(c))

\* A Context that owns a Lock and keeps running sooner or later releases it.
OwnersRelease ==
    \A c \in Ctx, x \in Lock :
        SF_vars(\E schedule \in BOOLEAN : ReleaseLock(c, x, schedule))

FairSpec == Spec /\ Fairness

PoliteSpec == Init /\ [][Next /\ NoHoldAndWait]_vars /\ Fairness /\ OwnersRelease

----------------------------------------------------------------------------
Frame ==
    [op : {"none", "acquire", "flash", "multi", "notify"}, args : Seq(Coord),
     at : Nat, winner : Nat, schedule : BOOLEAN]

\* The calls that park a Context.
Waits(k) == k.op \in {"acquire", "flash", "multi"}

\* The coordinators a call is still linked to or has not yet looked at.
Unscanned(k) == {k.args[i] : i \in k.at .. Len(k.args)}

\* Those that fired and were not given back.
Granted(k, satisfied) ==
    {x \in satisfied : x \in Unscanned(k) \/ (k.winner # 0 /\ x = k.args[k.winner])}

\* Someone is in the loop of d's Notify.
Notifying(f, d) == \E c \in Ctx : f[c].op = "notify" /\ f[c].args[1] = d

\* The types of the variables: a cooperator's record and the frame of the call
\* each Context is making.
TypeOK ==
    /\ rt \in Runtime
    /\ signaled \in [Ctx -> BOOLEAN]
    /\ frame \in [Ctx -> Frame]
    /\ owner \in [Lock -> Ctx \cup {NoCtx, External}]

\* Every Context is on exactly the list its state names (SanityCheck in
\* cooperator.cpp), whatever order grants, kills and direct switches come in.
ListsAgree == SanityCheck(rt)

\* No wakeup is lost: a blocked Context is queued on everything it waits for,
\* none of which has been granted to it, and each of which is still held, or is
\* a Signal whose notifier has yet to reach it (Coordinator::Release hands over
\* while held, Signal::Notify empties the list it opened).
NoStranded ==
    \A c \in Ctx : rt.state[c] = "BLOCKED" =>
        /\ Waits(frame[c])
        /\ rt.satisfied[c] = {}
        /\ \A x \in Members(frame[c].args) :
            /\ c \in Members(rt.waiters[x])
            /\ rt.held[x] \/ (x \in Ctx /\ Notifying(frame, x))

\* A Lock is held exactly while someone owns it, so a release is never lost in
\* a grant that its Context has not yet picked up or that MultiCoordinator's
\* scan gives back.
HeldIffOwned ==
    \A x \in Lock : rt.held[x] <=> owner[x] # NoCtx

\* CoordinateWith's contract: it returns with exactly one coordinator taken,
\* the winner, whatever fired between the wake and the scan.
ExactlyOneTaken ==
    \A c \in Ctx :
        (frame[c].op = "multi" /\ Running(c) /\ frame[c].at > Len(frame[c].args)) =>
            LET k == frame[c]
            IN  /\ k.winner \in DOMAIN k.args
                /\ \A i \in DOMAIN k.args :
                    /\ c \notin Members(rt.waiters[k.args[i]])
                    /\ k.args[i] \in Lock => (owner[k.args[i]] = c <=> i = k.winner)

----------------------------------------------------------------------------
(* The strengthening of the invariants above that every step preserves.  Its *)
(* parts speak of arbitrary values s, g, f and o of the four variables, so   *)
(* that a proof can also speak of the states inside a step.                  *)

\* The frame k of c: its arguments are distinct, what fired is among them, and
\* a Signal that fired is open.
FrameOK(s, g, k, c) ==
    /\ Distinct(k.args)
    /\ k.at \in 1 .. Len(k.args) + 1
    /\ k.winner \in 0 .. k.at - 1
    /\ k.op # "none" => s.state[c] # "EXITED" /\ k.args # <<>>
    /\ k.op \in {"acquire", "flash", "notify"} => k.at = 1 /\ Len(k.args) = 1
    /\ k.op = "flash" => k.args[1] \in Lock
    /\ k.op = "notify" => k.args[1] \in Ctx /\ g[k.args[1]]
    /\ s.satisfied[c] \subseteq IF Waits(k) THEN Members(k.args) ELSE {}
    /\ k.winner # 0 => k.args[k.winner] \in s.satisfied[c]
    /\ \A x \in s.satisfied[c] : x \in Ctx => g[x]

\* c is blocked only until the first of its Coordinateds fires.
BlockedOK(s, k, c) ==
    /\ s.state[c] = "BLOCKED" => Waits(k) /\ s.satisfied[c] = {} /\ k.at = 1
    /\ (Waits(k) /\ s.state[c] # "BLOCKED" /\ k.winner = 0)
         => \E x \in Unscanned(k) : x \in s.satisfied[c]

\* x's wait list holds, once each, the Contexts whose Coordinated on x has
\* neither fired nor been unlinked.
QueueOK(s, f, x) ==
    /\ Distinct(s.waiters[x])
    /\ Members(s.waiters[x]) \subseteq Ctx
    /\ \A c \in Ctx : c \in Members(s.waiters[x]) <=>
         (Waits(f[c]) /\ x \in Unscanned(f[c]) /\ x \notin s.satisfied[c])

\* Nobody queues on a free coordinator, except for a notifier to reach.
HeldOK(s, f, x) ==
    s.waiters[x] # <<>> => s.held[x] \/ (x \in Ctx /\ Notifying(f, x))

\* A waiter owns, of the Locks it waits for, exactly what was granted to it.
GrantsOK(s, f, o, c) ==
    Waits(f[c]) => \A x \in Members(f[c].args) \cap Lock :
                      o[x] = c <=> x \in Granted(f[c], s.satisfied[c])

\* What holds between any two steps, also inside a release.
StateOK(s, g, f) ==
    /\ s \in Runtime /\ g \in [Ctx -> BOOLEAN] /\ f \in [Ctx -> Frame]
    /\ SanityCheck(s)
    /\ \A c \in Ctx : FrameOK(s, g, f[c], c) /\ BlockedOK(s, f[c], c)
    /\ \A x \in Coord : QueueOK(s, f, x) /\ HeldOK(s, f, x)
    /\ \A d \in Ctx : s.held[d] <=> ~g[d]

\* Who owns what.
OwnersOK(s, f, o) ==
    /\ o \in [Lock -> Ctx \cup {NoCtx, External}]
    /\ \A x \in Lock : s.held[x] <=> o[x] # NoCtx
    /\ \A c \in Ctx : GrantsOK(s, f, o, c)

\* The inductive invariant of the locks, waits and kills of one cooperator.
IInv == StateOK(rt, signaled, frame) /\ OwnersOK(rt, frame, owner)

----------------------------------------------------------------------------
\* A killed Context in a kill-aware wait returns from it, even if nobody ever
\* releases the Locks it also waits for.
KilledWaiterReturns ==
    \A c \in Ctx :
        (signaled[c] /\ frame[c].op = "multi" /\ frame[c].args[1] = c)
            ~> frame[c].op = "none"

\* Whoever waits for a Lock gets it, when no client holds one while it waits.
LockGranted ==
    \A c \in Ctx, x \in Lock :
        (frame[c].op \in {"acquire", "flash"} /\ frame[c].args[1] = x)
            ~> frame[c].op = "none"

============================================================================
