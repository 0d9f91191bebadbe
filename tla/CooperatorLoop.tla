--------------------------- MODULE CooperatorLoop --------------------------
(* Cooperator::Launch's loop and the io_uring it polls (coop/cooperator.cpp, *)
(* coop/io/uring.cpp), with Contexts that yield, wait for IO and wait for    *)
(* each other, and Continuations that fire from the loop's drains.           *)
(*                                                                           *)
(* A drain of the submission list finds at most one entry, whose Context is  *)
(* one of Submitted that is not alive: Submission has the whole list.        *)
(*                                                                           *)
(* Every operation has one owner, the Context that waits for it or the       *)
(* Continuation registered on it; the Coordinator of its io::Handle has the  *)
(* owner's name.  Gate is a Coordinator the Contexts signal each other with. *)
EXTENDS Coordinator, FiniteSets, SequencesExt

CONSTANTS
    Gate,
    Order,              \* the Contexts, in the order they were spawned
    BatchSize,          \* resumes between two batch boundaries (16)
    IoPresentLimit,     \* ioPresentLimit; 0 disables the governor
    GovernorStride,     \* kStride (4)
    DeferMinPendingOps, \* kDeferMinPendingOps (8)
    DrainBudget,        \* m_drainBudget
    DrainPeekStride,    \* m_drainPeekStride
    Submitted,          \* the Contexts other threads submit
    Bodies              \* what a Continuation may do: see RunContinuation

ASSUME LoopAssumption ==
    /\ Coord = Ctx \cup Cont \cup {Gate}
    /\ Order \in Seq(Ctx) /\ Members(Order) = Ctx /\ Distinct(Order)
    /\ Submitted \subseteq Ctx
    /\ BatchSize \in Nat \ {0}
    /\ GovernorStride \in Nat \ {0}
    /\ {IoPresentLimit, DeferMinPendingOps, DrainBudget, DrainPeekStride} \subseteq Nat

VARIABLES
    rt,         \* the cooperator's record
    ring,       \* the operations: sq prepared, inflight in the kernel, task
                \* completed but still task_work, cq completed and reapable
    pc,         \* where the loop is, or was when it resumed a Context
    iterations, \* remainingIterations
    drain       \* the budget left to the paced drain and its peek counter

vars == <<rt, ring, pc, iterations, drain>>

Owner == Ctx \cup Cont

Pending(o) ==
    o \in ring.sq \cup ring.inflight \cup Members(ring.task) \cup Members(ring.cq)

\* Uring::PendingOps.
PendingOps(r) ==
    Cardinality(r.sq) + Cardinality(r.inflight) + Len(r.task) + Len(r.cq)

HasPendingCompletions == ring.cq # <<>> \/ ring.task # <<>>

----------------------------------------------------------------------------
(* Uring                                                                     *)

\* io_uring_enter: what is prepared is submitted, one of it may complete on
\* the spot, and task_work becomes completions.
Enter(r, inline) ==
    [sq |-> {}, inflight |-> (r.inflight \cup r.sq) \ Members(inline),
     task |-> <<>>, cq |-> r.cq \o r.task \o inline]

Inline(r) == {<<>>} \cup {<<o>> : o \in r.sq}

\* Uring::Poll enters only when there is something to submit or to deliver.
PollRing(r, inline) ==
    IF r.sq # {} \/ r.task # <<>> THEN Enter(r, inline) ELSE r

\* Coordinator::Release.  The Satisfied flags are read only by MultiCoordinator,
\* which nobody uses here, and are dropped.
ReleaseIn(s, x, schedule) ==
    [Release(s, x, schedule) EXCEPT !.satisfied = [w \in Waiter |-> {}]]

\* The completions are dispatched: Handle::Finalize releases each Coordinator.
Dispatch(s, r) ==
    FoldLeft(LAMBDA t, o : ReleaseIn(t, o, FALSE), s, r.cq)

Reaped(r) == [r EXCEPT !.cq = <<>>]

\* Uring::Poll, by the loop or by the running Context.
Poll(s, r) ==
    /\ rt' = Dispatch(s, r)
    /\ ring' = Reaped(r)

----------------------------------------------------------------------------
NoDrain == [budget |-> 0, since |-> 0]

Init ==
    /\ rt = [NewRuntime({Gate}) EXCEPT !.state = [c \in Ctx |-> "YIELDED"],
                                       !.yielded = Order]
    /\ ring = [sq |-> {}, inflight |-> {}, task |-> <<>>, cq |-> <<>>]
    /\ pc = "top"
    /\ iterations = 0
    /\ drain = NoDrain

\* The drain's locals, while it runs.
EnterLeaveDrain ==
    IF pc' \in {"idle drain", "batch drain"}
    THEN drain' = [budget |-> DrainBudget, since |-> 0]
    ELSE drain' = NoDrain

InLoop(at) == rt.scheduled = NoCtx /\ pc = at

\* DrainSubmissions, from a state s of the cooperator: a submitted Context runs,
\* and the loop goes on at `after` once it has the processor again.
DrainSubmissions(s, after) ==
    \E c \in Submitted :
        /\ s.state[c] = "EXITED"
        /\ rt' = EnterContext(s, c)
        /\ pc' = after

\* The first drain of an iteration.
TopDrain ==
    /\ InLoop("top")
    /\ DrainSubmissions(rt, "drained")
    /\ UNCHANGED <<ring, iterations, drain>>

\* Something is runnable: a batch.
StartBatch ==
    /\ InLoop("top") \/ InLoop("drained")
    /\ rt.yielded # <<>>
    /\ pc' = "batch"
    /\ iterations' = BatchSize
    /\ UNCHANGED <<rt, ring, drain>>

\* Nothing is: the idle branch, whose Poll may wake Contexts that are then resumed
\* before any Continuation fires.
IdlePoll ==
    /\ InLoop("top") \/ InLoop("drained")
    /\ rt.yielded = <<>>
    /\ \E inline \in Inline(ring) :
        LET r == PollRing(ring, inline)
        IN  /\ \/ /\ rt' = Dispatch(rt, r)
                  /\ pc' = IF rt'.yielded # <<>> THEN "top" ELSE "idle drain"
               \/ DrainSubmissions(Dispatch(rt, r), "idle drained")
            /\ ring' = Reaped(r)
    /\ EnterLeaveDrain
    /\ UNCHANGED iterations

IdleDrained ==
    /\ InLoop("idle drained")
    /\ pc' = IF rt.yielded # <<>> THEN "top" ELSE "idle drain"
    /\ EnterLeaveDrain
    /\ UNCHANGED <<rt, ring, iterations>>

\* WaitAndPoll's submit; then the thread sleeps until something completes ...
Sleep ==
    /\ InLoop("sleep")
    /\ \E inline \in Inline(ring) : ring' = Enter(ring, inline)
    /\ pc' = "asleep"
    /\ UNCHANGED <<rt, iterations, drain>>

Awake ==
    /\ InLoop("asleep")
    /\ HasPendingCompletions
    /\ Poll(rt, PollRing(ring, <<>>))
    /\ pc' = "top"
    /\ UNCHANGED <<iterations, drain>>

\* ... or the system call is interrupted.
Interrupted ==
    /\ InLoop("asleep")
    /\ pc' = "top"
    /\ UNCHANGED <<rt, ring, iterations, drain>>

ResumeOne ==
    /\ InLoop("batch")
    /\ iterations > 0 /\ rt.yielded # <<>>
    /\ rt' = Resume(rt)
    /\ iterations' = iterations - 1
    /\ pc' = "reap"
    /\ UNCHANGED <<ring, drain>>

\* After a resume: reap without entering the kernel, drain the submissions, and
\* drain Continuations unless the reap woke the only runnable Context.
Reap ==
    /\ InLoop("reap")
    /\ ring' = Reaped(ring)
    /\ \/ /\ rt' = Dispatch(rt, ring)
          /\ pc' = IF rt.yielded # <<>> \/ rt'.yielded = <<>> THEN "batch drain" ELSE "batch"
       \/ DrainSubmissions(Dispatch(rt, ring), "reap drained")
    /\ EnterLeaveDrain
    /\ UNCHANGED iterations

\* A drain that leaves something runnable ends the batch.
ReapDrained ==
    /\ InLoop("reap drained")
    /\ pc' = IF rt.yielded # <<>> THEN "boundary" ELSE "batch drain"
    /\ EnterLeaveDrain
    /\ UNCHANGED <<rt, ring, iterations>>

BatchEnds ==
    \/ InLoop("boundary")
    \/ InLoop("batch") /\ (iterations = 0 \/ rt.yielded = <<>>)

\* Mutant of BatchBoundary: it reaps without entering the kernel.
BoundaryReapOnly ==
    /\ BatchEnds
    /\ Poll(rt, ring)
    /\ pc' = "top"
    /\ iterations' = 0
    /\ UNCHANGED drain

BatchBoundary ==
    /\ BatchEnds
    /\ \E inline \in Inline(ring) : Poll(rt, PollRing(ring, inline))
    /\ pc' = "top"
    /\ iterations' = 0
    /\ UNCHANGED drain

----------------------------------------------------------------------------
(* DrainContinuationsPaced                                                   *)

\* Mutant of AfterDrain: it does not look at what the Continuations made ready.
SleepAnyway(s, r) ==
    IF pc = "batch drain" THEN "batch"
    ELSE IF s.blocked # {} \/ PendingOps(r) > 0 THEN "sleep"
    ELSE "batch"

\* Where the loop goes after a drain: in the idle branch, to sleep only when
\* nothing is runnable and something can wake it.
AfterDrain(s, r) ==
    IF pc = "batch drain" THEN "batch"
    ELSE IF s.yielded # <<>> \/ s.pending # <<>> THEN "top"
    ELSE IF s.blocked # {} \/ PendingOps(r) > 0 THEN "sleep"
    ELSE "batch"

DrainEmpty ==
    /\ InLoop("idle drain") \/ InLoop("batch drain")
    /\ rt.pending = <<>>
    /\ pc' = AfterDrain(rt, ring)
    /\ EnterLeaveDrain
    /\ UNCHANGED <<rt, ring, iterations>>

\* What a Continuation does: nothing, start its next operation, hand over at
\* once to the next stage of an always-ready chain, or release the Gate.
Body(body, k, s) ==
    CASE body = "done"    -> s
      [] body = "rearm"   -> AddAsBlocked(TryAcquire(s, k), k, k)
      [] body = "chain"   -> ReleaseIn(AddAsBlocked(TryAcquire(s, k), k, k), k, FALSE)
      [] body = "release" -> ReleaseIn(s, Gate, FALSE)

\* One turn of the drain: run the Continuation, then stop at the end of the
\* budget, or at a peek that finds completions.
RunContinuation ==
    /\ InLoop("idle drain") \/ InLoop("batch drain")
    /\ rt.pending # <<>>
    /\ \E body \in Bodies :
        LET k == Head(rt.pending)
            peek == DrainPeekStride > 0 /\ drain.since + 1 >= DrainPeekStride
            stop == drain.budget = 1 \/ (peek /\ HasPendingCompletions)
        IN  /\ rt' = Body(body, k, [rt EXCEPT !.pending = Tail(@)])
            /\ ring' = IF body = "rearm" THEN [ring EXCEPT !.sq = @ \cup {k}] ELSE ring
            /\ pc' = IF stop THEN AfterDrain(rt', ring') ELSE pc
            /\ drain' = IF stop THEN NoDrain
                        ELSE [budget |-> IF drain.budget = 0 THEN 0 ELSE drain.budget - 1,
                              since |-> IF peek THEN 0 ELSE drain.since + 1]
    /\ UNCHANGED iterations

----------------------------------------------------------------------------
(* Contexts                                                                  *)

Running(c) == rt.scheduled = c

\* YieldFrom's governor polls when IO is waiting and then shortens the chain.
Governed ==
    /\ CanSwitchDirect(rt)
    /\ IoPresentLimit > 0
    /\ \/ ring.sq # {}
       \/ rt.budget % GovernorStride = 0 /\ HasPendingCompletions

Yield(c) ==
    /\ Running(c)
    /\ ~Governed
    /\ rt' = YieldFrom(rt, c)
    /\ UNCHANGED <<ring, pc, iterations, drain>>

GovernedYield(c) ==
    /\ Running(c)
    /\ Governed
    /\ \E inline \in Inline(ring) :
        LET r == PollRing(ring, inline)
            s == Dispatch(rt, r)
            left == IF s.budget > IoPresentLimit THEN IoPresentLimit ELSE s.budget
        IN  /\ rt' = YieldFrom([s EXCEPT !.budget = left], c)
            /\ ring' = Reaped(r)
    /\ UNCHANGED <<pc, iterations, drain>>

\* Mutant of WaitIo: the Context is linked before the Poll, and blocks after it
\* whatever the Poll delivered.
LinkBeforePoll(c) ==
    LET r == [ring EXCEPT !.sq = @ \cup {c}]
        s == AddAsBlocked(TryAcquire(rt, c), c, c)
    IN  /\ Running(c)
        /\ \E inline \in Inline(r) :
            LET polled == PollRing(r, inline)
            IN  /\ rt' = Block(Dispatch(s, polled), c)
                /\ ring' = Reaped(polled)
        /\ UNCHANGED <<pc, iterations, drain>>

\* Handle::Submit and Handle::Wait: a Poll that may complete the operation on
\* the spot (skipped when much IO is in flight), else the Context blocks.
WaitIo(c) ==
    LET r == [ring EXCEPT !.sq = @ \cup {c}]
        s == TryAcquire(rt, c)
        defer == PendingOps(r) > DeferMinPendingOps
    IN  /\ Running(c)
        /\ IF defer
           THEN /\ rt' = Acquire(s, c, c)
                /\ ring' = r
           ELSE \E inline \in Inline(r) :
                LET polled == PollRing(r, inline)
                    t == Dispatch(s, polled)
                IN  /\ rt' = IF c \in Members(polled.cq) THEN t ELSE Acquire(t, c, c)
                    /\ ring' = Reaped(polled)
        /\ UNCHANGED <<pc, iterations, drain>>

\* An operation whose completion fires k; nobody waits for it.
SubmitDetached(c, k) ==
    /\ Running(c)
    /\ ~Pending(k)
    /\ k \notin Members(rt.pending)
    /\ rt' = AddAsBlocked(TryAcquire(rt, k), k, k)
    /\ ring' = [ring EXCEPT !.sq = @ \cup {k}]
    /\ UNCHANGED <<pc, iterations, drain>>

WaitGate(c) ==
    /\ Running(c)
    /\ rt' = Acquire(rt, Gate, c)
    /\ UNCHANGED <<ring, pc, iterations, drain>>

ReleaseGate(c, schedule) ==
    /\ Running(c)
    /\ rt.held[Gate]
    /\ rt' = ReleaseIn(rt, Gate, schedule)
    /\ UNCHANGED <<ring, pc, iterations, drain>>

Exit(c) ==
    /\ Running(c)
    /\ rt' = ExitContext(rt, c)
    /\ UNCHANGED <<ring, pc, iterations, drain>>

----------------------------------------------------------------------------
(* The kernel, which runs beside the cooperator's thread.                    *)

Complete(o) ==
    /\ o \in ring.inflight
    /\ ring' = [ring EXCEPT !.inflight = @ \ {o}, !.task = Append(@, o)]
    /\ UNCHANGED <<rt, pc, iterations, drain>>

\* task_work may also run outside an enter, at any return to user mode.
RunTaskWork ==
    /\ ring.task # <<>>
    /\ ring' = [ring EXCEPT !.cq = @ \o ring.task, !.task = <<>>]
    /\ UNCHANGED <<rt, pc, iterations, drain>>

----------------------------------------------------------------------------
Loop ==
    \/ TopDrain
    \/ StartBatch
    \/ IdlePoll
    \/ IdleDrained
    \/ Sleep
    \/ Awake
    \/ ResumeOne
    \/ Reap
    \/ ReapDrained
    \/ BatchBoundary
    \/ DrainEmpty
    \/ RunContinuation

Kernel == RunTaskWork \/ \E o \in Owner : Complete(o)

Next ==
    \/ Loop
    \/ Interrupted
    \/ Kernel
    \/ \E c \in Ctx :
        \/ Yield(c)
        \/ GovernedYield(c)
        \/ WaitIo(c)
        \/ WaitGate(c)
        \/ Exit(c)
        \/ \E schedule \in BOOLEAN : ReleaseGate(c, schedule)
        \/ \E k \in Cont : SubmitDetached(c, k)

\* The cooperator's thread: the loop whenever no Context runs, and a running Context
\* sooner or later yields.
Thread ==
    \/ Loop
    \/ \E c \in Ctx : Yield(c) \/ GovernedYield(c)

\* The thread keeps running.  Nothing is assumed of when IO completes.
FairSpec == Init /\ [][Next]_vars /\ WF_vars(Thread)

\* The one state without a step of the thread.
ThreadSleeps == InLoop("asleep") /\ ~HasPendingCompletions

\* WF_vars(Thread), with ENABLED written out: TLC evaluates it many times as fast.
ThreadRuns == []<>ThreadSleeps \/ []<><<Thread>>_vars

Spec == Init /\ [][Next]_vars /\ ThreadRuns

----------------------------------------------------------------------------
\* The types of the loop's variables; the counters stay within their bounds.
TypeOK ==
    /\ rt \in Runtime
    /\ ring \in [sq : SUBSET Owner, inflight : SUBSET Owner,
                 task : Seq(Owner), cq : Seq(Owner)]
    /\ pc \in {"top", "drained", "idle drained", "idle drain", "sleep", "asleep",
               "batch", "reap", "reap drained", "batch drain", "boundary"}
    /\ iterations \in 0 .. BatchSize
    /\ drain \in [budget : 0 .. DrainBudget, since : Nat]

\* cooperator.cpp's SanityCheck, with polls inside yields and waits.
ListsAgree == SanityCheck(rt)

\* A blocked Context is queued on the Gate, or on its own operation, and that is
\* somewhere between the submission queue and the completion queue: no Poll
\* delivers a wake to a Context that is not yet on the blocked list (the hazard
\* Cooperator::Block's comment names).
IoWaiterHasOp ==
    \A c \in Ctx : rt.state[c] = "BLOCKED" =>
        \/ c \in Members(rt.waiters[Gate])
        \/ c \in Members(rt.waiters[c]) /\ Pending(c)

\* Every runnable Context is resumed, however the others yield, wake each other
\* ahead of the list, are submitted or complete IO; in particular the thread never
\* goes to sleep on one.
RunnableRuns ==
    \A c \in Ctx : rt.state[c] = "YIELDED" ~> rt.state[c] = "RUNNING"

Unserved(o) == o \in ring.sq \cup Members(ring.task) \cup Members(ring.cq)

\* A prepared operation reaches the kernel and a completed one is dispatched,
\* even when the loop never goes idle, a chain of Continuations never ends or the
\* thread goes to sleep.
IoServed ==
    \A o \in Owner : Unserved(o) ~> ~Unserved(o)

\* cooperator.cpp: a backlog the drain defers "rides a later iteration", and "a
\* continuation chain is never starved by a steady stream of context wakes".
ContinuationFires ==
    \A k \in Cont : k \in Members(rt.pending) ~> k \notin Members(rt.pending)

============================================================================
