---------------------------- MODULE Coordinator ----------------------------
(* The Coordinator, coop's one synchronisation primitive, and the Signal     *)
(* built on it (coop/coordinator.cpp, coop/signal.cpp), as operators on the  *)
(* cooperator's record.  Its fields, besides those of Scheduler:             *)
(*                                                                           *)
(*   held       Coordinator::m_held                                          *)
(*   waiters    Coordinator::m_blocking, head first; a waiter is a Context   *)
(*              or a Continuation (coop/continuation.h)                      *)
(*   satisfied  the coordinators whose Coordinated of this waiter has had    *)
(*              Satisfy() called                                             *)
(*   pending    Cooperator::m_pendingContinuations                           *)
EXTENDS Scheduler

CONSTANTS
    Coord,      \* the Coordinators, those inside Signals included
    Cont        \* the Continuations

ASSUME CoordinatorAssumption == Cont \cap Ctx = {}

Waiter == Ctx \cup Cont

Runtime ==
    [state : [Ctx -> States], yielded : Seq(Ctx), blocked : SUBSET Ctx,
     scheduled : Ctx \cup {NoCtx}, budget : Nat,
     held : [Coord -> BOOLEAN], waiters : [Coord -> Seq(Waiter)],
     satisfied : [Waiter -> SUBSET Coord], pending : Seq(Cont)]

\* The fields a cooperator has before any Context runs.  A Coordinator starts
\* free unless it is in `initiallyHeld` (Signal's constructor holds its own).
NewRuntime(initiallyHeld) ==
    [state |-> [c \in Ctx |-> "EXITED"], yielded |-> <<>>, blocked |-> {},
     scheduled |-> NoCtx, budget |-> 0,
     held |-> [x \in Coord |-> x \in initiallyHeld],
     waiters |-> [x \in Coord |-> <<>>],
     satisfied |-> [w \in Waiter |-> {}],
     pending |-> <<>>]

----------------------------------------------------------------------------
(* The steps the calls below are made of.                                    *)

SetHeld(s, x, held) ==
    [s EXCEPT !.held[x] = held]

\* Mutant of AddAsBlocked: the wait list is a stack.
AddInFront(s, x, w) ==
    [s EXCEPT !.satisfied[w] = @ \ {x}, !.waiters[x] = <<w>> \o @]

AddAsBlocked(s, x, w) ==
    [s EXCEPT !.satisfied[w] = @ \ {x}, !.waiters[x] = Append(@, w)]

PopWaiter(s, x) ==
    [s EXCEPT !.waiters[x] = Tail(@)]

\* The waiter is on the list once; unlinking it keeps the order of the rest.
Without(seq, w) ==
    IF w \notin Members(seq) THEN seq
    ELSE LET at == CHOOSE i \in DOMAIN seq : seq[i] = w
         IN  [i \in 1 .. Len(seq) - 1 |-> IF i < at THEN seq[i] ELSE seq[i + 1]]

\* Mutant of RemoveAsBlocked: the Coordinated stays linked.
StayLinked(s, x, w) == s

RemoveAsBlocked(s, x, w) ==
    [s EXCEPT !.waiters[x] = Without(@, w)]

Satisfy(s, x, w) ==
    [s EXCEPT !.satisfied[w] = @ \cup {x}]

QueueContinuation(s, k) ==
    [s EXCEPT !.pending = Append(@, k)]

\* Cooperator::WakeWaiter.
WakeWaiter(s, x, w, schedule) ==
    IF w \in Ctx THEN Unblock(Satisfy(s, x, w), w, schedule)
    ELSE QueueContinuation(Satisfy(s, x, w), w)

----------------------------------------------------------------------------
(* Coordinator                                                               *)

\* Coordinator::TryAcquire of a free coordinator.
TryAcquire(s, x) == SetHeld(s, x, TRUE)

\* Coordinator::Acquire.  The caller goes on only once it has been granted x.
Acquire(s, x, c) ==
    IF ~s.held[x] THEN TryAcquire(s, x)
    ELSE Block(AddAsBlocked(s, x, c), c)

\* Mutant of Release: x is left free while it is handed over.
ReleaseUnheld(s, x, schedule) ==
    IF ~s.held[x] THEN s
    ELSE IF s.waiters[x] = <<>> THEN SetHeld(s, x, FALSE)
    ELSE WakeWaiter(SetHeld(PopWaiter(s, x), x, FALSE), x, Head(s.waiters[x]), schedule)

\* Coordinator::Release and ReleaseToNext: a Context at the head of the list
\* gets x while it is still held, a Continuation is queued and x is left free.
Release(s, x, schedule) ==
    IF ~s.held[x] THEN s
    ELSE IF s.waiters[x] = <<>> THEN SetHeld(s, x, FALSE)
    ELSE LET next == Head(s.waiters[x])
         IN  WakeWaiter(SetHeld(PopWaiter(s, x), x, next \in Ctx), x, next, schedule)

----------------------------------------------------------------------------
(* Signal                                                                    *)

\* Signal::Notify up to its loop.  The wait list Notify steals stays where it
\* is: an opened coordinator is never waited on again, so only the notifier
\* (and a waiter that unlinks itself) touches the list from here on.
OpenSignal(s, x) == SetHeld(s, x, FALSE)

\* One turn of Notify's loop.
NotifyHead(s, x, schedule) ==
    WakeWaiter(PopWaiter(s, x), x, Head(s.waiters[x]), schedule)

============================================================================
