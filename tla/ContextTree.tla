---------------------------- MODULE ContextTree ----------------------------
(* The life of a Context and its place in the tree (coop/context.cpp,        *)
(* coop/signal.cpp, Spawn in coop/cooperator.hpp, the shutdown sweep of      *)
(* Cooperator::Launch): spawn, detach, kill of a whole subtree, and the      *)
(* destructor that kills what is left and waits for the last child.          *)
(*                                                                           *)
(* Killed(c) and LastChild(c) are the Coordinators inside c's m_killedSignal *)
(* and its m_lastChild.  A name stands for the memory of a Context: it may   *)
(* be spawned again once its Context has exited.                             *)
EXTENDS Coordinator

CONSTANT
    WatchParents    \* may a child wait on the kill signal of its parent

Killed(c) == <<"killed", c>>
LastChild(c) == <<"last", c>>

ASSUME ContextTreeAssumption ==
    /\ Coord = {Killed(c) : c \in Ctx} \cup {LastChild(c) : c \in Ctx}
    /\ Cont = {}
    /\ WatchParents \in BOOLEAN

VARIABLES
    rt,         \* the cooperator's record
    contexts,   \* Cooperator::m_contexts
    parent,     \* Context::m_parent
    signaled,   \* Signal::m_signaled of each kill signal
    frame,      \* where each Context is inside the call it is making
    sweeper,    \* the Context of the shutdown sweep, once there is one
    late        \* history: whom the loop has spawned since then, and their children

swept == <<sweeper, late>>
vars == <<rt, contexts, parent, signaled, frame, swept>>

\* Context::m_children: a child joins it and m_contexts at the same time.
Children(c) == SelectSeq(contexts, LAMBDA d : parent[d] = c)

\* The next sibling of a child d (EmbeddedList::Next), if there is one.
Younger(d) ==
    LET siblings == Children(parent[d])
        at == CHOOSE i \in DOMAIN siblings : siblings[i] = d
    IN  SubSeq(siblings, at + 1, Len(siblings))

\* What a Context is doing.  In a Kill of target, at is the Context the traversal
\* has come to, stolen the waiters its Notify has yet to wake, and then what
\* follows the Kill: the body, the rest of the sweep or that of the destructor.
\* In the sweep at is the element its Visit has come to, and during one of its
\* Kills next is the element that Visit goes on with.
Doing(op) ==
    [op |-> op, target |-> NoCtx, at |-> NoCtx, stolen |-> <<>>,
     schedule |-> FALSE, then |-> "body", next |-> NoCtx]

Killing(d, schedule, then) ==
    [Doing("descend") EXCEPT !.target = d, !.at = d,
                             !.schedule = schedule, !.then = then]

Sweeping(d) == [Doing("sweep") EXCEPT !.at = d]

Running(c) == rt.scheduled = c

In(c, op) == Running(c) /\ frame[c].op = op

Free(c) == In(c, "body")

Alive(c) == rt.state[c] # "EXITED"

Goto(c, doing) == frame' = [frame EXCEPT ![c] = doing]

----------------------------------------------------------------------------
Init ==
    /\ rt = NewRuntime({Killed(c) : c \in Ctx})
    /\ contexts = <<>>
    /\ parent = [c \in Ctx |-> NoCtx]
    /\ signaled = [c \in Ctx |-> FALSE]
    /\ frame = [c \in Ctx |-> Doing("body")]
    /\ sweeper = NoCtx
    /\ late = {}

\* A new Context's own coordinators, its kill signal armed.
Construct(s, d) ==
    [s EXCEPT !.held = [@ EXCEPT ![Killed(d)] = TRUE, ![LastChild(d)] = FALSE],
              !.waiters = [@ EXCEPT ![Killed(d)] = <<>>, ![LastChild(d)] = <<>>]]

\* Mutant of Enlist: m_lastChild is not taken.
EnlistUnheld(s, p) == s

\* The constructor's part in its parent p: TryAcquire of m_lastChild.
Enlist(s, p) == IF p = NoCtx THEN s ELSE SetHeld(s, LastChild(p), TRUE)

\* Mutant of SpawnAs: a killed Context may still spawn.
SpawnAlways(d, doing) ==
    LET p == rt.scheduled
    IN  /\ ~Alive(d)
        /\ p # NoCtx => Free(p)
        /\ rt' = EnterContext(Enlist(Construct(rt, d), p), d)
        /\ contexts' = Append(contexts, d)
        /\ parent' = [parent EXCEPT ![d] = p]
        /\ signaled' = [signaled EXCEPT ![d] = FALSE]
        /\ late' = IF sweeper # NoCtx /\ p \in late \cup {NoCtx} THEN late \cup {d} ELSE late
        /\ Goto(d, doing)

\* Cooperator::Spawn by the running Context, or by the loop.
SpawnAs(d, doing) ==
    LET p == rt.scheduled
    IN  /\ ~Alive(d)
        /\ p # NoCtx => Free(p) /\ ~signaled[p]
        /\ rt' = EnterContext(Enlist(Construct(rt, d), p), d)
        /\ contexts' = Append(contexts, d)
        /\ parent' = [parent EXCEPT ![d] = p]
        /\ signaled' = [signaled EXCEPT ![d] = FALSE]
        /\ late' = IF sweeper # NoCtx /\ p \in late \cup {NoCtx} THEN late \cup {d} ELSE late
        /\ Goto(d, doing)

Spawn(d) == SpawnAs(d, Doing("body")) /\ UNCHANGED sweeper

ResumeNext ==
    /\ Running(NoCtx)
    /\ rt.yielded # <<>>
    /\ rt' = Resume(rt)
    /\ UNCHANGED <<contexts, parent, signaled, frame, swept>>

Yield(c) ==
    /\ Free(c)
    /\ rt' = YieldFrom(rt, c)
    /\ UNCHANGED <<contexts, parent, signaled, frame, swept>>

\* Signal::Wait on the kill signal of d; it returns when it has been notified.
WaitKilled(c, d) ==
    /\ Free(c)
    /\ d = c \/ (WatchParents /\ d = parent[c])
    /\ ~signaled[d]
    /\ rt' = Acquire(rt, Killed(d), c)
    /\ Goto(c, [Doing("wait") EXCEPT !.target = d])
    /\ UNCHANGED <<contexts, parent, signaled, swept>>

WaitReturns(c) ==
    /\ In(c, "wait")
    /\ rt' = [rt EXCEPT !.satisfied[c] = {}]
    /\ Goto(c, Doing("body"))
    /\ UNCHANGED <<contexts, parent, signaled, swept>>

----------------------------------------------------------------------------
(* Context::Detach                                                           *)

\* The parent's m_lastChild is released when c was its only child.
LeaveParent(s, c) ==
    IF parent[c] = NoCtx \/ Children(parent[c]) # <<c>> THEN s
    ELSE Release(s, LastChild(parent[c]), FALSE)

Detach(c) ==
    /\ Free(c)
    /\ parent[c] # NoCtx
    /\ rt' = LeaveParent(rt, c)
    /\ parent' = [parent EXCEPT ![c] = NoCtx]
    /\ UNCHANGED <<contexts, signaled, frame, swept>>

----------------------------------------------------------------------------
(* Context::Kill                                                             *)

\* Handle::Kill: a Kill with schedule through the Handle of d, which its
\* destructor clears.
Kill(c, d) ==
    /\ Free(c)
    /\ Alive(d) /\ frame[d].op \notin {"last", "joined"}
    /\ Goto(c, Killing(d, TRUE, "body"))
    /\ UNCHANGED <<rt, contexts, parent, signaled, swept>>

\* Down to the leftmost leaf.
Descend(c) ==
    LET below == Children(frame[c].at)
    IN  /\ In(c, "descend")
        /\ IF below # <<>> THEN Goto(c, [frame[c] EXCEPT !.at = Head(below)])
           ELSE Goto(c, [frame[c] EXCEPT !.op = "notify"])
        /\ UNCHANGED <<rt, contexts, parent, signaled, swept>>

\* Signal::Notify up to its loop: the waiters are stolen.
Notify(c) ==
    LET x == Killed(frame[c].at)
    IN  /\ In(c, "notify")
        /\ signaled' = [signaled EXCEPT ![frame[c].at] = TRUE]
        /\ rt' = [SetHeld(rt, x, FALSE) EXCEPT !.waiters[x] = <<>>]
        /\ Goto(c, [frame[c] EXCEPT !.op = "wake", !.stolen = rt.waiters[x]])
        /\ UNCHANGED <<contexts, parent, swept>>

\* Only the target's waiters are switched to.
Switches(k) == k.schedule /\ k.at = k.target

\* Mutant of Wake: Notify wakes one waiter, as Release does.
WakeFirst(c) ==
    LET k == frame[c]
    IN  /\ In(c, "wake")
        /\ k.stolen # <<>>
        /\ rt' = WakeWaiter(rt, Killed(k.at), Head(k.stolen), Switches(k))
        /\ Goto(c, [k EXCEPT !.stolen = <<>>])
        /\ UNCHANGED <<contexts, parent, signaled, swept>>

\* One turn of Notify's loop.
Wake(c) ==
    LET k == frame[c]
    IN  /\ In(c, "wake")
        /\ k.stolen # <<>>
        /\ rt' = WakeWaiter(rt, Killed(k.at), Head(k.stolen), Switches(k))
        /\ Goto(c, [k EXCEPT !.stolen = Tail(@)])
        /\ UNCHANGED <<contexts, parent, signaled, swept>>

\* Mutant of Ascend: siblings are passed over.
AscendAtOnce(c) ==
    LET k == frame[c]
    IN  /\ In(c, "wake")
        /\ k.stolen = <<>> /\ k.at # k.target
        /\ Goto(c, [k EXCEPT !.op = "notify", !.at = parent[k.at]])
        /\ UNCHANGED <<rt, contexts, parent, signaled, swept>>

\* On to the next sibling's subtree or, past the last child, to the parent.
Ascend(c) ==
    LET k == frame[c]
        next == Younger(k.at)
    IN  /\ In(c, "wake")
        /\ k.stolen = <<>> /\ k.at # k.target
        /\ IF next # <<>> THEN Goto(c, [k EXCEPT !.op = "descend", !.at = Head(next)])
           ELSE Goto(c, [k EXCEPT !.op = "notify", !.at = parent[k.at]])
        /\ UNCHANGED <<rt, contexts, parent, signaled, swept>>

KillReturns(c) ==
    /\ In(c, "wake")
    /\ frame[c].stolen = <<>> /\ frame[c].at = frame[c].target
    /\ Goto(c, [Doing(frame[c].then) EXCEPT !.at = frame[c].next])
    /\ UNCHANGED <<rt, contexts, parent, signaled, swept>>

----------------------------------------------------------------------------
(* ~Context                                                                  *)

\* The body has returned: detach, and Kill(this) if nobody did before.
Destroy(c) ==
    /\ rt' = LeaveParent(rt, c)
    /\ parent' = [parent EXCEPT ![c] = NoCtx]
    /\ Goto(c, IF signaled[c] THEN Doing("last") ELSE Killing(c, TRUE, "last"))
    /\ UNCHANGED <<contexts, signaled, swept>>

EndBody(c) == Free(c) /\ Destroy(c)

\* Acquire of m_lastChild while there are children.
AwaitChildren(c) ==
    /\ In(c, "last")
    /\ rt.held[LastChild(c)]
    /\ rt' = Acquire(rt, LastChild(c), c)
    /\ Goto(c, Doing("joined"))
    /\ UNCHANGED <<contexts, parent, signaled, swept>>

\* Mutant of Exit: m_lastChild is not waited for.
ExitAtOnce(c) ==
    /\ In(c, "last") \/ In(c, "joined")
    /\ rt' = [ExitContext(rt, c) EXCEPT !.satisfied[c] = {}]
    /\ contexts' = SelectSeq(contexts, LAMBDA d : d # c)
    /\ Goto(c, Doing("body"))
    /\ UNCHANGED <<parent, signaled, swept>>

\* With m_lastChild taken the Context leaves m_contexts and its stack is freed.
Exit(c) ==
    /\ (In(c, "last") /\ ~rt.held[LastChild(c)]) \/ In(c, "joined")
    /\ rt' = [ExitContext(rt, c) EXCEPT !.satisfied[c] = {}]
    /\ contexts' = SelectSeq(contexts, LAMBDA d : d # c)
    /\ Goto(c, Doing("body"))
    /\ UNCHANGED <<parent, signaled, swept>>

----------------------------------------------------------------------------
(* The shutdown sweep                                                        *)

\* The loop spawns the Context of the sweep, once; it is at the end of the list
\* that it visits.
StartSweep(k) ==
    /\ Running(NoCtx)
    /\ sweeper = NoCtx
    /\ SpawnAs(k, Sweeping(Head(Append(contexts, k))))
    /\ sweeper' = k

\* The element after d in m_contexts, if there is one.
Following(d) ==
    LET at == CHOOSE i \in DOMAIN contexts : contexts[i] = d
    IN  IF at = Len(contexts) THEN NoCtx ELSE contexts[at + 1]

\* Mutant of Sweep: the Visit stops at a Context that is killed already.
SweepStopping(c) ==
    LET d == frame[c].at
    IN  /\ In(c, "sweep")
        /\ \/ (d = NoCtx \/ (d \in Ctx \ {c} /\ signaled[d])) /\ Destroy(c)
           \/ /\ d # NoCtx /\ (d = c \/ ~signaled[d])
              /\ Goto(c, IF d = c THEN Sweeping(Following(d))
                         ELSE [Killing(d, FALSE, "sweep") EXCEPT !.next = Following(d)])
              /\ UNCHANGED <<rt, contexts, parent, signaled, swept>>

\* One turn of the Visit of m_contexts, which knows the next element before it
\* kills this one.  After the last the Context of the sweep ends.
Sweep(c) ==
    LET d == frame[c].at
    IN  /\ In(c, "sweep")
        /\ \/ d = NoCtx /\ Destroy(c)
           \/ /\ d # NoCtx
              /\ Goto(c, IF d = c \/ signaled[d] THEN Sweeping(Following(d))
                         ELSE [Killing(d, FALSE, "sweep") EXCEPT !.next = Following(d)])
              /\ UNCHANGED <<rt, contexts, parent, signaled, swept>>

----------------------------------------------------------------------------
\* A Context inside a call goes on with it when it runs.
Proceed(c) ==
    \/ WaitReturns(c)
    \/ Descend(c)
    \/ Notify(c)
    \/ Wake(c)
    \/ Ascend(c)
    \/ KillReturns(c)
    \/ Sweep(c)
    \/ AwaitChildren(c)
    \/ Exit(c)

Next ==
    \/ ResumeNext
    \/ \E c \in Ctx :
        \/ Spawn(c)
        \/ StartSweep(c)
        \/ Yield(c)
        \/ Detach(c)
        \/ EndBody(c)
        \/ Proceed(c)
        \/ \E d \in Ctx : WaitKilled(c, d) \/ Kill(c, d)

Spec == Init /\ [][Next]_vars

\* The loop keeps resuming, a running Context goes on with its call and outside
\* one sooner or later yields, and a body that keeps running finds out that it
\* has been killed and returns.
Fairness ==
    /\ WF_vars(ResumeNext)
    /\ \A c \in Ctx :
        /\ WF_vars(Proceed(c))
        /\ WF_vars(Yield(c))
        /\ SF_vars(signaled[c] /\ EndBody(c))

----------------------------------------------------------------------------
Frame ==
    [op : {"body", "wait", "descend", "notify", "wake", "sweep", "last", "joined"},
     target : Ctx \cup {NoCtx}, at : Ctx \cup {NoCtx}, stolen : Seq(Ctx),
     schedule : BOOLEAN, then : {"body", "sweep", "last"}, next : Ctx \cup {NoCtx}]

\* The types of the variables.
TypeOK ==
    /\ rt \in Runtime
    /\ contexts \in Seq(Ctx)
    /\ parent \in [Ctx -> Ctx \cup {NoCtx}]
    /\ signaled \in [Ctx -> BOOLEAN]
    /\ frame \in [Ctx -> Frame]
    /\ sweeper \in Ctx \cup {NoCtx} /\ late \subseteq Ctx

\* cooperator.cpp's SanityCheck, with kills that switch in the middle of a
\* destructor; and m_contexts lists exactly the Contexts that exist.
ListsAgree ==
    /\ SanityCheck(rt)
    /\ Distinct(contexts)
    /\ Members(contexts) = {c \in Ctx : Alive(c)}

\* A kill never leaves a subtree half alive: at every step, also in the middle of
\* Kill's traversal, the children of a killed Context are killed (Kill goes bottom
\* up and Spawn refuses a killed parent).
KilledBelow ==
    \A c \in Ctx : Alive(c) /\ parent[c] # NoCtx /\ signaled[parent[c]] => signaled[c]

\* m_lastChild is held exactly while there is a child, so the destructor neither
\* misses one nor waits for nothing.
LastChildHeld ==
    \A c \in Ctx : Alive(c) =>
        (rt.held[LastChild(c)] <=> (Children(c) # <<>> \/ LastChild(c) \in rt.satisfied[c]))

\* Nothing refers to a Context whose stack was freed: no child, no waiter on its
\* coordinators, no traversal that still has to come by it, and not the Visit of
\* the sweep, which has read its next element before a Kill.
NothingDangles ==
    \A d \in Ctx : ~Alive(d) =>
        /\ rt.waiters[Killed(d)] = <<>> /\ rt.waiters[LastChild(d)] = <<>>
        /\ \A c \in Ctx : Alive(c) =>
            /\ parent[c] # d
            /\ frame[c].op \in {"descend", "notify", "sweep"} => frame[c].at # d
            /\ frame[c].next # d
            /\ frame[c].op = "wake" /\ frame[c].at # frame[c].target =>
                 d \notin {frame[c].at, frame[c].target}

\* No wakeup is lost: a Context blocked on a kill signal will still be notified,
\* by whoever fires it or by the notifier that stole it; one blocked on its last
\* child has a child.
NoStranded ==
    \A c \in Ctx : rt.state[c] = "BLOCKED" =>
        \/ /\ frame[c].op = "wait"
           /\ LET d == frame[c].target
              IN  \/ Alive(d) /\ ~signaled[d] /\ c \in Members(rt.waiters[Killed(d)])
                  \/ \E n \in Ctx : frame[n].op = "wake" /\ c \in Members(frame[n].stolen)
        \/ frame[c].op = "joined" /\ Children(c) # <<>>

\* One pass is enough: from the end of the sweep on, whoever is alive and not
\* killed was spawned later by the loop, or below such a Context.  The Visit has
\* come by everybody, also by those that a Kill below them reached first, and what
\* it has killed cannot spawn past it (Spawn refuses a killed Context).
SweepReachesAll ==
    sweeper # NoCtx /\ "sweep" \notin {frame[sweeper].op, frame[sweeper].then} =>
        \A c \in Ctx \ {sweeper} : Alive(c) /\ ~signaled[c] => c \in late

\* A killed Context exits, children first: nobody's destructor waits for ever.
KilledExits ==
    \A c \in Ctx : Alive(c) /\ signaled[c] ~> ~Alive(c)

============================================================================
