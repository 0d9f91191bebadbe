# coop: a verification project

coop is a C++20 runtime of stackful cooperative contexts over io_uring. This
directory holds TLA+ models of its scheduler, its synchronisation and the code
built on them, the TLC configurations that check them on small instances, and
TLAPS proofs of the theorems that hold for every size. Source paths below are
relative to the repository (`coop/...`).

## 1. The system

| part | state | operations | what makes it hard |
|---|---|---|---|
| Scheduler lists (`cooperator.cpp`) | yielded and blocked lists, the scheduled context, the direct-switch budget | YieldFrom, Resume, Block, Unblock, EnterContext, exit | a call may switch away and return much later; a context must be on exactly one list |
| Cooperator loop (`cooperator.cpp` Launch) | batch counter, drain budget, shutdown flags | idle branch, batch, reap, paced drain, boundary poll, shutdown sweep | starvation between contexts, continuations and completions; sleeping on runnable work |
| Coordinator, Signal (`coordinator.cpp`, `signal.cpp`) | held flag, FIFO of waiters | Acquire, TryAcquire, Release, Flash, Wait, Notify | ownership is handed over while held; a waiter may be a context or a continuation |
| MultiCoordinator, CoordinateWith(Kill) (`detail/multi_coordinator.h`, `coordinate_with.h`) | one Coordinated per argument | fast path, block, scan | several coordinators fire between the wake and the scan |
| Context tree (`context.cpp`, `handle.cpp`) | parent, children, kill signal, last-child coordinator | Spawn, Detach, Kill, destructor | kill while waking waiters that exit; children that outlive a detached parent |
| Continuations (`continuation.h`, `continuation_pool.cpp`) | pending list, latch | Continue, Cancel, Await, Run | a continuation at the head of a wait list takes the release |
| Submission (`cooperator.cpp`, `cooperator.hpp`) | cross-thread queue, eventfd, shutdown flag | Submit, SubmitSync, Cooperate, Drain, DrainRemaining | submissions racing shutdown |
| io::Uring, io::Handle (`io/uring.cpp`, `io/handle.cpp`) | submission and completion queues, per-op counters | Submit, Wait, Cancel, WaitKill, Callback, teardown | cancel racing completion, linked timeouts, late completions |
| ArmedHandle, BufferRing (`io/armed_handle.cpp`, `io/buffer_ring.h`) | multishot op, ring of results, kernel buffers | Arm, OnRecv, Next, Cancel, destructor | results between cancel and its acknowledgement |
| Channel, Select (`chan/channel.h`, `chan/select.h`, `chan/chan.cpp`) | ring buffer and two coordinators | Send, Recv, Try*, Drain, SendAll, Shutdown, Select | a granted side is not empty/full any more when its context runs |
| Subscribe, pipelines (`chan/subscribe.h`, `merge.h`, `pipe.h`, `filter.h`, `ticker.h`) | arms re-registered per event | arm, fire, retire, Stop | retire against a queued firing |
| Passage (`chan/passage.h`, `chan/guarded_passage.h`) | MPSC/SPSC rings, wake flag | Push, Pop, Recv, Send, Shutdown | lost wakes between threads, uncommitted head |
| Timers (`time/timer_queue.*`, `time/sleep.cpp`) | pairing heap, kernel timer | Insert, Remove, PopExpired, Sleep | timeout against wake, one kernel timer for many |
| Epoch (`epoch/epoch.cpp`) | global epoch, pins, retire lists | Enter, Exit, Pin, Retire, Reclaim | a stale watermark frees what is still read |
| Work grid (`work/*`) | Chase-Lev deques, doorbells | Shed, Steal, PopBottom, Join | last-item race, missed doorbell |
| Memory (`stack_pool.cpp`, `continuation_pool.cpp`, `alloc.h`, `detail/bump.h`) | free lists | Allocate, Free, Drain | caps and reuse |
| io helpers, TLS, resolve (`io/*.cpp`, `io/ssl/*`) | per-call locals | read, send, connect, ... | partial transfers |
| HTTP, WebSocket (`http/*`, `ws/*`) | parser states | parse, serve, frame | byte-level protocol |
| perf, topology (`perf/*`, `topology.cpp`) | counters, code patching | probes | none for the runtime's correctness |

A cooperator is one thread: between two context switches nothing else touches
its lists. The models therefore interleave at context switches inside a
cooperator, and at every shared-memory access between threads.

## 2. Modules

**Scheduler**, **Coordinator**. The fields of a cooperator are one record, and
each C++ call is an operator from that record to the record after the call
(`YieldFrom(s, c)`, `Release(s, x, schedule)`). A handler that makes several
calls composes the operators, so an action is always the whole handler. A call
that may switch away in the middle is split there: what follows is a step of
its own, taken when the context runs again.

**Coordination** (EXTENDS Coordinator). Contexts that lock, wait on several
coordinators, submit IO, flash, and kill each other. `frame[c]` is where context
c is inside the call it is making: its arguments, the index of MultiCoordinator's
scan, the winner so far. `owner` is a history variable: the code knows only that
a coordinator is held.

**CooperatorLoop** (EXTENDS Coordinator). `Cooperator::Launch` with its idle
branch, batches, paced continuation drain, its three submission drains, the
direct-switch governor, and io_uring as four stages an operation passes through
(prepared, in flight, completed as task_work, reapable). A drain of submissions
finds nothing, or one Context that then runs; the list itself is in Submission.

**ContextTree** (EXTENDS Coordinator). Contexts that are spawned under a parent,
detach, kill each other and exit. The Coordinators are those inside each Context:
its kill signal and its last-child coordinator. `Kill` is the C++ traversal step by
step (`Descend` to the leftmost leaf, `Notify`, one `Wake` per stolen waiter,
`Ascend` to the next sibling). Below the target the wakes do not switch; the target's
own Notify, which comes last, switches to its waiters when `schedule` is set, and they
change the tree before Kill returns (`Switches`). The destructor is `EndBody`,
`AwaitChildren` and `Exit`. The shutdown sweep is one pass over `m_contexts`
(`EmbeddedList::Visit`, which reads the next element before it hands out this one):
`at` is the element it has come to, `next` the one it goes on with after a Kill. A name
is the memory of a Context, and `NothingDangles` says that nothing refers to it once
the Context has exited, those two pointers included. `late` is a history variable:
whom the loop has spawned since the sweep began, and what they spawned.

**Submission**. Threads that call Submit, SubmitSync or Cooperate, against
Shutdown, ShutdownAll and the exit of the loop. The call is three steps (read the
flag, link the entry, write the eventfd), a Shutdown is two (set the flag, write the
eventfd), ShutdownAll is a Shutdown under the registry's lock after it has closed the
gate, and Launch takes that lock to register and to leave. The loop is a step per
access to what it shares with the threads, but for a Poll or a read of the flag right
before a drain, which commute with what the threads do in between. The drainer Context
keeps the processor until it spawns, parks in its read or waits; Launch runs it up to
there before the loop is entered, and its read may complete on the spot, so it can have
several entries in hand when the sweep kills it. A task polls whenever it waits for IO,
as `Handle::Wait` does. `on` says who has the processor and whether a Context that switches
away may switch straight to another one (`DirectYield`). A job is a task, which ends
by itself and may wait for IO, or a service, which waits to be killed; the yielded
list is a set. `CanRead` stands for io_uring and the eventfd: a read completes once
the count is above zero, and takes it to zero.

**CoordinatorProofs**, **CoordinationLemmas**, **CoordinationSteps**,
**CoordinationProofs**: section 5.

## 3. Runs

| run | instance | shows |
|---|---|---|
| coordination | 3 contexts, 2 locks, lists of 1 to 3 arguments, budget 1 | no lost wakeup (NoStranded), no lost release (HeldIffOwned), CoordinateWith takes exactly one (ExactlyOneTaken), lists agree, and the inductive invariant |
| kill_wakes | 3 contexts, 1 lock, fair | a killed context returns from its kill-aware wait |
| lock_fairness | 3 contexts, 1 lock, fair, owners release | whoever waits for a lock gets it |
| loop | 3 contexts, one of them also submitted, 1 continuation, batch 2, budgets 1 to 2, fair | no wake is delivered to a context that is not parked yet, every runnable context runs although two others may wake each other ahead of it, every operation is submitted and reaped (so the thread never sleeps on either) |
| continuation_starved | as loop, 2 contexts, nothing submitted | violated: see section 6 |
| tree | 4 contexts, each spawned once, budget 0 | nothing refers to an exited Context, nobody blocked on a kill signal or a last child is forgotten, no step of a kill leaves a live child below a killed Context, a parent's last-child coordinator is held exactly while it has children, one pass of the sweep reaches everybody |
| tree_live | 3 contexts, budget 1, fair | a killed Context exits: its destructor does not wait for ever |
| submission | SubmitSync for a task, Cooperate for a service, both shutdowns, failing allocations, direct switches | no entry is lost or handled twice, no answer is false, the loop does not sleep on a submission before the sweep |
| submission_live | Submit of a service, SubmitSync of a task, Shutdown, fair, no direct switches | what was on the list before the shutdown is answered, what was there before the sweep ends or is refused (and a waiting submitter told), Launch returns |
| shutdown_missed, submit_sync_lost, late_submission | the same pair of threads | violated: see section 6 |

Bounds. Three contexts in Coordination give a holder, a waiter that is woken and a
second waiter behind it, or a killer, its target and a third party; two locks let two
coordinators fire between a wake and a scan. Batch, budget, stride and drain
constants are 16, 64, 4 and more in the code and 1 or 2 in the models: what
matters is that each can be exhausted and refilled. Contexts are symmetric in
the safety runs of Coordination and ContextTree, which name none of them; liveness
runs use no symmetry. Four Contexts in a tree give an outsider that kills a chain of three or a
parent with two children; each name is used once and killed once (`Once`), which
keeps them within reach. Two submitting threads are enough for one that is late and one
that is not, and for a drain, the loop's or the drainer's, that is interrupted
between two entries: the drainer's when both are linked before Launch and it is then
killed with the second in hand. Each thread submits once and each shutdown is asked
for once. `submission_live` has Shutdown and no ShutdownAll: behind the gate Launch
returns at once and answers nobody. Three contexts in `loop` are two that signal each
other and a third that is runnable meanwhile.

Deadlock is not checked in these runs: a program whose contexts all wait for
each other, or have all exited, stops.

Fairness. The loop runs whenever no context does and a running context goes on
with the call it is making: one thread executes them. A context that is in no
call yields sooner or later, which is what cooperative scheduling asks of a
program. IO completes in `kill_wakes` and `lock_fairness`; nothing is assumed of
it in `loop` and `continuation_starved`, whose one fairness condition is weak fairness
of the cooperator's thread; `loop` has it with ENABLED written out (`ThreadRuns`). In `tree_live` the body of
a killed Context returns some time after it has seen the kill (strong fairness, as it
runs only now and then); nothing is asked of a body that has not been killed. In the
Submission runs the threads that have begun a call go on with it, a yielded Context
is resumed (which `loop` checks of the loop itself), a task ends after finitely many
waits, and a sleep that something could end is not interrupted every time; nobody has
to ask for the shutdown, and the interrupted system call that happens to wake the loop
is not counted on.
`lock_fairness` also assumes clients that release what they
own and wait for nothing meanwhile: without it two locks can be taken in opposite
orders.

## 4. Abstractions

A context is a name; what it runs is any sequence of calls. A context that
exited may be spawned again under the same name (not in the tree runs). Statistics, perf counters,
stack memory and debug checks are left out. `Cooperator::Block` of a context
other than the running one has no caller and is left out. `Cooperator::Launch<T>`,
which spawns like Spawn after running T's constructor in the caller, is not modelled.
Submission has no
continuations and no timers, does not count the direct-switch budget (any chain
of switches may end early) and takes the cooperator that called Cooperate to keep
running.

## 5. Proofs

`Spec => []IInv` for Coordination, for any sets of contexts and locks, any
argument lists without repetitions and any direct-switch budget, and from it the
five invariants of the `coordination` run.

The invariants are not inductive. `ExactlyOneTaken` at the end of a scan depends
on what the scan saw turn by turn, and `NoStranded` on who is linked into which
list. `IInv` adds, for each context, that its frame is well formed and what fired
is among its arguments (`FrameOK`), that it is blocked only until the first of
them fires (`BlockedOK`), for each coordinator that its wait list holds exactly
the contexts whose wait on it has neither fired nor been unlinked (`QueueOK`) and
that nobody queues on a free one (`HeldOK`), and for each lock that a waiter owns
exactly what was granted to it (`GrantsOK`).

- CoordinatorProofs: what each scheduler and coordinator call does to each field,
  and that it keeps `SanityCheck`.
- CoordinationLemmas: waking, handing over, parking and returning keep the parts
  of IInv, for arbitrary values of the variables, so that the states inside a step
  can be spoken of too.
- CoordinationSteps, CoordinationProofs: one lemma per action, then the theorems.

Assumptions: `SchedulerAssumption`, `CoordinatorAssumption`,
`CoordinationAssumption` (names of different kinds are different; an argument list
names a coordinator once, as `MultiCoordinator` needs).

Only model-checked: liveness (out of the prover's reach), and everything about
CooperatorLoop, ContextTree and Submission.

## 6. Disagreements between code and documentation

- `continuation_starved`. `cooperator.cpp` says of the drain after a reap that "a
  continuation chain is never starved by a steady stream of context wakes". The
  drain is skipped whenever the reap woke the only runnable context, so a stream
  of such wakes postpones a queued continuation for ever.
- `shutdown_missed`. "When shutdown is requested, kill all live contexts"
  (`cooperator.cpp`). With `directYield` on, the drainer's read can consume
  Shutdown's eventfd write in the idle branch, a job spawned by the drain that
  follows switches straight to the drainer, which is not killed yet and reads again;
  the yielded list is then empty and the loop sleeps without looking at the flag.
  With `directYield` off (the default) the drainer is still yielded, the loop goes
  round, and `submission_live` shows that it ends. (`ShutdownCompletes` speaks of
  services that wait; one the sweep missed and that only yields would keep the loop
  running, which is `late_submission` again.)
- `submit_sync_lost`. SubmitSync "Returns false if the cooperator is shutting down
  before enqueue, or if queued work cannot be spawned and run" (`cooperator.h`). A
  thread that read the flag before it was set and links its entry after
  DrainRemainingSubmissions waits for ever; so does the handle of a Cooperate.
- `late_submission`. The sweep "only needs to happen once" (`cooperator.cpp`). An
  entry linked after the sweep's drain is spawned, never killed, and Launch
  returns while its Context is blocked: the loop's condition ignores `m_blocked`.

## 7. Plan

Done: the scheduler, coordination, the loop, the context tree, submission. Next, in
order: IoHandle (submit, cancel, linked timeout, teardown, continuations on a
handle); two cooperators that Cooperate, and BoundarySafeKill; Channel with a
bounded FIFO as its abstract specification, then Select; ArmedHandle; Passage and
GuardedPassage; timers; Epoch; the work deque and grid; Subscribe and the
pipelines; the pools.
Then proofs: the channel implements its FIFO, the deque never loses or duplicates
an item, the context tree's kill invariant.

Not modelled, and why: perf, topology and code patching (no effect on results);
the byte level of HTTP, WebSocket, DNS and TLS (data, not control); memory
allocators below the pools.
