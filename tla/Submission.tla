---------------------------- MODULE Submission -----------------------------
(* Work submitted to a cooperator from other threads, against its shutdown   *)
(* (coop/cooperator.cpp, coop/cooperator.hpp, coop/cooperate.h): Submit,     *)
(* SubmitSync and Cooperate, the submission list and its eventfd, the        *)
(* drainer Context, the loop's own drains, Shutdown, ShutdownAll, the        *)
(* shutdown sweep, the exit of the loop and what it does with the rest.      *)
(*                                                                           *)
(* Every thread submits one job, which has the thread's name.  The threads   *)
(* and the closers interleave with the cooperator between any two accesses   *)
(* to the flags, the list and the eventfd, but for two of the loop's: a Poll *)
(* and the drain after it are a step, for the Poll need not deliver; so are  *)
(* a read of m_shutdown and the drain after it, for whoever writes the one   *)
(* does not touch the other.  The Contexts of the cooperator interleave      *)
(* where it switches.  The yielded list is a set: CooperatorLoop shows that  *)
(* whatever is on it is resumed.                                             *)
EXTENDS Integers, Sequences, FiniteSets

CONSTANTS
    Thread,     \* the threads that submit
    Call,       \* what each calls: "submit", "sync" or "cooperate"
    Kind,       \* what its job does: a "task" ends by itself, after waiting
                \* for IO perhaps; a "service" waits to be killed
    Closers,    \* who asks for the shutdown: "Shutdown", "ShutdownAll"
    SpawnFails, \* can the allocation of a Context fail
    DirectYield \* the configuration: may a Context switch straight to another

ASSUME SubmissionAssumption ==
    /\ Call \in [Thread -> {"submit", "sync", "cooperate"}]
    /\ Kind \in [Thread -> {"task", "service"}]
    /\ Closers \subseteq {"Shutdown", "ShutdownAll"}
    /\ SpawnFails \in BOOLEAN /\ DirectYield \in BOOLEAN

VARIABLES
    thread,     \* where each thread is in its call
    queue,      \* the submission list
    efd,        \* is the count of the eventfd above zero
    shutdown,   \* m_shutdown
    gate,       \* s_registryShutdown
    closer,     \* where each closer is in its call
    pc,         \* where the loop is
    on,         \* who has the processor: the "loop", the "drainer", or the
                \* "chain": a Context that is just switching away
    credit,     \* m_directYieldsRemaining > 0: not before the first resumption
    killDone,   \* shutdownKillDone
    mine,       \* the entries that the loop has taken off the list
    drainer,    \* the drainer: where it is, the entries it has taken, killed
    job,        \* the Context of each job
    child,      \* the jobs whose parent is the drainer
    killed,     \* the jobs that have been killed
    answer      \* what the submitter has been told: SubmitSync's semaphore and
                \* flag, or the handle's signal and m_spawnOk

outside == <<thread, gate, closer>>
inside == <<pc, on, credit, killDone, mine, drainer, job, child, killed, answer>>
vars == <<outside, queue, efd, shutdown, inside>>

Live(j) == job[j] \notin {"none", "ended"}

\* The drainer stands for itself in the scheduler's lists.
DrainerIn(places) == IF drainer.at \in places THEN {"drainer"} ELSE {}
JobsIn(places) == {j \in Thread : job[j] \in places}

Yielded == JobsIn({"ready"}) \cup DrainerIn({"ready", "draining", "ending"})
PendingOps == JobsIn({"io"}) \cup DrainerIn({"reading"})
Blocked == JobsIn({"io", "parked"}) \cup DrainerIn({"reading", "joining"})

Init ==
    /\ thread = [t \in Thread |-> "start"]
    /\ queue = <<>>
    /\ efd = FALSE
    /\ shutdown = FALSE
    /\ gate = FALSE
    /\ closer = [k \in Closers |-> "start"]
    /\ pc = "new"
    /\ on = "loop"
    /\ credit = FALSE
    /\ killDone = FALSE
    /\ mine = <<>>
    /\ drainer = [at |-> "none", taken |-> <<>>, killed |-> FALSE]
    /\ job = [t \in Thread |-> "none"]
    /\ child = {}
    /\ killed = {}
    /\ answer = [t \in Thread |-> "none"]

----------------------------------------------------------------------------
(* The threads.  A call reads the flag, links its entry and writes the       *)
(* eventfd, in three steps.                                                  *)

Step(t, from, to) ==
    /\ thread[t] = from
    /\ thread' = [thread EXCEPT ![t] = to]

CheckShutdown(t) ==
    /\ Step(t, "start", IF shutdown THEN "refused" ELSE "push")
    /\ UNCHANGED <<queue, efd, shutdown, gate, closer, inside>>

AfterWake(t) == IF Call[t] = "submit" THEN "returned" ELSE "waiting"

PushSubmission(t) ==
    /\ Step(t, "push", "wake")
    /\ queue' = Append(queue, t)
    /\ UNCHANGED <<efd, shutdown, gate, closer, inside>>

\* Mutant of WakeCooperator: the eventfd is written only for a sleeping loop.
WakeIfAsleep(t) ==
    /\ Step(t, "wake", AfterWake(t))
    /\ efd' = (efd \/ pc = "asleep")
    /\ UNCHANGED <<queue, shutdown, gate, closer, inside>>

WakeCooperator(t) ==
    /\ Step(t, "wake", AfterWake(t))
    /\ efd' = TRUE
    /\ UNCHANGED <<queue, shutdown, gate, closer, inside>>

\* SubmitSync's acquire, or CooperateHandle::Wait.
Return(t) ==
    /\ answer[t] # "none"
    /\ Step(t, "waiting", "returned")
    /\ UNCHANGED <<queue, efd, shutdown, gate, closer, inside>>

----------------------------------------------------------------------------
(* The closers.  Shutdown sets the flag and writes the eventfd, in two steps, *)
(* however often it is called.                                                *)

Closes(k, from, to) ==
    /\ k \in Closers
    /\ closer[k] = from
    /\ closer' = [closer EXCEPT ![k] = to]

Shutdown ==
    /\ Closes("Shutdown", "start", "wake")
    /\ shutdown' = TRUE
    /\ UNCHANGED <<thread, gate, queue, efd, inside>>

\* ShutdownAll closes the gate ...
CloseGate ==
    /\ Closes("ShutdownAll", "start", "visit")
    /\ gate' = TRUE
    /\ UNCHANGED <<thread, queue, efd, shutdown, inside>>

Registered == pc \notin {"new", "gated", "exited"}

\* ... and calls Shutdown for a registered cooperator, under the registry's
\* lock, which Launch has while it is "gated".
VisitRegistry ==
    /\ pc # "gated"
    /\ \/ /\ Registered
          /\ Closes("ShutdownAll", "visit", "wake")
          /\ shutdown' = TRUE
       \/ /\ ~Registered
          /\ Closes("ShutdownAll", "visit", "done")
          /\ UNCHANGED shutdown
    /\ UNCHANGED <<thread, gate, queue, efd, inside>>

WakeToClose(k) ==
    /\ Closes(k, "wake", "done")
    /\ efd' = TRUE
    /\ UNCHANGED <<thread, gate, queue, shutdown, inside>>

\* Nobody else has the registry's lock.
RegistryFree == "ShutdownAll" \in Closers => closer["ShutdownAll"] # "wake"

----------------------------------------------------------------------------
(* SpawnFromSubmission                                                       *)

\* Mutant of Tell: SubmitSync is told as soon as the job is spawned.
TellAll(t, call, what) == [answer EXCEPT ![t] = what]

Tell(t, call, what) ==
    IF Call[t] = call THEN [answer EXCEPT ![t] = what] ELSE answer

\* Mutant of EnterJob: the Context is constructed and never entered.
ConstructJob(t) ==
    /\ job[t] = "none"
    /\ job' = [job EXCEPT ![t] = "constructed"]
    /\ UNCHANGED answer

\* Spawn: the job runs, so others may before Spawn returns.
EnterJob(t) ==
    /\ job[t] = "none"
    /\ job' = [job EXCEPT ![t] = "ready"]
    /\ UNCHANGED answer

\* Spawn has returned true.
EnteredJob(t) ==
    /\ job[t] # "none"
    /\ answer' = Tell(t, "cooperate", "ok")
    /\ UNCHANGED job

\* Mutant of RefuseJob: the submitter is not told.
RefuseSilently(t) ==
    /\ job[t] = "none"
    /\ UNCHANGED <<job, answer>>

\* Spawn has returned false.
RefuseJob(t) ==
    /\ job[t] = "none"
    /\ answer' = IF Call[t] = "submit" THEN answer ELSE [answer EXCEPT ![t] = "failed"]
    /\ UNCHANGED job

\* A Poll delivers what has completed: of the jobs' IO any part, and the drainer's
\* read once the eventfd is readable.
CanRead == efd /\ drainer.at = "reading"
Delivered(ios) == [j \in Thread |-> IF j \in ios THEN "ready" ELSE job[j]]

\* A job runs: it ends, waits for IO or, not being killed, waits for that.  A task
\* polls whenever it waits, and goes on at once when its own IO has completed.  The
\* drainer's destructor is woken by the last of the drainer's children.
RunJob(t) ==
    /\ job[t] = "ready"
    /\ \E ios \in SUBSET JobsIn({"io"}), read \in BOOLEAN :
        /\ ios # {} \/ read => Kind[t] = "task"
        /\ read => CanRead
        /\ efd' = (efd /\ ~read)
        /\ \/ /\ Kind[t] = "task" \/ t \in killed
              /\ job' = [Delivered(ios) EXCEPT ![t] = "ended"]
              /\ answer' = Tell(t, "sync", "ok")
              /\ drainer' = [drainer EXCEPT !.at =
                    IF read THEN "ready"
                    ELSE IF @ = "joining" /\ \A c \in child \ {t} : ~Live(c) THEN "ending"
                    ELSE @]
              /\ on' = "loop"
           \/ /\ \/ Kind[t] = "task" /\ job' = [Delivered(ios) EXCEPT ![t] = "io"]
                 \/ Kind[t] = "service" /\ t \notin killed
                    /\ job' = [job EXCEPT ![t] = "parked"]
              /\ drainer' = [drainer EXCEPT !.at = IF read THEN "ready" ELSE @]
              /\ on' = "chain"
              /\ UNCHANGED answer
    /\ UNCHANGED <<queue, child>>

----------------------------------------------------------------------------
(* The drainer.  It keeps the processor until it spawns, reads or joins.     *)

DrainerGoes(to) == drainer' = [drainer EXCEPT !.at = to]

\* Its read has returned: it looks whether it is killed, and takes the list.
DrainerTakes ==
    /\ drainer.at = "ready"
    /\ \/ /\ drainer.killed
          /\ DrainerGoes("ending")
          /\ UNCHANGED queue
       \/ /\ ~drainer.killed
          /\ drainer' = [drainer EXCEPT !.at = "draining", !.taken = queue]
          /\ queue' = <<>>
    /\ on' = "drainer"
    /\ UNCHANGED <<efd, job, child, answer>>

\* Its jobs are its children; a killed Context spawns nothing.
DrainerSpawns ==
    /\ drainer.at = "draining" /\ drainer.taken # <<>>
    /\ LET t == Head(drainer.taken)
       IN  \/ /\ ~drainer.killed
              /\ EnterJob(t)
              /\ child' = child \cup {t}
              /\ on' = "chain"
              /\ UNCHANGED drainer
           \/ /\ EnteredJob(t) \/ ((drainer.killed \/ SpawnFails) /\ RefuseJob(t))
              /\ drainer' = [drainer EXCEPT !.taken = Tail(@)]
              /\ on' = "drainer"
              /\ UNCHANGED child
    /\ UNCHANGED <<queue, efd>>

\* It goes round its loop: killed, out of it, else to the next read, which polls and
\* may complete on the spot.
DrainerReads ==
    /\ drainer.at = "draining" /\ drainer.taken = <<>>
    /\ \/ /\ drainer.killed
          /\ DrainerGoes("ending")
          /\ on' = "drainer"
          /\ UNCHANGED <<efd, job>>
       \/ /\ ~drainer.killed
          /\ \E ios \in SUBSET JobsIn({"io"}) : job' = Delivered(ios)
          /\ \/ efd /\ efd' = FALSE /\ DrainerGoes("ready") /\ on' = "drainer"
             \/ DrainerGoes("reading") /\ on' = "chain" /\ UNCHANGED efd
    /\ UNCHANGED <<queue, child, answer>>

\* Its destructor waits for the last child.
DrainerEnds ==
    /\ drainer.at = "ending"
    /\ \/ (\E t \in child : Live(t)) /\ DrainerGoes("joining") /\ on' = "chain"
       \/ ~(\E t \in child : Live(t)) /\ DrainerGoes("ended") /\ on' = "loop"
    /\ UNCHANGED <<queue, efd, job, child, answer>>

RunDrainer == DrainerTakes \/ DrainerSpawns \/ DrainerReads \/ DrainerEnds

\* A job that has been entered, and whose Spawn has not returned.
Entered(t) ==
    /\ job[t] # "none"
    /\ \E l \in {mine, drainer.taken} : l # <<>> /\ Head(l) = t

\* The loop resumes a Context, or one that switches away switches to it.
Resumed == on = "loop" /\ pc = "batch" /\ pc' = "resumed" /\ credit' = TRUE
Chained == on = "chain" /\ DirectYield /\ credit /\ UNCHANGED <<pc, credit>>

Aside == UNCHANGED <<outside, shutdown, killDone, mine, killed>>

RunsJob(t) ==
    /\ Resumed \/ Chained \/ (on = "chain" /\ Entered(t) /\ UNCHANGED <<pc, credit>>)
    /\ RunJob(t)
    /\ Aside

RunsDrainer ==
    /\ Resumed \/ Chained \/ (on = "drainer" /\ UNCHANGED <<pc, credit>>)
    /\ RunDrainer
    /\ Aside

----------------------------------------------------------------------------
(* The loop                                                                  *)

\* A chain of switches always ends in the loop.
Control(next) == on \in {"loop", "chain"} /\ on' = next

At(from, to) == Control("loop") /\ pc = from /\ pc' = to /\ UNCHANGED credit

\* The loop's part of DrainSubmissions: it takes the list ...
TakeList == mine' = queue /\ queue' = <<>>
KeepList == UNCHANGED <<mine, queue>>

\* ... and spawns what was on it.  The loop is no Context: it is never killed.
SpawnNext ==
    /\ pc \in {"drain", "sweep drain", "idle drain", "batch drain"}
    /\ mine # <<>>
    /\ LET t == Head(mine)
       IN  \/ EnterJob(t) /\ Control("chain") /\ UNCHANGED mine
           \/ /\ EnteredJob(t) \/ (SpawnFails /\ RefuseJob(t))
              /\ Control("loop")
              /\ mine' = Tail(mine)
    /\ UNCHANGED <<outside, queue, efd, shutdown, pc, credit, killDone, drainer, child, killed>>

\* The loop's Poll.
Deliver(ios, read) ==
    /\ read => CanRead
    /\ job' = Delivered(ios)
    /\ drainer' = IF read THEN [drainer EXCEPT !.at = "ready"] ELSE drainer
    /\ efd' = (efd /\ ~read)
    /\ UNCHANGED <<child, killed, answer>>

Poll == \E ios \in SUBSET JobsIn({"io"}), read \in BOOLEAN : Deliver(ios, read)

\* Nothing but the place of the loop changes.
Idles ==
    UNCHANGED <<outside, queue, efd, shutdown, killDone, mine, drainer, job, child, killed, answer>>

\* Launch: it spawns the drainer, which runs up to its first switch before the loop
\* is entered; behind a closed gate it shuts down instead.
Launch ==
    /\ RegistryFree
    /\ \/ /\ gate
          /\ At("new", "gated")
          /\ shutdown' = TRUE
          /\ UNCHANGED drainer
       \/ /\ ~gate
          /\ pc = "new" /\ pc' = "top"
          /\ \/ DrainerGoes("draining") /\ on' = "drainer"
             \/ SpawnFails /\ UNCHANGED <<drainer, on>>
          /\ UNCHANGED <<shutdown, credit>>
    /\ UNCHANGED <<outside, queue, efd, killDone, mine, job, child, killed, answer>>

Gated ==
    /\ At("gated", "exited")
    /\ efd' = TRUE
    /\ UNCHANGED <<outside, queue, shutdown, killDone, mine, drainer, job, child, killed, answer>>

\* The loop's condition, and its first drain.
Top ==
    /\ \/ /\ Yielded = {} /\ shutdown /\ killDone /\ PendingOps = {}
          /\ At("top", "remaining")
          /\ KeepList
       \/ /\ ~(Yielded = {} /\ shutdown /\ killDone /\ PendingOps = {})
          /\ At("top", "drain")
          /\ TakeList
    /\ UNCHANGED <<outside, efd, shutdown, killDone, drainer, job, child, killed, answer>>

\* The shutdown flag is read; a sweep begins with a drain of its own.
Drained ==
    /\ mine = <<>>
    /\ \/ /\ shutdown /\ ~killDone
          /\ At("drain", "sweep drain")
          /\ killDone' = TRUE
          /\ TakeList
       \/ /\ ~shutdown \/ killDone
          /\ At("drain", "idle")
          /\ KeepList /\ UNCHANGED killDone
    /\ UNCHANGED <<outside, efd, shutdown, drainer, job, child, killed, answer>>

\* Mutant of KillAll: those that wait for their kill are not woken.
KillUnwoken ==
    /\ killed' = killed \cup {j \in Thread : Live(j)}
    /\ drainer' = [drainer EXCEPT !.killed = TRUE]
    /\ UNCHANGED job

\* A Context spawned for it kills every other: that wakes who waits for its kill.
KillAll ==
    /\ killed' = killed \cup {j \in Thread : Live(j)}
    /\ job' = [j \in Thread |-> IF job[j] = "parked" THEN "ready" ELSE job[j]]
    /\ drainer' = [drainer EXCEPT !.killed = TRUE]

\* Mutant of Sweep: the eventfd is not written.
SweepQuietly ==
    /\ mine = <<>>
    /\ At("sweep drain", "idle")
    /\ KillAll \/ (SpawnFails /\ UNCHANGED <<killed, job, drainer>>)
    /\ UNCHANGED <<outside, queue, efd, shutdown, killDone, mine, child, answer>>

\* The drainer's read does not end when it is killed, hence the eventfd.
Sweep ==
    /\ mine = <<>>
    /\ At("sweep drain", "idle")
    /\ KillAll \/ (SpawnFails /\ UNCHANGED <<killed, job, drainer>>)
    /\ efd' = TRUE
    /\ UNCHANGED <<outside, queue, shutdown, killDone, mine, child, answer>>

Busy ==
    /\ Yielded # {}
    /\ At("idle", "batch")
    /\ Idles

IdlePoll ==
    /\ Yielded = {}
    /\ At("idle", "idle drain")
    /\ Poll
    /\ TakeList
    /\ UNCHANGED <<outside, shutdown, killDone>>

IdleDrained ==
    /\ mine = <<>>
    /\ At("idle drain", IF Yielded # {} THEN "top"
                        ELSE IF Blocked # {} THEN "asleep"
                        ELSE IF shutdown THEN "top" ELSE "boundary")
    /\ Idles

\* WaitAndPoll returns because something has completed ...
Awake ==
    /\ At("asleep", "top")
    /\ \E ios \in SUBSET JobsIn({"io"}), read \in BOOLEAN :
        /\ read \/ ios # {}
        /\ Deliver(ios, read)
    /\ UNCHANGED <<outside, queue, shutdown, killDone, mine>>

\* ... or because the system call was interrupted.
Interrupted ==
    /\ At("asleep", "top")
    /\ Idles

\* After a resumption: ReapOnly, and a drain.
Reap ==
    /\ At("resumed", "batch drain")
    /\ Poll
    /\ TakeList
    /\ UNCHANGED <<outside, shutdown, killDone>>

NextResume ==
    /\ mine = <<>> /\ Yielded # {}
    /\ At("batch drain", "batch")
    /\ Idles

\* The batch boundary.
BatchEnds ==
    /\ mine = <<>>
    /\ At("batch drain", "top") \/ At("boundary", "top")
    /\ Poll
    /\ UNCHANGED <<outside, queue, shutdown, killDone, mine>>

\* DrainRemainingSubmissions ...
Remaining ==
    /\ At("remaining", "unregister")
    /\ queue' = <<>>
    /\ answer' = [t \in Thread |->
                    IF Call[t] # "submit" /\ \E i \in DOMAIN queue : queue[i] = t
                    THEN "failed" ELSE answer[t]]
    /\ UNCHANGED <<outside, efd, shutdown, killDone, mine, drainer, job, child, killed>>

\* ... and out of the registry.
Unregister ==
    /\ RegistryFree
    /\ At("unregister", "exited")
    /\ Idles

----------------------------------------------------------------------------
Submits(t) ==
    CheckShutdown(t) \/ PushSubmission(t) \/ WakeCooperator(t) \/ Return(t)

Close == Shutdown \/ CloseGate \/ VisitRegistry \/ \E k \in Closers : WakeToClose(k)

LoopStep ==
    \/ Launch \/ Gated \/ Top \/ SpawnNext \/ Drained \/ Sweep \/ Busy \/ IdlePoll \/ IdleDrained
    \/ Reap \/ NextResume \/ BatchEnds \/ Remaining \/ Unregister

Next ==
    \/ \E t \in Thread : Submits(t) \/ RunsJob(t)
    \/ Close \/ RunsDrainer \/ LoopStep \/ Awake \/ Interrupted

Spec == Init /\ [][Next]_vars

\* The loop's thread runs, and every other thread that has begun its call; a
\* resumption does return, and a task ends after finitely many waits for IO; the
\* system call the loop sleeps in is not interrupted every time before what has
\* completed is delivered.  Nobody has to shut the cooperator down.
Fairness ==
    /\ WF_vars(LoopStep)
    /\ SF_vars(Awake)
    /\ WF_vars(RunsDrainer)
    /\ WF_vars(VisitRegistry \/ \E k \in Closers : WakeToClose(k))
    /\ \A t \in Thread :
        /\ WF_vars(thread[t] # "start" /\ Submits(t))
        /\ SF_vars(RunsJob(t) /\ job'[t] # "io")

FairSpec == Spec /\ Fairness

----------------------------------------------------------------------------
TypeOK ==
    /\ thread \in [Thread -> {"start", "push", "wake", "waiting", "returned", "refused"}]
    /\ queue \in Seq(Thread) /\ mine \in Seq(Thread)
    /\ {credit, efd, shutdown, gate, killDone} \subseteq BOOLEAN
    /\ closer \in [Closers -> {"start", "visit", "wake", "done"}]
    /\ on \in {"loop", "drainer", "chain"}
    /\ pc \in {"new", "gated", "top", "drain", "sweep drain", "idle", "idle drain", "asleep",
               "batch", "resumed", "batch drain", "boundary", "remaining", "unregister",
               "exited"}
    /\ drainer \in [at : {"none", "reading", "ready", "draining", "ending", "joining", "ended"},
                    taken : Seq(Thread), killed : BOOLEAN]
    /\ job \in [Thread -> {"none", "ready", "io", "parked", "ended"}]
    /\ child \subseteq Thread /\ killed \subseteq Thread
    /\ answer \in [Thread -> {"none", "ok", "failed"}]

Held(t) ==
    LET all == queue \o mine \o drainer.taken
    IN  Cardinality({i \in DOMAIN all : all[i] = t})

\* Between the list, the loop's drain and the drainer's, no accepted submission
\* is lost or handled twice: it is in exactly one of them, or it has been
\* spawned, or its submitter has been told that it will not be.
NoneForgotten ==
    \A t \in Thread :
        /\ Held(t) <= 1
        /\ thread[t] \in {"wake", "waiting", "returned"} /\ Held(t) = 0 =>
            \/ job[t] # "none"
            \/ answer[t] = "failed"
            \/ Call[t] = "submit" /\ (SpawnFails \/ killDone)

\* SubmitSync returns true only after the work has run to its end, Cooperate's
\* handle reports success only for work that was spawned, and what was reported
\* as failed never runs, before or after.
ToldTheTruth ==
    \A t \in Thread :
        /\ answer[t] = "failed" => job[t] = "none" /\ Held(t) = 0
        /\ answer[t] = "ok" => job[t] # "none"
        /\ answer[t] = "ok" /\ Call[t] = "sync" => job[t] = "ended"

\* The loop does not sleep on a submission: whenever it sleeps with the list not
\* empty, before the shutdown sweep, the eventfd is readable and the drainer's
\* read is in flight, or a thread that has linked its entry is about to write it.
NoSleepOnSubmission ==
    pc = "asleep" /\ queue # <<>> /\ ~killDone /\ drainer.at # "none" =>
        /\ drainer.at = "reading"
        /\ efd \/ \E t \in Thread : thread[t] = "wake"

\* What was on the list before Shutdown is answered, whatever the shutdown then
\* overtakes.  This is about Shutdown: behind ShutdownAll's gate Launch never enters
\* the loop, and answers nobody.
EarlyAnswered ==
    \A t \in {u \in Thread : Call[u] # "submit"} :
        Held(t) = 1 /\ ~shutdown ~> thread[t] = "returned"

Refused(t) ==
    Held(t) = 0 /\ job[t] = "none" /\ (Call[t] = "submit" \/ answer[t] = "failed")

\* The sweep settles every job that was submitted before it.  One that was spawned
\* ends, even if all it does is wait to be killed; one that the drainer still has in
\* hand when it is killed is refused, and a submitter that waits is told so.
EarlySettles ==
    \A t \in Thread :
        shutdown /\ ~killDone /\ (Held(t) = 1 \/ Live(t))
            ~> job[t] = "ended" \/ Refused(t)

\* Once the shutdown has been asked for, Launch returns.
ShutdownCompletes == shutdown ~> pc = "exited"

\* When Launch returns nothing runs, is blocked or has an operation in flight:
\* every Context has exited, the drainer too.
ExitLeavesNobody ==
    pc = "exited" =>
        /\ \A j \in Thread : ~Live(j)
        /\ drainer.at \in {"none", "ended"}

\* A SubmitSync or Cooperate that was accepted is answered, however late in the
\* shutdown.
AcceptedAnswered ==
    \A t \in Thread : thread[t] = "waiting" ~> thread[t] = "returned"
============================================================================
