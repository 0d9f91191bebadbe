------------------------- MODULE CoordinationLemmas ------------------------
(* What waking, handing over, parking, scanning and returning do to the      *)
(* parts of Coordination's inductive invariant, for any values of its        *)
(* variables.                                                                *)
EXTENDS Coordination, CoordinatorProofs

----------------------------------------------------------------------------
(* Steps that only move Contexts between the scheduler's lists.              *)

\* A step that blocks and unblocks nobody keeps the state invariant.
LEMMA ScheduleKeeps ==
    ASSUME NEW s, NEW g, NEW f, NEW r \in Runtime, StateOK(s, g, f), SanityCheck(r),
           r.held = s.held, r.waiters = s.waiters, r.satisfied = s.satisfied,
           NEW c \in Ctx, OthersKept(r, s, {c}),
           \/ /\ r.state[c] = "BLOCKED" <=> s.state[c] = "BLOCKED"
              /\ r.state[c] = "EXITED" <=> s.state[c] = "EXITED"
           \/ s.state[c] = "EXITED" /\ r.state[c] = "RUNNING"
    PROVE  StateOK(r, g, f)
<1>1. ASSUME NEW d \in Ctx PROVE FrameOK(r, g, f[d], d)
    <2>1. FrameOK(s, g, f[d], d)
        BY DEF StateOK
    <2>2. r.state[d] = "EXITED" => s.state[d] = "EXITED"
        BY DEF OthersKept
    <2> QED BY <2>1, <2>2 DEF FrameOK
<1>2. ASSUME NEW d \in Ctx PROVE BlockedOK(r, f[d], d)
    <2>1. FrameOK(s, g, f[d], d) /\ BlockedOK(s, f[d], d)
        BY DEF StateOK
    <2>2. CASE r.state[d] = "BLOCKED" <=> s.state[d] = "BLOCKED"
        BY <2>1, <2>2 DEF BlockedOK
    <2>3. CASE ~(r.state[d] = "BLOCKED" <=> s.state[d] = "BLOCKED")
        <3>1. d = c /\ s.state[d] = "EXITED" /\ r.state[d] = "RUNNING"
            BY <2>3 DEF OthersKept
        <3>2. ~Waits(f[d])
            BY <2>1, <3>1 DEF FrameOK, Waits
        <3> QED BY <3>1, <3>2 DEF BlockedOK
    <2> QED BY <2>2, <2>3
<1>3. ASSUME NEW x \in Coord PROVE QueueOK(r, f, x) /\ HeldOK(r, f, x)
    <2>1. QueueOK(s, f, x) /\ HeldOK(s, f, x)
        BY DEF StateOK
    <2> QED BY <2>1 DEF QueueOK, HeldOK
<1> QED BY <1>1, <1>2, <1>3 DEF StateOK

\* Ownership reads only the held flags and what fired.
LEMMA OwnersKept ==
    ASSUME NEW s, NEW f, NEW o, NEW r, OwnersOK(s, f, o), r.held = s.held, r.satisfied = s.satisfied
    PROVE  OwnersOK(r, f, o)
BY DEF OwnersOK, GrantsOK

----------------------------------------------------------------------------
(* Waking the head of a wait list.                                           *)

\* The head of a wait list is a Context whose wait on it has not fired.
LEMMA WaiterFacts ==
    ASSUME NEW s, NEW g, NEW f, StateOK(s, g, f), NEW x \in Coord, s.waiters[x] # <<>>
    PROVE  LET w == Head(s.waiters[x])
               t == Tail(s.waiters[x])
           IN  /\ w \in Ctx /\ Waits(f[w]) /\ x \in Unscanned(f[w]) /\ x \notin s.satisfied[w]
               /\ t \in Seq(Waiter) /\ Distinct(t) /\ w \notin Members(t)
               /\ Members(t) = Members(s.waiters[x]) \ {w}
<1>1. s.waiters[x] \in Seq(Waiter)
    BY DEF StateOK, Runtime
<1>2. QueueOK(s, f, x)
    BY DEF StateOK
<1> DEFINE w == Head(s.waiters[x])
           t == Tail(s.waiters[x])
<1>3. /\ t \in Seq(Waiter) /\ Distinct(t) /\ w \notin Members(t)
      /\ Members(s.waiters[x]) = Members(t) \cup {w}
    BY <1>1, <1>2, TailFacts DEF QueueOK
<1> HIDE DEF w, t
<1> QED BY <1>2, <1>3 DEF QueueOK, w, t

\* Waking the head of a wait list keeps the state invariant.
LEMMA WakeKeeps ==
    ASSUME NEW s, NEW g, NEW f, NEW r, StateOK(s, g, f), NEW x \in Coord,
           s.waiters[x] # <<>>, x \in Ctx => g[x], HeadWoken(r, s, x)
    PROVE  StateOK(r, g, f)
<1> DEFINE w == Head(s.waiters[x])
           t == Tail(s.waiters[x])
<1>1. /\ w \in Ctx /\ Waits(f[w]) /\ x \in Unscanned(f[w]) /\ x \notin s.satisfied[w]
      /\ t \in Seq(Waiter) /\ Distinct(t) /\ w \notin Members(t)
      /\ Members(t) = Members(s.waiters[x]) \ {w}
    BY WaiterFacts
<1>2. /\ r \in Runtime /\ SanityCheck(r) /\ r.held = s.held
      /\ r.waiters = [s.waiters EXCEPT ![x] = t]
      /\ r.satisfied = [s.satisfied EXCEPT ![w] = s.satisfied[w] \cup {x}]
      /\ OthersKept(r, s, {w}) /\ r.state[w] # "BLOCKED"
      /\ (r.state[w] = "EXITED" <=> s.state[w] = "EXITED")
    BY DEF HeadWoken
<1> HIDE DEF w, t
<1>3. /\ s \in Runtime /\ s.waiters \in [Coord -> Seq(Waiter)] /\ s.satisfied \in [Waiter -> SUBSET Coord]
      /\ f \in [Ctx -> Frame] /\ Ctx \subseteq Waiter
    BY DEF StateOK, Runtime, Waiter
<1>4. \A d \in Ctx : r.satisfied[d] = IF d = w THEN s.satisfied[d] \cup {x} ELSE s.satisfied[d]
    BY <1>1, <1>2, <1>3, Zenon
<1>5. \A y \in Coord : r.waiters[y] = IF y = x THEN t ELSE s.waiters[y]
    BY <1>2, <1>3
<1>6. ASSUME NEW d \in Ctx PROVE FrameOK(r, g, f[d], d)
    <2>1. FrameOK(s, g, f[d], d)
        BY DEF StateOK
    <2>2. r.state[d] = "EXITED" <=> s.state[d] = "EXITED"
        BY <1>2 DEF OthersKept
    <2>3. CASE d = w
        <3>1. x \in Members(f[d].args)
            <4>1. PICK i \in f[d].at .. Len(f[d].args) : f[d].args[i] = x
                BY <1>1, <2>3 DEF Unscanned
            <4>2. f[d].at \in Nat /\ f[d].at >= 1 /\ f[d].args \in Seq(Coord)
                BY <1>3, <2>1 DEF Frame, FrameOK
            <4> QED BY <4>1, <4>2 DEF Members
        <3>2. r.satisfied[d] = s.satisfied[d] \cup {x}
            BY <1>4, <2>3, Zenon
        <3>3. Waits(f[d])
            BY <1>1, <2>3
        <3> QED BY <2>1, <2>2, <3>1, <3>2, <3>3 DEF FrameOK
    <2>4. CASE d # w
        <3>1. r.satisfied[d] = s.satisfied[d]
            BY <1>4, <2>4, Zenon
        <3> QED BY <2>1, <2>2, <3>1 DEF FrameOK
    <2> QED BY <2>3, <2>4
<1>7. ASSUME NEW d \in Ctx PROVE BlockedOK(r, f[d], d)
    <2>1. BlockedOK(s, f[d], d)
        BY DEF StateOK
    <2>2. CASE d = w
        BY <1>1, <1>2, <1>4, <2>2, Zenon DEF BlockedOK
    <2>3. CASE d # w
        <3>1. r.satisfied[d] = s.satisfied[d] /\ (r.state[d] = "BLOCKED" <=> s.state[d] = "BLOCKED")
            BY <1>2, <1>4, <2>3 DEF OthersKept
        <3> QED BY <2>1, <3>1 DEF BlockedOK
    <2> QED BY <2>2, <2>3
<1>8. ASSUME NEW y \in Coord PROVE QueueOK(r, f, y)
    <2>1. QueueOK(s, f, y)
        BY DEF StateOK
    <2>2. CASE y = x
        <3>1. r.waiters[y] = t
            BY <1>5, <2>2
        <3>2. ASSUME NEW c \in Ctx
              PROVE  c \in Members(t) <=> (Waits(f[c]) /\ x \in Unscanned(f[c]) /\ x \notin r.satisfied[c])
            BY <1>1, <1>4, <2>1, <2>2, Zenon DEF QueueOK
        <3> QED BY <1>1, <2>1, <2>2, <3>1, <3>2 DEF QueueOK
    <2>3. CASE y # x
        <3>1. r.waiters[y] = s.waiters[y]
            BY <1>5, <2>3
        <3>2. \A c \in Ctx : y \in r.satisfied[c] <=> y \in s.satisfied[c]
            BY <1>4, <2>3, Zenon
        <3> QED BY <2>1, <3>1, <3>2 DEF QueueOK
    <2> QED BY <2>2, <2>3
<1>9. ASSUME NEW y \in Coord PROVE HeldOK(r, f, y)
    <2>1. HeldOK(s, f, y)
        BY DEF StateOK
    <2>2. r.waiters[y] # <<>> => s.waiters[y] # <<>>
        BY <1>5
    <2> QED BY <1>2, <2>1, <2>2 DEF HeldOK
<1> QED BY <1>2, <1>6, <1>7, <1>8, <1>9 DEF StateOK

----------------------------------------------------------------------------
(* Releasing a Lock.                                                         *)

\* What is true of the owners while x is being released: no waiter counts x
\* among its grants any more.
OwnersBut(s, f, o, x) ==
    /\ o \in [Lock -> Ctx \cup {NoCtx, External}]
    /\ \A y \in Lock : s.held[y] <=> o[y] # NoCtx
    /\ \A c \in Ctx : Waits(f[c]) => \A y \in Members(f[c].args) \cap Lock :
         IF y = x THEN y \notin Granted(f[c], s.satisfied[c])
         ELSE o[y] = c <=> y \in Granted(f[c], s.satisfied[c])

\* Whom a release of x hands it to, in a state where only Contexts wait.
HeirOf(s, x) == IF s.waiters[x] = <<>> THEN NoCtx ELSE Head(s.waiters[x])

\* A release of an owned Lock makes the head of its wait list the owner.
LEMMA HandOver ==
    ASSUME NEW s, NEW g, NEW f, NEW o, NEW x \in Lock, NEW schedule \in BOOLEAN,
           StateOK(s, g, f), OwnersBut(s, f, o, x), s.held[x], schedule => s.scheduled \in Ctx
    PROVE  /\ StateOK(Release(s, x, schedule), g, f)
           /\ OwnersOK(Release(s, x, schedule), f, [o EXCEPT ![x] = HeirOf(s, x)])
<1> DEFINE r == Release(s, x, schedule)
           o2 == [o EXCEPT ![x] = HeirOf(s, x)]
<1>1. /\ s \in Runtime /\ SanityCheck(s) /\ x \in Coord /\ x \notin Ctx
      /\ s.held \in [Coord -> BOOLEAN] /\ s.satisfied \in [Waiter -> SUBSET Coord]
      /\ Ctx \subseteq Waiter /\ Lock \subseteq Coord
      /\ o \in [Lock -> Ctx \cup {NoCtx, External}] /\ f \in [Ctx -> Frame]
    BY CoordinationAssumption DEF StateOK, OwnersBut, Runtime, Waiter
<1>2. CASE s.waiters[x] = <<>>
    <2>1. /\ r \in Runtime /\ ListFieldsKept(r, s) /\ r.held = [s.held EXCEPT ![x] = FALSE]
          /\ r.waiters = s.waiters /\ r.satisfied = s.satisfied
        BY <1>1, <1>2, ReleaseFreeFacts
    <2>2. SanityCheck(r) /\ r.state = s.state
        BY <1>1, <2>1, ListsKeptSane DEF ListFieldsKept
    <2> HIDE DEF r
    <2>3. ASSUME NEW d \in Ctx PROVE FrameOK(r, g, f[d], d) /\ BlockedOK(r, f[d], d)
        <3>1. FrameOK(s, g, f[d], d) /\ BlockedOK(s, f[d], d)
            BY DEF StateOK
        <3> QED BY <2>1, <2>2, <3>1 DEF FrameOK, BlockedOK
    <2>4. ASSUME NEW y \in Coord PROVE QueueOK(r, f, y) /\ HeldOK(r, f, y)
        <3>1. QueueOK(s, f, y) /\ HeldOK(s, f, y)
            BY DEF StateOK
        <3>2. y # x => r.held[y] = s.held[y]
            BY <1>1, <2>1
        <3> QED BY <1>2, <2>1, <3>1, <3>2 DEF QueueOK, HeldOK
    <2>5. \A d \in Ctx : r.held[d] <=> ~g[d]
        BY <1>1, <2>1, CoordinationAssumption DEF StateOK
    <2>6. StateOK(r, g, f)
        BY <2>1, <2>2, <2>3, <2>4, <2>5 DEF StateOK
    <2>7. o2 \in [Lock -> Ctx \cup {NoCtx, External}] /\ \A y \in Lock : o2[y] = IF y = x THEN NoCtx ELSE o[y]
        BY <1>1, <1>2 DEF HeirOf
    <2> HIDE DEF o2
    <2>8. \A y \in Lock : r.held[y] <=> o2[y] # NoCtx
        BY <1>1, <2>1, <2>7 DEF OwnersBut
    <2>9. ASSUME NEW c \in Ctx PROVE GrantsOK(r, f, o2, c)
        BY <1>1, <2>1, <2>7, SchedulerAssumption DEF OwnersBut, GrantsOK
    <2> QED BY <2>6, <2>7, <2>8, <2>9, Zenon DEF OwnersOK, r, o2
<1>3. CASE s.waiters[x] # <<>>
    <2> DEFINE w == Head(s.waiters[x])
    <2>1. w \in Ctx /\ Waits(f[w]) /\ x \in Unscanned(f[w]) /\ x \notin s.satisfied[w]
        BY <1>1, <1>3, WaiterFacts
    <2>2. HeadWoken(r, s, x)
        BY <1>1, <1>3, <2>1, ReleaseToNextFacts
    <2> HIDE DEF r
    <2>3. StateOK(r, g, f)
        BY <1>1, <1>3, <2>2, WakeKeeps
    <2>4. /\ r.held = s.held
          /\ r.satisfied = [s.satisfied EXCEPT ![w] = s.satisfied[w] \cup {x}]
        BY <2>2 DEF HeadWoken
    <2>5. o2 = [o EXCEPT ![x] = w]
        BY <1>3 DEF HeirOf
    <2> HIDE DEF w, o2
    <2>6. o2 \in [Lock -> Ctx \cup {NoCtx, External}] /\ \A y \in Lock : o2[y] = IF y = x THEN w ELSE o[y]
        BY <1>1, <2>1, <2>5
    <2>7. \A d \in Ctx : r.satisfied[d] = IF d = w THEN s.satisfied[d] \cup {x} ELSE s.satisfied[d]
        BY <1>1, <2>1, <2>4, Zenon
    <2>8. \A y \in Lock : r.held[y] <=> o2[y] # NoCtx
        BY <2>1, <2>4, <2>6, SchedulerAssumption DEF OwnersBut
    <2>9. ASSUME NEW c \in Ctx, Waits(f[c]), NEW y \in Members(f[c].args) \cap Lock
          PROVE  o2[y] = c <=> y \in Granted(f[c], r.satisfied[c])
        <3>1. IF y = x THEN y \notin Granted(f[c], s.satisfied[c])
              ELSE o[y] = c <=> y \in Granted(f[c], s.satisfied[c])
            BY <2>9 DEF OwnersBut
        <3>2. CASE c = w /\ y = x
            <4>1. x \in Granted(f[c], r.satisfied[c])
                BY <2>1, <2>7, <3>2, Zenon DEF Granted
            <4> QED BY <2>6, <3>2, <4>1
        <3>3. CASE c = w /\ y # x
            <4>1. y \in Granted(f[c], r.satisfied[c]) <=> y \in Granted(f[c], s.satisfied[c])
                BY <2>7, <3>3, ZenonT(40) DEF Granted
            <4> QED BY <2>6, <3>1, <3>3, <4>1
        <3>4. CASE c # w
            <4>1. r.satisfied[c] = s.satisfied[c]
                BY <2>7, <3>4, Zenon
            <4> QED BY <2>6, <3>1, <3>4, <4>1
        <3> QED BY <3>2, <3>3, <3>4
    <2>10. \A c \in Ctx : GrantsOK(r, f, o2, c)
        BY <2>9 DEF GrantsOK
    <2> QED BY <2>3, <2>6, <2>8, <2>10, Zenon DEF OwnersOK, r, o2
<1> QED BY <1>2, <1>3

\* Nobody waiting counts among its grants a Lock that someone else owns.
LEMMA OwnedElsewhere ==
    ASSUME NEW s, NEW f, NEW o, NEW x \in Lock, OwnersOK(s, f, o),
           \A c \in Ctx : o[x] = c => ~Waits(f[c])
    PROVE  OwnersBut(s, f, o, x)
BY DEF OwnersOK, OwnersBut, GrantsOK

----------------------------------------------------------------------------
(* Starting to wait.                                                         *)

\* The fields of a new frame.
LEMMA FrameFields ==
    ASSUME NEW op \in {"none", "acquire", "flash", "multi", "notify"}, NEW args \in Seq(Coord)
    PROVE  /\ Call(op, args) \in Frame
           /\ Call(op, args).op = op /\ Call(op, args).args = args
           /\ Call(op, args).at = 1 /\ Call(op, args).winner = 0
           /\ Idle \in Frame
           /\ Idle.op = "none" /\ Idle.args = <<>> /\ Idle.at = 1 /\ Idle.winner = 0
BY DEF Call, Idle, Frame

\* r is s after c has queued on the coordinators args and blocked.
Parked(r, s, args, c) ==
    /\ r \in Runtime
    /\ SanityCheck(r)
    /\ r.held = s.held
    /\ \A x \in Coord : r.waiters[x] = IF x \in Members(args) THEN Append(s.waiters[x], c)
                                       ELSE s.waiters[x]
    /\ r.satisfied = [s.satisfied EXCEPT ![c] = {}]
    /\ OthersKept(r, s, {c})
    /\ r.state[c] = "BLOCKED"

\* A Context parked on held coordinators it does not own keeps IInv.
LEMMA Park ==
    ASSUME NEW s, NEW g, NEW f, NEW o, NEW r, NEW c \in Ctx, NEW args \in Seq(Coord),
           NEW op \in {"acquire", "flash", "multi"},
           StateOK(s, g, f), OwnersOK(s, f, o), f[c].op = "none",
           Distinct(args), args # <<>>, op # "multi" => Len(args) = 1,
           op = "flash" => args[1] \in Lock,
           \A x \in Members(args) : s.held[x] /\ (x \in Lock => o[x] # c),
           Parked(r, s, args, c)
    PROVE  /\ StateOK(r, g, [f EXCEPT ![c] = Call(op, args)])
           /\ OwnersOK(r, [f EXCEPT ![c] = Call(op, args)], o)
<1> DEFINE k == Call(op, args)
           f2 == [f EXCEPT ![c] = k]
<1>1. /\ s \in Runtime /\ s.waiters \in [Coord -> Seq(Waiter)] /\ s.satisfied \in [Waiter -> SUBSET Coord]
      /\ f \in [Ctx -> Frame] /\ c \in Waiter
    BY DEF StateOK, Runtime, Waiter
<1>2. /\ k \in Frame /\ k.op = op /\ k.args = args /\ k.at = 1 /\ k.winner = 0
    BY FrameFields
<1> HIDE DEF k
<1>3. f2 \in [Ctx -> Frame] /\ f2[c] = k /\ \A d \in Ctx : d # c => f2[d] = f[d]
    BY <1>1, <1>2
<1> HIDE DEF f2
<1>4. FrameOK(s, g, f[c], c) /\ ~Waits(f[c])
    BY DEF StateOK, Waits
<1>5. s.satisfied[c] = {} /\ r.satisfied = s.satisfied
    <2>1. s.satisfied[c] = {}
        BY <1>4 DEF FrameOK
    <2>2. r.satisfied = [s.satisfied EXCEPT ![c] = {}]
        BY DEF Parked
    <2> QED BY <1>1, <2>1, <2>2, ZenonT(40)
<1>6. Waits(k) /\ Unscanned(k) = Members(args)
    BY <1>2 DEF Waits, Unscanned, Members
<1>7. \A x \in Coord : c \notin Members(s.waiters[x])
    BY <1>4 DEF StateOK, QueueOK
<1>8. ASSUME NEW d \in Ctx PROVE FrameOK(r, g, f2[d], d)
    <2>1. CASE d = c
        <3>1. r.state[c] # "EXITED"
            BY DEF Parked
        <3>2. 1 \in 1 .. Len(args) + 1
            BY SMTT(30)
        <3> QED BY <1>2, <1>3, <1>5, <2>1, <3>1, <3>2 DEF FrameOK
    <2>2. CASE d # c
        <3>1. FrameOK(s, g, f[d], d) /\ f2[d] = f[d]
            BY <1>3, <2>2 DEF StateOK
        <3>2. r.state[d] = "EXITED" <=> s.state[d] = "EXITED"
            BY <2>2 DEF Parked, OthersKept
        <3> QED BY <1>5, <3>1, <3>2, SMTT(30) DEF FrameOK
    <2> QED BY <2>1, <2>2
<1>9. ASSUME NEW d \in Ctx PROVE BlockedOK(r, f2[d], d)
    <2>1. CASE d = c
        BY <1>2, <1>3, <1>5, <1>6, <2>1 DEF BlockedOK, Parked
    <2>2. CASE d # c
        <3>1. BlockedOK(s, f[d], d) /\ f2[d] = f[d]
            BY <1>3, <2>2 DEF StateOK
        <3>2. r.state[d] = "BLOCKED" <=> s.state[d] = "BLOCKED"
            BY <2>2 DEF Parked, OthersKept
        <3> QED BY <1>5, <3>1, <3>2 DEF BlockedOK
    <2> QED BY <2>1, <2>2
<1>10. ASSUME NEW x \in Coord PROVE QueueOK(r, f2, x)
    <2>1. QueueOK(s, f, x)
        BY DEF StateOK
    <2>2. CASE x \in Members(args)
        <3>1. r.waiters[x] = Append(s.waiters[x], c)
            BY <2>2, Zenon DEF Parked
        <3>2. s.waiters[x] \in Seq(Waiter)
            BY <1>1
        <3>3. Members(r.waiters[x]) = Members(s.waiters[x]) \cup {c} /\ Distinct(r.waiters[x])
            BY <1>1, <1>7, <2>1, <3>1, <3>2, AppendFacts DEF QueueOK
        <3>4. ASSUME NEW d \in Ctx
              PROVE  d \in Members(r.waiters[x]) <=>
                       (Waits(f2[d]) /\ x \in Unscanned(f2[d]) /\ x \notin r.satisfied[d])
            <4>1. CASE d = c
                BY <1>3, <1>5, <1>6, <2>2, <3>3, <4>1
            <4>2. CASE d # c
                BY <1>3, <1>5, <2>1, <3>3, <4>2 DEF QueueOK
            <4> QED BY <4>1, <4>2
        <3> QED BY <2>1, <3>3, <3>4 DEF QueueOK
    <2>3. CASE x \notin Members(args)
        <3>1. r.waiters[x] = s.waiters[x]
            BY <2>3 DEF Parked
        <3>2. ASSUME NEW d \in Ctx
              PROVE  d \in Members(r.waiters[x]) <=>
                       (Waits(f2[d]) /\ x \in Unscanned(f2[d]) /\ x \notin r.satisfied[d])
            <4>1. CASE d = c
                BY <1>3, <1>6, <1>7, <2>3, <3>1, <4>1
            <4>2. CASE d # c
                BY <1>3, <1>5, <2>1, <3>1, <4>2 DEF QueueOK
            <4> QED BY <4>1, <4>2
        <3> QED BY <2>1, <3>1, <3>2 DEF QueueOK
    <2> QED BY <2>2, <2>3
<1>11. ASSUME NEW x \in Coord PROVE HeldOK(r, f2, x)
    <2>1. CASE x \in Members(args)
        BY <2>1 DEF HeldOK, Parked
    <2>2. CASE x \notin Members(args)
        <3>1. r.waiters[x] = s.waiters[x] /\ r.held = s.held
            BY <2>2 DEF Parked
        <3>2. HeldOK(s, f, x)
            BY DEF StateOK
        <3>3. Notifying(f, x) => Notifying(f2, x)
            BY <1>3 DEF Notifying
        <3> QED BY <3>1, <3>2, <3>3 DEF HeldOK
    <2> QED BY <2>1, <2>2
<1>12. StateOK(r, g, f2)
    BY <1>3, <1>8, <1>9, <1>10, <1>11, SMTT(30) DEF StateOK, Parked
<1>13. ASSUME NEW d \in Ctx PROVE GrantsOK(r, f2, o, d)
    <2>1. CASE d = c
        <3>1. Granted(k, r.satisfied[c]) = {}
            BY <1>5 DEF Granted
        <3> QED BY <1>2, <1>3, <2>1, <3>1 DEF GrantsOK
    <2>2. CASE d # c
        <3>1. GrantsOK(s, f, o, d) /\ f2[d] = f[d]
            BY <1>3, <2>2 DEF OwnersOK
        <3> QED BY <1>5, <3>1 DEF GrantsOK
    <2> QED BY <2>1, <2>2
<1>14. OwnersOK(r, f2, o)
    BY <1>13 DEF OwnersOK, Parked
<1> QED BY <1>12, <1>14 DEF f2, k

\* Coordinator::Acquire and Flash of a held coordinator park the caller.
LEMMA AcquireParks ==
    ASSUME NEW s, NEW g, NEW f, StateOK(s, g, f), NEW c \in Ctx, s.scheduled = c, f[c].op = "none",
           NEW x \in Coord, s.held[x]
    PROVE  Parked(Acquire(s, x, c), s, <<x>>, c)
<1> DEFINE r == Acquire(s, x, c)
<1>1. /\ s \in Runtime /\ SanityCheck(s) /\ s.satisfied \in [Waiter -> SUBSET Coord] /\ c \in Waiter
      /\ s.waiters \in [Coord -> Seq(Waiter)]
    BY SMTT(30) DEF StateOK, Runtime, Waiter
<1>2. s.satisfied[c] = {}
    BY <1>1 DEF StateOK, FrameOK, Waits
<1>3. QueuedOn(r, s, x, c)
    BY <1>1, AcquireHeldFacts
<1> HIDE DEF r
<1>4. r.satisfied = [s.satisfied EXCEPT ![c] = {}]
    BY <1>2, <1>3 DEF QueuedOn
<1>5. Members(<<x>>) = {x}
    BY DEF Members
<1>6. \A y \in Coord : r.waiters[y] = IF y = x THEN Append(s.waiters[y], c) ELSE s.waiters[y]
    BY <1>1, <1>3 DEF QueuedOn
<1> QED BY <1>3, <1>4, <1>5, <1>6, SMTT(30) DEF Parked, QueuedOn, r

\* What linking the Context into every wait list of args changes.
LEMMA AddAllFields ==
    ASSUME NEW s \in Runtime, NEW args, NEW c \in Ctx
    PROVE  /\ AddAllAsBlocked(s, args, c) \in Runtime
           /\ ListFieldsKept(AddAllAsBlocked(s, args, c), s)
           /\ AddAllAsBlocked(s, args, c).held = s.held
           /\ \A x \in Coord : AddAllAsBlocked(s, args, c).waiters[x] =
                  IF x \in Members(args) THEN Append(s.waiters[x], c) ELSE s.waiters[x]
           /\ AddAllAsBlocked(s, args, c).satisfied = [s.satisfied EXCEPT ![c] = {}]
<1> DEFINE q == [x \in Coord |-> IF x \in Members(args) THEN Append(s.waiters[x], c) ELSE s.waiters[x]]
           sat == [s.satisfied EXCEPT ![c] = {}]
<1>1. s.waiters \in [Coord -> Seq(Waiter)] /\ c \in Waiter /\ s.satisfied \in [Waiter -> SUBSET Coord]
    BY DEF Runtime, Waiter
<1>2. q \in [Coord -> Seq(Waiter)]
    <2>1. ASSUME NEW x \in Coord PROVE Append(s.waiters[x], c) \in Seq(Waiter)
        BY <1>1, AppendFacts
    <2> QED BY <1>1, <2>1
<1>3. sat \in [Waiter -> SUBSET Coord]
    BY <1>1
<1>4. AddAllAsBlocked(s, args, c) = [s EXCEPT !.satisfied = sat, !.waiters = q]
    BY DEF AddAllAsBlocked
<1>5. \A x \in Coord : q[x] = IF x \in Members(args) THEN Append(s.waiters[x], c) ELSE s.waiters[x]
    OBVIOUS
<1> HIDE DEF q, sat
<1> DEFINE r == [s EXCEPT !.satisfied = sat, !.waiters = q]
<1>6. r \in Runtime /\ ListFieldsKept(r, s) /\ r.held = s.held /\ r.waiters = q /\ r.satisfied = sat
    BY <1>2, <1>3, Zenon DEF Runtime, ListFieldsKept
<1> HIDE DEF r
<1> QED BY <1>4, <1>5, <1>6 DEF r, sat

\* MultiCoordinator::Acquire with every coordinator held.
LEMMA CoordinateParks ==
    ASSUME NEW s, NEW g, NEW f, StateOK(s, g, f), NEW c \in Ctx, s.scheduled = c,
           NEW args
    PROVE  Parked(Block(AddAllAsBlocked(s, args, c), c), s, args, c)
<1> DEFINE p == AddAllAsBlocked(s, args, c)
           r == Block(p, c)
<1>1. s \in Runtime /\ SanityCheck(s)
    BY DEF StateOK
<1>2. /\ p \in Runtime /\ ListFieldsKept(p, s) /\ p.held = s.held
      /\ \A x \in Coord : p.waiters[x] = IF x \in Members(args) THEN Append(s.waiters[x], c)
                                         ELSE s.waiters[x]
      /\ p.satisfied = [s.satisfied EXCEPT ![c] = {}]
    BY <1>1, AddAllFields
<1>3. SanityCheck(p) /\ p.scheduled = c /\ p.state = s.state
    BY <1>1, <1>2, ListsKeptSane, SMTT(30) DEF ListFieldsKept
<1> HIDE DEF p
<1>4. /\ r \in Runtime /\ SanityCheck(r) /\ SyncFieldsKept(r, p) /\ OthersKept(r, p, {c})
      /\ r.state[c] = "BLOCKED"
    BY <1>2, <1>3, BlockFacts
<1> HIDE DEF r
<1>5. OthersKept(r, s, {c})
    BY <1>3, <1>4 DEF OthersKept
<1> QED BY <1>2, <1>4, <1>5 DEF Parked, SyncFieldsKept, p, r

----------------------------------------------------------------------------
(* Returning from a wait.                                                    *)

\* What returning from a wait changes of the record.
LEMMA ForgetFields ==
    ASSUME NEW s \in Runtime, NEW c \in Ctx
    PROVE  /\ Forget(s, c) \in Runtime
           /\ ListFieldsKept(Forget(s, c), s)
           /\ Forget(s, c).held = s.held
           /\ Forget(s, c).waiters = s.waiters
           /\ Forget(s, c).satisfied = [s.satisfied EXCEPT ![c] = {}]
BY Zenon DEF Runtime, Forget, ListFieldsKept, Waiter

\* A Context that runs with nothing left to unlink returns from its wait.
LEMMA ReturnKeeps ==
    ASSUME NEW s, NEW g, NEW f, NEW c \in Ctx, StateOK(s, g, f), s.scheduled = c, Waits(f[c]),
           \A x \in Unscanned(f[c]) : x \in s.satisfied[c]
    PROVE  /\ StateOK(Forget(s, c), g, [f EXCEPT ![c] = Idle])
           /\ \A o : OwnersOK(s, f, o) => OwnersOK(Forget(s, c), [f EXCEPT ![c] = Idle], o)
<1> DEFINE r == Forget(s, c)
           f2 == [f EXCEPT ![c] = Idle]
<1>1. /\ s \in Runtime /\ SanityCheck(s) /\ s.satisfied \in [Waiter -> SUBSET Coord]
      /\ f \in [Ctx -> Frame] /\ Ctx \subseteq Waiter
    BY DEF StateOK, Runtime, Waiter
<1>2. Idle \in Frame /\ Idle.op = "none" /\ Idle.args = <<>> /\ Idle.at = 1 /\ Idle.winner = 0
    BY DEF Idle, Call, Frame
<1> HIDE DEF Idle
<1>3. f2 \in [Ctx -> Frame] /\ f2[c] = Idle /\ \A d \in Ctx : d # c => f2[d] = f[d]
    BY <1>1, <1>2
<1>4. /\ r \in Runtime /\ ListFieldsKept(r, s) /\ r.held = s.held /\ r.waiters = s.waiters
      /\ r.satisfied = [s.satisfied EXCEPT ![c] = {}]
    BY <1>1, ForgetFields
<1> HIDE DEF r, f2
<1>5. SanityCheck(r) /\ r.state = s.state
    BY <1>1, <1>4, ListsKeptSane DEF ListFieldsKept
<1>6. r.satisfied[c] = {} /\ \A d \in Ctx : d # c => r.satisfied[d] = s.satisfied[d]
    BY <1>1, <1>4
<1>7. ~Waits(Idle) /\ Distinct(Idle.args)
    BY <1>2 DEF Waits, Distinct
<1>8. s.state[c] = "RUNNING"
    BY <1>1 DEF SanityCheck
<1>9. ASSUME NEW d \in Ctx PROVE FrameOK(r, g, f2[d], d) /\ BlockedOK(r, f2[d], d)
    <2>1. FrameOK(s, g, f[d], d) /\ BlockedOK(s, f[d], d)
        BY DEF StateOK
    <2>2. CASE d = c
        <3>1. Len(Idle.args) = 0
            BY <1>2
        <3>2. FrameOK(r, g, Idle, c)
            BY <1>2, <1>6, <1>7, <3>1 DEF FrameOK
        <3>3. BlockedOK(r, Idle, c)
            BY <1>5, <1>7, <1>8, SMTT(30) DEF BlockedOK
        <3> QED BY <1>3, <2>2, <3>2, <3>3
    <2>3. CASE d # c
        <3>1. f2[d] = f[d] /\ r.satisfied[d] = s.satisfied[d]
            BY <1>3, <1>6, <2>3
        <3> QED BY <1>5, <2>1, <3>1, SMTT(30) DEF FrameOK, BlockedOK
    <2> QED BY <2>2, <2>3
<1>10. ASSUME NEW x \in Coord PROVE QueueOK(r, f2, x)
    <2>1. QueueOK(s, f, x)
        BY DEF StateOK
    <2>2. c \notin Members(s.waiters[x])
        BY <2>1 DEF QueueOK
    <2>3. ASSUME NEW d \in Ctx
          PROVE  d \in Members(r.waiters[x]) <=>
                   (Waits(f2[d]) /\ x \in Unscanned(f2[d]) /\ x \notin r.satisfied[d])
        <3>1. CASE d = c
            BY <1>3, <1>4, <1>7, <2>2, <3>1, SMTT(30)
        <3>2. CASE d # c
            BY <1>3, <1>4, <1>6, <2>1, <3>2 DEF QueueOK
        <3> QED BY <3>1, <3>2
    <2> QED BY <1>4, <2>1, <2>3 DEF QueueOK
<1>11. ASSUME NEW x \in Coord PROVE HeldOK(r, f2, x)
    <2>1. HeldOK(s, f, x)
        BY DEF StateOK
    <2>2. Notifying(f, x) => Notifying(f2, x)
        BY <1>3, SMTT(30) DEF Notifying, Waits
    <2> QED BY <1>4, <2>1, <2>2 DEF HeldOK
<1>12. StateOK(r, g, f2)
    BY <1>3, <1>4, <1>5, <1>9, <1>10, <1>11, SMTT(30) DEF StateOK
<1>13. ASSUME NEW o, OwnersOK(s, f, o) PROVE OwnersOK(r, f2, o)
    <2>1. ASSUME NEW d \in Ctx PROVE GrantsOK(r, f2, o, d)
        <3>1. GrantsOK(s, f, o, d)
            BY <1>13 DEF OwnersOK
        <3>2. CASE d = c
            BY <1>3, <1>7, <3>2 DEF GrantsOK
        <3>3. CASE d # c
            BY <1>3, <1>6, <3>1, <3>3, SMTT(30) DEF GrantsOK
        <3> QED BY <3>2, <3>3
    <2> QED BY <1>4, <1>13, <2>1 DEF OwnersOK
<1> QED BY <1>12, <1>13, Zenon DEF r, f2

\* A running Context in Acquire or Flash has been granted what it waited for.
LEMMA GrantedWhenRunning ==
    ASSUME NEW s, NEW g, NEW f, NEW c \in Ctx, StateOK(s, g, f), s.scheduled = c,
           f[c].op \in {"acquire", "flash"}
    PROVE  /\ Waits(f[c])
           /\ Members(f[c].args) = {f[c].args[1]} /\ Unscanned(f[c]) = {f[c].args[1]}
           /\ f[c].args[1] \in Coord /\ f[c].args[1] \in s.satisfied[c]
           /\ f[c].op = "flash" => f[c].args[1] \in Lock
<1>1. /\ FrameOK(s, g, f[c], c) /\ BlockedOK(s, f[c], c) /\ SanityCheck(s)
      /\ f[c].args \in Seq(Coord) /\ f[c].winner \in Nat
    BY DEF StateOK, Frame
<1>2. Waits(f[c])
    BY SMTT(30) DEF Waits
<1>3. f[c].at = 1 /\ Len(f[c].args) = 1 /\ f[c].winner = 0
    BY <1>1 DEF FrameOK
<1>4. Members(f[c].args) = {f[c].args[1]} /\ Unscanned(f[c]) = {f[c].args[1]}
    BY <1>1, <1>3 DEF Members, Unscanned
<1>5. f[c].args[1] \in Coord
    BY <1>1, <1>3
<1>6. s.state[c] = "RUNNING"
    BY <1>1 DEF SanityCheck
<1>7. f[c].args[1] \in s.satisfied[c]
    BY <1>1, <1>2, <1>3, <1>4, <1>6 DEF BlockedOK
<1> QED BY <1>1, <1>2, <1>4, <1>5, <1>7 DEF FrameOK

============================================================================
