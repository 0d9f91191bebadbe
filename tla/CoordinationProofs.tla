------------------------- MODULE CoordinationProofs ------------------------
(* The locks, waits and kills of one cooperator are safe for any Contexts,   *)
(* Locks, argument lists and direct-switch budget: Spec => []IInv, and from  *)
(* IInv the invariants of Coordination that TLC checks on small instances.   *)
EXTENDS CoordinationSteps

----------------------------------------------------------------------------
(* The other actions.                                                        *)

\* SubmitOp keeps IInv.
LEMMA SubmitOK ==
    ASSUME IInv, NEW c \in Ctx, NEW x \in Lock, SubmitOp(c, x)
    PROVE  IInv'
<1>1. /\ owner \in [Lock -> Ctx \cup {NoCtx, External}] /\ owner' = [owner EXCEPT ![x] = External]
      /\ owner[x] = c /\ ~Waits(frame[c]) /\ rt' = rt /\ signaled' = signaled /\ frame' = frame
    BY DEF IInv, OwnersOK, SubmitOp, Free, Waits
<1>2. /\ owner' \in [Lock -> Ctx \cup {NoCtx, External}]
      /\ \A y \in Lock, d \in Ctx : d # c => (owner'[y] = d <=> owner[y] = d)
      /\ \A y \in Lock : owner'[y] = NoCtx <=> owner[y] = NoCtx
    BY <1>1, SchedulerAssumption, CoordinationAssumption
<1>3. OwnersOK(rt, frame, owner)
    BY DEF IInv
<1>4. \A y \in Lock : rt.held[y] <=> owner'[y] # NoCtx
    BY <1>2, <1>3 DEF OwnersOK
<1>5. Reowned(rt, frame, owner', rt, frame, owner, c)
    BY <1>1, <1>2, <1>4 DEF Reowned
<1>6. OwnersOK(rt, frame, owner')
    BY <1>3, <1>5, OpenKeepsOwners
<1> QED BY <1>1, <1>6 DEF IInv

\* MultiCoordinator's fast path keeps IInv.
LEMMA CoordinateFastOK ==
    ASSUME IInv, NEW c \in Ctx, NEW args, CoordinateFast(c, args)
    PROVE  IInv'
<1>1. PICK i \in DOMAIN args :
        /\ ~rt.held[args[i]]
        /\ IF args[i] \in Lock
           THEN /\ rt' = TryAcquire(rt, args[i])
                /\ owner' = [owner EXCEPT ![args[i]] = c]
           ELSE UNCHANGED <<rt, owner>>
    BY DEF CoordinateFast
<1>2. Free(c) /\ UNCHANGED <<signaled, frame>>
    BY DEF CoordinateFast
<1>3. CASE args[i] \in Lock
    BY <1>1, <1>2, <1>3, TakeFree
<1>4. CASE args[i] \notin Lock
    BY <1>1, <1>2, <1>4 DEF IInv
<1> QED BY <1>3, <1>4

\* The lists CoordinateWith waits on name distinct coordinators.
LEMMA WaitListFacts ==
    ASSUME NEW c \in Ctx, NEW args \in WaitLists(c)
    PROVE  args \in Seq(Coord) /\ Distinct(args) /\ args # <<>>
<1>1. CASE args \in ArgLists
    BY <1>1, CoordinationAssumption
<1>2. CASE args \notin ArgLists
    <2>1. PICK a \in ArgLists : args = <<c>> \o a
        BY <1>2 DEF WaitLists
    <2>2. a \in Seq(Lock) /\ Distinct(a) /\ c \in Coord /\ c \notin Lock /\ a \in Seq(Coord)
        BY CoordinationAssumption
    <2>3. /\ args \in Seq(Coord) /\ Len(args) = Len(a) + 1 /\ args[1] = c
          /\ \A i \in 2 .. Len(args) : args[i] = a[i - 1]
        BY <2>1, <2>2
    <2>4. \A i \in 2 .. Len(args) : args[i] \in Lock
        BY <2>2, <2>3
    <2>5. ASSUME NEW i \in 1 .. Len(args), NEW j \in 1 .. Len(args), args[i] = args[j]
          PROVE  i = j
        <3>1. CASE i = 1 \/ j = 1
            BY <2>2, <2>3, <2>4, <2>5, <3>1
        <3>2. CASE i # 1 /\ j # 1
            <4>1. i - 1 \in DOMAIN a /\ j - 1 \in DOMAIN a /\ a[i - 1] = a[j - 1]
                BY <2>2, <2>3, <2>5, <3>2
            <4> QED BY <2>2, <4>1 DEF Distinct
        <3> QED BY <3>1, <3>2
    <2> QED BY <2>2, <2>3, <2>5 DEF Distinct
<1> QED BY <1>1, <1>2

\* MultiCoordinator's Block keeps IInv.
LEMMA CoordinateBlockOK ==
    ASSUME IInv, NEW c \in Ctx, NEW args \in WaitLists(c), CoordinateBlock(c, args)
    PROVE  IInv'
<1>1. args \in Seq(Coord) /\ Distinct(args) /\ args # <<>>
    BY WaitListFacts
<1>2. \A x \in Members(args) : rt.held[x] /\ (x \in Lock => owner[x] # c)
    BY <1>1 DEF CoordinateBlock, Members
<1>3. Parked(rt', rt, args, c)
    BY CoordinateParks DEF IInv, CoordinateBlock, Free, Running
<1>4. /\ StateOK(rt, signaled, frame) /\ OwnersOK(rt, frame, owner) /\ frame[c].op = "none"
      /\ frame' = [frame EXCEPT ![c] = Call("multi", args)] /\ UNCHANGED <<signaled, owner>>
    BY DEF IInv, CoordinateBlock, Free
<1>5. ASSUME NEW r, Parked(r, rt, args, c)
      PROVE  /\ StateOK(r, signaled, [frame EXCEPT ![c] = Call("multi", args)])
             /\ OwnersOK(r, [frame EXCEPT ![c] = Call("multi", args)], owner)
    BY <1>1, <1>2, <1>4, <1>5, Park, Zenon
<1> QED BY <1>3, <1>4, <1>5, Zenon DEF IInv

\* AcquireReturns keeps IInv.
LEMMA AcquireReturnsOK ==
    ASSUME IInv, NEW c \in Ctx, AcquireReturns(c)
    PROVE  IInv'
<1>1. /\ StateOK(rt, signaled, frame) /\ OwnersOK(rt, frame, owner) /\ rt.scheduled = c
      /\ rt' = Forget(rt, c) /\ frame' = [frame EXCEPT ![c] = Idle] /\ UNCHANGED <<signaled, owner>>
    BY DEF IInv, AcquireReturns, Return, Running
<1>2. Waits(frame[c]) /\ \A x \in Unscanned(frame[c]) : x \in rt.satisfied[c]
    BY <1>1, GrantedWhenRunning DEF AcquireReturns
<1>3. /\ StateOK(Forget(rt, c), signaled, [frame EXCEPT ![c] = Idle])
      /\ OwnersOK(Forget(rt, c), [frame EXCEPT ![c] = Idle], owner)
    BY <1>1, <1>2, ReturnKeeps, Zenon
<1> QED BY <1>1, <1>3 DEF IInv

\* CoordinateReturns keeps IInv.
LEMMA CoordinateReturnsOK ==
    ASSUME IInv, NEW c \in Ctx, CoordinateReturns(c)
    PROVE  IInv'
<1>1. /\ StateOK(rt, signaled, frame) /\ OwnersOK(rt, frame, owner) /\ rt.scheduled = c
      /\ rt' = Forget(rt, c) /\ frame' = [frame EXCEPT ![c] = Idle] /\ UNCHANGED <<signaled, owner>>
      /\ frame[c].op = "multi" /\ frame[c].at > Len(frame[c].args)
    BY DEF IInv, CoordinateReturns, Return, Running
<1>2. frame[c].at \in Nat /\ frame[c].args \in Seq(Coord)
    BY DEF IInv, StateOK, Frame
<1>3. Waits(frame[c]) /\ Unscanned(frame[c]) = {}
    BY <1>1, <1>2 DEF Waits, Unscanned
<1>4. /\ StateOK(Forget(rt, c), signaled, [frame EXCEPT ![c] = Idle])
      /\ OwnersOK(Forget(rt, c), [frame EXCEPT ![c] = Idle], owner)
    BY <1>1, <1>3, ReturnKeeps, Zenon
<1> QED BY <1>1, <1>4 DEF IInv

\* The waiters of a Lock are Contexts, so a release makes the head its owner.
LEMMA HeirIsHead ==
    ASSUME IInv, NEW x \in Lock
    PROVE  Heir(x) = HeirOf(rt, x)
<1>1. StateOK(rt, signaled, frame) /\ x \in Coord
    BY CoordinationAssumption DEF IInv
<1>2. rt.waiters[x] # <<>> => Head(rt.waiters[x]) \in Ctx
    BY <1>1, WaiterFacts
<1> QED BY <1>2 DEF Heir, HeirOf

\* A release by an owner that waits for nothing keeps IInv.
LEMMA ReleaseOK ==
    ASSUME IInv, NEW x \in Lock, NEW schedule \in BOOLEAN, schedule => rt.scheduled \in Ctx,
           owner[x] # NoCtx, \A c \in Ctx : owner[x] = c => ~Waits(frame[c]),
           rt' = Release(rt, x, schedule), owner' = [owner EXCEPT ![x] = Heir(x)],
           UNCHANGED <<signaled, frame>>
    PROVE  IInv'
<1>1. StateOK(rt, signaled, frame) /\ OwnersOK(rt, frame, owner) /\ rt.held[x]
    BY DEF IInv, OwnersOK
<1>2. OwnersBut(rt, frame, owner, x)
    BY <1>1, OwnedElsewhere
<1>3. /\ StateOK(Release(rt, x, schedule), signaled, frame)
      /\ OwnersOK(Release(rt, x, schedule), frame, [owner EXCEPT ![x] = HeirOf(rt, x)])
    BY <1>1, <1>2, HandOver, Zenon
<1> QED BY <1>3, HeirIsHead, Zenon DEF IInv

\* ReleaseLock keeps IInv.
LEMMA ReleaseLockOK ==
    ASSUME IInv, NEW c \in Ctx, NEW x \in Lock, NEW schedule \in BOOLEAN, ReleaseLock(c, x, schedule)
    PROVE  IInv'
<1>1. /\ owner[x] = c /\ owner[x] # NoCtx /\ rt.scheduled = c /\ ~Waits(frame[c])
      /\ rt' = Release(rt, x, schedule) /\ owner' = [owner EXCEPT ![x] = Heir(x)]
      /\ UNCHANGED <<signaled, frame>>
    BY SchedulerAssumption DEF ReleaseLock, Free, Running, Waits
<1> QED BY <1>1, ReleaseOK, Zenon

\* CompleteOp keeps IInv.
LEMMA CompleteOK ==
    ASSUME IInv, NEW x \in Lock, CompleteOp(x)
    PROVE  IInv'
<1>1. /\ owner[x] = External /\ owner[x] # NoCtx /\ owner[x] \notin Ctx
      /\ rt' = Release(rt, x, FALSE) /\ owner' = [owner EXCEPT ![x] = Heir(x)]
      /\ UNCHANGED <<signaled, frame>>
    BY CoordinationAssumption DEF CompleteOp
<1> QED BY <1>1, ReleaseOK, Zenon

\* FlashReturns keeps IInv: the granted Lock goes to the next waiter.
LEMMA FlashReturnsOK ==
    ASSUME IInv, NEW c \in Ctx, FlashReturns(c)
    PROVE  IInv'
<1> DEFINE x == frame[c].args[1]
           s1 == Forget(rt, c)
           f1 == [frame EXCEPT ![c] = Idle]
<1>1. /\ StateOK(rt, signaled, frame) /\ OwnersOK(rt, frame, owner) /\ rt.scheduled = c
      /\ frame[c].op = "flash" /\ rt' = Release(s1, x, TRUE) /\ frame' = f1
      /\ owner' = [owner EXCEPT ![x] = Heir(x)] /\ UNCHANGED signaled
    BY DEF IInv, FlashReturns, Return, Running
<1>2. /\ Waits(frame[c]) /\ x \in Lock /\ x \in rt.satisfied[c]
      /\ Members(frame[c].args) = {x} /\ Unscanned(frame[c]) = {x}
    BY <1>1, GrantedWhenRunning
<1>3. StateOK(s1, signaled, f1) /\ OwnersOK(s1, f1, owner)
    BY <1>1, <1>2, ReturnKeeps, Zenon
<1>4. owner[x] = c
    BY <1>1, <1>2 DEF OwnersOK, GrantsOK, Granted
<1>5. s1.scheduled = c /\ s1.waiters = rt.waiters
    <2>1. rt \in Runtime
        BY <1>1 DEF StateOK
    <2> QED BY <1>1, <2>1, ForgetFields, Zenon DEF ListFieldsKept
<1>6. ~Waits(f1[c])
    BY <1>1 DEF StateOK, Waits, Idle, Call
<1> HIDE DEF x, s1, f1
<1>7. s1.held[x] /\ OwnersBut(s1, f1, owner, x)
    <2>1. s1.held[x]
        BY <1>2, <1>3, <1>4, SchedulerAssumption DEF OwnersOK
    <2>2. \A d \in Ctx : owner[x] = d => ~Waits(f1[d])
        BY <1>4, <1>6
    <2> QED BY <1>2, <1>3, <2>1, <2>2, OwnedElsewhere
<1>8. /\ StateOK(Release(s1, x, TRUE), signaled, f1)
      /\ OwnersOK(Release(s1, x, TRUE), f1, [owner EXCEPT ![x] = HeirOf(s1, x)])
    BY <1>2, <1>3, <1>5, <1>7, HandOver, Zenon
<1>9. HeirOf(s1, x) = Heir(x)
    BY <1>2, <1>5, HeirIsHead DEF HeirOf
<1> QED BY <1>1, <1>8, <1>9, Zenon DEF IInv

\* Every turn of MultiCoordinator's scan keeps IInv.
LEMMA CoordinateScanOK ==
    ASSUME IInv, NEW c \in Ctx, CoordinateScan(c)
    PROVE  IInv'
<1> DEFINE k == frame[c]
           x == k.args[k.at]
           fired == x \in rt.satisfied[c]
           f2 == [frame EXCEPT ![c] = Advance(k, fired)]
<1>1. /\ StateOK(rt, signaled, frame) /\ OwnersOK(rt, frame, owner) /\ rt.scheduled = c
      /\ k.op = "multi" /\ k.at <= Len(k.args) /\ frame' = f2 /\ UNCHANGED signaled
    BY DEF IInv, CoordinateScan, Running
<1>2. /\ rt \in Runtime /\ FrameOK(rt, signaled, k, c) /\ k \in Frame /\ x \in Coord
      /\ Distinct(rt.waiters[x]) /\ c \in Waiter
    <2>1. rt \in Runtime /\ FrameOK(rt, signaled, k, c) /\ k \in Frame
        BY <1>1 DEF StateOK
    <2>2. x \in Coord
        BY <1>1, <2>1, SMTT(30) DEF FrameOK, Frame
    <2> QED BY <1>1, <2>1, <2>2 DEF StateOK, QueueOK, Waiter
<1>3. IF x \in Lock /\ fired /\ k.winner # 0
      THEN rt.held[x] /\ OwnersBut(rt, f2, owner, x)
      ELSE OwnersOK(rt, f2, owner)
    <2>1. StateOK(rt, signaled, frame) /\ OwnersOK(rt, frame, owner)
        BY <1>1
    <2>2. x = frame[c].args[frame[c].at] /\ frame[c].op = "multi" /\ frame[c].at <= Len(frame[c].args)
        BY <1>1
    <2>3. f2 = [frame EXCEPT ![c] = Advance(frame[c], x \in rt.satisfied[c])]
        OBVIOUS
    <2> HIDE DEF x, f2
    <2> QED BY <2>1, <2>2, <2>3, ScanOwners, Zenon
<1>4. fired => StateOK(rt, signaled, f2)
    BY <1>1, ScanKeeps, Zenon
<1>5. ~fired => StateOK(RemoveAsBlocked(rt, x, c), signaled, f2)
    BY <1>1, ScanKeeps, Zenon
<1>6. CASE ~fired
    <2>1. rt' = RemoveAsBlocked(rt, x, c) /\ owner' = owner
        BY <1>6, Zenon DEF CoordinateScan
    <2>2. RemoveAsBlocked(rt, x, c).held = rt.held /\ RemoveAsBlocked(rt, x, c).satisfied = rt.satisfied
        BY <1>2, RemoveAsBlockedFields, ZenonT(40)
    <2> HIDE DEF x, f2
    <2>3. OwnersOK(rt, f2, owner)
        BY <1>3, <1>6
    <2>4. OwnersOK(RemoveAsBlocked(rt, x, c), f2, owner)
        BY <2>2, <2>3, OwnersKept
    <2> QED BY <1>1, <1>5, <1>6, <2>1, <2>4 DEF IInv
<1>7. CASE fired /\ k.winner = 0
    <2>1. rt' = rt /\ owner' = owner
        BY <1>7 DEF CoordinateScan
    <2> HIDE DEF x, f2
    <2> QED BY <1>1, <1>3, <1>4, <1>7, <2>1 DEF IInv
<1>8. CASE fired /\ k.winner # 0
    <2>1. /\ rt' = Release(rt, x, FALSE)
          /\ owner' = IF x \in Lock THEN [owner EXCEPT ![x] = Heir(x)] ELSE owner
        BY <1>8, Zenon DEF CoordinateScan
    <2>2. x \notin Lock => ~rt.held[x]
        <3>1. x \notin Lock => x \in Ctx /\ signaled[x]
            BY <1>2, <1>8, CoordinationAssumption DEF FrameOK
        <3> QED BY <1>1, <3>1 DEF StateOK
    <2> HIDE DEF x, f2
    <2>3. CASE x \in Lock
        <3>1. /\ StateOK(Release(rt, x, FALSE), signaled, f2)
              /\ OwnersOK(Release(rt, x, FALSE), f2, [owner EXCEPT ![x] = HeirOf(rt, x)])
            BY <1>3, <1>4, <1>8, <2>3, HandOver, Zenon
        <3> QED BY <1>1, <2>1, <2>3, <3>1, HeirIsHead, Zenon DEF IInv
    <2>4. CASE x \notin Lock
        <3>1. rt' = rt /\ owner' = owner
            BY <2>1, <2>2, <2>4, Zenon DEF Release
        <3> QED BY <1>1, <1>3, <1>4, <1>8, <2>4, <3>1 DEF IInv
    <2> QED BY <2>3, <2>4
<1> QED BY <1>6, <1>7, <1>8

\* Kill keeps IInv: it opens the signal before it wakes anyone.
LEMMA KillOK ==
    ASSUME IInv, NEW c \in Ctx, NEW d \in Ctx, NEW schedule \in BOOLEAN, Kill(c, d, schedule)
    PROVE  IInv'
<1> DEFINE k == [Call("notify", <<d>>) EXCEPT !.schedule = schedule]
           f2 == [frame EXCEPT ![c] = k]
           g2 == [signaled EXCEPT ![d] = TRUE]
           r == OpenSignal(rt, d)
<1>1. /\ StateOK(rt, signaled, frame) /\ OwnersOK(rt, frame, owner) /\ rt.scheduled = c
      /\ frame[c].op = "none" /\ ~Waits(frame[c])
      /\ signaled' = g2 /\ rt' = r /\ frame' = f2 /\ owner' = owner
    BY DEF IInv, Kill, Free, Running, Waits
<1>2. /\ rt \in Runtime /\ rt.held \in [Coord -> BOOLEAN] /\ d \in Coord /\ Ctx \subseteq Coord
      /\ signaled \in [Ctx -> BOOLEAN] /\ frame \in [Ctx -> Frame] /\ rt.state[c] # "EXITED"
      /\ rt.satisfied[c] = {}
    <2>1. rt.satisfied[c] = {} /\ SanityCheck(rt)
        BY <1>1 DEF StateOK, FrameOK
    <2> QED BY <1>1, <2>1, CoordinationAssumption DEF StateOK, Runtime, SanityCheck
<1>3. /\ r \in Runtime /\ ListFieldsKept(r, rt) /\ r.held = [rt.held EXCEPT ![d] = FALSE]
      /\ r.waiters = rt.waiters /\ r.satisfied = rt.satisfied
    BY <1>2, SetHeldFields, Zenon DEF OpenSignal
<1>4. /\ k.op = "notify" /\ k.args = <<d>> /\ k.at = 1 /\ k.winner = 0 /\ k \in Frame
    <2>1. k = [op |-> "notify", args |-> <<d>>, at |-> 1, winner |-> 0, schedule |-> schedule]
        BY DEF Call
    <2>2. <<d>> \in Seq(Coord)
        BY <1>2
    <2> HIDE DEF k
    <2> QED BY <2>1, <2>2 DEF Frame
<1>5. ~Waits(k)
    BY <1>4 DEF Waits
<1> HIDE DEF k, r
<1>6. /\ f2 \in [Ctx -> Frame] /\ f2[c] = k /\ \A e \in Ctx : e # c => f2[e] = frame[e]
      /\ g2 \in [Ctx -> BOOLEAN] /\ g2[d] /\ \A e \in Ctx : signaled[e] => g2[e]
    BY <1>2, <1>4
<1>7. \A e \in Ctx : r.held[e] <=> ~g2[e]
    BY <1>1, <1>2, <1>3 DEF StateOK
<1> HIDE DEF f2, g2
<1>8. FrameOK(r, g2, f2[c], c)
    <2>1. Distinct(<<d>>) /\ Len(<<d>>) = 1 /\ <<d>>[1] = d /\ <<d>> # <<>>
        BY DEF Distinct
    <2>2. r.state[c] # "EXITED" /\ r.satisfied[c] = {}
        BY <1>2, <1>3 DEF ListFieldsKept
    <2>3. Distinct(k.args) /\ Len(k.args) = 1 /\ k.args[1] \in Ctx /\ g2[k.args[1]] /\ k.args # <<>>
        BY <1>4, <1>6, <2>1
    <2>4. k.at \in 1 .. Len(k.args) + 1 /\ k.winner \in 0 .. k.at - 1
        BY <1>4, <2>3
    <2>5. FrameOK(r, g2, k, c)
        BY <1>4, <1>5, <2>2, <2>3, <2>4 DEF FrameOK
    <2> QED BY <1>6, <2>5
<1>9. ASSUME NEW x \in Coord PROVE HeldOK(r, f2, x)
    <2>1. HeldOK(rt, frame, x)
        BY <1>1 DEF StateOK
    <2>2. CASE x = d
        <3>1. Notifying(f2, d)
            BY <1>4, <1>6 DEF Notifying
        <3> QED BY <2>2, <3>1 DEF HeldOK
    <2>3. CASE x # d
        <3>1. r.held[x] = rt.held[x]
            BY <1>2, <1>3, <2>3
        <3>2. Notifying(frame, x) => Notifying(f2, x)
            BY <1>1, <1>6 DEF Notifying
        <3> QED BY <1>3, <2>1, <3>1, <3>2, Zenon DEF HeldOK
    <2> QED BY <2>2, <2>3
<1>10. StateOK(r, g2, f2)
    <2>1. Opened(r, g2, f2, rt, signaled, frame, c)
        BY <1>1, <1>3, <1>5, <1>6, <1>7, <1>8, <1>9 DEF Opened
    <2> QED BY <1>1, <2>1, OpenKeeps
<1>11. OwnersOK(r, f2, owner)
    <2>1. owner \in [Lock -> Ctx \cup {NoCtx, External}]
        BY <1>1 DEF OwnersOK
    <2>2. \A x \in Lock : r.held[x] <=> owner[x] # NoCtx
        BY <1>1, <1>2, <1>3, CoordinationAssumption DEF OwnersOK
    <2>3. Reowned(r, f2, owner, rt, frame, owner, c)
        BY <1>3, <1>5, <1>6, <2>1, <2>2 DEF Reowned
    <2> QED BY <1>1, <2>3, OpenKeepsOwners
<1> QED BY <1>1, <1>10, <1>11 DEF IInv

\* A turn of Signal::Notify's loop keeps IInv.
LEMMA NotifyNextOK ==
    ASSUME IInv, NEW c \in Ctx, NotifyNext(c)
    PROVE  IInv'
<1> DEFINE d == frame[c].args[1]
           r == NotifyHead(rt, d, frame[c].schedule)
           w == Head(rt.waiters[d])
<1>1. /\ StateOK(rt, signaled, frame) /\ OwnersOK(rt, frame, owner) /\ rt.scheduled = c
      /\ frame[c].op = "notify" /\ rt.waiters[d] # <<>>
      /\ rt' = r /\ UNCHANGED <<signaled, frame, owner>>
    BY DEF IInv, NotifyNext, Running
<1>2. /\ rt \in Runtime /\ SanityCheck(rt) /\ frame[c].schedule \in BOOLEAN
      /\ d \in Ctx /\ signaled[d] /\ d \in Coord /\ d \notin Lock
    <2>1. FrameOK(rt, signaled, frame[c], c) /\ frame[c] \in Frame
        BY <1>1, SMTT(30) DEF StateOK
    <2>2. d \in Ctx /\ signaled[d]
        BY <1>1, <2>1, SMTT(30) DEF FrameOK
    <2> QED BY <1>1, <2>1, <2>2, CoordinationAssumption, SMTT(30) DEF StateOK, Frame
<1>3. w \in Ctx
    BY <1>1, <1>2, WaiterFacts, SMTT(30)
<1>4. HeadWoken(r, rt, d)
    BY <1>1, <1>2, <1>3, NotifyHeadFacts
<1> HIDE DEF d, r
<1>5. StateOK(r, signaled, frame)
    BY <1>1, <1>2, <1>4, WakeKeeps
<1>6. /\ r.held = rt.held
      /\ r.satisfied = [rt.satisfied EXCEPT ![w] = rt.satisfied[w] \cup {d}]
    BY <1>4 DEF HeadWoken
<1> HIDE DEF w
<1>7. \A e \in Ctx : r.satisfied[e] = rt.satisfied[e] \/ r.satisfied[e] = rt.satisfied[e] \cup {d}
    <2>1. rt.satisfied \in [Waiter -> SUBSET Coord] /\ Ctx \subseteq Waiter
        BY <1>2 DEF Runtime, Waiter
    <2> QED BY <1>6, <2>1
<1>8. ASSUME NEW e \in Ctx PROVE GrantsOK(r, frame, owner, e)
    <2>1. GrantsOK(rt, frame, owner, e)
        BY <1>1 DEF OwnersOK
    <2>2. \A x \in Lock : x \in r.satisfied[e] <=> x \in rt.satisfied[e]
        BY <1>2, <1>7
    <2> QED BY <2>1, <2>2 DEF GrantsOK, Granted
<1>9. OwnersOK(r, frame, owner)
    BY <1>1, <1>6, <1>8 DEF OwnersOK
<1> QED BY <1>1, <1>5, <1>9 DEF IInv

\* The end of Signal::Notify keeps IInv: nobody is left queued.
LEMMA NotifyReturnsOK ==
    ASSUME IInv, NEW c \in Ctx, NotifyReturns(c)
    PROVE  IInv'
<1> DEFINE d == frame[c].args[1]
           f2 == [frame EXCEPT ![c] = Idle]
<1>1. /\ StateOK(rt, signaled, frame) /\ OwnersOK(rt, frame, owner)
      /\ frame[c].op = "notify" /\ ~Waits(frame[c]) /\ rt.waiters[d] = <<>>
      /\ frame' = f2 /\ rt' = rt /\ signaled' = signaled /\ owner' = owner
    BY DEF IInv, NotifyReturns, Return, Waits
<1>2. /\ rt \in Runtime /\ FrameOK(rt, signaled, frame[c], c) /\ signaled \in [Ctx -> BOOLEAN]
      /\ frame \in [Ctx -> Frame] /\ \A e \in Ctx : rt.held[e] <=> ~signaled[e]
    BY <1>1 DEF StateOK
<1>3. Idle \in Frame /\ Idle.op = "none" /\ Idle.args = <<>> /\ Idle.at = 1 /\ Idle.winner = 0
    BY DEF Idle, Call, Frame
<1>4. ~Waits(Idle)
    BY <1>3 DEF Waits
<1> HIDE DEF Idle
<1>5. f2 \in [Ctx -> Frame] /\ f2[c] = Idle /\ \A e \in Ctx : e # c => f2[e] = frame[e]
    BY <1>2, <1>3
<1> HIDE DEF f2
<1>6. FrameOK(rt, signaled, f2[c], c)
    <2>1. rt.satisfied[c] = {}
        BY <1>1, <1>2 DEF FrameOK
    <2>2. Distinct(<<>>) /\ Len(<<>>) = 0
        BY DEF Distinct
    <2> QED BY <1>3, <1>4, <1>5, <2>1, <2>2, SMTT(30) DEF FrameOK
<1>7. ASSUME NEW x \in Coord PROVE HeldOK(rt, f2, x)
    <2>1. HeldOK(rt, frame, x)
        BY <1>1 DEF StateOK
    <2>2. x # d => (Notifying(frame, x) => Notifying(f2, x))
        BY <1>5 DEF Notifying
    <2> QED BY <1>1, <2>1, <2>2 DEF HeldOK
<1>8. ListFieldsKept(rt, rt)
    BY DEF ListFieldsKept
<1>9. StateOK(rt, signaled, f2)
    <2>1. Opened(rt, signaled, f2, rt, signaled, frame, c)
        BY <1>1, <1>2, <1>4, <1>5, <1>6, <1>7, <1>8 DEF Opened
    <2> QED BY <1>1, <2>1, OpenKeeps, SMTT(30)
<1>10. OwnersOK(rt, f2, owner)
    <2>1. /\ owner \in [Lock -> Ctx \cup {NoCtx, External}]
          /\ \A x \in Lock : rt.held[x] <=> owner[x] # NoCtx
        BY <1>1 DEF OwnersOK
    <2>2. Reowned(rt, f2, owner, rt, frame, owner, c)
        BY <1>4, <1>5, <2>1 DEF Reowned
    <2> QED BY <1>1, <2>2, OpenKeepsOwners
<1> QED BY <1>1, <1>9, <1>10 DEF IInv

----------------------------------------------------------------------------
(* The theorems.                                                             *)

\* IInv survives every step of every Context.
LEMMA NextOK == IInv /\ [Next]_vars => IInv'
<1> SUFFICES ASSUME IInv, [Next]_vars PROVE IInv'
    OBVIOUS
<1>1. CASE UNCHANGED vars
    BY <1>1 DEF vars, IInv
<1>2. CASE ResumeNext
    BY <1>2, ResumeOK
<1>3. ASSUME NEW x \in Lock, CompleteOp(x) PROVE IInv'
    BY <1>3, CompleteOK
<1>4. ASSUME NEW c \in Ctx, Spawn(c) PROVE IInv'
    BY <1>4, SpawnOK
<1>5. ASSUME NEW c \in Ctx, Start(c) PROVE IInv'
    <2>1. CASE Yield(c)
        BY <2>1, YieldOK
    <2>2. ASSUME NEW x \in Lock, AcquireLock(c, x) PROVE IInv'
        BY <2>2, AcquireOK
    <2>3. ASSUME NEW x \in Lock, FlashLock(c, x) PROVE IInv'
        BY <2>3, FlashOK
    <2>4. ASSUME NEW x \in Lock, SubmitOp(c, x) PROVE IInv'
        BY <2>4, SubmitOK
    <2>5. ASSUME NEW x \in Lock, NEW schedule \in BOOLEAN, ReleaseLock(c, x, schedule) PROVE IInv'
        BY <2>5, ReleaseLockOK
    <2>6. ASSUME NEW d \in Ctx, WaitSignal(c, d) PROVE IInv'
        BY <2>6, WaitSignalOK
    <2>7. ASSUME NEW d \in Ctx, NEW schedule \in BOOLEAN, Kill(c, d, schedule) PROVE IInv'
        BY <2>7, KillOK
    <2>8. ASSUME NEW args \in WaitLists(c), CoordinateFast(c, args) PROVE IInv'
        BY <2>8, CoordinateFastOK
    <2>9. ASSUME NEW args \in WaitLists(c), CoordinateBlock(c, args) PROVE IInv'
        BY <2>9, CoordinateBlockOK
    <2> QED BY <1>5, <2>1, <2>2, <2>3, <2>4, <2>5, <2>6, <2>7, <2>8, <2>9 DEF Start
<1>6. ASSUME NEW c \in Ctx, Proceed(c) PROVE IInv'
    BY <1>6, AcquireReturnsOK, FlashReturnsOK, CoordinateScanOK, CoordinateReturnsOK,
       NotifyNextOK, NotifyReturnsOK DEF Proceed
<1> QED BY <1>1, <1>2, <1>3, <1>4, <1>5, <1>6 DEF Next

\* The inductive invariant holds in every state of every behaviour, for any
\* number of Contexts and Locks.
THEOREM CoordinationInvariant == Spec => []IInv
BY InitOK, NextOK, PTL DEF Spec

\* Every variable keeps its type.
THEOREM CoordinationTypes == Spec => []TypeOK
<1>1. IInv => TypeOK
    BY DEF IInv, StateOK, OwnersOK, TypeOK
<1> QED BY <1>1, CoordinationInvariant, PTL

\* Every Context is always on exactly the list its state names (SanityCheck).
THEOREM ListsAlwaysAgree == Spec => []ListsAgree
<1>1. IInv => ListsAgree
    BY DEF IInv, StateOK, ListsAgree
<1> QED BY <1>1, CoordinationInvariant, PTL

\* A Lock is held exactly while someone owns it: no release is ever lost.
THEOREM HeldAlwaysOwned == Spec => []HeldIffOwned
<1>1. IInv => HeldIffOwned
    BY DEF IInv, OwnersOK, HeldIffOwned
<1> QED BY <1>1, CoordinationInvariant, PTL

\* No wakeup is ever lost: whatever a blocked Context waits for is held, or is
\* a Signal whose Notify is still running.
THEOREM NeverStranded == Spec => []NoStranded
<1>1. ASSUME IInv, NEW c \in Ctx, rt.state[c] = "BLOCKED"
      PROVE  /\ Waits(frame[c])
             /\ rt.satisfied[c] = {}
             /\ \A x \in Members(frame[c].args) :
                 /\ c \in Members(rt.waiters[x])
                 /\ rt.held[x] \/ (x \in Ctx /\ Notifying(frame, x))
    <2>1. Waits(frame[c]) /\ rt.satisfied[c] = {} /\ frame[c].at = 1
        BY <1>1, SMTT(30) DEF IInv, StateOK, BlockedOK
    <2>2. frame[c].args \in Seq(Coord)
        BY <1>1 DEF IInv, StateOK, Frame
    <2>3. ASSUME NEW x \in Members(frame[c].args)
          PROVE  c \in Members(rt.waiters[x]) /\ (rt.held[x] \/ (x \in Ctx /\ Notifying(frame, x)))
        <3>1. x \in Coord /\ x \in Unscanned(frame[c])
            BY <2>1, <2>2 DEF Members, Unscanned
        <3>2. QueueOK(rt, frame, x) /\ HeldOK(rt, frame, x)
            BY <1>1, <3>1 DEF IInv, StateOK
        <3>3. c \in Members(rt.waiters[x])
            BY <2>1, <3>1, <3>2 DEF QueueOK
        <3>4. rt.waiters[x] # <<>>
            BY <3>3 DEF Members
        <3> QED BY <3>2, <3>3, <3>4 DEF HeldOK
    <2> QED BY <2>1, <2>3, SMTT(30)
<1>2. IInv => NoStranded
    BY <1>1 DEF NoStranded
<1> QED BY <1>2, CoordinationInvariant, PTL

\* CoordinateWith returns with exactly one coordinator taken, the winner, and
\* linked into no wait list.
THEOREM CoordinateTakesOne == Spec => []ExactlyOneTaken
<1>1. ASSUME IInv, NEW c \in Ctx, frame[c].op = "multi", Running(c), frame[c].at > Len(frame[c].args)
      PROVE  /\ frame[c].winner \in DOMAIN frame[c].args
             /\ \A i \in DOMAIN frame[c].args :
                 /\ c \notin Members(rt.waiters[frame[c].args[i]])
                 /\ frame[c].args[i] \in Lock => (owner[frame[c].args[i]] = c <=> i = frame[c].winner)
    <2> DEFINE k == frame[c]
    <2>1. /\ FrameOK(rt, signaled, k, c) /\ BlockedOK(rt, k, c) /\ k \in Frame
          /\ SanityCheck(rt) /\ GrantsOK(rt, frame, owner, c)
        BY <1>1, SMTT(30) DEF IInv, StateOK, OwnersOK
    <2>2. /\ k.args \in Seq(Coord) /\ k.at \in Nat /\ k.winner \in Nat /\ Waits(k)
          /\ k.at = Len(k.args) + 1 /\ k.winner \in 0 .. Len(k.args)
        <3>1. k.args \in Seq(Coord) /\ k.at \in Nat /\ k.winner \in Nat
            BY <2>1 DEF Frame
        <3> QED BY <1>1, <2>1, <3>1 DEF FrameOK, Waits
    <2>3. Unscanned(k) = {}
        BY <2>2 DEF Unscanned
    <2>4. rt.state[c] # "BLOCKED"
        BY <1>1, <2>1 DEF SanityCheck, Running
    <2>5. k.winner # 0 /\ k.winner \in DOMAIN k.args
        BY <2>1, <2>2, <2>3, <2>4, SMTT(30) DEF BlockedOK
    <2>6. Granted(k, rt.satisfied[c]) = {k.args[k.winner]}
        BY <2>1, <2>3, <2>5, SMTT(30) DEF Granted, FrameOK
    <2>7. ASSUME NEW i \in DOMAIN k.args
          PROVE  /\ c \notin Members(rt.waiters[k.args[i]])
                 /\ k.args[i] \in Lock => (owner[k.args[i]] = c <=> i = k.winner)
        <3>1. k.args[i] \in Coord /\ k.args[i] \in Members(k.args)
            BY <2>2 DEF Members
        <3>2. QueueOK(rt, frame, k.args[i])
            BY <1>1, <3>1, SMTT(30) DEF IInv, StateOK
        <3>3. c \notin Members(rt.waiters[k.args[i]])
            BY <2>3, <3>2, SMTT(30) DEF QueueOK
        <3>4. k.args[i] = k.args[k.winner] <=> i = k.winner
            BY <2>1, <2>2, <2>5, SMTT(30) DEF FrameOK, Distinct
        <3>5. k.args[i] \in Lock => (owner[k.args[i]] = c <=> k.args[i] \in {k.args[k.winner]})
            BY <2>1, <2>2, <2>6, <3>1 DEF GrantsOK
        <3> QED BY <3>3, <3>4, <3>5
    <2> QED BY <2>5, <2>7
<1>2. IInv => ExactlyOneTaken
    BY <1>1 DEF ExactlyOneTaken
<1> QED BY <1>2, CoordinationInvariant, PTL

============================================================================
