------------------------- MODULE CoordinatorProofs -------------------------
EXTENDS Coordinator, TLAPS

\* Append adds one member and keeps a duplicate-free sequence so.
LEMMA AppendFacts ==
    ASSUME NEW S, NEW seq \in Seq(S), NEW e \in S
    PROVE  /\ Append(seq, e) \in Seq(S)
           /\ Members(Append(seq, e)) = Members(seq) \cup {e}
           /\ (Distinct(seq) /\ e \notin Members(seq)) => Distinct(Append(seq, e))
<1> DEFINE app == Append(seq, e)
<1>1. /\ Len(seq) \in Nat /\ DOMAIN seq = 1 .. Len(seq)
      /\ app \in Seq(S) /\ DOMAIN app = 1 .. Len(seq) + 1
      /\ \A i \in 1 .. Len(seq) : app[i] = seq[i]
      /\ app[Len(seq) + 1] = e
    OBVIOUS
<1> HIDE DEF app
<1>2. Members(app) = Members(seq) \cup {e}
    <2>1. ASSUME NEW i \in DOMAIN app PROVE app[i] \in Members(seq) \cup {e}
        <3>1. CASE i = Len(seq) + 1
            BY <1>1, <3>1
        <3>2. CASE i \in 1 .. Len(seq)
            BY <1>1, <3>2 DEF Members
        <3> QED BY <1>1, <3>1, <3>2
    <2>2. ASSUME NEW i \in DOMAIN seq PROVE seq[i] \in Members(app)
        BY <1>1 DEF Members
    <2>3. e \in Members(app)
        BY <1>1 DEF Members
    <2> QED BY <2>1, <2>2, <2>3 DEF Members
<1>3. ASSUME Distinct(seq), e \notin Members(seq) PROVE Distinct(app)
    BY <1>1, <1>3 DEF Members, Distinct
<1> QED BY <1>1, <1>2, <1>3 DEF app

\* The tail of a duplicate-free sequence loses exactly its head.
LEMMA TailFacts ==
    ASSUME NEW S, NEW seq \in Seq(S), seq # <<>>
    PROVE  /\ Tail(seq) \in Seq(S)
           /\ Head(seq) \in S
           /\ Members(seq) = Members(Tail(seq)) \cup {Head(seq)}
           /\ Distinct(seq) => (Distinct(Tail(seq)) /\ Head(seq) \notin Members(Tail(seq)))
<1>1. Len(seq) \in Nat /\ Len(seq) >= 1 /\ DOMAIN seq = 1 .. Len(seq)
    OBVIOUS
<1>2. Tail(seq) \in Seq(S) /\ Len(Tail(seq)) = Len(seq) - 1
      /\ \A i \in 1 .. Len(seq) - 1 : Tail(seq)[i] = seq[i + 1]
    BY <1>1
<1>3. Head(seq) = seq[1] /\ Head(seq) \in S
    BY <1>1
<1>4. Members(seq) = Members(Tail(seq)) \cup {Head(seq)}
    <2>1. ASSUME NEW i \in DOMAIN seq PROVE seq[i] \in Members(Tail(seq)) \cup {Head(seq)}
        <3>1. CASE i = 1
            BY <1>3, <3>1
        <3>2. CASE i # 1
            <4>1. i - 1 \in DOMAIN Tail(seq) /\ Tail(seq)[i - 1] = seq[i]
                BY <1>1, <1>2, <3>2
            <4> QED BY <4>1 DEF Members
        <3> QED BY <3>1, <3>2
    <2>2. ASSUME NEW i \in DOMAIN Tail(seq) PROVE Tail(seq)[i] \in Members(seq)
        BY <1>1, <1>2 DEF Members
    <2> QED BY <1>1, <1>3, <2>1, <2>2 DEF Members
<1>5. ASSUME Distinct(seq) PROVE Distinct(Tail(seq)) /\ Head(seq) \notin Members(Tail(seq))
    BY <1>1, <1>2, <1>3, <1>5, SMTT(20) DEF Members, Distinct
<1> QED BY <1>2, <1>3, <1>4, <1>5

\* Unlinking a waiter removes it and only it (EmbeddedList::Remove).
LEMMA WithoutFacts ==
    ASSUME NEW S, NEW seq \in Seq(S), NEW w, Distinct(seq)
    PROVE  /\ Without(seq, w) \in Seq(S)
           /\ Members(Without(seq, w)) = Members(seq) \ {w}
           /\ Distinct(Without(seq, w))
<1>1. CASE w \notin Members(seq)
    BY <1>1 DEF Without, Members
<1>2. CASE w \in Members(seq)
    <2> DEFINE at == CHOOSE i \in DOMAIN seq : seq[i] = w
               rest == [i \in 1 .. Len(seq) - 1 |-> IF i < at THEN seq[i] ELSE seq[i + 1]]
    <2>1. at \in DOMAIN seq /\ seq[at] = w
        BY <1>2 DEF Members
    <2>2. Without(seq, w) = rest
        BY <1>2 DEF Without
    <2>3. Len(seq) \in Nat /\ DOMAIN seq = 1 .. Len(seq) /\ \A i \in 1 .. Len(seq) : seq[i] \in S
        OBVIOUS
    <2> HIDE DEF at
    <2>4. rest \in Seq(S) /\ DOMAIN rest = 1 .. Len(seq) - 1
        BY <2>1, <2>3
    <2>5. ASSUME NEW i \in DOMAIN rest PROVE rest[i] \in Members(seq) /\ rest[i] # w
        BY <2>1, <2>3, <2>4 DEF Members, Distinct
    <2>6. ASSUME NEW i \in DOMAIN seq, seq[i] # w PROVE seq[i] \in Members(rest)
        <3>1. CASE i < at
            <4>1. i \in DOMAIN rest /\ rest[i] = seq[i]
                BY <2>1, <2>3, <2>4, <3>1
            <4> QED BY <4>1 DEF Members
        <3>2. CASE i > at
            <4>1. i - 1 \in DOMAIN rest /\ rest[i - 1] = seq[i]
                BY <2>1, <2>3, <2>4, <3>2
            <4> QED BY <4>1 DEF Members
        <3>3. i # at
            BY <2>1, <2>6
        <3> QED BY <2>1, <2>3, <3>1, <3>2, <3>3
    <2>7. Members(rest) = Members(seq) \ {w}
        BY <2>5, <2>6 DEF Members
    <2>8. Distinct(rest)
        BY <2>1, <2>3, <2>4 DEF Distinct
    <2> QED BY <2>2, <2>4, <2>7, <2>8
<1> QED BY <1>1, <1>2

----------------------------------------------------------------------------
(* What each step of a call leaves in each field.                            *)

\* The fields no scheduling step touches.
SyncFieldsKept(r, s) ==
    /\ r.held = s.held
    /\ r.waiters = s.waiters
    /\ r.satisfied = s.satisfied
    /\ r.pending = s.pending

\* What each list step of cooperator.cpp changes: yielded ...
LEMMA PushYieldedFields ==
    ASSUME NEW s \in Runtime, NEW c \in Ctx
    PROVE  /\ PushYielded(s, c) \in Runtime
           /\ SyncFieldsKept(PushYielded(s, c), s)
           /\ PushYielded(s, c).state = [s.state EXCEPT ![c] = "YIELDED"]
           /\ PushYielded(s, c).yielded = Append(s.yielded, c)
           /\ PushYielded(s, c).blocked = s.blocked
           /\ PushYielded(s, c).scheduled = s.scheduled
           /\ PushYielded(s, c).budget = s.budget
BY AppendFacts, Zenon DEF Runtime, PushYielded, States, SyncFieldsKept

\* ... blocked ...
LEMMA PushBlockedFields ==
    ASSUME NEW s \in Runtime, NEW c \in Ctx
    PROVE  /\ PushBlocked(s, c) \in Runtime
           /\ SyncFieldsKept(PushBlocked(s, c), s)
           /\ PushBlocked(s, c).state = [s.state EXCEPT ![c] = "BLOCKED"]
           /\ PushBlocked(s, c).yielded = s.yielded
           /\ PushBlocked(s, c).blocked = s.blocked \cup {c}
           /\ PushBlocked(s, c).scheduled = s.scheduled
           /\ PushBlocked(s, c).budget = s.budget
BY Zenon DEF Runtime, PushBlocked, States, SyncFieldsKept

\* ... scheduled ...
LEMMA RunFields ==
    ASSUME NEW s \in Runtime, NEW c \in Ctx
    PROVE  /\ Run(s, c) \in Runtime
           /\ SyncFieldsKept(Run(s, c), s)
           /\ Run(s, c).state = [s.state EXCEPT ![c] = "RUNNING"]
           /\ Run(s, c).yielded = s.yielded
           /\ Run(s, c).blocked = s.blocked
           /\ Run(s, c).scheduled = c
           /\ Run(s, c).budget = s.budget
BY Zenon DEF Runtime, Run, States, SyncFieldsKept

\* ... the head of the yielded list ...
LEMMA PopYieldedFields ==
    ASSUME NEW s \in Runtime, s.yielded # <<>>
    PROVE  /\ PopYielded(s) \in Runtime
           /\ SyncFieldsKept(PopYielded(s), s)
           /\ PopYielded(s).state = s.state
           /\ PopYielded(s).yielded = Tail(s.yielded)
           /\ PopYielded(s).blocked = s.blocked
           /\ PopYielded(s).scheduled = s.scheduled
           /\ PopYielded(s).budget = s.budget
BY TailFacts, Zenon DEF Runtime, PopYielded, SyncFieldsKept

\* ... back to the loop ...
LEMMA ToLoopFields ==
    ASSUME NEW s \in Runtime
    PROVE  /\ ToLoop(s) \in Runtime
           /\ SyncFieldsKept(ToLoop(s), s)
           /\ ToLoop(s).state = s.state
           /\ ToLoop(s).yielded = s.yielded
           /\ ToLoop(s).blocked = s.blocked
           /\ ToLoop(s).scheduled = NoCtx
           /\ ToLoop(s).budget = s.budget
BY Zenon DEF Runtime, ToLoop, SyncFieldsKept

\* ... one direct switch spent ...
LEMMA SpendBudgetFields ==
    ASSUME NEW s \in Runtime, s.budget > 0
    PROVE  /\ SpendBudget(s) \in Runtime
           /\ SyncFieldsKept(SpendBudget(s), s)
           /\ SpendBudget(s).state = s.state
           /\ SpendBudget(s).yielded = s.yielded
           /\ SpendBudget(s).blocked = s.blocked
           /\ SpendBudget(s).scheduled = s.scheduled
<1>1. s.budget - 1 \in Nat
    BY DEF Runtime
<1> QED BY <1>1, Zenon DEF Runtime, SpendBudget, SyncFieldsKept

\* ... the budget refilled ...
LEMMA RefillBudgetFields ==
    ASSUME NEW s \in Runtime
    PROVE  /\ RefillBudget(s) \in Runtime
           /\ SyncFieldsKept(RefillBudget(s), s)
           /\ RefillBudget(s).state = s.state
           /\ RefillBudget(s).yielded = s.yielded
           /\ RefillBudget(s).blocked = s.blocked
BY SchedulerAssumption, Zenon DEF Runtime, RefillBudget, SyncFieldsKept

\* ... and a Context taken off the blocked list.
LEMMA RemoveBlockedFields ==
    ASSUME NEW s \in Runtime, NEW c \in Ctx
    PROVE  /\ RemoveBlocked(s, c) \in Runtime
           /\ SyncFieldsKept(RemoveBlocked(s, c), s)
           /\ RemoveBlocked(s, c).state = s.state
           /\ RemoveBlocked(s, c).yielded = s.yielded
           /\ RemoveBlocked(s, c).blocked = s.blocked \ {c}
           /\ RemoveBlocked(s, c).scheduled = s.scheduled
BY Zenon DEF Runtime, RemoveBlocked, SyncFieldsKept

----------------------------------------------------------------------------
(* The Cooperator's calls keep SanityCheck.  Besides that, what depends on   *)
(* them needs to know only who is blocked and who has exited.                *)

\* No one but the Contexts in `except` becomes blocked, wakes or exits.
OthersKept(r, s, except) ==
    \A d \in Ctx \ except :
        /\ r.state[d] = "BLOCKED" <=> s.state[d] = "BLOCKED"
        /\ r.state[d] = "EXITED" <=> s.state[d] = "EXITED"

\* The head of a non-empty m_yielded is a YIELDED Context, on the list once.
LEMMA HeadFacts ==
    ASSUME NEW s \in Runtime, SanityCheck(s), s.yielded # <<>>
    PROVE  /\ Head(s.yielded) \in Ctx
           /\ s.state[Head(s.yielded)] = "YIELDED"
           /\ Tail(s.yielded) \in Seq(Ctx)
           /\ Distinct(Tail(s.yielded))
           /\ Members(Tail(s.yielded)) = {d \in Ctx : s.state[d] = "YIELDED"} \ {Head(s.yielded)}
<1>1. s.yielded \in Seq(Ctx)
    BY DEF Runtime
<1> QED BY <1>1, TailFacts DEF SanityCheck

\* YieldFrom, by direct switch or through the loop, keeps the lists sane.
LEMMA YieldFromFacts ==
    ASSUME NEW s \in Runtime, NEW c \in Ctx, SanityCheck(s), s.scheduled = c
    PROVE  /\ YieldFrom(s, c) \in Runtime
           /\ SanityCheck(YieldFrom(s, c))
           /\ SyncFieldsKept(YieldFrom(s, c), s)
           /\ OthersKept(YieldFrom(s, c), s, {})
<1> DEFINE r == YieldFrom(s, c)
<1>1. s.state \in [Ctx -> States] /\ s.yielded \in Seq(Ctx) /\ s.budget \in Nat
    BY DEF Runtime
<1>2. /\ s.state[c] = "RUNNING" /\ c \notin Members(s.yielded)
      /\ \A d \in Ctx : s.state[d] = "RUNNING" => d = c
    BY DEF SanityCheck
<1>3. CASE CanSwitchDirect(s)
    <2> DEFINE h == Head(s.yielded)
               p1 == SpendBudget(s)
               p2 == PopYielded(p1)
               p3 == PushYielded(p2, c)
    <2>1. s.budget > 0 /\ s.yielded # <<>>
        BY <1>3 DEF CanSwitchDirect
    <2>2. /\ h \in Ctx /\ h # c /\ Tail(s.yielded) \in Seq(Ctx) /\ Distinct(Tail(s.yielded))
          /\ Members(Tail(s.yielded)) = {d \in Ctx : s.state[d] = "YIELDED"} \ {h}
          /\ s.state[h] = "YIELDED"
        BY <1>2, <2>1, HeadFacts
    <2>3. r = Run(p3, h)
        BY <1>3 DEF YieldFrom
    <2> HIDE DEF r, h
    <2>4. /\ p1 \in Runtime /\ SyncFieldsKept(p1, s) /\ p1.state = s.state
          /\ p1.yielded = s.yielded /\ p1.blocked = s.blocked
        BY <2>1, SpendBudgetFields
    <2> HIDE DEF p1
    <2>5. /\ p2 \in Runtime /\ SyncFieldsKept(p2, p1) /\ p2.state = s.state
          /\ p2.yielded = Tail(s.yielded) /\ p2.blocked = s.blocked
        BY <2>1, <2>4, PopYieldedFields
    <2> HIDE DEF p2
    <2>6. /\ p3 \in Runtime /\ SyncFieldsKept(p3, p2) /\ p3.state = [s.state EXCEPT ![c] = "YIELDED"]
          /\ p3.yielded = Append(Tail(s.yielded), c) /\ p3.blocked = s.blocked
        <3>1. /\ p3 \in Runtime /\ SyncFieldsKept(p3, p2) /\ p3.state = [p2.state EXCEPT ![c] = "YIELDED"]
              /\ p3.yielded = Append(p2.yielded, c) /\ p3.blocked = p2.blocked
            BY <2>5, PushYieldedFields, Zenon
        <3> QED BY <2>5, <3>1
    <2> HIDE DEF p3
    <2>7. /\ r \in Runtime /\ SyncFieldsKept(r, p3)
          /\ r.state = [[s.state EXCEPT ![c] = "YIELDED"] EXCEPT ![h] = "RUNNING"]
          /\ r.yielded = Append(Tail(s.yielded), c) /\ r.blocked = s.blocked /\ r.scheduled = h
        <3>1. /\ r \in Runtime /\ SyncFieldsKept(r, p3) /\ r.state = [p3.state EXCEPT ![h] = "RUNNING"]
              /\ r.yielded = p3.yielded /\ r.blocked = p3.blocked /\ r.scheduled = h
            <4>1. p3 \in Runtime /\ h \in Ctx
                BY <2>2, <2>6
            <4> QED BY <2>3, <4>1, RunFields
        <3> QED BY <2>6, <3>1
    <2>8. \A d \in Ctx : r.state[d] = IF d = h THEN "RUNNING" ELSE IF d = c THEN "YIELDED" ELSE s.state[d]
        BY <1>1, <2>2, <2>7
    <2>9. Distinct(r.yielded) /\ Members(r.yielded) = {d \in Ctx : r.state[d] = "YIELDED"}
        <3>1. c \notin Members(Tail(s.yielded))
            BY <1>2, <2>2
        <3>2. Members(r.yielded) = Members(Tail(s.yielded)) \cup {c} /\ Distinct(r.yielded)
            <4> DEFINE t == Tail(s.yielded)
            <4>1. t \in Seq(Ctx) /\ Distinct(t) /\ c \notin Members(t)
                BY <2>2, <3>1
            <4> HIDE DEF t
            <4>2. Members(Append(t, c)) = Members(t) \cup {c} /\ Distinct(Append(t, c))
                BY <4>1, AppendFacts
            <4> QED BY <2>7, <4>2 DEF t
        <3> QED BY <1>1, <1>2, <2>2, <2>8, <3>2
    <2>10. r.blocked = {d \in Ctx : r.state[d] = "BLOCKED"}
        BY <1>2, <2>2, <2>7, <2>8, SMTT(20) DEF SanityCheck
    <2>11. \A d \in Ctx : r.state[d] = "RUNNING" <=> r.scheduled = d
        <3>1. r.scheduled = h
            BY <2>7
        <3> QED BY <1>2, <2>2, <2>8, <3>1
    <2>12. OthersKept(r, s, {})
        BY <1>2, <2>2, <2>8 DEF OthersKept
    <2> QED BY <2>4, <2>5, <2>6, <2>7, <2>9, <2>10, <2>11, <2>12 DEF SanityCheck, SyncFieldsKept, r
<1>4. CASE ~CanSwitchDirect(s)
    <2> DEFINE p1 == PushYielded(s, c)
    <2>1. r = ToLoop(p1)
        BY <1>4 DEF YieldFrom
    <2> HIDE DEF r
    <2>2. /\ p1 \in Runtime /\ SyncFieldsKept(p1, s) /\ p1.state = [s.state EXCEPT ![c] = "YIELDED"]
          /\ p1.yielded = Append(s.yielded, c) /\ p1.blocked = s.blocked
        BY PushYieldedFields
    <2> HIDE DEF p1
    <2>3. /\ r \in Runtime /\ SyncFieldsKept(r, p1) /\ r.state = [s.state EXCEPT ![c] = "YIELDED"]
          /\ r.yielded = Append(s.yielded, c) /\ r.blocked = s.blocked /\ r.scheduled = NoCtx
        BY <2>1, <2>2, ToLoopFields
    <2>4. \A d \in Ctx : r.state[d] = IF d = c THEN "YIELDED" ELSE s.state[d]
        BY <1>1, <2>3
    <2>5. Distinct(r.yielded) /\ Members(r.yielded) = {d \in Ctx : r.state[d] = "YIELDED"}
        <3>1. Members(r.yielded) = Members(s.yielded) \cup {c} /\ Distinct(r.yielded)
            BY <1>1, <1>2, <2>3, AppendFacts DEF SanityCheck
        <3> QED BY <2>4, <3>1 DEF SanityCheck
    <2>6. r.blocked = {d \in Ctx : r.state[d] = "BLOCKED"}
        BY <1>2, <2>3, <2>4 DEF SanityCheck
    <2>7. \A d \in Ctx : r.state[d] = "RUNNING" <=> r.scheduled = d
        BY <1>2, <2>3, <2>4, SchedulerAssumption DEF SanityCheck
    <2>8. OthersKept(r, s, {})
        BY <1>2, <2>4 DEF OthersKept
    <2> QED BY <2>2, <2>3, <2>5, <2>6, <2>7, <2>8 DEF SanityCheck, SyncFieldsKept, r
<1> QED BY <1>3, <1>4

\* Resume runs the head of the yielded list.
LEMMA ResumeFacts ==
    ASSUME NEW s \in Runtime, SanityCheck(s), s.scheduled = NoCtx, s.yielded # <<>>
    PROVE  /\ Resume(s) \in Runtime
           /\ SanityCheck(Resume(s))
           /\ SyncFieldsKept(Resume(s), s)
           /\ OthersKept(Resume(s), s, {})
<1> DEFINE r == Resume(s)
           h == Head(s.yielded)
           p1 == PopYielded(s)
           p2 == RefillBudget(p1)
<1>1. s.state \in [Ctx -> States]
    BY DEF Runtime
<1>2. /\ h \in Ctx /\ Tail(s.yielded) \in Seq(Ctx) /\ Distinct(Tail(s.yielded))
      /\ Members(Tail(s.yielded)) = {d \in Ctx : s.state[d] = "YIELDED"} \ {h}
      /\ s.state[h] = "YIELDED"
    BY HeadFacts
<1>3. \A d \in Ctx : s.state[d] # "RUNNING"
    BY SchedulerAssumption DEF SanityCheck
<1>4. r = Run(p2, h)
    BY DEF Resume
<1> HIDE DEF r, h
<1>5. /\ p1 \in Runtime /\ SyncFieldsKept(p1, s) /\ p1.state = s.state
      /\ p1.yielded = Tail(s.yielded) /\ p1.blocked = s.blocked
    BY PopYieldedFields
<1> HIDE DEF p1
<1>6. /\ p2 \in Runtime /\ SyncFieldsKept(p2, p1) /\ p2.state = p1.state
      /\ p2.yielded = p1.yielded /\ p2.blocked = p1.blocked
    BY <1>5, RefillBudgetFields
<1> HIDE DEF p2
<1>7. /\ r \in Runtime /\ SyncFieldsKept(r, p2) /\ r.state = [p2.state EXCEPT ![h] = "RUNNING"]
      /\ r.yielded = p2.yielded /\ r.blocked = p2.blocked /\ r.scheduled = h
    BY <1>2, <1>4, <1>6, RunFields, Zenon
<1>8. \A d \in Ctx : r.state[d] = IF d = h THEN "RUNNING" ELSE s.state[d]
    BY <1>1, <1>2, <1>5, <1>6, <1>7
<1>9. r.yielded = Tail(s.yielded) /\ r.blocked = s.blocked /\ r.scheduled = h
    BY <1>5, <1>6, <1>7
<1>10. Members(r.yielded) = {d \in Ctx : r.state[d] = "YIELDED"}
    BY <1>2, <1>8, <1>9
<1>11. r.blocked = {d \in Ctx : r.state[d] = "BLOCKED"}
    BY <1>2, <1>8, <1>9 DEF SanityCheck
<1>12. \A d \in Ctx : r.state[d] = "RUNNING" <=> r.scheduled = d
    BY <1>2, <1>3, <1>8, <1>9
<1>13. OthersKept(r, s, {})
    BY <1>2, <1>8 DEF OthersKept
<1> QED BY <1>2, <1>5, <1>6, <1>7, <1>9, <1>10, <1>11, <1>12, <1>13 DEF SanityCheck, SyncFieldsKept, r

\* Block parks the running Context.
LEMMA BlockFacts ==
    ASSUME NEW s \in Runtime, NEW c \in Ctx, SanityCheck(s), s.scheduled = c
    PROVE  /\ Block(s, c) \in Runtime
           /\ SanityCheck(Block(s, c))
           /\ SyncFieldsKept(Block(s, c), s)
           /\ OthersKept(Block(s, c), s, {c})
           /\ Block(s, c).state[c] = "BLOCKED"
<1> DEFINE r == Block(s, c)
<1>1. s.state \in [Ctx -> States] /\ s.yielded \in Seq(Ctx) /\ s.budget \in Nat
    BY DEF Runtime
<1>2. /\ s.state[c] = "RUNNING" /\ c \notin Members(s.yielded)
      /\ \A d \in Ctx : s.state[d] = "RUNNING" => d = c
    BY DEF SanityCheck
<1>3. CASE CanSwitchDirect(s)
    <2> DEFINE h == Head(s.yielded)
               p1 == SpendBudget(s)
               p2 == PushBlocked(p1, c)
               p3 == PopYielded(p2)
    <2>1. s.budget > 0 /\ s.yielded # <<>>
        BY <1>3 DEF CanSwitchDirect
    <2>2. /\ h \in Ctx /\ h # c /\ Distinct(Tail(s.yielded))
          /\ Members(Tail(s.yielded)) = {d \in Ctx : s.state[d] = "YIELDED"} \ {h}
          /\ s.state[h] = "YIELDED"
        BY <1>2, <2>1, HeadFacts
    <2>3. r = Run(p3, h)
        BY <1>3 DEF Block
    <2> HIDE DEF r, h
    <2>4. /\ p1 \in Runtime /\ SyncFieldsKept(p1, s) /\ p1.state = s.state
          /\ p1.yielded = s.yielded /\ p1.blocked = s.blocked
        BY <2>1, SpendBudgetFields
    <2> HIDE DEF p1
    <2>5. /\ p2 \in Runtime /\ SyncFieldsKept(p2, p1) /\ p2.state = [p1.state EXCEPT ![c] = "BLOCKED"]
          /\ p2.yielded = p1.yielded /\ p2.blocked = p1.blocked \cup {c}
        BY <2>4, PushBlockedFields
    <2> HIDE DEF p2
    <2>6. /\ p3 \in Runtime /\ SyncFieldsKept(p3, p2) /\ p3.state = p2.state
          /\ p3.yielded = Tail(p2.yielded) /\ p3.blocked = p2.blocked
        <3>1. p2.yielded # <<>>
            BY <2>1, <2>4, <2>5
        <3> QED BY <2>5, <3>1, PopYieldedFields
    <2> HIDE DEF p3
    <2>7. /\ r \in Runtime /\ SyncFieldsKept(r, p3) /\ r.state = [p3.state EXCEPT ![h] = "RUNNING"]
          /\ r.yielded = p3.yielded /\ r.blocked = p3.blocked /\ r.scheduled = h
        <3>1. p3 \in Runtime /\ h \in Ctx
            BY <2>2, <2>6
        <3> QED BY <2>3, <3>1, RunFields
    <2>8. \A d \in Ctx : r.state[d] = IF d = h THEN "RUNNING" ELSE IF d = c THEN "BLOCKED" ELSE s.state[d]
        BY <1>1, <2>2, <2>4, <2>5, <2>6, <2>7
    <2>9. r.yielded = Tail(s.yielded) /\ r.blocked = s.blocked \cup {c} /\ r.scheduled = h
        BY <2>4, <2>5, <2>6, <2>7
    <2>10. Members(r.yielded) = {d \in Ctx : r.state[d] = "YIELDED"}
        BY <1>2, <2>2, <2>8, <2>9
    <2>11. r.blocked = {d \in Ctx : r.state[d] = "BLOCKED"}
        BY <1>2, <2>2, <2>8, <2>9 DEF SanityCheck
    <2>12. \A d \in Ctx : r.state[d] = "RUNNING" <=> r.scheduled = d
        <3>1. r.scheduled = h
            BY <2>9
        <3> QED BY <1>2, <2>2, <2>8, <3>1
    <2>13. OthersKept(r, s, {c}) /\ r.state[c] = "BLOCKED"
        BY <1>2, <2>2, <2>8 DEF OthersKept
    <2> QED BY <2>2, <2>4, <2>5, <2>6, <2>7, <2>9, <2>10, <2>11, <2>12, <2>13
            DEF SanityCheck, SyncFieldsKept, r
<1>4. CASE ~CanSwitchDirect(s)
    <2> DEFINE p1 == PushBlocked(s, c)
    <2>1. r = ToLoop(p1)
        BY <1>4 DEF Block
    <2> HIDE DEF r
    <2>2. /\ p1 \in Runtime /\ SyncFieldsKept(p1, s) /\ p1.state = [s.state EXCEPT ![c] = "BLOCKED"]
          /\ p1.yielded = s.yielded /\ p1.blocked = s.blocked \cup {c}
        BY PushBlockedFields
    <2> HIDE DEF p1
    <2>3. /\ r \in Runtime /\ SyncFieldsKept(r, p1) /\ r.state = p1.state
          /\ r.yielded = p1.yielded /\ r.blocked = p1.blocked /\ r.scheduled = NoCtx
        BY <2>1, <2>2, ToLoopFields
    <2>4. \A d \in Ctx : r.state[d] = IF d = c THEN "BLOCKED" ELSE s.state[d]
        BY <1>1, <2>2, <2>3
    <2>5. r.yielded = s.yielded /\ r.blocked = s.blocked \cup {c} /\ r.scheduled = NoCtx
        BY <2>2, <2>3
    <2>6. Distinct(r.yielded) /\ Members(r.yielded) = {d \in Ctx : r.state[d] = "YIELDED"}
        BY <1>2, <2>4, <2>5 DEF SanityCheck
    <2>7. r.blocked = {d \in Ctx : r.state[d] = "BLOCKED"}
        BY <1>2, <2>4, <2>5 DEF SanityCheck
    <2>8. \A d \in Ctx : r.state[d] = "RUNNING" <=> r.scheduled = d
        BY <1>2, <2>4, <2>5, SchedulerAssumption
    <2>9. OthersKept(r, s, {c}) /\ r.state[c] = "BLOCKED"
        BY <2>4 DEF OthersKept
    <2> QED BY <2>2, <2>3, <2>6, <2>7, <2>8, <2>9 DEF SanityCheck, SyncFieldsKept, r
<1> QED BY <1>3, <1>4

\* A wake leaves w runnable, and does nothing if w is not blocked.
LEMMA UnblockFacts ==
    ASSUME NEW s \in Runtime, NEW w \in Ctx, NEW schedule \in BOOLEAN, SanityCheck(s),
           schedule => s.scheduled \in Ctx
    PROVE  /\ Unblock(s, w, schedule) \in Runtime
           /\ SanityCheck(Unblock(s, w, schedule))
           /\ SyncFieldsKept(Unblock(s, w, schedule), s)
           /\ OthersKept(Unblock(s, w, schedule), s, {w})
           /\ Unblock(s, w, schedule).state[w] # "BLOCKED"
           /\ Unblock(s, w, schedule).state[w] = "EXITED" <=> s.state[w] = "EXITED"
<1> DEFINE r == Unblock(s, w, schedule)
           p1 == RemoveBlocked(s, w)
<1>1. s.state \in [Ctx -> States] /\ s.yielded \in Seq(Ctx)
    BY DEF Runtime
<1>2. CASE s.state[w] # "BLOCKED"
    <2>1. r = s
        BY <1>2 DEF Unblock
    <2> QED BY <1>2, <2>1 DEF SyncFieldsKept, OthersKept
<1> SUFFICES ASSUME s.state[w] = "BLOCKED" PROVE
           /\ r \in Runtime /\ SanityCheck(r) /\ SyncFieldsKept(r, s) /\ OthersKept(r, s, {w})
           /\ r.state[w] # "BLOCKED" /\ r.state[w] # "EXITED"
    BY <1>2
<1>3. w \notin Members(s.yielded) /\ s.scheduled # w
    BY DEF SanityCheck
<1>4. /\ p1 \in Runtime /\ SyncFieldsKept(p1, s) /\ p1.state = s.state /\ p1.yielded = s.yielded
      /\ p1.blocked = s.blocked \ {w} /\ p1.scheduled = s.scheduled
    BY RemoveBlockedFields
<1>5. CASE schedule
    <2> DEFINE c == s.scheduled
               p2 == PushYielded(p1, c)
    <2>1. c \in Ctx /\ c # w /\ s.state[c] = "RUNNING" /\ c \notin Members(s.yielded)
        BY <1>3, <1>5 DEF SanityCheck
    <2>2. \A d \in Ctx : s.state[d] = "RUNNING" => d = c
        BY DEF SanityCheck
    <2>3. r = Run(p2, w)
        BY <1>5 DEF Unblock
    <2> HIDE DEF r, p1, c
    <2>4. /\ p2 \in Runtime /\ SyncFieldsKept(p2, p1) /\ p2.state = [p1.state EXCEPT ![c] = "YIELDED"]
          /\ p2.yielded = Append(p1.yielded, c) /\ p2.blocked = p1.blocked
        BY <1>4, <2>1, PushYieldedFields, Zenon
    <2> HIDE DEF p2
    <2>5. /\ r \in Runtime /\ SyncFieldsKept(r, p2) /\ r.state = [p2.state EXCEPT ![w] = "RUNNING"]
          /\ r.yielded = p2.yielded /\ r.blocked = p2.blocked /\ r.scheduled = w
        <3>1. p2 \in Runtime
            BY <2>4
        <3> QED BY <2>3, <3>1, RunFields
    <2>6. \A d \in Ctx : r.state[d] = IF d = w THEN "RUNNING" ELSE IF d = c THEN "YIELDED" ELSE s.state[d]
        BY <1>1, <1>4, <2>1, <2>4, <2>5
    <2>7. r.yielded = Append(s.yielded, c) /\ r.blocked = s.blocked \ {w} /\ r.scheduled = w
        BY <1>4, <2>4, <2>5
    <2>8. Distinct(r.yielded) /\ Members(r.yielded) = {d \in Ctx : r.state[d] = "YIELDED"}
        <3>1. Members(r.yielded) = Members(s.yielded) \cup {c} /\ Distinct(r.yielded)
            BY <1>1, <2>1, <2>7, AppendFacts DEF SanityCheck
        <3> QED BY <2>1, <2>6, <3>1 DEF SanityCheck
    <2>9. r.blocked = {d \in Ctx : r.state[d] = "BLOCKED"}
        BY <2>1, <2>6, <2>7 DEF SanityCheck
    <2>10. \A d \in Ctx : r.state[d] = "RUNNING" <=> r.scheduled = d
        BY <2>2, <2>6, <2>7
    <2>11. OthersKept(r, s, {w}) /\ r.state[w] = "RUNNING"
        BY <2>1, <2>6 DEF OthersKept
    <2> QED BY <1>4, <2>4, <2>5, <2>8, <2>9, <2>10, <2>11, SMTT(20) DEF SanityCheck, SyncFieldsKept
<1>6. CASE ~schedule
    <2>1. r = PushYielded(p1, w)
        BY <1>6 DEF Unblock
    <2> HIDE DEF r, p1
    <2>2. /\ r \in Runtime /\ SyncFieldsKept(r, p1) /\ r.state = [p1.state EXCEPT ![w] = "YIELDED"]
          /\ r.yielded = Append(p1.yielded, w) /\ r.blocked = p1.blocked /\ r.scheduled = p1.scheduled
        BY <1>4, <2>1, PushYieldedFields, Zenon
    <2>3. \A d \in Ctx : r.state[d] = IF d = w THEN "YIELDED" ELSE s.state[d]
        BY <1>1, <1>4, <2>2
    <2>4. r.yielded = Append(s.yielded, w) /\ r.blocked = s.blocked \ {w} /\ r.scheduled = s.scheduled
        BY <1>4, <2>2
    <2>5. Distinct(r.yielded) /\ Members(r.yielded) = {d \in Ctx : r.state[d] = "YIELDED"}
        <3>1. Members(r.yielded) = Members(s.yielded) \cup {w} /\ Distinct(r.yielded)
            BY <1>1, <1>3, <2>4, AppendFacts DEF SanityCheck
        <3> QED BY <2>3, <3>1 DEF SanityCheck
    <2>6. r.blocked = {d \in Ctx : r.state[d] = "BLOCKED"}
        BY <2>3, <2>4 DEF SanityCheck
    <2>7. \A d \in Ctx : r.state[d] = "RUNNING" <=> r.scheduled = d
        <3>1. \A d \in Ctx : s.state[d] = "RUNNING" <=> s.scheduled = d
            BY DEF SanityCheck
        <3> QED BY <1>3, <2>3, <2>4, <3>1
    <2>8. OthersKept(r, s, {w}) /\ r.state[w] = "YIELDED"
        BY <2>3 DEF OthersKept
    <2> QED BY <1>4, <2>2, <2>5, <2>6, <2>7, <2>8 DEF SanityCheck, SyncFieldsKept
<1> QED BY <1>5, <1>6

\* EnterContext runs a new Context and yields whoever spawned it.
LEMMA EnterContextFacts ==
    ASSUME NEW s \in Runtime, NEW c \in Ctx, SanityCheck(s), s.state[c] = "EXITED"
    PROVE  /\ EnterContext(s, c) \in Runtime
           /\ SanityCheck(EnterContext(s, c))
           /\ SyncFieldsKept(EnterContext(s, c), s)
           /\ OthersKept(EnterContext(s, c), s, {c})
           /\ EnterContext(s, c).state[c] = "RUNNING"
<1> DEFINE r == EnterContext(s, c)
           b == s.scheduled
<1>1. s.state \in [Ctx -> States] /\ s.yielded \in Seq(Ctx) /\ b \in Ctx \cup {NoCtx}
    BY DEF Runtime
<1>2. CASE b = NoCtx
    <2>1. r = Run(s, c)
        BY <1>2 DEF EnterContext
    <2> HIDE DEF r
    <2>2. /\ r \in Runtime /\ SyncFieldsKept(r, s) /\ r.state = [s.state EXCEPT ![c] = "RUNNING"]
          /\ r.yielded = s.yielded /\ r.blocked = s.blocked /\ r.scheduled = c
        BY <2>1, RunFields
    <2>3. \A d \in Ctx : r.state[d] = IF d = c THEN "RUNNING" ELSE s.state[d]
        BY <1>1, <2>2
    <2>4. Distinct(r.yielded) /\ Members(r.yielded) = {d \in Ctx : r.state[d] = "YIELDED"}
        BY <2>2, <2>3 DEF SanityCheck
    <2>5. r.blocked = {d \in Ctx : r.state[d] = "BLOCKED"}
        BY <2>2, <2>3 DEF SanityCheck
    <2>6. \A d \in Ctx : r.state[d] = "RUNNING" <=> r.scheduled = d
        <3>1. \A d \in Ctx : s.state[d] # "RUNNING"
            BY <1>2, SchedulerAssumption DEF SanityCheck
        <3> QED BY <2>2, <2>3, <3>1
    <2>7. OthersKept(r, s, {c}) /\ r.state[c] = "RUNNING"
        BY <2>3, SMTT(20) DEF OthersKept
    <2> QED BY <2>2, <2>4, <2>5, <2>6, <2>7 DEF SanityCheck, r
<1>3. CASE b # NoCtx
    <2> DEFINE p1 == PushYielded(s, b)
    <2>1. b \in Ctx /\ b # c /\ s.state[b] = "RUNNING" /\ b \notin Members(s.yielded)
        BY <1>1, <1>3 DEF SanityCheck
    <2>2. \A d \in Ctx : s.state[d] = "RUNNING" => d = b
        BY DEF SanityCheck
    <2>3. r = Run(p1, c)
        BY <1>3 DEF EnterContext
    <2> HIDE DEF r
    <2>4. /\ p1 \in Runtime /\ SyncFieldsKept(p1, s) /\ p1.state = [s.state EXCEPT ![b] = "YIELDED"]
          /\ p1.yielded = Append(s.yielded, b) /\ p1.blocked = s.blocked
        BY <2>1, PushYieldedFields, Zenon
    <2> HIDE DEF p1
    <2>5. /\ r \in Runtime /\ SyncFieldsKept(r, p1) /\ r.state = [p1.state EXCEPT ![c] = "RUNNING"]
          /\ r.yielded = p1.yielded /\ r.blocked = p1.blocked /\ r.scheduled = c
        <3>1. p1 \in Runtime
            BY <2>4
        <3> QED BY <2>3, <3>1, RunFields
    <2>6. \A d \in Ctx : r.state[d] = IF d = c THEN "RUNNING" ELSE IF d = b THEN "YIELDED" ELSE s.state[d]
        BY <1>1, <2>1, <2>4, <2>5
    <2>7. r.yielded = Append(s.yielded, b) /\ r.blocked = s.blocked /\ r.scheduled = c
        BY <2>4, <2>5
    <2>8. Distinct(r.yielded) /\ Members(r.yielded) = {d \in Ctx : r.state[d] = "YIELDED"}
        <3>1. Members(r.yielded) = Members(s.yielded) \cup {b} /\ Distinct(r.yielded)
            BY <1>1, <2>1, <2>7, AppendFacts DEF SanityCheck
        <3> QED BY <2>1, <2>6, <3>1 DEF SanityCheck
    <2>9. r.blocked = {d \in Ctx : r.state[d] = "BLOCKED"}
        BY <2>1, <2>6, <2>7 DEF SanityCheck
    <2>10. \A d \in Ctx : r.state[d] = "RUNNING" <=> r.scheduled = d
        BY <2>2, <2>6, <2>7
    <2>11. OthersKept(r, s, {c}) /\ r.state[c] = "RUNNING"
        BY <2>1, <2>6 DEF OthersKept
    <2> QED BY <2>4, <2>5, <2>8, <2>9, <2>10, <2>11 DEF SanityCheck, SyncFieldsKept, r
<1> QED BY <1>2, <1>3

----------------------------------------------------------------------------
(* Coordinator and Signal.                                                   *)

\* The fields no Coordinator step touches directly.
ListFieldsKept(r, s) ==
    /\ r.state = s.state
    /\ r.yielded = s.yielded
    /\ r.blocked = s.blocked
    /\ r.scheduled = s.scheduled
    /\ r.budget = s.budget

\* SanityCheck reads only the scheduler's fields.
LEMMA ListsKeptSane ==
    ASSUME NEW r, NEW s, ListFieldsKept(r, s), SanityCheck(s)
    PROVE  SanityCheck(r)
BY DEF ListFieldsKept, SanityCheck

\* What each step of coordinator.cpp changes: the held flag ...
LEMMA SetHeldFields ==
    ASSUME NEW s \in Runtime, NEW x \in Coord, NEW h \in BOOLEAN
    PROVE  /\ SetHeld(s, x, h) \in Runtime
           /\ ListFieldsKept(SetHeld(s, x, h), s)
           /\ SetHeld(s, x, h).held = [s.held EXCEPT ![x] = h]
           /\ SetHeld(s, x, h).waiters = s.waiters
           /\ SetHeld(s, x, h).satisfied = s.satisfied
BY Zenon DEF Runtime, SetHeld, ListFieldsKept

\* ... the head of a wait list ...
LEMMA PopWaiterFields ==
    ASSUME NEW s \in Runtime, NEW x \in Coord, s.waiters[x] # <<>>
    PROVE  /\ PopWaiter(s, x) \in Runtime
           /\ ListFieldsKept(PopWaiter(s, x), s)
           /\ PopWaiter(s, x).held = s.held
           /\ PopWaiter(s, x).waiters = [s.waiters EXCEPT ![x] = Tail(s.waiters[x])]
           /\ PopWaiter(s, x).satisfied = s.satisfied
<1>1. Tail(s.waiters[x]) \in Seq(Waiter)
    BY TailFacts DEF Runtime
<1> QED BY <1>1, Zenon DEF Runtime, PopWaiter, ListFieldsKept

\* ... a Coordinated's satisfied flag ...
LEMMA SatisfyFields ==
    ASSUME NEW s \in Runtime, NEW x \in Coord, NEW w \in Waiter
    PROVE  /\ Satisfy(s, x, w) \in Runtime
           /\ ListFieldsKept(Satisfy(s, x, w), s)
           /\ Satisfy(s, x, w).held = s.held
           /\ Satisfy(s, x, w).waiters = s.waiters
           /\ Satisfy(s, x, w).satisfied = [s.satisfied EXCEPT ![w] = s.satisfied[w] \cup {x}]
<1>1. s.satisfied[w] \cup {x} \in SUBSET Coord
    BY DEF Runtime
<1> QED BY <1>1, Zenon DEF Runtime, Satisfy, ListFieldsKept

\* ... a waiter linked ...
LEMMA AddAsBlockedFields ==
    ASSUME NEW s \in Runtime, NEW x \in Coord, NEW w \in Waiter
    PROVE  /\ AddAsBlocked(s, x, w) \in Runtime
           /\ ListFieldsKept(AddAsBlocked(s, x, w), s)
           /\ AddAsBlocked(s, x, w).held = s.held
           /\ AddAsBlocked(s, x, w).waiters = [s.waiters EXCEPT ![x] = Append(s.waiters[x], w)]
           /\ AddAsBlocked(s, x, w).satisfied = [s.satisfied EXCEPT ![w] = s.satisfied[w] \ {x}]
<1>1. Append(s.waiters[x], w) \in Seq(Waiter) /\ s.satisfied[w] \ {x} \in SUBSET Coord
    BY AppendFacts DEF Runtime
<1> QED BY <1>1, Zenon DEF Runtime, AddAsBlocked, ListFieldsKept

\* ... and a waiter unlinked.
LEMMA RemoveAsBlockedFields ==
    ASSUME NEW s \in Runtime, NEW x \in Coord, NEW w \in Waiter, Distinct(s.waiters[x])
    PROVE  /\ RemoveAsBlocked(s, x, w) \in Runtime
           /\ ListFieldsKept(RemoveAsBlocked(s, x, w), s)
           /\ RemoveAsBlocked(s, x, w).held = s.held
           /\ RemoveAsBlocked(s, x, w).waiters = [s.waiters EXCEPT ![x] = Without(s.waiters[x], w)]
           /\ RemoveAsBlocked(s, x, w).satisfied = s.satisfied
<1>1. Without(s.waiters[x], w) \in Seq(Waiter)
    BY WithoutFacts DEF Runtime
<1> QED BY <1>1, Zenon DEF Runtime, RemoveAsBlocked, ListFieldsKept

\* r is s after w, a Context, has been told that its Coordinated on x fired.
Woken(r, s, x, w) ==
    /\ r \in Runtime
    /\ SanityCheck(r)
    /\ r.held = s.held
    /\ r.waiters = s.waiters
    /\ r.satisfied = [s.satisfied EXCEPT ![w] = s.satisfied[w] \cup {x}]
    /\ OthersKept(r, s, {w})
    /\ r.state[w] # "BLOCKED"
    /\ r.state[w] = "EXITED" <=> s.state[w] = "EXITED"

\* WakeWaiter of a Context marks its Coordinated and unblocks it.
LEMMA WakeFacts ==
    ASSUME NEW s \in Runtime, NEW x \in Coord, NEW w \in Ctx, NEW schedule \in BOOLEAN,
           SanityCheck(s), schedule => s.scheduled \in Ctx
    PROVE  Woken(WakeWaiter(s, x, w, schedule), s, x, w)
<1> DEFINE p == Satisfy(s, x, w)
<1>1. w \in Waiter
    BY DEF Waiter
<1>2. /\ p \in Runtime /\ ListFieldsKept(p, s) /\ p.held = s.held /\ p.waiters = s.waiters
      /\ p.satisfied = [s.satisfied EXCEPT ![w] = s.satisfied[w] \cup {x}]
    BY <1>1, SatisfyFields
<1>3. SanityCheck(p) /\ (schedule => p.scheduled \in Ctx) /\ p.state = s.state
    BY <1>2, ListsKeptSane DEF ListFieldsKept
<1>4. WakeWaiter(s, x, w, schedule) = Unblock(p, w, schedule)
    BY DEF WakeWaiter
<1> HIDE DEF p
<1> DEFINE r == Unblock(p, w, schedule)
<1>5. /\ r \in Runtime /\ SanityCheck(r) /\ SyncFieldsKept(r, p) /\ OthersKept(r, p, {w})
      /\ r.state[w] # "BLOCKED" /\ (r.state[w] = "EXITED" <=> p.state[w] = "EXITED")
    BY <1>2, <1>3, UnblockFacts
<1> HIDE DEF r
<1>6. OthersKept(r, s, {w})
    BY <1>3, <1>5 DEF OthersKept
<1> QED BY <1>2, <1>3, <1>4, <1>5, <1>6 DEF SyncFieldsKept, Woken, r

\* r is s after c has queued on x and blocked.
QueuedOn(r, s, x, c) ==
    /\ r \in Runtime
    /\ SanityCheck(r)
    /\ r.held = s.held
    /\ r.waiters = [s.waiters EXCEPT ![x] = Append(s.waiters[x], c)]
    /\ r.satisfied = [s.satisfied EXCEPT ![c] = s.satisfied[c] \ {x}]
    /\ OthersKept(r, s, {c})
    /\ r.state[c] = "BLOCKED"

\* Coordinator::Acquire of a held coordinator.
LEMMA AcquireHeldFacts ==
    ASSUME NEW s \in Runtime, NEW x \in Coord, NEW c \in Ctx, SanityCheck(s), s.scheduled = c, s.held[x]
    PROVE  QueuedOn(Acquire(s, x, c), s, x, c)
<1> DEFINE p == AddAsBlocked(s, x, c)
<1>1. c \in Waiter
    BY DEF Waiter
<1>2. /\ p \in Runtime /\ ListFieldsKept(p, s) /\ p.held = s.held
      /\ p.waiters = [s.waiters EXCEPT ![x] = Append(s.waiters[x], c)]
      /\ p.satisfied = [s.satisfied EXCEPT ![c] = s.satisfied[c] \ {x}]
    BY <1>1, AddAsBlockedFields
<1>3. SanityCheck(p) /\ p.scheduled = c /\ p.state = s.state
    BY <1>2, ListsKeptSane DEF ListFieldsKept
<1>4. Acquire(s, x, c) = Block(p, c)
    BY DEF Acquire
<1> HIDE DEF p
<1> DEFINE r == Block(p, c)
<1>5. /\ r \in Runtime /\ SanityCheck(r) /\ SyncFieldsKept(r, p) /\ OthersKept(r, p, {c})
      /\ r.state[c] = "BLOCKED"
    <2>1. p \in Runtime
        BY <1>2
    <2> QED BY <1>3, <2>1, BlockFacts
<1> HIDE DEF r
<1>6. OthersKept(r, s, {c})
    BY <1>3, <1>5 DEF OthersKept
<1> QED BY <1>2, <1>4, <1>5, <1>6 DEF SyncFieldsKept, QueuedOn, r

\* r is s after the head of x's wait list, a Context, has been popped and woken.
HeadWoken(r, s, x) ==
    LET w == Head(s.waiters[x])
    IN  /\ r \in Runtime
        /\ SanityCheck(r)
        /\ r.held = s.held
        /\ r.waiters = [s.waiters EXCEPT ![x] = Tail(s.waiters[x])]
        /\ r.satisfied = [s.satisfied EXCEPT ![w] = s.satisfied[w] \cup {x}]
        /\ OthersKept(r, s, {w})
        /\ r.state[w] # "BLOCKED"
        /\ r.state[w] = "EXITED" <=> s.state[w] = "EXITED"

\* Popping and waking the head, as Release and Notify do.
LEMMA PopAndWakeFacts ==
    ASSUME NEW s \in Runtime, NEW x \in Coord, NEW schedule \in BOOLEAN, SanityCheck(s),
           schedule => s.scheduled \in Ctx, NEW h \in BOOLEAN, s.held[x] = h,
           s.waiters[x] # <<>>, Head(s.waiters[x]) \in Ctx
    PROVE  /\ HeadWoken(WakeWaiter(PopWaiter(s, x), x, Head(s.waiters[x]), schedule), s, x)
           /\ HeadWoken(WakeWaiter(SetHeld(PopWaiter(s, x), x, h), x, Head(s.waiters[x]), schedule), s, x)
<1> DEFINE w == Head(s.waiters[x])
           p1 == PopWaiter(s, x)
           p2 == SetHeld(p1, x, h)
<1>1. /\ p1 \in Runtime /\ ListFieldsKept(p1, s) /\ p1.held = s.held
      /\ p1.waiters = [s.waiters EXCEPT ![x] = Tail(s.waiters[x])] /\ p1.satisfied = s.satisfied
    BY PopWaiterFields
<1>2. w \in Ctx
    OBVIOUS
<1> HIDE DEF p1, w
<1>3. /\ p2 \in Runtime /\ ListFieldsKept(p2, p1) /\ p2.held = [p1.held EXCEPT ![x] = h]
      /\ p2.waiters = p1.waiters /\ p2.satisfied = p1.satisfied
    BY <1>1, SetHeldFields
<1>4. p2.held = s.held
    <2>1. s.held \in [Coord -> BOOLEAN]
        BY DEF Runtime
    <2> QED BY <1>1, <1>3, <2>1
<1> HIDE DEF p2
<1>5. p1 \in Runtime /\ SanityCheck(p1) /\ (schedule => p1.scheduled \in Ctx) /\ p1.state = s.state
    BY <1>1, ListsKeptSane DEF ListFieldsKept
<1>6. p2 \in Runtime /\ SanityCheck(p2) /\ (schedule => p2.scheduled \in Ctx) /\ p2.state = s.state
    BY <1>1, <1>3, ListsKeptSane DEF ListFieldsKept
<1>7. ASSUME NEW p \in {p1, p2} PROVE HeadWoken(WakeWaiter(p, x, w, schedule), s, x)
    <2> DEFINE r == WakeWaiter(p, x, w, schedule)
    <2>1. p \in Runtime /\ SanityCheck(p) /\ (schedule => p.scheduled \in Ctx)
        BY <1>5, <1>6
    <2>2. Woken(r, p, x, w)
        BY <1>2, <2>1, WakeFacts
    <2>3. /\ p.state = s.state /\ p.held = s.held /\ p.satisfied = s.satisfied
          /\ p.waiters = [s.waiters EXCEPT ![x] = Tail(s.waiters[x])]
        BY <1>1, <1>3, <1>4, <1>5, <1>6
    <2> HIDE DEF r
    <2>4. OthersKept(r, s, {w}) /\ r.state[w] # "BLOCKED" /\ (r.state[w] = "EXITED" <=> s.state[w] = "EXITED")
        <3>1. p.state = s.state
            BY <2>3
        <3> QED BY <2>2, <3>1 DEF OthersKept, Woken
    <2>5. r.held = s.held /\ r.satisfied = [s.satisfied EXCEPT ![w] = s.satisfied[w] \cup {x}]
        BY <2>2, <2>3 DEF Woken
    <2>6. r.waiters = [s.waiters EXCEPT ![x] = Tail(s.waiters[x])] /\ r \in Runtime /\ SanityCheck(r)
        BY <2>2, <2>3 DEF Woken
    <2> QED BY <2>4, <2>5, <2>6, Zenon DEF HeadWoken, w, r
<1> QED BY <1>7 DEF p1, p2, w

\* Coordinator::Release with a Context at the head of the wait list.
LEMMA ReleaseToNextFacts ==
    ASSUME NEW s \in Runtime, NEW x \in Coord, NEW schedule \in BOOLEAN, SanityCheck(s),
           schedule => s.scheduled \in Ctx,
           s.held[x], s.waiters[x] # <<>>, Head(s.waiters[x]) \in Ctx
    PROVE  HeadWoken(Release(s, x, schedule), s, x)
<1>1. s.held[x] = TRUE
    BY DEF Runtime
<1>2. HeadWoken(WakeWaiter(SetHeld(PopWaiter(s, x), x, TRUE), x, Head(s.waiters[x]), schedule), s, x)
    BY <1>1, PopAndWakeFacts, Zenon
<1>3. (Head(s.waiters[x]) \in Ctx) = TRUE
    OBVIOUS
<1>4. Release(s, x, schedule) = WakeWaiter(SetHeld(PopWaiter(s, x), x, TRUE), x, Head(s.waiters[x]), schedule)
    BY <1>3, Zenon DEF Release
<1> QED BY <1>2, <1>4, Zenon

\* Coordinator::Release with nobody waiting, or of a coordinator already free.
LEMMA ReleaseFreeFacts ==
    ASSUME NEW s \in Runtime, NEW x \in Coord, NEW schedule \in BOOLEAN, s.waiters[x] = <<>>
    PROVE  LET r == Release(s, x, schedule)
           IN  /\ r \in Runtime
               /\ ListFieldsKept(r, s)
               /\ r.held = [s.held EXCEPT ![x] = FALSE]
               /\ r.waiters = s.waiters
               /\ r.satisfied = s.satisfied
<1>1. CASE s.held[x]
    <2> DEFINE q == SetHeld(s, x, FALSE)
    <2>1. Release(s, x, schedule) = q
        BY <1>1 DEF Release
    <2>2. /\ q \in Runtime /\ ListFieldsKept(q, s) /\ q.held = [s.held EXCEPT ![x] = FALSE]
          /\ q.waiters = s.waiters /\ q.satisfied = s.satisfied
        BY SetHeldFields, Zenon
    <2> HIDE DEF q
    <2> QED BY <2>1, <2>2
<1>2. CASE ~s.held[x]
    <2>1. Release(s, x, schedule) = s
        BY <1>2 DEF Release
    <2>2. s.held = [s.held EXCEPT ![x] = FALSE]
        BY <1>2 DEF Runtime
    <2> QED BY <2>1, <2>2 DEF ListFieldsKept
<1> QED BY <1>1, <1>2

\* One turn of Signal::Notify's loop.
LEMMA NotifyHeadFacts ==
    ASSUME NEW s \in Runtime, NEW x \in Coord, NEW schedule \in BOOLEAN, SanityCheck(s),
           schedule => s.scheduled \in Ctx,
           s.waiters[x] # <<>>, Head(s.waiters[x]) \in Ctx
    PROVE  HeadWoken(NotifyHead(s, x, schedule), s, x)
<1>1. PICK h \in BOOLEAN : s.held[x] = h
    BY DEF Runtime
<1> QED BY <1>1, PopAndWakeFacts DEF NotifyHead

============================================================================
