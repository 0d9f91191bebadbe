------------------------- MODULE CoordinationSteps -------------------------
(* Coordination's inductive invariant holds initially and is kept by the     *)
(* turns of MultiCoordinator's scan, by the steps that do not wait and by    *)
(* the ones that start to.                                                   *)
EXTENDS CoordinationLemmas

----------------------------------------------------------------------------
(* MultiCoordinator's scan.                                                  *)

\* The fields of the frame after one turn of the scan.
LEMMA AdvanceFields ==
    ASSUME NEW k \in Frame, NEW fired \in BOOLEAN
    PROVE  /\ Advance(k, fired) \in Frame
           /\ Advance(k, fired).op = k.op /\ Advance(k, fired).args = k.args
           /\ Advance(k, fired).at = k.at + 1
           /\ Advance(k, fired).winner = IF fired /\ k.winner = 0 THEN k.at ELSE k.winner
<1> DEFINE a == k.at + 1
           w == IF fired /\ k.winner = 0 THEN k.at ELSE k.winner
<1>1. k.at \in Nat /\ a \in Nat /\ w \in Nat
    BY DEF Frame
<1>2. Advance(k, fired) = [k EXCEPT !.at = a, !.winner = w]
    BY DEF Advance
<1> HIDE DEF a, w
<1>3. [k EXCEPT !.at = a, !.winner = w] \in Frame
    BY <1>1, Zenon DEF Frame
<1>4. /\ [k EXCEPT !.at = a, !.winner = w].op = k.op
      /\ [k EXCEPT !.at = a, !.winner = w].args = k.args
      /\ [k EXCEPT !.at = a, !.winner = w].at = a
      /\ [k EXCEPT !.at = a, !.winner = w].winner = w
    BY DEF Frame
<1> QED BY <1>2, <1>3, <1>4 DEF a, w

\* What the frame of a scan is like before and after one turn of it.
Advanced(s, g, k, k2, x, c) ==
    /\ x \in Coord /\ x \in Members(k.args) /\ x \in Unscanned(k)
    /\ k2 \in Frame /\ k2.op = "multi" /\ k2.args = k.args
    /\ Waits(k) /\ Waits(k2)
    /\ k2.winner = IF x \in s.satisfied[c] /\ k.winner = 0 THEN k.at ELSE k.winner
    /\ k.at # 0
    /\ FrameOK(s, g, k2, c)
    /\ Unscanned(k2) = Unscanned(k) \ {x}
    /\ k.winner # 0 => k.args[k.winner] # x

\* One turn of the scan takes args[at] off the unscanned, and nothing else.
LEMMA AdvanceFacts ==
    ASSUME NEW s, NEW g, NEW c \in Ctx, NEW k \in Frame, FrameOK(s, g, k, c),
           k.op = "multi", k.at <= Len(k.args)
    PROVE  Advanced(s, g, k, Advance(k, k.args[k.at] \in s.satisfied[c]), k.args[k.at], c)
<1> DEFINE x == k.args[k.at]
           fired == x \in s.satisfied[c]
           k2 == Advance(k, fired)
<1>1. /\ k.args \in Seq(Coord) /\ k.at \in Nat /\ k.winner \in Nat /\ Len(k.args) \in Nat
      /\ DOMAIN k.args = 1 .. Len(k.args)
    BY DEF Frame
<1>2. Distinct(k.args) /\ k.at >= 1 /\ k.winner \in 0 .. k.at - 1
    BY <1>1 DEF FrameOK
<1>3. x \in Coord /\ x \in Members(k.args) /\ x \in Unscanned(k)
    BY <1>1, <1>2 DEF Members, Unscanned
<1>4. fired \in BOOLEAN
    OBVIOUS
<1>5. /\ k2 \in Frame /\ k2.op = "multi" /\ k2.args = k.args /\ k2.at = k.at + 1
      /\ k2.winner = IF fired /\ k.winner = 0 THEN k.at ELSE k.winner
    BY <1>4, AdvanceFields, Zenon
<1> HIDE DEF k2
<1>6. Waits(k) /\ Waits(k2)
    BY <1>5 DEF Waits
<1>7. Unscanned(k2) = Unscanned(k) \ {x}
    <2>1. ASSUME NEW i \in k.at .. Len(k.args), k.args[i] # x PROVE i \in k.at + 1 .. Len(k.args)
        BY <1>1, <1>2, <2>1
    <2>2. ASSUME NEW i \in k.at + 1 .. Len(k.args) PROVE k.args[i] # x /\ i \in k.at .. Len(k.args)
        BY <1>1, <1>2, SMTT(30) DEF Distinct
    <2> QED BY <1>5, <2>1, <2>2 DEF Unscanned
<1>8. k.winner # 0 => k.args[k.winner] # x
    <2>1. k.winner # 0 => k.winner \in DOMAIN k.args /\ k.at \in DOMAIN k.args /\ k.winner # k.at
        BY <1>1, <1>2
    <2> QED BY <1>2, <2>1 DEF Distinct
<1>9. FrameOK(s, g, k2, c)
    <2>1. k2.at \in 1 .. Len(k2.args) + 1 /\ k2.winner \in 0 .. k2.at - 1
        BY <1>1, <1>2, <1>5
    <2>2. k2.winner # 0 => k2.args[k2.winner] \in s.satisfied[c]
        BY <1>5 DEF FrameOK
    <2> QED BY <1>5, <1>6, <2>1, <2>2 DEF FrameOK
<1>10. k.at # 0
    BY <1>1, <1>2
<1> HIDE DEF x, fired
<1>11. k2.winner = IF x \in s.satisfied[c] /\ k.winner = 0 THEN k.at ELSE k.winner
    BY <1>5 DEF fired
<1>12. Advanced(s, g, k, k2, x, c)
    BY <1>3, <1>5, <1>6, <1>7, <1>8, <1>9, <1>10, <1>11, SMTT(30) DEF Advanced
<1> QED BY <1>12 DEF k2, x, fired

\* A turn of the scan, its release apart, keeps the state invariant.
LEMMA ScanKeeps ==
    ASSUME NEW s, NEW g, NEW f, NEW c \in Ctx, StateOK(s, g, f), s.scheduled = c,
           f[c].op = "multi", f[c].at <= Len(f[c].args), NEW r,
           LET x == f[c].args[f[c].at]
           IN  IF x \in s.satisfied[c] THEN r = s
               ELSE r = RemoveAsBlocked(s, x, c)
    PROVE  StateOK(r, g, [f EXCEPT ![c] = Advance(f[c], f[c].args[f[c].at] \in s.satisfied[c])])
<1> DEFINE x == f[c].args[f[c].at]
           k2 == Advance(f[c], x \in s.satisfied[c])
           f2 == [f EXCEPT ![c] = k2]
<1>1. /\ s \in Runtime /\ SanityCheck(s) /\ f \in [Ctx -> Frame] /\ c \in Waiter
      /\ s.waiters \in [Coord -> Seq(Waiter)]
    BY DEF StateOK, Runtime, Waiter
<1>2. FrameOK(s, g, f[c], c) /\ BlockedOK(s, f[c], c) /\ f[c] \in Frame
    BY <1>1 DEF StateOK
<1>3. /\ x \in Coord /\ x \in Unscanned(f[c])
      /\ k2 \in Frame /\ k2.op = "multi" /\ k2.args = f[c].args
      /\ Waits(f[c]) /\ Waits(k2)
      /\ k2.winner = IF x \in s.satisfied[c] /\ f[c].winner = 0 THEN f[c].at ELSE f[c].winner
      /\ f[c].at # 0
      /\ FrameOK(s, g, k2, c)
      /\ Unscanned(k2) = Unscanned(f[c]) \ {x}
    <2>1. Advanced(s, g, f[c], k2, x, c)
        BY <1>2, AdvanceFacts
    <2> HIDE DEF x, k2
    <2> QED BY <2>1 DEF Advanced
<1> HIDE DEF x, k2
<1>4. f2 \in [Ctx -> Frame] /\ f2[c] = k2 /\ \A d \in Ctx : d # c => f2[d] = f[d]
    BY <1>1, <1>3
<1> HIDE DEF f2
<1>5. Distinct(s.waiters[x])
    BY <1>3 DEF StateOK, QueueOK
<1>6. /\ r \in Runtime /\ ListFieldsKept(r, s) /\ r.held = s.held /\ r.satisfied = s.satisfied
      /\ \A y \in Coord : r.waiters[y] = IF y = x /\ x \notin s.satisfied[c] THEN Without(s.waiters[x], c)
                                         ELSE s.waiters[y]
    <2>1. CASE x \in s.satisfied[c]
        BY <1>1, <2>1 DEF ListFieldsKept, x
    <2>2. CASE x \notin s.satisfied[c]
        <3>1. r = RemoveAsBlocked(s, x, c)
            BY <2>2 DEF x
        <3> DEFINE q == RemoveAsBlocked(s, x, c)
        <3>2. /\ q \in Runtime /\ ListFieldsKept(q, s) /\ q.held = s.held
              /\ q.waiters = [s.waiters EXCEPT ![x] = Without(s.waiters[x], c)]
              /\ q.satisfied = s.satisfied
            BY <1>1, <1>3, <1>5, RemoveAsBlockedFields
        <3> HIDE DEF q
        <3>3. r = q
            BY <3>1 DEF q
        <3> QED BY <1>1, <2>2, <3>2, <3>3
    <2> QED BY <2>1, <2>2
<1>7. SanityCheck(r) /\ r.state = s.state
    BY <1>1, <1>6, ListsKeptSane DEF ListFieldsKept
<1>8. s.state[c] = "RUNNING"
    BY <1>1 DEF SanityCheck
<1>9. ASSUME NEW d \in Ctx PROVE FrameOK(r, g, f2[d], d) /\ BlockedOK(r, f2[d], d)
    <2>1. CASE d = c
        <3>1. FrameOK(r, g, k2, c)
            BY <1>3, <1>6, <1>7 DEF FrameOK
        <3>2. ASSUME k2.winner = 0 PROVE \E y \in Unscanned(k2) : y \in r.satisfied[c]
            <4>1. f[c].winner = 0 /\ x \notin s.satisfied[c]
                BY <1>3, <3>2
            <4>2. PICK y \in Unscanned(f[c]) : y \in s.satisfied[c]
                BY <1>2, <1>3, <1>8, <4>1 DEF BlockedOK
            <4> QED BY <1>3, <1>6, <4>1, <4>2
        <3>3. BlockedOK(r, k2, c)
            BY <1>7, <1>8, <3>2, SMTT(30) DEF BlockedOK
        <3> QED BY <1>4, <2>1, <3>1, <3>3, SMTT(30)
    <2>2. CASE d # c
        <3>1. f2[d] = f[d] /\ FrameOK(s, g, f[d], d) /\ BlockedOK(s, f[d], d)
            BY <1>4, <2>2 DEF StateOK
        <3> QED BY <1>6, <1>7, <3>1 DEF FrameOK, BlockedOK
    <2> QED BY <2>1, <2>2
<1>10. ASSUME NEW y \in Coord PROVE QueueOK(r, f2, y)
    <2>1. QueueOK(s, f, y) /\ s.waiters[y] \in Seq(Waiter)
        BY <1>1 DEF StateOK
    <2>2. CASE y = x /\ x \notin s.satisfied[c]
        <3>1. Members(r.waiters[y]) = Members(s.waiters[y]) \ {c} /\ Distinct(r.waiters[y])
            BY <1>5, <1>6, <2>1, <2>2, WithoutFacts
        <3>2. ASSUME NEW d \in Ctx
              PROVE  d \in Members(r.waiters[y]) <=>
                       (Waits(f2[d]) /\ y \in Unscanned(f2[d]) /\ y \notin r.satisfied[d])
            <4>1. CASE d = c
                BY <1>3, <1>4, <2>2, <3>1, <4>1, SMTT(30)
            <4>2. CASE d # c
                BY <1>4, <1>6, <2>1, <3>1, <4>2 DEF QueueOK
            <4> QED BY <4>1, <4>2
        <3> QED BY <2>1, <3>1, <3>2 DEF QueueOK
    <2>3. CASE ~(y = x /\ x \notin s.satisfied[c])
        <3>1. r.waiters[y] = s.waiters[y]
            BY <1>6, <2>3
        <3>2. ASSUME NEW d \in Ctx
              PROVE  d \in Members(r.waiters[y]) <=>
                       (Waits(f2[d]) /\ y \in Unscanned(f2[d]) /\ y \notin r.satisfied[d])
            <4>1. CASE d = c
                BY <1>3, <1>4, <1>6, <2>1, <2>3, <3>1, <4>1 DEF QueueOK
            <4>2. CASE d # c
                BY <1>4, <1>6, <2>1, <3>1, <4>2 DEF QueueOK
            <4> QED BY <4>1, <4>2
        <3> QED BY <2>1, <3>1, <3>2 DEF QueueOK
    <2> QED BY <2>2, <2>3
<1>11. ASSUME NEW y \in Coord PROVE HeldOK(r, f2, y)
    <2>1. HeldOK(s, f, y)
        BY DEF StateOK
    <2>2. r.waiters[y] # <<>> => s.waiters[y] # <<>>
        <3>1. s.waiters[x] = <<>> => Without(s.waiters[x], c) = <<>>
            BY DEF Without, Members
        <3> QED BY <1>6, <3>1
    <2>3. Notifying(f, y) => Notifying(f2, y)
        BY <1>4 DEF Notifying
    <2> QED BY <1>6, <2>1, <2>2, <2>3 DEF HeldOK
<1>12. \A d \in Ctx : r.held[d] <=> ~g[d]
    BY <1>6 DEF StateOK
<1>13. g \in [Ctx -> BOOLEAN]
    BY SMTT(30) DEF StateOK
<1> QED BY <1>4, <1>6, <1>7, <1>9, <1>10, <1>11, <1>12, <1>13, Zenon DEF StateOK, f2, k2, x

\* What a turn of the scan does to the grants: it drops x from them if x fired
\* and is not the winner, and changes nothing else.
LEMMA ScanOwners ==
    ASSUME NEW s, NEW g, NEW f, NEW o, NEW c \in Ctx, StateOK(s, g, f), OwnersOK(s, f, o),
           f[c].op = "multi", f[c].at <= Len(f[c].args), NEW x, x = f[c].args[f[c].at],
           NEW f2, f2 = [f EXCEPT ![c] = Advance(f[c], x \in s.satisfied[c])]
    PROVE  IF x \in Lock /\ x \in s.satisfied[c] /\ f[c].winner # 0
           THEN s.held[x] /\ OwnersBut(s, f2, o, x)
           ELSE OwnersOK(s, f2, o)
<1> DEFINE k == f[c]
           k2 == Advance(f[c], x \in s.satisfied[c])
           give == x \in s.satisfied[c] /\ k.winner # 0
<1>1. FrameOK(s, g, k, c) /\ k \in Frame /\ f \in [Ctx -> Frame]
    BY DEF StateOK
<1>2. Advanced(s, g, k, k2, x, c)
    BY <1>1, AdvanceFacts
<1>3. f2[c] = k2 /\ \A d \in Ctx : d # c => f2[d] = f[d]
    BY <1>1
<1> HIDE DEF k2
<1>4. \A y : y \in Granted(k2, s.satisfied[c]) <=> y \in Granted(k, s.satisfied[c]) /\ ~(y = x /\ give)
    <2>1. /\ Unscanned(k2) = Unscanned(k) \ {x} /\ k2.args = k.args /\ x \in Unscanned(k) /\ k.at # 0
          /\ k2.winner = IF x \in s.satisfied[c] /\ k.winner = 0 THEN k.at ELSE k.winner
          /\ k.winner # 0 => k.args[k.winner] # x
        BY <1>2 DEF Advanced
    <2>2. CASE x \in s.satisfied[c] /\ k.winner = 0
        <3>1. k2.winner = k.at /\ k2.args[k2.winner] = x
            BY <2>1, <2>2, SMTT(30)
        <3> QED BY <2>1, <2>2, <3>1 DEF Granted
    <2>3. CASE ~(x \in s.satisfied[c] /\ k.winner = 0)
        <3>1. k2.winner = k.winner
            BY <2>1, <2>3
        <3> QED BY <2>1, <2>3, <3>1 DEF Granted
    <2> QED BY <2>2, <2>3
<1>5. Waits(k) /\ Waits(k2) /\ k2.args = k.args /\ x \in Members(k.args) /\ x \in Unscanned(k)
    BY <1>2, SMTT(30) DEF Advanced
<1>6. CASE x \in Lock /\ give
    <2>1. x \in Granted(k, s.satisfied[c])
        BY <1>5, <1>6 DEF Granted
    <2>2. o[x] = c
        BY <1>5, <1>6, <2>1, SMTT(30) DEF OwnersOK, GrantsOK
    <2>3. s.held[x]
        BY <1>6, <2>2, SchedulerAssumption, SMTT(30) DEF OwnersOK
    <2>4. ASSUME NEW d \in Ctx, Waits(f2[d]), NEW y \in Members(f2[d].args) \cap Lock
          PROVE  IF y = x THEN y \notin Granted(f2[d], s.satisfied[d])
                 ELSE o[y] = d <=> y \in Granted(f2[d], s.satisfied[d])
        <3>1. CASE d = c
            <4>1. y \in Members(k.args)
                BY <1>3, <1>5, <2>4, <3>1, SMTT(30)
            <4>2. o[y] = c <=> y \in Granted(k, s.satisfied[c])
                BY <1>5, <2>4, <4>1 DEF OwnersOK, GrantsOK
            <4> QED BY <1>3, <1>4, <1>6, <3>1, <4>2
        <3>2. CASE d # c
            <4>1. o[y] = d <=> y \in Granted(f2[d], s.satisfied[d])
                BY <1>3, <2>4, <3>2, SMTT(30) DEF OwnersOK, GrantsOK
            <4> QED BY <2>2, <3>2, <4>1
        <3> QED BY <3>1, <3>2
    <2>5. OwnersBut(s, f2, o, x)
        BY <2>4, SMTT(30) DEF OwnersOK, OwnersBut
    <2> QED BY <1>6, <2>3, <2>5
<1>7. CASE ~(x \in Lock /\ give)
    <2>1. ASSUME NEW d \in Ctx, Waits(f2[d]), NEW y \in Members(f2[d].args) \cap Lock
          PROVE  o[y] = d <=> y \in Granted(f2[d], s.satisfied[d])
        <3>1. CASE d = c
            <4>1. y \in Members(k.args)
                BY <1>3, <1>5, <2>1, <3>1, SMTT(30)
            <4>2. o[y] = c <=> y \in Granted(k, s.satisfied[c])
                BY <1>5, <2>1, <4>1 DEF OwnersOK, GrantsOK
            <4> QED BY <1>3, <1>4, <1>7, <2>1, <3>1, <4>2
        <3>2. CASE d # c
            BY <1>3, <2>1, <3>2, SMTT(30) DEF OwnersOK, GrantsOK
        <3> QED BY <3>1, <3>2, SMTT(30)
    <2>2. OwnersOK(s, f2, o)
        BY <2>1 DEF OwnersOK, GrantsOK
    <2> QED BY <1>7, <2>2
<1> QED BY <1>6, <1>7

----------------------------------------------------------------------------
(* Steps of a Context that neither waits nor starts to.                      *)

\* c, which does not wait, changed held flags, signals and its own frame.
Opened(r, g2, f2, s, g, f, c) ==
    /\ r \in Runtime /\ ListFieldsKept(r, s) /\ r.waiters = s.waiters /\ r.satisfied = s.satisfied
    /\ g2 \in [Ctx -> BOOLEAN] /\ \A d \in Ctx : g[d] => g2[d]
    /\ \A d \in Ctx : r.held[d] <=> ~g2[d]
    /\ f2 \in [Ctx -> Frame] /\ \A d \in Ctx : d # c => f2[d] = f[d]
    /\ ~Waits(f[c]) /\ ~Waits(f2[c]) /\ FrameOK(r, g2, f2[c], c)
    /\ \A x \in Coord : HeldOK(r, f2, x)

\* Such a step keeps the state invariant.
LEMMA OpenKeeps ==
    ASSUME NEW s, NEW g, NEW f, NEW c \in Ctx, StateOK(s, g, f),
           NEW r, NEW g2, NEW f2, Opened(r, g2, f2, s, g, f, c)
    PROVE  StateOK(r, g2, f2)
<1>0. /\ r \in Runtime /\ ListFieldsKept(r, s) /\ r.waiters = s.waiters /\ r.satisfied = s.satisfied
      /\ g2 \in [Ctx -> BOOLEAN] /\ \A d \in Ctx : g[d] => g2[d]
      /\ \A d \in Ctx : r.held[d] <=> ~g2[d]
      /\ f2 \in [Ctx -> Frame] /\ ~Waits(f[c]) /\ FrameOK(r, g2, f2[c], c)
      /\ \A x \in Coord : HeldOK(r, f2, x)
    BY DEF Opened
<1>1. SanityCheck(s) /\ r.state = s.state
    BY <1>0 DEF StateOK, ListFieldsKept
<1>2. ~Waits(f2[c]) /\ \A d \in Ctx : d # c => f2[d] = f[d]
    BY DEF Opened
<1>3. SanityCheck(r)
    BY <1>0, <1>1, ListsKeptSane
<1>4. ASSUME NEW d \in Ctx PROVE FrameOK(r, g2, f2[d], d)
    <2>1. CASE d = c
        BY <1>0, <2>1, SMTT(30)
    <2>2. CASE d # c
        <3>1. FrameOK(s, g, f[d], d) /\ f2[d] = f[d]
            BY <1>2, <2>2 DEF StateOK
        <3> QED BY <1>0, <1>1, <3>1, SMTT(30) DEF FrameOK
    <2> QED BY <2>1, <2>2
<1>5. ASSUME NEW d \in Ctx PROVE BlockedOK(r, f2[d], d)
    <2>1. BlockedOK(s, f[d], d)
        BY DEF StateOK
    <2>2. CASE d = c
        <3>1. s.state[c] # "BLOCKED"
            BY <1>0, <2>1, <2>2, SMTT(30) DEF BlockedOK
        <3> QED BY <1>1, <1>2, <2>2, <3>1 DEF BlockedOK
    <2>3. CASE d # c
        BY <1>0, <1>1, <1>2, <2>1, <2>3 DEF BlockedOK
    <2> QED BY <2>2, <2>3
<1>6. ASSUME NEW x \in Coord PROVE QueueOK(r, f2, x)
    <2>1. QueueOK(s, f, x)
        BY DEF StateOK
    <2>2. ASSUME NEW d \in Ctx
          PROVE  d \in Members(r.waiters[x]) <=>
                   (Waits(f2[d]) /\ x \in Unscanned(f2[d]) /\ x \notin r.satisfied[d])
        <3>1. CASE d = c
            BY <1>0, <1>2, <2>1, <3>1, SMTT(30) DEF QueueOK
        <3>2. CASE d # c
            BY <1>0, <1>2, <2>1, <3>2, SMTT(30) DEF QueueOK
        <3> QED BY <3>1, <3>2, SMTT(30)
    <2>3. Distinct(r.waiters[x]) /\ Members(r.waiters[x]) \subseteq Ctx
        BY <1>0, <2>1 DEF QueueOK
    <2> QED BY <2>2, <2>3 DEF QueueOK
<1> QED BY <1>0, <1>3, <1>4, <1>5, <1>6, SMTT(30) DEF StateOK

\* c, which does not wait, took or gave away Locks.
Reowned(r, f2, o2, s, f, o, c) ==
    /\ r.satisfied = s.satisfied
    /\ ~Waits(f2[c]) /\ \A d \in Ctx : d # c => f2[d] = f[d]
    /\ o2 \in [Lock -> Ctx \cup {NoCtx, External}]
    /\ \A x \in Lock : r.held[x] <=> o2[x] # NoCtx
    /\ \A x \in Lock, d \in Ctx : d # c => (o2[x] = d <=> o[x] = d)

\* Such a step keeps the ownership invariant.
LEMMA OpenKeepsOwners ==
    ASSUME NEW s, NEW f, NEW o, NEW c \in Ctx, OwnersOK(s, f, o),
           NEW r, NEW f2, NEW o2, Reowned(r, f2, o2, s, f, o, c)
    PROVE  OwnersOK(r, f2, o2)
<1>1. ASSUME NEW d \in Ctx PROVE GrantsOK(r, f2, o2, d)
    <2>1. GrantsOK(s, f, o, d)
        BY DEF OwnersOK
    <2>2. CASE d = c
        BY <2>2 DEF GrantsOK, Reowned
    <2>3. CASE d # c
        BY <2>1, <2>3 DEF GrantsOK, Reowned
    <2> QED BY <2>2, <2>3
<1> QED BY <1>1 DEF OwnersOK, Reowned

----------------------------------------------------------------------------
(* The initial state and the actions.                                        *)

\* A new cooperator satisfies IInv.
LEMMA InitOK == Init => IInv
<1> SUFFICES ASSUME Init PROVE IInv
    OBVIOUS
<1> DEFINE s == NewRuntime(Ctx)
<1>1. /\ s \in Runtime
      /\ s.state = [c \in Ctx |-> "EXITED"] /\ s.yielded = <<>> /\ s.blocked = {} /\ s.scheduled = NoCtx
      /\ s.held = [x \in Coord |-> x \in Ctx] /\ s.waiters = [x \in Coord |-> <<>>]
      /\ s.satisfied = [w \in Waiter |-> {}]
    <2>1. /\ s.state = [c \in Ctx |-> "EXITED"] /\ s.yielded = <<>> /\ s.blocked = {}
          /\ s.scheduled = NoCtx /\ s.held = [x \in Coord |-> x \in Ctx]
          /\ s.waiters = [x \in Coord |-> <<>>] /\ s.satisfied = [w \in Waiter |-> {}]
        BY DEF NewRuntime
    <2>2. s \in Runtime
        BY DEF NewRuntime, Runtime, States
    <2> QED BY <2>1, <2>2
<1> HIDE DEF s
<1>2. Idle \in Frame /\ Idle.op = "none" /\ Idle.args = <<>> /\ Idle.at = 1 /\ Idle.winner = 0
    BY DEF Idle, Call, Frame
<1> HIDE DEF Idle
<1>3. rt = s /\ signaled = [c \in Ctx |-> FALSE] /\ frame = [c \in Ctx |-> Idle] /\ owner = [x \in Lock |-> NoCtx]
    BY DEF Init, s
<1>4. Members(<<>>) = {} /\ Distinct(<<>>) /\ Len(<<>>) = 0
    BY DEF Members, Distinct
<1>5. ~Waits(Idle)
    BY <1>2 DEF Waits
<1>6. SanityCheck(s)
    BY <1>1, <1>4, SchedulerAssumption, SMTT(30) DEF SanityCheck
<1>7. ASSUME NEW c \in Ctx PROVE FrameOK(s, signaled, frame[c], c) /\ BlockedOK(s, frame[c], c)
    <2>1. frame[c] = Idle /\ s.satisfied[c] = {} /\ s.state[c] = "EXITED"
        BY <1>1, <1>3 DEF Waiter
    <2> QED BY <1>2, <1>4, <1>5, <2>1 DEF FrameOK, BlockedOK
<1>8. ASSUME NEW x \in Coord PROVE QueueOK(s, frame, x) /\ HeldOK(s, frame, x)
    <2>1. s.waiters[x] = <<>>
        BY <1>1
    <2> QED BY <1>3, <1>4, <1>5, <2>1 DEF QueueOK, HeldOK
<1>9. \A d \in Ctx : s.held[d] <=> ~signaled[d]
    BY <1>1, <1>3, CoordinationAssumption, Zenon
<1>10. signaled \in [Ctx -> BOOLEAN] /\ frame \in [Ctx -> Frame]
    BY <1>2, <1>3
<1>11. StateOK(s, signaled, frame)
    BY <1>1, <1>6, <1>7, <1>8, <1>9, <1>10 DEF StateOK
<1>12. OwnersOK(s, frame, owner)
    BY <1>1, <1>3, <1>5, CoordinationAssumption, Zenon DEF OwnersOK, GrantsOK
<1> QED BY <1>3, <1>11, <1>12 DEF IInv

\* An action that only moves Contexts between lists keeps IInv.
LEMMA ScheduleStep ==
    ASSUME IInv, rt' \in Runtime, SanityCheck(rt'), SyncFieldsKept(rt', rt),
           NEW c \in Ctx, OthersKept(rt', rt, {c}),
           \/ /\ rt'.state[c] = "BLOCKED" <=> rt.state[c] = "BLOCKED"
              /\ rt'.state[c] = "EXITED" <=> rt.state[c] = "EXITED"
           \/ rt.state[c] = "EXITED" /\ rt'.state[c] = "RUNNING",
           UNCHANGED <<signaled, frame, owner>>
    PROVE  IInv'
<1>1. StateOK(rt', signaled, frame)
    BY ScheduleKeeps DEF IInv, SyncFieldsKept
<1>2. OwnersOK(rt', frame, owner)
    BY OwnersKept DEF IInv, SyncFieldsKept
<1> QED BY <1>1, <1>2 DEF IInv

\* Spawn keeps IInv.
LEMMA SpawnOK ==
    ASSUME IInv, NEW c \in Ctx, Spawn(c)
    PROVE  IInv'
<1>1. rt \in Runtime /\ SanityCheck(rt)
    BY DEF IInv, StateOK
<1>2. /\ rt' \in Runtime /\ SanityCheck(rt') /\ SyncFieldsKept(rt', rt)
      /\ OthersKept(rt', rt, {c}) /\ rt'.state[c] = "RUNNING"
    BY <1>1, EnterContextFacts DEF Spawn
<1> QED BY <1>2, ScheduleStep DEF Spawn

\* ResumeNext keeps IInv.
LEMMA ResumeOK ==
    ASSUME IInv, ResumeNext
    PROVE  IInv'
<1>1. rt \in Runtime /\ SanityCheck(rt)
    BY DEF IInv, StateOK
<1>2. rt' \in Runtime /\ SanityCheck(rt') /\ SyncFieldsKept(rt', rt) /\ OthersKept(rt', rt, {})
    BY <1>1, ResumeFacts DEF ResumeNext, Running
<1>3. PICK c \in Ctx : TRUE
    BY <1>1, HeadFacts DEF ResumeNext
<1>4. /\ OthersKept(rt', rt, {c})
      /\ rt'.state[c] = "BLOCKED" <=> rt.state[c] = "BLOCKED"
      /\ rt'.state[c] = "EXITED" <=> rt.state[c] = "EXITED"
    BY <1>2 DEF OthersKept
<1> QED BY <1>2, <1>4, ScheduleStep DEF ResumeNext

\* Yield keeps IInv.
LEMMA YieldOK ==
    ASSUME IInv, NEW c \in Ctx, Yield(c)
    PROVE  IInv'
<1>1. rt \in Runtime /\ SanityCheck(rt)
    BY DEF IInv, StateOK
<1>2. rt' \in Runtime /\ SanityCheck(rt') /\ SyncFieldsKept(rt', rt) /\ OthersKept(rt', rt, {})
    BY <1>1, YieldFromFacts DEF Yield, Free, Running
<1>3. /\ OthersKept(rt', rt, {c})
      /\ rt'.state[c] = "BLOCKED" <=> rt.state[c] = "BLOCKED"
      /\ rt'.state[c] = "EXITED" <=> rt.state[c] = "EXITED"
    BY <1>2 DEF OthersKept
<1> QED BY <1>2, <1>3, ScheduleStep DEF Yield

\* Taking a free Lock, by Acquire or on MultiCoordinator's fast path.
LEMMA TakeFree ==
    ASSUME IInv, NEW c \in Ctx, Free(c), NEW x \in Lock, ~rt.held[x], rt' = TryAcquire(rt, x),
           owner' = [owner EXCEPT ![x] = c], UNCHANGED <<signaled, frame>>
    PROVE  IInv'
<1>1. /\ rt \in Runtime /\ rt.held \in [Coord -> BOOLEAN] /\ x \in Coord /\ x \notin Ctx
      /\ frame \in [Ctx -> Frame] /\ signaled \in [Ctx -> BOOLEAN]
      /\ owner \in [Lock -> Ctx \cup {NoCtx, External}] /\ Lock \subseteq Coord
    BY CoordinationAssumption DEF IInv, StateOK, OwnersOK, Runtime
<1>2. /\ rt' \in Runtime /\ ListFieldsKept(rt', rt) /\ rt'.held = [rt.held EXCEPT ![x] = TRUE]
      /\ rt'.waiters = rt.waiters /\ rt'.satisfied = rt.satisfied
    BY <1>1, SetHeldFields, ZenonT(40) DEF TryAcquire
<1>3. ~Waits(frame[c])
    BY DEF Free, Waits
<1>4. \A d \in Ctx : rt'.held[d] <=> ~signaled[d]
    BY <1>1, <1>2, CoordinationAssumption DEF IInv, StateOK
<1>5. FrameOK(rt', signaled, frame[c], c)
    <2>1. FrameOK(rt, signaled, frame[c], c) /\ rt'.state = rt.state
        BY <1>2, SMTT(30) DEF IInv, StateOK, ListFieldsKept
    <2> QED BY <1>2, <2>1, SMTT(30) DEF FrameOK
<1>6. ASSUME NEW y \in Coord PROVE HeldOK(rt', frame, y)
    <2>1. HeldOK(rt, frame, y)
        BY DEF IInv, StateOK
    <2>2. rt.held[y] => rt'.held[y]
        BY <1>1, <1>2
    <2> QED BY <1>2, <2>1, <2>2 DEF HeldOK
<1>7. StateOK(rt', signaled, frame)
    <2>1. Opened(rt', signaled, frame, rt, signaled, frame, c)
        BY <1>1, <1>2, <1>3, <1>4, <1>5, <1>6 DEF Opened
    <2>2. StateOK(rt, signaled, frame)
        BY DEF IInv
    <2> QED BY <2>1, <2>2, OpenKeeps, SMTT(30)
<1>8. owner[x] = NoCtx
    BY DEF IInv, OwnersOK
<1>9. /\ owner' \in [Lock -> Ctx \cup {NoCtx, External}]
      /\ \A y \in Lock : rt'.held[y] <=> owner'[y] # NoCtx
      /\ \A y \in Lock, d \in Ctx : d # c => (owner'[y] = d <=> owner[y] = d)
    BY <1>1, <1>2, <1>8, SchedulerAssumption, SMTT(30) DEF IInv, OwnersOK
<1>10. OwnersOK(rt', frame, owner')
    <2>1. OwnersOK(rt, frame, owner) /\ rt'.satisfied = rt.satisfied
        BY <1>2 DEF IInv
    <2>2. Reowned(rt', frame, owner', rt, frame, owner, c)
        BY <1>3, <1>9, <2>1 DEF Reowned
    <2> QED BY <2>1, <2>2, OpenKeepsOwners
<1> QED BY <1>7, <1>10, SMTT(30) DEF IInv

\* Queueing on one held coordinator.
LEMMA AcquireStep ==
    ASSUME IInv, NEW c \in Ctx, Free(c), NEW x \in Coord, rt.held[x], x \in Lock => owner[x] # c,
           NEW op \in {"acquire", "flash"}, op = "flash" => x \in Lock,
           rt' = Acquire(rt, x, c), frame' = [frame EXCEPT ![c] = Call(op, <<x>>)],
           UNCHANGED <<signaled, owner>>
    PROVE  IInv'
<1>1. Parked(rt', rt, <<x>>, c)
    BY AcquireParks DEF IInv, Free, Running
<1>2. /\ <<x>> \in Seq(Coord) /\ <<x>> # <<>> /\ Len(<<x>>) = 1 /\ <<x>>[1] = x
      /\ Distinct(<<x>>) /\ Members(<<x>>) = {x}
    BY DEF Distinct, Members
<1>3. \A y \in Members(<<x>>) : rt.held[y] /\ (y \in Lock => owner[y] # c)
    BY <1>2, SMTT(30)
<1>4. /\ StateOK(rt', signaled, [frame EXCEPT ![c] = Call(op, <<x>>)])
      /\ OwnersOK(rt', [frame EXCEPT ![c] = Call(op, <<x>>)], owner)
    BY <1>1, <1>2, <1>3, Park, Zenon DEF IInv, Free
<1> QED BY <1>4 DEF IInv

\* AcquireLock, of a free or of a held Lock, keeps IInv.
LEMMA AcquireOK ==
    ASSUME IInv, NEW c \in Ctx, NEW x \in Lock, AcquireLock(c, x)
    PROVE  IInv'
<1>1. x \in Coord
    BY CoordinationAssumption
<1>2. CASE rt.held[x]
    BY <1>1, <1>2, AcquireStep DEF AcquireLock
<1>3. CASE ~rt.held[x]
    <2>1. rt' = TryAcquire(rt, x)
        BY <1>3 DEF AcquireLock, Acquire
    <2> QED BY <1>3, <2>1, TakeFree DEF AcquireLock
<1> QED BY <1>2, <1>3

\* FlashLock keeps IInv.
LEMMA FlashOK ==
    ASSUME IInv, NEW c \in Ctx, NEW x \in Lock, FlashLock(c, x)
    PROVE  IInv'
<1>1. x \in Coord
    BY CoordinationAssumption
<1> QED BY <1>1, AcquireStep, Zenon DEF FlashLock

\* WaitSignal keeps IInv.
LEMMA WaitSignalOK ==
    ASSUME IInv, NEW c \in Ctx, NEW d \in Ctx, WaitSignal(c, d)
    PROVE  IInv'
<1>1. d \in Coord /\ d \notin Lock
    BY CoordinationAssumption
<1>2. rt.held[d]
    BY DEF WaitSignal, IInv, StateOK
<1> QED BY <1>1, <1>2, AcquireStep, Zenon DEF WaitSignal

============================================================================
