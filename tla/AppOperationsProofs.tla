------------------------- MODULE AppOperationsProofs -------------------------
(***************************************************************************)
(* For any callers, resources and requests: the owners of an app never     *)
(* conflict, deletion's own work runs alone, what a failed cleanup left    *)
(* unsafe stays fenced, and nothing is overtaken except past sessions.     *)
(***************************************************************************)
EXTENDS AppOperations, FiniteSetTheorems, WellFoundedInduction, TLAPS

\* The queue is a total order kept by its members.
Ordered(s) ==
  /\ \A o \in Op : /\ s[o].ahead \subseteq Queued(s) \ {o}
                   /\ o \notin Queued(s) => s[o].ahead = {}
  /\ \A a, b \in Queued(s) : a # b => a \in s[b].ahead \/ b \in s[a].ahead
  /\ \A a, b \in Op : a \in s[b].ahead => s[a].ahead \subseteq s[b].ahead

Compatible(s) ==
  \A a, b \in Active(s) : a # b => ~Conflict(s[a].claims, s[b].claims)

Empty(s) == Active(s) = {} /\ Queued(s) = {}

\* No one present in s but its author conflicts with a block of bs.
Fenced(s, bs) ==
  \A b, o \in Op : o # b /\ s[o].status # "idle" => ~Conflict(bs[b], s[o].claims)

IInv ==
  /\ TypeOK
  /\ Ordered(ops) /\ Compatible(ops)
  /\ deletion \in {"woken", "drained", "exclusive"} => Empty(ops)
  /\ Fenced(ops, blocks)

-----------------------------------------------------------------------------
\* Access to a resource excludes both ways.
LEMMA ConflictSymmetric ==
  ASSUME NEW c, NEW d PROVE Conflict(c, d) <=> Conflict(d, c)
BY DEF Conflict, ConflictsOn, Excludes

\* Giving claims up makes no conflict.
LEMMA FewerClaims ==
  ASSUME NEW c, NEW d, NEW held, Conflict([r \in Resource |-> IF r \in held THEN "none" ELSE c[r]], d)
  PROVE  Conflict(c, d)
BY DEF Conflict, ConflictsOn, Excludes

\* Holding nothing conflicts with nothing.
LEMMA NothingConflicts == ASSUME NEW d PROVE ~Conflict(Nothing, d)
BY DEF Conflict, ConflictsOn, Excludes, Nothing

\* Normalising yields claims.
LEMMA NormalizedTyped == ASSUME NEW acc PROVE Normalized(acc) \in Claims
BY DEF Normalized, Claims, Mode

\* An operation whose place in the queue changes keeps the rest.
LEMMA NewAhead ==
  \A x \in Operation : \A a \in SUBSET Op :
    LET y == [x EXCEPT !.ahead = a]
    IN y \in Operation /\ y.status = x.status /\ y.claims = x.claims /\ y.ahead = a
BY DEF Operation

\* What admission does to one operation.
LEMMA Admitted ==
  ASSUME NEW s \in [Op -> Operation], NEW ready \in SUBSET Op, NEW t, t = Admit(s, ready), NEW o \in Op
  PROVE  /\ t[o].status = IF o \in ready THEN "admitted" ELSE s[o].status
         /\ t[o].claims = s[o].claims /\ t[o].released = s[o].released
         /\ o \notin ready => t[o].ahead = s[o].ahead \ ready
<1>1. s[o] \in Operation
  OBVIOUS
<1>2. CASE o \in ready
  <2>1. t[o] = [s[o] EXCEPT !.status = "admitted", !.ahead = {}]
    BY <1>2 DEF Admit
  <2>2. QED BY <1>1, <1>2, <2>1 DEF Operation
<1>3. CASE o \notin ready
  <2>1. t[o] = [s[o] EXCEPT !.ahead = s[o].ahead \ ready]
    BY <1>3 DEF Admit
  <2>2. QED BY <1>1, <1>3, <2>1 DEF Operation
<1>4. QED BY <1>2, <1>3

\* A pass over the queue keeps the order and the owners compatible, and changes
\* nobody's claims (pump).
LEMMA PumpKeeps ==
  ASSUME NEW s \in [Op -> Operation], Ordered(s), Compatible(s), NEW ready \in Ready(s),
         NEW t, t = Admit(s, ready)
  PROVE  /\ t \in [Op -> Operation] /\ Ordered(t) /\ Compatible(t)
         /\ Empty(s) => Empty(t)
         /\ \A o \in Op : t[o].claims = s[o].claims
         /\ \A o \in Op : t[o].status = "idle" <=> s[o].status = "idle"
<1>1. ready \subseteq Queued(s) /\ ready \subseteq Op
  BY DEF Ready, Queued
<1>2. /\ \A o \in ready : t[o] = [s[o] EXCEPT !.status = "admitted", !.ahead = {}]
      /\ \A o \in Op \ ready : t[o] = [s[o] EXCEPT !.ahead = s[o].ahead \ ready]
      /\ t = [o \in Op |-> t[o]]
  BY <1>1 DEF Admit
<1>3. ASSUME NEW o \in Op
      PROVE  /\ t[o] \in Operation /\ t[o].claims = s[o].claims
             /\ o \in ready => t[o].status = "admitted" /\ t[o].ahead = {}
             /\ o \notin ready => t[o].status = s[o].status /\ t[o].ahead = s[o].ahead \ ready
  <2>1. s[o] \in Operation
    OBVIOUS
  <2>2. CASE o \in ready
    <3>1. t[o] = [s[o] EXCEPT !.status = "admitted", !.ahead = {}]
      BY <1>2, <2>2
    <3>2. t[o] \in Operation
      BY <2>1, <3>1 DEF Operation, Statuses
    <3>3. t[o].claims = s[o].claims /\ t[o].status = "admitted" /\ t[o].ahead = {}
      BY <2>1, <3>1 DEF Operation
    <3>4. QED BY <2>2, <3>2, <3>3
  <2>3. CASE o \notin ready
    <3>1. s[o].ahead \ ready \in SUBSET Op
      BY <2>1 DEF Operation
    <3>2. t[o] = [s[o] EXCEPT !.ahead = s[o].ahead \ ready]
      BY <1>2, <2>3
    <3>3. LET y == [s[o] EXCEPT !.ahead = s[o].ahead \ ready]
          IN /\ y \in Operation /\ y.status = s[o].status
             /\ y.claims = s[o].claims /\ y.ahead = s[o].ahead \ ready
      BY <2>1, <3>1, NewAhead
    <3>4. QED BY <2>3, <3>2, <3>3
  <2>4. QED BY <2>2, <2>3
<1>4. Active(t) = Active(s) \cup ready /\ Queued(t) = Queued(s) \ ready
  BY <1>1, <1>3 DEF Active, Queued
<1>5. Ordered(t)
  BY <1>1, <1>3, <1>4 DEF Ordered, Queued
<1>6. Compatible(t)
  <2> SUFFICES ASSUME NEW a \in Active(t), NEW b \in Active(t), a # b,
                      Conflict(s[a].claims, s[b].claims)
               PROVE  FALSE
    BY <1>3 DEF Compatible, Active
  <2>1. \A o \in ready : MayStart(s, o, ready)
    BY <1>1 DEF Ready
  <2>2. \A o \in ready : \A x \in Active(s) \cup (ready \cap s[o].ahead) :
           ~Conflict(s[x].claims, s[o].claims)
    BY <2>1 DEF MayStart, OwnersSeen
  <2>3. CASE a \in Active(s) /\ b \in Active(s)
    BY <2>3 DEF Compatible
  <2>4. CASE a \in Active(s) /\ b \in ready
    BY <2>2, <2>4
  <2>5. CASE a \in ready /\ b \in Active(s)
    BY <2>2, <2>5, ConflictSymmetric
  <2>6. CASE a \in ready /\ b \in ready
    <3>1. a \in s[b].ahead \/ b \in s[a].ahead
      BY <1>1, <2>6 DEF Ordered
    <3>2. QED BY <2>2, <2>6, <3>1, ConflictSymmetric
  <2>7. QED BY <1>4, <2>3, <2>4, <2>5, <2>6
<1>7. Empty(s) => Empty(t)
  BY <1>1, <1>4 DEF Empty
<1>8. \A o \in Op : t[o].status = "idle" <=> s[o].status = "idle"
  BY <1>1, <1>3 DEF Queued
<1>9. QED BY <1>1, <1>2, <1>3, <1>5, <1>6, <1>7, <1>8

\* Operations that leave take nothing with them.
LEMMA LeaveKeeps ==
  ASSUME NEW s \in [Op -> Operation], Ordered(s), Compatible(s), NEW gone \in SUBSET Op,
         NEW t, t = Leave(s, gone)
  PROVE  /\ t \in [Op -> Operation] /\ Ordered(t) /\ Compatible(t)
         /\ Empty(s) => Empty(t)
         /\ \A o \in gone : t[o].status = "idle"
         /\ \A o \in Op \ gone : t[o].status = s[o].status /\ t[o].claims = s[o].claims
         /\ Active(t) = Active(s) \ gone /\ Queued(t) = Queued(s) \ gone
         /\ \A o \in Op \ gone : t[o].ahead = s[o].ahead \ gone
<1>1. /\ \A o \in gone : t[o] = Idle
      /\ \A o \in Op \ gone : t[o] = [s[o] EXCEPT !.ahead = s[o].ahead \ gone]
      /\ t = [o \in Op |-> t[o]]
  BY DEF Leave
<1>2. ASSUME NEW o \in Op
      PROVE  /\ t[o] \in Operation
             /\ o \notin gone => /\ t[o].status = s[o].status /\ t[o].claims = s[o].claims
                                 /\ t[o].ahead = s[o].ahead \ gone
  <2>1. s[o] \in Operation /\ Idle \in Operation
    BY DEF Operation, Statuses, Idle, Nothing, Claims
  <2>2. CASE o \in gone
    BY <1>1, <2>1, <2>2
  <2>3. CASE o \notin gone
    <3>1. s[o].ahead \ gone \in SUBSET Op
      BY <2>1 DEF Operation
    <3>2. t[o] = [s[o] EXCEPT !.ahead = s[o].ahead \ gone]
      BY <1>1, <2>3
    <3>3. LET y == [s[o] EXCEPT !.ahead = s[o].ahead \ gone]
          IN /\ y \in Operation /\ y.status = s[o].status
             /\ y.claims = s[o].claims /\ y.ahead = s[o].ahead \ gone
      BY <2>1, <3>1, NewAhead
    <3>4. QED BY <2>3, <3>2, <3>3
  <2>4. QED BY <2>2, <2>3
<1>3. \A o \in gone : t[o].status = "idle" /\ t[o].ahead = {}
  BY <1>1 DEF Idle
<1>4. Active(t) = Active(s) \ gone /\ Queued(t) = Queued(s) \ gone
  BY <1>2, <1>3 DEF Active, Queued
<1>5. Ordered(t)
  <2>1. ASSUME NEW o \in Op
        PROVE  t[o].ahead \subseteq Queued(t) \ {o} /\ (o \notin Queued(t) => t[o].ahead = {})
    <3>1. CASE o \in gone
      BY <1>3, <3>1
    <3>2. CASE o \notin gone
      BY <1>2, <1>4, <3>2 DEF Ordered
    <3>3. QED BY <3>1, <3>2
  <2>2. ASSUME NEW a \in Queued(t), NEW b \in Queued(t), a # b
        PROVE  a \in t[b].ahead \/ b \in t[a].ahead
    <3>1. /\ a \in Op /\ b \in Op /\ a \notin gone /\ b \notin gone
          /\ a \in s[b].ahead \/ b \in s[a].ahead
      BY <1>4, <2>2 DEF Ordered, Queued
    <3>2. QED BY <1>2, <3>1
  <2>3. ASSUME NEW a \in Op, NEW b \in Op, a \in t[b].ahead
        PROVE  t[a].ahead \subseteq t[b].ahead
    <3>1. a \notin gone /\ b \notin gone
      BY <1>3, <1>4, <2>1, <2>3
    <3>2. QED BY <1>2, <2>3, <3>1 DEF Ordered
  <2>4. QED BY <2>1, <2>2, <2>3 DEF Ordered
<1>6. Compatible(t)
  BY <1>2, <1>4 DEF Compatible, Active
<1>7. QED BY <1>1, <1>2, <1>3, <1>4, <1>5, <1>6 DEF Empty

-----------------------------------------------------------------------------
\* One call of pump, from a state s of the operations in good order, against the
\* blocks that then hold.
LEMMA PumpStep ==
  ASSUME NEW s \in [Op -> Operation], Ordered(s), Compatible(s), Pump(s),
         deletion \in Deletions, blocks' \in [Op -> Claims], Fenced(s, blocks'),
         deletion \in {"woken", "drained", "exclusive"} => Empty(s)
  PROVE  IInv'
<1>1. PICK ready \in Ready(s) : ops' = Admit(s, ready)
  BY DEF Pump
<1>2. /\ ops' \in [Op -> Operation] /\ Ordered(ops') /\ Compatible(ops')
      /\ Empty(s) => Empty(ops')
      /\ \A o \in Op : ops'[o].claims = s[o].claims
      /\ \A o \in Op : ops'[o].status = "idle" <=> s[o].status = "idle"
  BY <1>1, PumpKeeps
<1>3. /\ deletion' \in Deletions
      /\ deletion' \in {"woken", "drained", "exclusive"} => Empty(s)
  BY DEF Pump, Woken, Deletions, Empty
<1>4. Fenced(ops', blocks')
  BY <1>2 DEF Fenced
<1>5. QED BY <1>2, <1>3, <1>4 DEF IInv, TypeOK, Ordered, Compatible, Empty, Fenced, Active, Queued

\* The invariant holds at the start.
LEMMA InitIInv == Init => IInv
<1> SUFFICES ASSUME Init PROVE IInv
  OBVIOUS
<1>1. TypeOK
  BY DEF Init, TypeOK, Operation, Statuses, Idle, Nothing, Claims, Deletions
<1>2. Empty(ops) /\ Ordered(ops)
  BY DEF Init, Empty, Ordered, Active, Queued, Idle
<1>3. Compatible(ops) /\ Fenced(ops, blocks)
  BY <1>2 DEF Compatible, Empty, Fenced, Init, Idle
<1>4. QED BY <1>1, <1>2, <1>3 DEF IInv

\* A submitted operation goes to the end of the queue.
LEMMA Submitted ==
  ASSUME TypeOK, Ordered(ops), Compatible(ops), NEW o \in Op, ops[o].status = "idle",
         NEW new \in Operation, new.status = "queued", new.ahead = Queued(ops),
         NEW s \in [Op -> Operation], s[o] = new, \A p \in Op \ {o} : s[p] = ops[p]
  PROVE  /\ Ordered(s) /\ Compatible(s)
         /\ Active(s) = Active(ops) /\ Queued(s) = Queued(ops) \cup {o} /\ o \notin Queued(ops)
<1>1. Active(s) = Active(ops) /\ Queued(s) = Queued(ops) \cup {o} /\ o \notin Queued(ops)
  BY DEF Active, Queued
<1>2. Ordered(s)
  <2>1. Ordered(ops) /\ s[o].ahead = Queued(ops)
    OBVIOUS
  <2>2. \A p \in Op : /\ s[p].ahead \subseteq Queued(s) \ {p}
                      /\ p \notin Queued(s) => s[p].ahead = {}
    BY <1>1, <2>1 DEF Ordered
  <2>3. \A a, b \in Queued(s) : a # b => a \in s[b].ahead \/ b \in s[a].ahead
    <3> SUFFICES ASSUME NEW a \in Queued(s), NEW b \in Queued(s), a # b
                 PROVE  a \in s[b].ahead \/ b \in s[a].ahead
      OBVIOUS
    <3>1. Queued(ops) \subseteq Op
      BY DEF Queued
    <3>2. CASE a = o \/ b = o
      BY <1>1, <2>1, <3>2
    <3>3. CASE a # o /\ b # o
      BY <1>1, <2>1, <3>1, <3>3 DEF Ordered
    <3>4. QED BY <3>2, <3>3
  <2>4. ASSUME NEW a \in Op, NEW b \in Op, a \in s[b].ahead
        PROVE  s[a].ahead \subseteq s[b].ahead
    <3>1. a # o
      BY <1>1, <2>1, <2>4 DEF Ordered
    <3>2. QED BY <2>1, <2>4, <3>1 DEF Ordered
  <2>5. QED BY <2>2, <2>3, <2>4 DEF Ordered
<1>3. Compatible(s)
  <2>1. Active(ops) \subseteq Op /\ o \notin Active(ops)
    BY DEF Active
  <2>2. QED BY <1>1, <2>1 DEF Compatible
<1>4. QED BY <1>1, <1>2, <1>3

\* A submitted operation keeps the invariant.
LEMMA SubmitStep == ASSUME IInv, NEW o \in Op, Submit(o) PROVE IInv'
<1>1. PICK acc \in Access(o) :
        /\ ops[o].status = "idle" /\ Open /\ ~Blocked(Normalized(acc)) /\ UNCHANGED blocks
        /\ Pump([ops EXCEPT ![o] = [status |-> "queued", claims |-> Normalized(acc),
                                    released |-> {}, ahead |-> Queued(ops)]])
  BY DEF Submit
<1> DEFINE new == [status |-> "queued", claims |-> Normalized(acc),
                   released |-> {}, ahead |-> Queued(ops)]
           s == [ops EXCEPT ![o] = new]
<1>2. /\ new \in Operation /\ new.status = "queued" /\ new.ahead = Queued(ops)
      /\ new.claims = Normalized(acc)
  BY NormalizedTyped DEF Operation, Statuses, Queued
<1>3. /\ s \in [Op -> Operation] /\ s[o] = new /\ \A p \in Op \ {o} : s[p] = ops[p]
      /\ Pump(s) /\ deletion = "none" /\ blocks' \in [Op -> Claims]
  BY <1>1, <1>2 DEF IInv, TypeOK, Open
<1> HIDE DEF new, s
<1>4. Fenced(s, blocks')
  BY <1>1, <1>2, <1>3 DEF IInv, Fenced, Blocked
<1>5. Ordered(s) /\ Compatible(s)
  BY <1>1, <1>2, <1>3, Submitted DEF IInv
<1>6. deletion \in Deletions /\ (deletion \in {"woken", "drained", "exclusive"} => Empty(s))
  BY <1>3 DEF Deletions
<1>7. QED BY <1>3, <1>4, <1>5, <1>6, PumpStep

\* So do operations that leave, with what the pump starts then.
LEMMA LeaveStep ==
  ASSUME IInv, NEW gone \in SUBSET Op, Pump(Leave(ops, gone)), blocks' \in [Op -> Claims],
         Fenced(Leave(ops, gone), blocks')
  PROVE  IInv'
<1>1. /\ Leave(ops, gone) \in [Op -> Operation] /\ Ordered(Leave(ops, gone))
      /\ Compatible(Leave(ops, gone)) /\ (Empty(ops) => Empty(Leave(ops, gone)))
  BY LeaveKeeps DEF IInv, TypeOK
<1>2. QED BY <1>1, PumpStep DEF IInv, TypeOK

\* Cancel and Retire: one operation leaves, the blocks stay.
LEMMA OneLeaves ==
  ASSUME IInv, NEW o \in Op, Pump(Leave(ops, {o})), UNCHANGED blocks
  PROVE  IInv'
<1>1. /\ \A p \in {o} : Leave(ops, {o})[p].status = "idle"
      /\ \A p \in Op \ {o} : /\ Leave(ops, {o})[p].status = ops[p].status
                             /\ Leave(ops, {o})[p].claims = ops[p].claims
  BY LeaveKeeps DEF IInv, TypeOK
<1>2. Fenced(Leave(ops, {o}), blocks')
  BY <1>1 DEF IInv, Fenced
<1>3. QED BY <1>2, LeaveStep DEF IInv, TypeOK

\* And the block of the operations that conflict with a running one.
LEMMA BlockStep == ASSUME IInv, NEW o \in Op, BlockConflicting(o) PROVE IInv'
<1> DEFINE c == ops[o].claims
<1>1. /\ ops[o].status = "running" /\ blocks' = [blocks EXCEPT ![o] = c]
      /\ Pump(Leave(ops, Rejected(c)))
  BY DEF BlockConflicting
<1>2. Rejected(c) \subseteq Op /\ c \in Claims
  BY DEF Rejected, Queued, IInv, TypeOK, Operation
<1> DEFINE s == Leave(ops, Rejected(c))
<1>3. /\ \A p \in Rejected(c) : s[p].status = "idle"
      /\ \A p \in Op \ Rejected(c) : s[p].status = ops[p].status /\ s[p].claims = ops[p].claims
  BY <1>2, LeaveKeeps DEF IInv, TypeOK
<1>4. \A p \in Op \ {o} : ops[p].status # "idle" /\ p \notin Rejected(c) => ~Conflict(c, ops[p].claims)
  <2>1. \A p \in Op : ops[p].status \in Statuses
    BY DEF IInv, TypeOK, Operation
  <2>2. QED BY <1>1, <2>1 DEF IInv, Compatible, Rejected, Active, Queued, Statuses
<1>5. blocks' \in [Op -> Claims] /\ blocks'[o] = c /\ \A b \in Op \ {o} : blocks'[b] = blocks[b]
  BY <1>1, <1>2 DEF IInv, TypeOK
<1>6. Fenced(s, blocks')
  <2> SUFFICES ASSUME NEW b \in Op, NEW p \in Op, p # b, s[p].status # "idle"
               PROVE  ~Conflict(blocks'[b], s[p].claims)
    BY DEF Fenced
  <2> HIDE DEF c, s
  <2>1. p \notin Rejected(c) /\ s[p].status = ops[p].status /\ s[p].claims = ops[p].claims
    BY <1>3
  <2>2. CASE b = o
    BY <1>4, <1>5, <2>1, <2>2
  <2>3. CASE b # o
    BY <1>5, <2>1, <2>3 DEF IInv, Fenced
  <2>4. QED BY <2>2, <2>3
<1>7. QED BY <1>1, <1>2, <1>5, <1>6, LeaveStep

\* releaseResources pumps a queue that is the same, with fewer claims held.
LEMMA Released ==
  ASSUME IInv, NEW o \in Op, ReleaseResources(o)
  PROVE  \E s \in [Op -> Operation] :
           /\ Pump(s) /\ UNCHANGED blocks
           /\ \A p \in Op : s[p].status = ops[p].status /\ s[p].ahead = ops[p].ahead
           /\ \A p \in Op : \A d : Conflict(s[p].claims, d) => Conflict(ops[p].claims, d)
           /\ \A p \in Op \ {o} : s[p] = ops[p]
           /\ Locks!Within(s[o].claims, ops[o].claims)
           /\ Active(s) = Active(ops) /\ Queued(s) = Queued(ops)
           /\ Ordered(s) /\ Compatible(s)
<1>1. PICK rs \in Droppable(o) :
        /\ ops[o].status = "running" /\ UNCHANGED blocks
        /\ Pump([ops EXCEPT
                   ![o].released = @ \cup (rs \cap Claimed(ops[o].claims)),
                   ![o].claims = [r \in Resource |->
                      IF r \in rs \cap Claimed(ops[o].claims) THEN "none" ELSE @[r]]])
  BY DEF ReleaseResources
<1> DEFINE held == rs \cap Claimed(ops[o].claims)
           fewer == [r \in Resource |-> IF r \in held THEN "none" ELSE ops[o].claims[r]]
           s == [ops EXCEPT ![o].released = @ \cup held, ![o].claims = fewer]
<1>2. ops[o] \in Operation /\ held \in SUBSET Resource
  BY DEF IInv, TypeOK, Claimed
<1>3. fewer \in Claims
  BY <1>2 DEF Operation, Claims
<1>4. \A d : Conflict(fewer, d) => Conflict(ops[o].claims, d)
  BY FewerClaims
<1> HIDE DEF held, fewer
<1>5. /\ s \in [Op -> Operation]
      /\ s[o].claims = fewer
      /\ \A p \in Op : s[p].status = ops[p].status /\ s[p].ahead = ops[p].ahead
      /\ \A p \in Op \ {o} : s[p] = ops[p]
  BY <1>2, <1>3 DEF IInv, TypeOK, Operation
<1>6. Pump(s)
  BY <1>1 DEF held, fewer
<1> HIDE DEF s
<1>7. Active(s) = Active(ops) /\ Queued(s) = Queued(ops)
  BY <1>5 DEF Active, Queued
<1>8. Ordered(s)
  BY <1>5, <1>7 DEF IInv, Ordered, Queued
<1>9. Compatible(s)
  <2> SUFFICES ASSUME NEW a \in Active(ops), NEW b \in Active(ops), a # b
               PROVE  ~Conflict(s[a].claims, s[b].claims)
    BY <1>7 DEF Compatible
  <2>1. ~Conflict(ops[a].claims, ops[b].claims) /\ a \in Op /\ b \in Op
    BY DEF IInv, Compatible, Active
  <2>2. CASE a = o
    BY <1>4, <1>5, <2>1, <2>2
  <2>3. CASE b = o
    BY <1>4, <1>5, <2>1, <2>3, ConflictSymmetric
  <2>4. CASE a # o /\ b # o
    BY <1>5, <2>1, <2>4
  <2>5. QED BY <2>2, <2>3, <2>4
<1>10. \A p \in Op : \A d : Conflict(s[p].claims, d) => Conflict(ops[p].claims, d)
  BY <1>4, <1>5
<1>11. Locks!Within(s[o].claims, ops[o].claims)
  BY <1>5 DEF Locks!Within, fewer
<1>12. QED BY <1>1, <1>5, <1>6, <1>7, <1>8, <1>9, <1>10, <1>11

\* So it keeps the invariant.
LEMMA ReleaseStep == ASSUME IInv, NEW o \in Op, ReleaseResources(o) PROVE IInv'
<1>1. PICK s \in [Op -> Operation] :
        /\ Pump(s) /\ UNCHANGED blocks
        /\ \A p \in Op : s[p].status = ops[p].status
        /\ \A p \in Op : \A d : Conflict(s[p].claims, d) => Conflict(ops[p].claims, d)
        /\ Active(s) = Active(ops) /\ Queued(s) = Queued(ops)
        /\ Ordered(s) /\ Compatible(s)
  BY Released
<1>2. Fenced(s, blocks')
  <2> SUFFICES ASSUME NEW b \in Op, NEW p \in Op, p # b, s[p].status # "idle"
               PROVE  ~Conflict(blocks'[b], s[p].claims)
    BY DEF Fenced
  <2>1. ~Conflict(blocks[b], ops[p].claims) /\ blocks' = blocks
    BY <1>1 DEF IInv, Fenced
  <2>2. QED BY <1>1, <2>1, ConflictSymmetric
<1>3. /\ deletion \in Deletions /\ blocks' \in [Op -> Claims]
      /\ deletion \in {"woken", "drained", "exclusive"} => Empty(s)
  BY <1>1 DEF IInv, TypeOK, Empty
<1>4. QED BY <1>1, <1>2, <1>3, PumpStep

\* Unblock: the queue is looked at again, with one block less.
LEMMA UnblockStep == ASSUME IInv, NEW o \in Op, Unblock(o) PROVE IInv'
<1>1. Pump(ops) /\ blocks' = [blocks EXCEPT ![o] = Nothing]
  BY DEF Unblock
<1>2. blocks' \in [Op -> Claims] /\ blocks'[o] = Nothing /\ \A b \in Op \ {o} : blocks'[b] = blocks[b]
  BY <1>1 DEF IInv, TypeOK, Claims, Nothing
<1>3. Fenced(ops, blocks')
  BY <1>2, NothingConflicts DEF IInv, Fenced
<1>4. QED BY <1>1, <1>2, <1>3, PumpStep DEF IInv, TypeOK

\* Execute and Settle: an owner goes on, its claims and the queue as they are.
LEMMA GoesOn ==
  ASSUME IInv, NEW o \in Op, NEW st \in {"running", "settled"}, o \in Active(ops),
         ops' = [ops EXCEPT ![o].status = st], UNCHANGED <<blocks, deletion>>
  PROVE  IInv'
<1>1. ops' \in [Op -> Operation]
  BY DEF IInv, TypeOK, Operation, Statuses
<1>2. /\ \A p \in Op : ops'[p].claims = ops[p].claims /\ ops'[p].ahead = ops[p].ahead
      /\ ops'[o].status = st /\ \A p \in Op \ {o} : ops'[p].status = ops[p].status
  BY DEF IInv, TypeOK, Operation
<1>3. Active(ops') = Active(ops) /\ Queued(ops') = Queued(ops)
  BY <1>2 DEF Active, Queued
<1>4. Ordered(ops') /\ Compatible(ops')
  BY <1>2, <1>3 DEF IInv, Ordered, Compatible, Active, Queued
<1>5. Fenced(ops', blocks')
  BY <1>2 DEF IInv, Fenced, Active
<1>6. QED BY <1>1, <1>3, <1>4, <1>5 DEF IInv, TypeOK, Ordered, Compatible, Fenced, Empty, Active, Queued

\* The deletion handle's own calls: drained and woken only when nothing is left.
LEMMA DeletionStep ==
  ASSUME IInv,
         \/ BeginAppDeletion \/ Drain \/ DrainReturns \/ RunExclusive \/ ExclusiveEnds
         \/ ReleaseDeletion
  PROVE  IInv'
<1>1. UNCHANGED <<ops, blocks>>
  BY DEF BeginAppDeletion, Drain, DrainReturns, RunExclusive, ExclusiveEnds, ReleaseDeletion
<1>2. /\ deletion' \in Deletions
      /\ deletion' \in {"woken", "drained", "exclusive"} => Empty(ops)
  BY DEF IInv, BeginAppDeletion, Drain, DrainReturns, RunExclusive, ExclusiveEnds,
         ReleaseDeletion, Deletions, Busy, Empty
<1>3. QED BY <1>1, <1>2 DEF IInv, TypeOK, Ordered, Compatible, Fenced, Empty, Active, Queued

\* Every step keeps the invariant.
LEMMA StepIInv == IInv /\ [Next]_vars => IInv'
<1> SUFFICES ASSUME IInv, [Next]_vars PROVE IInv'
  OBVIOUS
<1>1. ASSUME NEW o \in Op, Submit(o) PROVE IInv'
  BY <1>1, SubmitStep
<1>2. ASSUME NEW o \in Op, Cancel(o) PROVE IInv'
  BY <1>2, OneLeaves DEF Cancel
<1>3. ASSUME NEW o \in Op, Execute(o) PROVE IInv'
  BY <1>3, GoesOn DEF Execute, Active
<1>4. ASSUME NEW o \in Op, ReleaseResources(o) PROVE IInv'
  BY <1>4, ReleaseStep
<1>5. ASSUME NEW o \in Op, BlockConflicting(o) PROVE IInv'
  BY <1>5, BlockStep
<1>6. ASSUME NEW o \in Op, Unblock(o) PROVE IInv'
  BY <1>6, UnblockStep
<1>7. ASSUME NEW o \in Op, Settle(o) PROVE IInv'
  BY <1>7, GoesOn DEF Settle, Active
<1>8. ASSUME NEW o \in Op, Retire(o) PROVE IInv'
  BY <1>8, OneLeaves DEF Retire
<1>9. CASE UNCHANGED vars
  BY <1>9 DEF vars, IInv, TypeOK, Ordered, Compatible, Fenced, Empty, Active, Queued
<1>10. QED
  BY <1>1, <1>2, <1>3, <1>4, <1>5, <1>6, <1>7, <1>8, <1>9, DeletionStep DEF Next

\* It holds in every reachable state.
LEMMA AlwaysIInv == Spec => []IInv
BY InitIInv, StepIInv, PTL DEF Spec

-----------------------------------------------------------------------------
\* The variables keep their types (the fields of AppOperationState).
THEOREM TypeCorrect == Spec => []TypeOK
<1>1. IInv => TypeOK
  BY DEF IInv
<1>2. QED BY <1>1, AlwaysIInv, PTL

\* However operations are queued, passed, cancelled and shrunk, two owners of one
\* app never conflict (pump).
THEOREM OwnersStayCompatible == Spec => []OwnersCompatible
<1>1. IInv => OwnersCompatible
  BY DEF IInv, Compatible, OwnersCompatible
<1>2. QED BY <1>1, AlwaysIInv, PTL

\* A deletion that has drained, and its exclusive work, are alone with the app
\* (drain, runExclusive).
THEOREM DeletionIsAlone == Spec => []DeletionRunsAlone
<1>1. IInv => DeletionRunsAlone
  BY DEF IInv, DeletionRunsAlone, Busy, Empty
<1>2. QED BY <1>1, AlwaysIInv, PTL

\* While a block is in force nobody but its author is admitted or waits against it
\* (blockConflictingOperations, run).
THEOREM UnsafeIsFenced == Spec => []UnsafeStaysFenced
<1>1. IInv => UnsafeStaysFenced
  BY DEF IInv, Fenced, UnsafeStaysFenced
<1>2. QED BY <1>1, AlwaysIInv, PTL

-----------------------------------------------------------------------------
\* Among subsets of a finite set there is one that contains no other: what stands
\* in for an induction rule, which the provers cannot use.
LEMMA LeastSubset ==
  ASSUME NEW S, IsFiniteSet(S), NEW T \in SUBSET (SUBSET S), T # {}
  PROVE  \E m \in T : \A x \in T : x \subseteq m => x = m
<1>1. IsWellFoundedOn(StrictSubsetOrdering(S), SUBSET S)
  BY FS_StrictSubsetOrderingWellFounded, FS_FiniteSubsetsOfFinite
<1>2. PICK m \in T : \A x \in T : <<x, m>> \notin StrictSubsetOrdering(S)
  BY <1>1, WFMin
<1>3. QED BY <1>2 DEF StrictSubsetOrdering

\* So there is a first one among some operations of a queue.
LEMMA FirstInQueue ==
  ASSUME NEW s \in [Op -> Operation], Ordered(s), NEW some \in SUBSET Op, some # {}
  PROVE  \E x \in some : s[x].ahead \cap some = {}
<1> DEFINE places == {s[x].ahead : x \in some}
<1>1. places \in SUBSET (SUBSET Op) /\ places # {}
  BY DEF Operation
<1>2. PICK x \in some : \A y \in some : s[y].ahead \subseteq s[x].ahead => s[y].ahead = s[x].ahead
  <2> HIDE DEF places
  <2>1. PICK m \in places : \A z \in places : z \subseteq m => z = m
    BY <1>1, LeastSubset, OperationsAssumption
  <2>2. PICK x \in some : m = s[x].ahead
    BY <2>1 DEF places
  <2>3. \A y \in some : s[y].ahead \in places
    BY DEF places
  <2>4. QED BY <2>1, <2>2, <2>3
<1>3. ASSUME NEW y \in some, y \in s[x].ahead PROVE FALSE
  <2>1. s[y].ahead \subseteq s[x].ahead /\ y \notin s[y].ahead
    BY <1>3 DEF Ordered
  <2>2. QED BY <1>2, <1>3, <2>1
<1>4. QED BY <1>3

\* In one pass of pump: whoever it starts ahead of a conflicting w finds w held up,
\* by owners and by earlier operations of the same pass, and all of them sessions.
LEMMA PassOvertakes ==
  ASSUME NEW s \in [Op -> Operation], Ordered(s), NEW ready \in Ready(s),
         NEW w \in Queued(s) \ ready, NEW o \in ready, w \in s[o].ahead,
         Conflict(s[w].claims, s[o].claims),
         NEW holding, holding = {d \in Active(s) \cup ready : /\ Conflict(s[d].claims, s[w].claims)
                                                             /\ ~(d \in ready /\ w \in s[d].ahead)}
  PROVE  holding # {} /\ \A d \in holding : Session(d)
<1>1. ready \subseteq Queued(s) /\ Queued(s) \subseteq Op /\ \A x \in ready : MayStart(s, x, ready)
  BY DEF Ready, Queued
<1> DEFINE late == {x \in ready : w \in s[x].ahead /\ Conflict(s[w].claims, s[x].claims)}
           direct(x) == {d \in Active(s) \cup (ready \cap s[x].ahead) :
                           Conflict(s[d].claims, s[w].claims)}
<1>2. ASSUME NEW x \in late PROVE direct(x) # {} /\ \A d \in direct(x) : Session(d)
  <2>1. CanBypass(s, w, x, Active(s) \cup (ready \cap s[x].ahead))
    BY <1>1, <1>2 DEF MayStart, OwnersSeen
  <2>2. QED BY <2>1 DEF CanBypass, AllYield
<1>3. ASSUME NEW d \in holding PROVE Session(d)
  <2>1. CASE d \in Active(s)
    BY <1>2, <1>3, <2>1
  <2>2. CASE d \in ready
    <3>1. w \notin s[d].ahead /\ d # w /\ Conflict(s[d].claims, s[w].claims)
      BY <1>3, <2>2
    <3>2. d \in s[w].ahead
      BY <1>1, <2>2, <3>1 DEF Ordered
    <3>3. d \in s[o].ahead
      BY <1>1, <3>2 DEF Ordered
    <3>4. QED BY <1>2, <2>2, <3>1, <3>3
  <2>3. QED BY <1>3, <2>1, <2>2
<1>4. holding # {}
  <2>1. late \in SUBSET Op /\ late # {}
    BY <1>1
  <2>2. PICK x \in late : s[x].ahead \cap late = {}
    <3> HIDE DEF late
    <3>1. QED BY <2>1, FirstInQueue
  <2>3. PICK d \in direct(x) : TRUE
    BY <1>2
  <2>4. d \in Active(s) \/ (d \in ready /\ d \in s[x].ahead)
    OBVIOUS
  <2>5. d \in ready => w \notin s[d].ahead
    <3> SUFFICES ASSUME d \in ready, w \in s[d].ahead PROVE FALSE
      OBVIOUS
    <3>1. d \in Queued(s) /\ d \notin Active(s)
      BY <1>1 DEF Queued, Active
    <3>2. d \in late
      BY ConflictSymmetric
    <3>3. QED BY <2>2, <2>4, <3>1, <3>2
  <2>6. QED BY <2>4, <2>5
<1>5. QED BY <1>3, <1>4

\* What the property says of one step.
Overtakes ==
  \A o, w \in Op :
    /\ Starts(o) /\ Behind(o, w) /\ w \in Queued(ops)'
    /\ Conflict(ops'[w].claims, ops'[o].claims)
    => LET holding == {d \in Active(ops)' : /\ Conflict(ops'[d].claims, ops'[w].claims)
                                           /\ ~(Starts(d) /\ Behind(d, w))}
       IN holding # {} /\ \A d \in holding : Session(d)

\* A step that calls pump on a queue s that keeps the order starts what the pass admits.
LEMMA PumpOvertakes ==
  ASSUME NEW s \in [Op -> Operation], Ordered(s), Compatible(s), Pump(s),
         Active(s) \subseteq Active(ops), Queued(s) \cap Active(ops) = {},
         \A w \in Queued(s) \cap Queued(ops), d \in Queued(s) :
           w \in s[d].ahead <=> Behind(d, w)
  PROVE  Overtakes
<1>1. PICK ready \in Ready(s) : ops' = Admit(s, ready)
  BY DEF Pump
<1>2. \A o \in Op : ops'[o].claims = s[o].claims
  BY <1>1, PumpKeeps
<1>3. ready \subseteq Queued(s) /\ Queued(s) \subseteq Op /\ Active(s) \subseteq Op
  BY DEF Ready, Queued, Active
<1>4. Active(ops)' = Active(s) \cup ready /\ Queued(ops)' = Queued(s) \ ready
  <2>1. \A o \in Op : ops'[o].status = IF o \in ready THEN "admitted" ELSE s[o].status
    <3>1. ready \in SUBSET Op
      BY <1>3
    <3>2. QED BY <1>1, <3>1, Admitted
  <2>2. QED BY <1>3, <2>1 DEF Active, Queued
<1>5. \A d \in Op : Starts(d) <=> d \in ready
  BY <1>3, <1>4 DEF Starts
<1> SUFFICES ASSUME NEW o \in Op, NEW w \in Op, o \in ready, Behind(o, w), w \in Queued(s) \ ready,
                    Conflict(s[w].claims, s[o].claims)
             PROVE  LET holding == {d \in Active(s) \cup ready :
                                      /\ Conflict(s[d].claims, s[w].claims)
                                      /\ ~(d \in ready /\ Behind(d, w))}
                    IN holding # {} /\ \A d \in holding : Session(d)
  BY <1>2, <1>3, <1>4, <1>5 DEF Overtakes
<1>6. w \in Queued(ops)
  BY DEF Behind
<1>7. \A d \in ready : Behind(d, w) <=> w \in s[d].ahead
  BY <1>3, <1>6
<1>8. PICK holding : holding = {d \in Active(s) \cup ready :
                               /\ Conflict(s[d].claims, s[w].claims)
                               /\ ~(d \in ready /\ w \in s[d].ahead)}
  OBVIOUS
<1>9. holding # {} /\ \A d \in holding : Session(d)
  BY <1>7, <1>8, PassOvertakes
<1>10. holding = {d \in Active(s) \cup ready : /\ Conflict(s[d].claims, s[w].claims)
                                              /\ ~(d \in ready /\ Behind(d, w))}
  BY <1>7, <1>8
<1>11. QED BY <1>9, <1>10

-----------------------------------------------------------------------------
\* Operations that leave keep the order of those that stay.
LEMMA LeaveOvertakes ==
  ASSUME IInv, NEW gone \in SUBSET Op, Pump(Leave(ops, gone)) PROVE Overtakes
<1>1. PICK s \in [Op -> Operation] :
        /\ Pump(s) /\ Ordered(s) /\ Compatible(s)
        /\ Active(s) = Active(ops) \ gone /\ Queued(s) = Queued(ops) \ gone
        /\ \A d \in Op \ gone : s[d].ahead = ops[d].ahead \ gone
  BY LeaveKeeps DEF IInv, TypeOK
<1>2. Active(s) \subseteq Active(ops) /\ Queued(s) \cap Active(ops) = {}
  BY <1>1 DEF Active, Queued
<1>3. \A w \in Queued(s) \cap Queued(ops), d \in Queued(s) : w \in s[d].ahead <=> Behind(d, w)
  BY <1>1 DEF Behind, Queued
<1>4. QED BY <1>1, <1>2, <1>3, PumpOvertakes

\* A queue that is the same but for who holds what.
LEMMA SameQueueOvertakes ==
  ASSUME IInv, NEW s \in [Op -> Operation], Pump(s), Ordered(s), Compatible(s),
         Active(s) = Active(ops), Queued(s) = Queued(ops), \A p \in Op : s[p].ahead = ops[p].ahead
  PROVE  Overtakes
<1>1. Active(s) \subseteq Active(ops) /\ Queued(s) \cap Active(ops) = {}
  BY DEF Active, Queued
<1>2. \A w \in Queued(s) \cap Queued(ops), d \in Queued(s) : w \in s[d].ahead <=> Behind(d, w)
  BY DEF Behind, Queued
<1>3. QED BY <1>1, <1>2, PumpOvertakes

\* A new operation is behind all that was queued.
LEMMA SubmitOvertakes == ASSUME IInv, NEW o \in Op, Submit(o) PROVE Overtakes
<1>1. PICK acc \in Access(o) :
        /\ ops[o].status = "idle"
        /\ Pump([ops EXCEPT ![o] = [status |-> "queued", claims |-> Normalized(acc),
                                    released |-> {}, ahead |-> Queued(ops)]])
  BY DEF Submit
<1>2. [status |-> "queued", claims |-> Normalized(acc), released |-> {}, ahead |-> Queued(ops)]
        \in Operation
  BY NormalizedTyped DEF Operation, Statuses, Queued
<1>3. PICK s \in [Op -> Operation] :
        /\ Pump(s) /\ s[o] \in Operation /\ s[o].status = "queued" /\ s[o].ahead = Queued(ops)
        /\ \A p \in Op \ {o} : s[p] = ops[p]
  BY <1>1, <1>2 DEF IInv, TypeOK
<1>4. /\ Ordered(s) /\ Compatible(s)
      /\ Active(s) = Active(ops) /\ Queued(s) = Queued(ops) \cup {o}
  BY <1>1, <1>3, Submitted DEF IInv
<1>5. Active(s) \subseteq Active(ops) /\ Queued(s) \cap Active(ops) = {}
  BY <1>1, <1>4 DEF Active, Queued
<1>6. ASSUME NEW w \in Queued(s) \cap Queued(ops), NEW d \in Queued(s)
      PROVE  w \in s[d].ahead <=> Behind(d, w)
  <2>1. CASE d = o
    BY <1>1, <1>3, <1>6, <2>1 DEF Behind
  <2>2. CASE d # o
    BY <1>3, <1>4, <1>6, <2>2 DEF Behind, Queued
  <2>3. QED BY <2>1, <2>2
<1>7. QED BY <1>3, <1>4, <1>5, <1>6, PumpOvertakes

\* Where pump is not called nothing starts.
LEMMA NobodyStarts == ASSUME Active(ops)' \subseteq Active(ops) PROVE Overtakes
BY DEF Overtakes, Starts

\* No step overtakes except past sessions.
LEMMA StepOvertakes == IInv /\ [Next]_vars => Overtakes
<1> SUFFICES ASSUME IInv, [Next]_vars PROVE Overtakes
  OBVIOUS
<1>1. ASSUME NEW o \in Op, Submit(o) PROVE Overtakes
  BY <1>1, SubmitOvertakes
<1>2. ASSUME NEW o \in Op, Cancel(o) \/ Retire(o) PROVE Overtakes
  BY <1>2, LeaveOvertakes DEF Cancel, Retire
<1>3. ASSUME NEW o \in Op, BlockConflicting(o) PROVE Overtakes
  <2>1. Rejected(ops[o].claims) \in SUBSET Op
    BY DEF Rejected, Queued
  <2>2. QED BY <1>3, <2>1, LeaveOvertakes DEF BlockConflicting
<1>4. ASSUME NEW o \in Op, ReleaseResources(o) PROVE Overtakes
  BY <1>4, Released, SameQueueOvertakes
<1>5. ASSUME NEW o \in Op, Unblock(o) PROVE Overtakes
  BY <1>5, SameQueueOvertakes DEF Unblock, IInv, TypeOK
<1>6. ASSUME NEW o \in Op, Execute(o) \/ Settle(o) PROVE Overtakes
  <2>1. Active(ops)' \subseteq Active(ops)
    BY <1>6 DEF Execute, Settle, Active, IInv, TypeOK, Operation
  <2>2. QED BY <2>1, NobodyStarts
<1>7. CASE UNCHANGED ops
  <2>1. Active(ops)' \subseteq Active(ops)
    BY <1>7 DEF Active
  <2>2. QED BY <2>1, NobodyStarts
<1>8. QED
  BY <1>1, <1>2, <1>3, <1>4, <1>5, <1>6, <1>7
  DEF Next, vars, BeginAppDeletion, Drain, DrainReturns, RunExclusive, ExclusiveEnds, ReleaseDeletion

\* Whoever starts ahead of a conflicting operation that was there first does so past
\* sessions only: what holds that one up is at least one owner, or an earlier start
\* of the same pass, and every one of them opted in (canBypassBlockedOperation, pump).
THEOREM OvertakesOnlySessions == Spec => OvertakesBehindSessions
<1>1. IInv /\ [Next]_vars => [Overtakes]_vars
  BY StepOvertakes
<1>2. Spec => [][Overtakes]_vars
  BY <1>1, AlwaysIInv, PTL DEF Spec
<1>3. QED BY <1>2 DEF OvertakesBehindSessions, Overtakes

-----------------------------------------------------------------------------
\* Who has not run has released nothing.
Fresh(s) == \A o \in Op : s[o].status \in {"idle", "queued", "admitted"} => s[o].released = {}

Quiescent(s) == \A o \in Queued(s) : ~MayStart(s, o, {})

\* What a pass leaves of a queue (pump).
LEMMA AfterPass ==
  ASSUME NEW s \in [Op -> Operation], NEW ready \in Ready(s), NEW t, t = Admit(s, ready)
  PROVE  /\ ready \subseteq Queued(s) /\ Active(t) = Active(s) \cup ready
         /\ Queued(t) = Queued(s) \ ready
         /\ \A o \in Op : /\ t[o].claims = s[o].claims /\ t[o].released = s[o].released
                          /\ o \notin ready => t[o].ahead = s[o].ahead \ ready
         /\ Fresh(s) => Fresh(t)
<1>1. ready \subseteq Queued(s) /\ ready \subseteq Op
  BY DEF Ready, Queued
<1>2. \A o \in Op :
         /\ t[o].claims = s[o].claims /\ t[o].released = s[o].released
         /\ o \in ready => t[o].status = "admitted"
         /\ o \notin ready => t[o].status = s[o].status /\ t[o].ahead = s[o].ahead \ ready
  <2>1. ready \in SUBSET Op
    BY <1>1
  <2>2. QED BY <2>1, Admitted
<1>3. Active(t) = Active(s) \cup ready /\ Queued(t) = Queued(s) \ ready
  BY <1>1, <1>2 DEF Active, Queued
<1>4. Fresh(s) => Fresh(t)
  BY <1>1, <1>2 DEF Fresh, Queued
<1>5. QED BY <1>1, <1>2, <1>3, <1>4

\* d, an owner, is a reason that w waits and covers the resource r of w's.
Covers(s, d, w, r) ==
  r \in Claimed(s[d].claims) \/ (Session(w) /\ r \in s[d].released)

HoldsUp(s, d, w) == Conflict(s[d].claims, s[w].claims)

\* When a waiting operation may be passed, owner by owner (canBypassBlockedOperation).
LEMMA BypassMeans ==
  ASSUME NEW s, NEW w, NEW o, NEW owners
  PROVE  CanBypass(s, w, o, owners) <=>
           /\ \E d \in owners : HoldsUp(s, d, w)
           /\ \A r \in ConflictsOn(s[w].claims, s[o].claims) :
                \E d \in owners : HoldsUp(s, d, w) /\ Covers(s, d, w, r)
           /\ \A d \in owners : HoldsUp(s, d, w) =>
                Session(d) /\ ~Conflict(s[d].claims, s[o].claims)
<1> DEFINE direct == {d \in owners : Conflict(s[d].claims, s[w].claims)}
           theirs == UNION {Claimed(s[d].claims)
                              \cup (IF Session(w) THEN s[d].released ELSE {}) : d \in direct}
<1>1. \A r : r \in theirs <=> \E d \in direct : Covers(s, d, w, r)
  BY DEF Covers
<1>2. CanBypass(s, w, o, owners) <=> /\ direct # {}
                                     /\ ConflictsOn(s[w].claims, s[o].claims) \subseteq theirs
                                     /\ AllYield(s, direct, o)
  BY DEF CanBypass
<1> HIDE DEF theirs
<1>3. QED BY <1>1, <1>2 DEF HoldsUp, AllYield

\* After a pass another one would start nobody: if a waiting w may be passed by o once
\* the pass is over, it could have been when it was o's turn. Those whom the pass
\* started after o's turn had to pass w themselves, and the first of them that holds w
\* up, or that covers a resource of w's, found that done by an earlier one.
LEMMA PassIsFinal ==
  ASSUME NEW s \in [Op -> Operation], Ordered(s), Fresh(s), NEW ready \in Ready(s),
         NEW t, t = Admit(s, ready)
  PROVE  Quiescent(t)
<1> SUFFICES ASSUME NEW o \in Queued(t), MayStart(t, o, {}) PROVE FALSE
  BY DEF Quiescent
<1> DEFINE then == Active(s) \cup (ready \cap s[o].ahead)
           now == Active(s) \cup ready
<1>1. /\ ready \subseteq Queued(s) /\ Active(t) = now /\ Queued(t) = Queued(s) \ ready
      /\ \A x \in Op : /\ t[x].claims = s[x].claims /\ t[x].released = s[x].released
                       /\ x \notin ready => t[x].ahead = s[x].ahead \ ready
      /\ Queued(s) \subseteq Op /\ Active(s) \subseteq Op
  BY AfterPass DEF Queued, Active
<1>2. /\ o \in Op /\ o \in Queued(s) /\ o \notin ready /\ s[o].ahead \subseteq Queued(s)
      /\ t[o].ahead = s[o].ahead \ ready
  BY <1>1 DEF Ordered
<1>3. /\ \A a \in now : ~Conflict(s[a].claims, s[o].claims)
      /\ \A v \in s[o].ahead \ ready :
           Conflict(s[v].claims, s[o].claims) => CanBypass(t, v, o, now)
  BY <1>1, <1>2 DEF MayStart, OwnersSeen
<1>4. \A x \in Queued(s) : x \in ready <=> MayStart(s, x, ready)
  BY DEF Ready
<1>5. PICK w \in s[o].ahead \ ready :
        Conflict(s[w].claims, s[o].claims) /\ ~CanBypass(s, w, o, then)
  BY <1>2, <1>3, <1>4 DEF MayStart, OwnersSeen
<1>6. CanBypass(t, w, o, now) /\ w \in Op /\ w \in Queued(s)
  BY <1>1, <1>2, <1>3, <1>5
<1>7. /\ \E d \in now : HoldsUp(s, d, w)
      /\ \A r \in ConflictsOn(s[w].claims, s[o].claims) :
           \E d \in now : HoldsUp(s, d, w) /\ Covers(s, d, w, r)
      /\ \A d \in now : HoldsUp(s, d, w) =>
           Session(d) /\ ~Conflict(s[d].claims, s[o].claims)
  <2>1. \A d \in now : HoldsUp(t, d, w) <=> HoldsUp(s, d, w)
    BY <1>1, <1>6 DEF HoldsUp
  <2>2. \A d \in now : \A r : Covers(t, d, w, r) <=> Covers(s, d, w, r)
    BY <1>1 DEF Covers
  <2>3. ConflictsOn(t[w].claims, t[o].claims) = ConflictsOn(s[w].claims, s[o].claims)
        /\ \A d \in now : Conflict(t[d].claims, t[o].claims) <=> Conflict(s[d].claims, s[o].claims)
    BY <1>1, <1>2, <1>6
  <2>4. QED BY <1>6, <2>1, <2>2, <2>3, BypassMeans
<1> DEFINE late == {x \in ready \ s[o].ahead : HoldsUp(s, x, w)}
<1>8. \A x \in late : w \in s[x].ahead /\ x \in Op
  BY <1>1, <1>2, <1>5 DEF Ordered
<1>9. ASSUME NEW x \in late
      PROVE  CanBypass(s, w, x, Active(s) \cup (ready \cap s[x].ahead))
  BY <1>1, <1>4, <1>5, <1>8, ConflictSymmetric DEF MayStart, OwnersSeen, HoldsUp
<1>10. \A d \in now : HoldsUp(s, d, w) => d \in then \/ d \in late
  OBVIOUS
<1> HIDE DEF late
<1>11. \E d \in then : HoldsUp(s, d, w)
  <2> SUFFICES ASSUME late # {} PROVE \E d \in then : HoldsUp(s, d, w)
    BY <1>7, <1>10
  <2>1. PICK x \in late : s[x].ahead \cap late = {}
    BY <1>8, FirstInQueue
  <2>2. PICK d \in Active(s) \cup (ready \cap s[x].ahead) : HoldsUp(s, d, w)
    BY <1>9, BypassMeans
  <2>3. QED BY <1>10, <2>1, <2>2
<1>12. ASSUME NEW r \in ConflictsOn(s[w].claims, s[o].claims)
       PROVE  \E d \in then : HoldsUp(s, d, w) /\ Covers(s, d, w, r)
  <2> DEFINE covering == {x \in late : Covers(s, x, w, r)}
  <2> SUFFICES ASSUME covering # {} PROVE \E d \in then : HoldsUp(s, d, w) /\ Covers(s, d, w, r)
    BY <1>7, <1>10
  <2>1. PICK x \in covering : s[x].ahead \cap covering = {}
    <3>1. covering \in SUBSET Op
      BY <1>8
    <3> HIDE DEF covering
    <3>2. QED BY <3>1, FirstInQueue
  <2>2. x \in late /\ x \in ready /\ x \in Op
    BY <1>8 DEF late
  <2>3. r \in Claimed(s[x].claims)
    <3>1. s[x].released = {}
      BY <1>1, <2>2 DEF Fresh, Queued
    <3>2. QED BY <2>1, <3>1 DEF Covers
  <2>4. r \in ConflictsOn(s[w].claims, s[x].claims)
    <3>1. ~Excludes(s[x].claims[r], s[o].claims[r])
      BY <1>3, <2>2 DEF Conflict, ConflictsOn
    <3>2. QED BY <2>3, <3>1 DEF ConflictsOn, Excludes, Claimed
  <2>5. PICK d \in Active(s) \cup (ready \cap s[x].ahead) :
          HoldsUp(s, d, w) /\ Covers(s, d, w, r)
    BY <1>9, <2>2, <2>4, BypassMeans
  <2>6. QED BY <1>10, <2>1, <2>5
<1>13. CanBypass(s, w, o, then)
  BY <1>7, <1>11, <1>12, BypassMeans
<1>14. QED BY <1>5, <1>13

\* A step that calls pump forgets nobody.
LEMMA PumpForgetsNobody ==
  ASSUME NEW s \in [Op -> Operation], Ordered(s), Fresh(s), Pump(s)
  PROVE  Fresh(ops') /\ Quiescent(ops')
<1>1. PICK ready \in Ready(s) : ops' = Admit(s, ready)
  BY DEF Pump
<1>2. QED BY <1>1, AfterPass, PassIsFinal

\* Operations that leave have released nothing when they come back.
LEMMA LeaveForgetsNobody ==
  ASSUME IInv, Fresh(ops), NEW gone \in SUBSET Op, Pump(Leave(ops, gone))
  PROVE  Fresh(ops') /\ Quiescent(ops')
<1>1. Leave(ops, gone) \in [Op -> Operation] /\ Ordered(Leave(ops, gone))
  BY LeaveKeeps DEF IInv, TypeOK
<1>2. Fresh(Leave(ops, gone))
  <2>1. \A p \in Op : ops[p] \in Operation
    BY DEF IInv, TypeOK
  <2>2. ASSUME NEW p \in Op
        PROVE  /\ p \in gone => Leave(ops, gone)[p].released = {}
               /\ p \notin gone => /\ Leave(ops, gone)[p].status = ops[p].status
                                   /\ Leave(ops, gone)[p].released = ops[p].released
    BY <2>1 DEF Leave, Idle, Operation
  <2>3. QED BY <2>2 DEF Fresh
<1>3. QED BY <1>1, <1>2, PumpForgetsNobody

\* A new operation has released nothing.
LEMMA SubmitForgetsNobody ==
  ASSUME IInv, Fresh(ops), NEW o \in Op, Submit(o) PROVE Fresh(ops') /\ Quiescent(ops')
<1>1. PICK acc \in Access(o) :
        /\ ops[o].status = "idle"
        /\ Pump([ops EXCEPT ![o] = [status |-> "queued", claims |-> Normalized(acc),
                                    released |-> {}, ahead |-> Queued(ops)]])
  BY DEF Submit
<1>2. [status |-> "queued", claims |-> Normalized(acc), released |-> {}, ahead |-> Queued(ops)]
        \in Operation
  BY NormalizedTyped DEF Operation, Statuses, Queued
<1>3. PICK s \in [Op -> Operation] :
        /\ Pump(s) /\ s[o] \in Operation /\ s[o].status = "queued" /\ s[o].ahead = Queued(ops)
        /\ s[o].released = {} /\ \A p \in Op \ {o} : s[p] = ops[p]
  BY <1>1, <1>2 DEF IInv, TypeOK
<1>4. Ordered(s) /\ Fresh(s)
  BY <1>1, <1>3, Submitted DEF IInv, Fresh
<1>5. QED BY <1>3, <1>4, PumpForgetsNobody

\* Only a running operation gives claims back.
LEMMA ReleaseForgetsNobody ==
  ASSUME IInv, Fresh(ops), NEW o \in Op, ReleaseResources(o) PROVE Fresh(ops') /\ Quiescent(ops')
<1>1. PICK s \in [Op -> Operation] :
        /\ Pump(s) /\ Ordered(s) /\ \A p \in Op : s[p].status = ops[p].status
        /\ \A p \in Op \ {o} : s[p] = ops[p]
  BY Released
<1>2. ops[o].status = "running"
  BY DEF ReleaseResources
<1>3. Fresh(s)
  BY <1>1, <1>2 DEF Fresh
<1>4. QED BY <1>1, <1>3, PumpForgetsNobody

\* An owner that goes on is an owner still, and the queue is as it was.
LEMMA GoesOnForgetsNobody ==
  ASSUME IInv, Fresh(ops), Quiescent(ops), NEW o \in Op, NEW st \in {"running", "settled"},
         o \in Active(ops), ops' = [ops EXCEPT ![o].status = st]
  PROVE  Fresh(ops') /\ Quiescent(ops')
<1>1. /\ \A p \in Op : /\ ops'[p].claims = ops[p].claims /\ ops'[p].ahead = ops[p].ahead
                       /\ ops'[p].released = ops[p].released
      /\ ops'[o].status = st /\ \A p \in Op \ {o} : ops'[p].status = ops[p].status
  BY DEF IInv, TypeOK, Operation
<1>2. Active(ops') = Active(ops) /\ Queued(ops') = Queued(ops) /\ Queued(ops) \subseteq Op
      /\ Active(ops) \subseteq Op
  BY <1>1 DEF Active, Queued
<1>3. Fresh(ops')
  BY <1>1 DEF Fresh
<1>4. ASSUME NEW p \in Queued(ops), MayStart(ops', p, {}) PROVE FALSE
  <2>1. OwnersSeen(ops', p, {}) = Active(ops) /\ OwnersSeen(ops, p, {}) = Active(ops)
    BY <1>2 DEF OwnersSeen
  <2>2. \A w \in ops[p].ahead :
           CanBypass(ops', w, p, Active(ops)) <=> CanBypass(ops, w, p, Active(ops))
    <3> SUFFICES ASSUME NEW w \in ops[p].ahead
                 PROVE  CanBypass(ops', w, p, Active(ops)) <=> CanBypass(ops, w, p, Active(ops))
      OBVIOUS
    <3>1. w \in Op /\ p \in Op
      BY <1>2 DEF IInv, TypeOK, Operation
    <3>2. \A d \in Active(ops) : /\ HoldsUp(ops', d, w) <=> HoldsUp(ops, d, w)
                                 /\ \A r : Covers(ops', d, w, r) <=> Covers(ops, d, w, r)
      BY <1>1, <1>2, <3>1 DEF HoldsUp, Covers
    <3>3. QED BY <1>1, <1>2, <3>1, <3>2, BypassMeans
  <2>3. p \in Op /\ ops[p].ahead \subseteq Op /\ ops'[p].ahead = ops[p].ahead
    BY <1>1, <1>2 DEF IInv, TypeOK, Operation
  <2>4. \A x \in Op : ops'[x].claims = ops[x].claims
    BY <1>1
  <2>5. \A a \in Active(ops) : ~Conflict(ops[a].claims, ops[p].claims)
    BY <1>2, <1>4, <2>1, <2>3, <2>4 DEF MayStart
  <2>6. ASSUME NEW w \in ops[p].ahead, Conflict(ops[w].claims, ops[p].claims)
        PROVE  CanBypass(ops, w, p, Active(ops))
    <3>1. CanBypass(ops', w, p, Active(ops))
      BY <1>4, <2>1, <2>3, <2>4, <2>6 DEF MayStart
    <3>2. QED BY <2>2, <3>1
  <2>7. MayStart(ops, p, {})
    BY <2>1, <2>5, <2>6 DEF MayStart
  <2>8. QED BY <2>7 DEF Quiescent
<1>5. QED BY <1>2, <1>3, <1>4 DEF Quiescent

\* Every step leaves a queue from which nobody else may start.
LEMMA StepForgetsNobody ==
  IInv /\ Fresh(ops) /\ Quiescent(ops) /\ [Next]_vars => Fresh(ops') /\ Quiescent(ops')
<1> SUFFICES ASSUME IInv, Fresh(ops), Quiescent(ops), [Next]_vars
             PROVE  Fresh(ops') /\ Quiescent(ops')
  OBVIOUS
<1>1. ASSUME NEW o \in Op, Submit(o) PROVE Fresh(ops') /\ Quiescent(ops')
  BY <1>1, SubmitForgetsNobody
<1>2. ASSUME NEW o \in Op, Cancel(o) \/ Retire(o) PROVE Fresh(ops') /\ Quiescent(ops')
  BY <1>2, LeaveForgetsNobody DEF Cancel, Retire
<1>3. ASSUME NEW o \in Op, BlockConflicting(o) PROVE Fresh(ops') /\ Quiescent(ops')
  <2>1. Rejected(ops[o].claims) \in SUBSET Op
    BY DEF Rejected, Queued
  <2>2. QED BY <1>3, <2>1, LeaveForgetsNobody DEF BlockConflicting
<1>4. ASSUME NEW o \in Op, ReleaseResources(o) PROVE Fresh(ops') /\ Quiescent(ops')
  BY <1>4, ReleaseForgetsNobody
<1>5. ASSUME NEW o \in Op, Unblock(o) PROVE Fresh(ops') /\ Quiescent(ops')
  BY <1>5, PumpForgetsNobody DEF Unblock, IInv, TypeOK
<1>6. ASSUME NEW o \in Op, Execute(o) \/ Settle(o) PROVE Fresh(ops') /\ Quiescent(ops')
  BY <1>6, GoesOnForgetsNobody DEF Execute, Settle, Active
<1>7. CASE UNCHANGED ops
  BY <1>7
<1>8. QED
  BY <1>1, <1>2, <1>3, <1>4, <1>5, <1>6, <1>7
  DEF Next, vars, BeginAppDeletion, Drain, DrainReturns, RunExclusive, ExclusiveEnds, ReleaseDeletion

\* So it is in every reachable state.
LEMMA AlwaysQuiescent == Spec => [](IInv /\ Fresh(ops) /\ Quiescent(ops))
<1>1. Init => Fresh(ops) /\ Quiescent(ops)
  BY DEF Init, Fresh, Quiescent, Queued, Idle
<1>2. Fresh(ops') /\ Quiescent(ops') => (Fresh(ops) /\ Quiescent(ops))'
  BY DEF Fresh, Quiescent, Queued, MayStart, OwnersSeen, Active, CanBypass, AllYield
<1>3. IInv /\ Fresh(ops) /\ Quiescent(ops) /\ [Next]_vars => (IInv /\ Fresh(ops) /\ Quiescent(ops))'
  BY <1>2, StepIInv, StepForgetsNobody
<1>4. QED BY <1>1, <1>3, InitIInv, PTL DEF Spec

\* No waiting operation is ever left behind that another pass of pump would start,
\* whatever was submitted, cancelled, given back, rejected, blocked or settled in
\* between: the one pass at the end of each of these calls is enough.
THEOREM NobodyIsForgotten == Spec => []NobodyForgotten
<1>1. IInv /\ Fresh(ops) /\ Quiescent(ops) => NobodyForgotten
  BY DEF Quiescent, NobodyForgotten
<1>2. QED BY <1>1, AlwaysQuiescent, PTL

\* So whenever someone waits someone else is at work, whose end calls pump again: the
\* queue of an app never comes to rest.
THEOREM WaitersHaveAnOwner == Spec => [](Queued(ops) # {} => Active(ops) # {})
<1>1. ASSUME IInv, Quiescent(ops), Queued(ops) # {}, Active(ops) = {} PROVE FALSE
  <2>1. Queued(ops) \in SUBSET Op
    BY DEF Queued
  <2>2. PICK x \in Queued(ops) : ops[x].ahead \cap Queued(ops) = {}
    BY <1>1, <2>1, FirstInQueue DEF IInv, TypeOK
  <2>3. ops[x].ahead = {}
    BY <1>1, <2>1, <2>2 DEF IInv, Ordered
  <2>4. MayStart(ops, x, {})
    BY <1>1, <2>3 DEF MayStart, OwnersSeen
  <2>5. QED BY <1>1, <2>4 DEF Quiescent
<1>2. IInv /\ Fresh(ops) /\ Quiescent(ops) => (Queued(ops) # {} => Active(ops) # {})
  BY <1>1
<1>3. QED BY <1>2, AlwaysQuiescent, PTL

-----------------------------------------------------------------------------
\* Among some operations of a queue there is a last one, which no other follows.
LEMMA LastInQueue ==
  ASSUME NEW s \in [Op -> Operation], Ordered(s), NEW some \in SUBSET Op, some # {}
  PROVE  \E x \in some : \A y \in some : x \notin s[y].ahead
<1> DEFINE rest(x) == Op \ s[x].ahead
           rests == {rest(x) : x \in some}
<1>1. rests \in SUBSET (SUBSET Op) /\ rests # {}
  OBVIOUS
<1>2. PICK x \in some : \A y \in some : rest(y) \subseteq rest(x) => rest(y) = rest(x)
  <2> HIDE DEF rest
  <2>1. PICK m \in rests : \A z \in rests : z \subseteq m => z = m
    <3> HIDE DEF rests
    <3>1. QED BY <1>1, LeastSubset, OperationsAssumption
  <2>2. QED BY <2>1
<1>3. ASSUME NEW y \in some, x \in s[y].ahead PROVE FALSE
  <2>1. s[x].ahead \subseteq s[y].ahead /\ x \notin s[x].ahead
    BY <1>3 DEF Ordered
  <2>2. QED BY <1>2, <1>3, <2>1
<1>4. QED BY <1>3

\* Whether the pass admits an operation depends on what it did before it only.
LEMMA OnlyEarlierCounts ==
  ASSUME NEW s \in [Op -> Operation], NEW o \in Op, NEW r1, NEW r2,
         \A x \in s[o].ahead : x \in r1 <=> x \in r2
  PROVE  MayStart(s, o, r1) <=> MayStart(s, o, r2)
<1>1. r1 \cap s[o].ahead = r2 \cap s[o].ahead /\ s[o].ahead \ r1 = s[o].ahead \ r2
  OBVIOUS
<1>2. OwnersSeen(s, o, r1) = OwnersSeen(s, o, r2)
  BY <1>1 DEF OwnersSeen
<1>3. QED BY <1>1, <1>2 DEF MayStart

\* The fixpoint that stands for pump's walk is the walk: from every queue in order
\* there is exactly one outcome, so no step is lost or invented by the definition
\* of Ready.
THEOREM PassHasOneOutcome ==
  ASSUME NEW s \in [Op -> Operation], Ordered(s)
  PROVE  \E ready : Ready(s) = {ready}
<1> DEFINE Decided(D, r) == r \subseteq D /\ \A o \in D : o \in r <=> MayStart(s, o, r)
           Prefix(D) == D \subseteq Queued(s) /\ \A o \in D : s[o].ahead \subseteq D
           stuck == {D \in SUBSET Op : Prefix(D) /\ ~(\E r : Decided(D, r))}
<1>1. Queued(s) \in SUBSET Op /\ Prefix(Queued(s))
  BY DEF Ordered, Queued
<1>2. ASSUME NEW r1, NEW r2, Decided(Queued(s), r1), Decided(Queued(s), r2) PROVE r1 = r2
  <2> DEFINE differ == (r1 \ r2) \cup (r2 \ r1)
  <2> SUFFICES ASSUME differ # {} PROVE FALSE
    OBVIOUS
  <2>1. differ \in SUBSET Queued(s)
    BY <1>2
  <2>2. PICK x \in differ : s[x].ahead \cap differ = {}
    <3> HIDE DEF differ
    <3>1. QED BY <1>1, <2>1, FirstInQueue
  <2>3. \A y \in s[x].ahead : y \in r1 <=> y \in r2
    BY <2>2
  <2>4. x \in Op /\ x \in Queued(s)
    BY <1>1, <2>1
  <2> HIDE DEF Decided
  <2>5. MayStart(s, x, r1) <=> MayStart(s, x, r2)
    BY <2>3, <2>4, OnlyEarlierCounts
  <2>6. x \in r1 <=> x \in r2
    BY <1>2, <2>4, <2>5 DEF Decided
  <2>7. QED BY <2>6
<1>3. stuck = {}
  <2> SUFFICES ASSUME stuck # {} PROVE FALSE
    OBVIOUS
  <2>1. PICK D \in stuck : \A x \in stuck : x \subseteq D => x = D
    <3>1. stuck \in SUBSET (SUBSET Op)
      OBVIOUS
    <3> HIDE DEF stuck
    <3>2. QED BY <3>1, LeastSubset, OperationsAssumption
  <2>2. D \in SUBSET Op /\ Prefix(D) /\ \A r : ~Decided(D, r)
    OBVIOUS
  <2>3. D # {}
    <3>1. Decided({}, {})
      OBVIOUS
    <3> HIDE DEF Decided
    <3>2. QED BY <2>2, <3>1
  <2>4. PICK x \in D : \A y \in D : x \notin s[y].ahead
    BY <2>2, <2>3, LastInQueue
  <2>5. Prefix(D \ {x}) /\ D \ {x} \in SUBSET Op /\ D \ {x} # D
    BY <2>2, <2>4
  <2> HIDE DEF Decided
  <2>6. PICK r : Decided(D \ {x}, r)
    BY <2>1, <2>5
  <2> DEFINE t == IF MayStart(s, x, r) THEN r \cup {x} ELSE r
  <2>7. /\ t \subseteq D /\ (x \in t <=> MayStart(s, x, r))
        /\ \A y \in Op \ {x} : y \in t <=> y \in r
    BY <2>6 DEF Decided
  <2> HIDE DEF t
  <2>8. \A o \in D : MayStart(s, o, t) <=> MayStart(s, o, r)
    <3> SUFFICES ASSUME NEW o \in D PROVE MayStart(s, o, t) <=> MayStart(s, o, r)
      OBVIOUS
    <3>1. \A y \in s[o].ahead : y \in t <=> y \in r
      BY <2>2, <2>4, <2>7
    <3>2. QED BY <2>2, <3>1, OnlyEarlierCounts
  <2>9. Decided(D, t)
    BY <2>2, <2>6, <2>7, <2>8 DEF Decided
  <2>10. QED BY <2>2, <2>9
<1>4. PICK r : Decided(Queued(s), r)
  BY <1>1, <1>3
<1>5. Ready(s) = {r}
  BY <1>2, <1>4 DEF Ready
<1>6. QED BY <1>5

-----------------------------------------------------------------------------
\* What the operations of s hold.
HeldIn(s) == [o \in Op |-> IF o \in Active(s) THEN s[o].claims ELSE Nothing]

\* Readers and writers fit where the code sees no conflict.
LEMMA FitsIsNoConflict ==
  ASSUME NEW c \in Claims, NEW d \in Claims PROVE Locks!Fits(c, d) <=> ~Conflict(c, d)
BY DEF Claims, Mode, Locks!Fits, Conflict, ConflictsOn, Excludes

\* The two tables are of one kind.
LEMMA SameKind == Locks!Claims = Claims /\ Locks!Nothing = Nothing
BY DEF Locks!Claims, Locks!Nothing, Claims, Nothing, Mode

\* Well-typed operations hold claims.
LEMMA HeldTyped == ASSUME NEW s \in [Op -> Operation] PROVE HeldIn(s) \in [Op -> Claims]
BY DEF HeldIn, Operation, Claims, Nothing

\* While deletion's work may run, nothing is blocked.
AloneIsSafe == deletion \in {"drained", "exclusive"} => Safe

\* Only owners leave blocks, and a drained deletion has outlived them.
LEMMA AloneStep == ASSUME IInv, AloneIsSafe, [Next]_vars PROVE AloneIsSafe'
<1>1. ASSUME NEW o \in Op, Unblock(o) PROVE AloneIsSafe'
  <2>1. deletion' \in {"drained", "exclusive"} => deletion \in {"drained", "exclusive"}
    BY <1>1 DEF Unblock, Pump, Woken
  <2>2. Safe => Safe'
    BY <1>1 DEF Unblock, Safe
  <2>3. QED BY <2>1, <2>2 DEF AloneIsSafe
<1>2. ASSUME NEW o \in Op, BlockConflicting(o) PROVE AloneIsSafe'
  <2>1. o \in Active(ops)
    BY <1>2 DEF BlockConflicting, Active
  <2>2. deletion' \notin {"drained", "exclusive"}
    BY <1>2, <2>1 DEF IInv, Empty, BlockConflicting, Pump, Woken
  <2>3. QED BY <2>2 DEF AloneIsSafe
<1>3. ASSUME NEW o \in Op,
             Submit(o) \/ Cancel(o) \/ Execute(o) \/ ReleaseResources(o) \/ Settle(o) \/ Retire(o)
      PROVE  AloneIsSafe'
  <2>1. /\ UNCHANGED blocks
        /\ deletion' \in {"drained", "exclusive"} => deletion \in {"drained", "exclusive"}
    BY <1>3 DEF Submit, Cancel, Execute, ReleaseResources, Settle, Retire, Pump, Woken
  <2>2. QED BY <2>1 DEF AloneIsSafe, Safe
<1>4. ASSUME \/ BeginAppDeletion \/ Drain \/ DrainReturns \/ RunExclusive \/ ExclusiveEnds
             \/ ReleaseDeletion \/ UNCHANGED vars
      PROVE  AloneIsSafe'
  BY <1>4 DEF AloneIsSafe, Safe, vars, BeginAppDeletion, Drain, DrainReturns, RunExclusive,
              ExclusiveEnds, ReleaseDeletion
<1>5. QED BY <1>1, <1>2, <1>3, <1>4 DEF Next

\* What a pass of pump adds to what the operations of s kept is granted as the table
\* of locks grants it.
LEMMA PumpGrants ==
  ASSUME IInv', NEW s \in [Op -> Operation], Ordered(s), Compatible(s), Pump(s),
         \A p \in Queued(s) : p \notin Active(ops), deletion # "exclusive"
  PROVE  Locks!Granting(HeldIn(s))
<1>1. PICK ready \in Ready(s) : ops' = Admit(s, ready)
  BY DEF Pump
<1>2. ready \subseteq Queued(s) /\ Queued(s) \subseteq Op
  BY <1>1 DEF Ready, Queued
<1>3. \A p \in Op \ ready : ops'[p].status = s[p].status /\ ops'[p].claims = s[p].claims
  <2>1. ready \in SUBSET Op
    BY <1>2
  <2>2. QED BY <1>1, <2>1, Admitted
<1>4. deletion' # "exclusive"
  BY DEF Pump, Woken
<1>5. Held' = HeldIn(ops') /\ Held' \in [Op -> Claims]
  BY HeldTyped DEF Held, HeldIn, IInv, TypeOK, Active
<1>6. \A p \in Op \ ready : Held'[p] = HeldIn(s)[p]
  BY <1>3, <1>5 DEF HeldIn, Active
<1>7. ASSUME NEW o \in ready, NEW p \in Op \ {o}
      PROVE  Locks!Fits(Held'[o], Held'[p]) /\ Locks!Fits(Held'[o], blocks'[p])
  <2>1. Held'[o] \in Claims /\ Held'[p] \in Claims /\ blocks'[p] \in Claims
    BY <1>2, <1>5 DEF IInv, TypeOK
  <2>2. ~Conflict(Held'[o], Held'[p])
    <3>1. CASE o \in Active(ops') /\ p \in Active(ops')
      BY <1>2, <1>5, <3>1 DEF IInv, Compatible, HeldIn, Active
    <3>2. CASE o \notin Active(ops') \/ p \notin Active(ops')
      BY <1>2, <1>5, <3>2, NothingConflicts, ConflictSymmetric DEF HeldIn
    <3>3. QED BY <3>1, <3>2
  <2>3. ~Conflict(Held'[o], blocks'[p])
    <3>1. CASE o \in Active(ops')
      BY <1>2, <1>5, <3>1, ConflictSymmetric DEF IInv, Fenced, HeldIn, Active
    <3>2. CASE o \notin Active(ops')
      BY <1>2, <1>5, <3>2, NothingConflicts DEF HeldIn
    <3>3. QED BY <3>1, <3>2
  <2>4. QED BY <2>1, <2>2, <2>3, FitsIsNoConflict
<1>8. \A o \in ready : Held[o] = Nothing
  BY <1>2 DEF Held
<1>9. QED BY <1>4, <1>5, <1>6, <1>7, <1>8, SameKind DEF Locks!Granting

\* A pump after which o has at most what it held, and the others what they held.
LEMMA PumpReturns ==
  ASSUME IInv, IInv', NEW s \in [Op -> Operation], Ordered(s), Compatible(s), Pump(s),
         UNCHANGED blocks, deletion # "exclusive", \A p \in Queued(s) : p \notin Active(ops),
         NEW o \in Op, Locks!Within(HeldIn(s)[o], Held[o]),
         \A p \in Op \ {o} : HeldIn(s)[p] = Held[p]
  PROVE  Locks!Return(o)
<1>1. HeldIn(s) \in [Op -> Claims] /\ Held \in [Op -> Claims]
  BY HeldTyped DEF Held, HeldIn, IInv, TypeOK
<1>2. HeldIn(s) = [Held EXCEPT ![o] = HeldIn(s)[o]] /\ HeldIn(s)[o] \in Locks!Claims
  BY <1>1, SameKind
<1>3. Locks!Granting(HeldIn(s))
  BY PumpGrants
<1>4. QED BY <1>2, <1>3 DEF Locks!Return

\* Holding the same, or nothing at all, is within what is held.
LEMMA WithinHeld ==
  ASSUME NEW c \in Claims PROVE Locks!Within(c, c) /\ Locks!Within(Nothing, c)
BY DEF Locks!Within, Nothing

\* Cancel and Retire give back everything one operation holds.
LEMMA LeaveReturns ==
  ASSUME IInv, IInv', NEW o \in Op, ops[o].status # "idle", Pump(Leave(ops, {o})), UNCHANGED blocks
  PROVE  Locks!Return(o)
<1>1. PICK s \in [Op -> Operation] :
        /\ Pump(s) /\ Ordered(s) /\ Compatible(s)
        /\ \A p \in Op \ {o} : s[p].claims = ops[p].claims
        /\ Active(s) = Active(ops) \ {o} /\ Queued(s) = Queued(ops) \ {o}
  BY LeaveKeeps DEF IInv, TypeOK
<1>2. HeldIn(s)[o] = Nothing /\ \A p \in Op \ {o} : HeldIn(s)[p] = Held[p]
  BY <1>1 DEF HeldIn, Held
<1>3. Held[o] \in Claims
  BY HeldTyped DEF Held, HeldIn, IInv, TypeOK
<1>4. \A p \in Queued(s) : p \notin Active(ops)
  BY <1>1 DEF Queued, Active
<1>5. deletion # "exclusive"
  BY DEF IInv, TypeOK, Empty, Active, Queued, Operation, Statuses
<1>6. Locks!Within(HeldIn(s)[o], Held[o])
  BY <1>2, <1>3, WithinHeld
<1>7. QED BY <1>1, <1>2, <1>4, <1>5, <1>6, PumpReturns

\* A submission gives nothing back; what the pass starts is granted.
LEMMA SubmitReturns == ASSUME IInv, IInv', NEW o \in Op, Submit(o) PROVE Locks!Return(o)
<1>1. PICK acc \in Access(o) :
        /\ ops[o].status = "idle" /\ deletion = "none" /\ UNCHANGED blocks
        /\ Pump([ops EXCEPT ![o] = [status |-> "queued", claims |-> Normalized(acc),
                                    released |-> {}, ahead |-> Queued(ops)]])
  BY DEF Submit, Open
<1>2. [status |-> "queued", claims |-> Normalized(acc), released |-> {}, ahead |-> Queued(ops)]
        \in Operation
  BY NormalizedTyped DEF Operation, Statuses, Queued
<1>3. PICK s \in [Op -> Operation] :
        /\ Pump(s) /\ s[o] \in Operation /\ s[o].status = "queued" /\ s[o].ahead = Queued(ops)
        /\ \A p \in Op \ {o} : s[p] = ops[p]
  BY <1>1, <1>2 DEF IInv, TypeOK
<1>4. /\ Ordered(s) /\ Compatible(s)
      /\ Active(s) = Active(ops) /\ Queued(s) = Queued(ops) \cup {o}
  BY <1>1, <1>3, Submitted DEF IInv
<1>5. \A p \in Op : HeldIn(s)[p] = Held[p]
  BY <1>1, <1>3, <1>4 DEF HeldIn, Held, Active
<1>6. Locks!Within(HeldIn(s)[o], Held[o])
  BY <1>5, HeldTyped, WithinHeld DEF IInv, TypeOK
<1>7. \A p \in Queued(s) : p \notin Active(ops)
  BY <1>1, <1>4 DEF Queued, Active
<1>8. QED BY <1>1, <1>3, <1>4, <1>5, <1>6, <1>7, PumpReturns

\* An early release gives back what it names.
LEMMA ReleaseReturns == ASSUME IInv, IInv', NEW o \in Op, ReleaseResources(o) PROVE Locks!Return(o)
<1>1. PICK s \in [Op -> Operation] :
        /\ Pump(s) /\ UNCHANGED blocks /\ Ordered(s) /\ Compatible(s)
        /\ Active(s) = Active(ops) /\ Queued(s) = Queued(ops)
        /\ Locks!Within(s[o].claims, ops[o].claims)
        /\ \A p \in Op \ {o} : s[p].claims = ops[p].claims
  BY Released
<1>2. o \in Active(ops)
  BY DEF ReleaseResources, Active
<1>3. deletion # "exclusive"
  BY <1>2 DEF IInv, Empty
<1>4. /\ \A p \in Op \ {o} : HeldIn(s)[p] = Held[p]
      /\ HeldIn(s)[o] = s[o].claims /\ Held[o] = ops[o].claims
  BY <1>1, <1>2 DEF HeldIn, Held
<1>5. \A p \in Queued(s) : p \notin Active(ops)
  BY <1>1 DEF Queued, Active
<1>6. QED BY <1>1, <1>3, <1>4, <1>5, PumpReturns

\* A block fences what its author holds.
LEMMA BlockFences == ASSUME IInv, IInv', NEW o \in Op, BlockConflicting(o) PROVE Locks!Fence(o)
<1> DEFINE gone == Rejected(ops[o].claims)
<1>1. /\ ops[o].status = "running" /\ blocks[o] = Nothing
      /\ blocks' = [blocks EXCEPT ![o] = ops[o].claims]
      /\ Pump(Leave(ops, gone))
  BY DEF BlockConflicting
<1>2. gone \in SUBSET Op /\ gone \cap Active(ops) = {}
  BY DEF Rejected, Queued, Active
<1> HIDE DEF gone
<1>3. PICK s \in [Op -> Operation] :
        /\ Pump(s) /\ Ordered(s) /\ Compatible(s)
        /\ \A p \in Op \ gone : s[p].claims = ops[p].claims
        /\ Active(s) = Active(ops) \ gone /\ Queued(s) = Queued(ops) \ gone
  BY <1>1, <1>2, LeaveKeeps DEF IInv, TypeOK
<1>4. HeldIn(s) = Held
  BY <1>2, <1>3 DEF HeldIn, Held
<1>5. Held[o] = ops[o].claims /\ o \in Active(ops)
  BY <1>1 DEF Held, Active
<1>6. deletion # "exclusive" /\ \A p \in Queued(s) : p \notin Active(ops)
  BY <1>3, <1>5 DEF IInv, Empty, Queued, Active
<1>7. Locks!Granting(Held)
  BY <1>3, <1>4, <1>6, PumpGrants
<1>8. QED BY <1>1, <1>5, <1>7, SameKind DEF Locks!Fence

\* And its end lifts it.
LEMMA UnblockLifts ==
  ASSUME IInv, IInv', AloneIsSafe, NEW o \in Op, Unblock(o) PROVE Locks!Lift(o)
<1>1. Pump(ops) /\ blocks[o] # Nothing /\ blocks' = [blocks EXCEPT ![o] = Nothing]
  BY DEF Unblock
<1>2. deletion # "exclusive" /\ \A p \in Queued(ops) : p \notin Active(ops)
  BY <1>1 DEF AloneIsSafe, Safe, Queued, Active
<1>3. HeldIn(ops) = Held
  BY DEF HeldIn, Held
<1>4. Locks!Granting(Held)
  BY <1>1, <1>2, <1>3, PumpGrants DEF IInv, TypeOK
<1>5. QED BY <1>1, <1>4, SameKind DEF Locks!Lift

\* Deletion enters and leaves an app nobody holds; its other calls show nothing.
LEMMA DeletionLocks ==
  ASSUME IInv,
         \/ BeginAppDeletion \/ Drain \/ DrainReturns \/ RunExclusive \/ ExclusiveEnds
         \/ ReleaseDeletion
  PROVE  [Locks!Next]_Locks!vars
<1>1. UNCHANGED <<ops, blocks>> /\ Held' = Held
  BY DEF BeginAppDeletion, Drain, DrainReturns, RunExclusive, ExclusiveEnds, ReleaseDeletion,
         Held, Active
<1>2. CASE RunExclusive
  <2>1. Held = [o \in Op |-> Nothing] /\ blocks = [o \in Op |-> Nothing]
    BY <1>2 DEF RunExclusive, Safe, Busy, Held
  <2>2. deletion # "exclusive" /\ deletion' = "exclusive"
    BY <1>2 DEF RunExclusive
  <2>3. Locks!Enter
    BY <1>1, <2>1, <2>2, SameKind DEF Locks!Enter
  <2>4. QED BY <2>3 DEF Locks!Next
<1>3. CASE ExclusiveEnds
  BY <1>1, <1>3 DEF ExclusiveEnds, Locks!Exit, Locks!Next
<1>4. CASE BeginAppDeletion \/ Drain \/ DrainReturns \/ ReleaseDeletion
  BY <1>1, <1>4 DEF BeginAppDeletion, Drain, DrainReturns, ReleaseDeletion, Locks!vars
<1>5. QED BY <1>2, <1>3, <1>4

\* Every step of the coordinator is a step of the table of locks, or none.
LEMMA StepLocks ==
  ASSUME IInv, IInv', AloneIsSafe, [Next]_vars PROVE [Locks!Next]_Locks!vars
<1>1. ASSUME NEW o \in Op, Submit(o) \/ ReleaseResources(o) PROVE Locks!Next
  BY <1>1, SubmitReturns, ReleaseReturns DEF Locks!Next
<1>2. ASSUME NEW o \in Op, Cancel(o) \/ Retire(o) PROVE Locks!Next
  BY <1>2, LeaveReturns DEF Cancel, Retire, Locks!Next
<1>3. ASSUME NEW o \in Op, BlockConflicting(o) \/ Unblock(o) PROVE Locks!Next
  BY <1>3, BlockFences, UnblockLifts DEF Locks!Next
<1>4. ASSUME NEW o \in Op, Execute(o) \/ Settle(o) PROVE UNCHANGED Locks!vars
  <2>1. /\ UNCHANGED <<blocks, deletion>> /\ o \in Active(ops)
        /\ \E st \in {"running", "settled"} : ops' = [ops EXCEPT ![o].status = st]
    BY <1>4 DEF Execute, Settle, Active
  <2>2. ASSUME NEW p \in Op
        PROVE  /\ ops'[p].claims = ops[p].claims
               /\ ops'[p].status = ops[p].status \/ (p = o /\ ops'[p].status \in {"running", "settled"})
    BY <2>1 DEF IInv, TypeOK, Operation
  <2>3. Active(ops)' = Active(ops)
    BY <2>1, <2>2 DEF Active
  <2>4. Held' = Held
    BY <2>2, <2>3 DEF Held
  <2>5. QED BY <2>1, <2>4 DEF Locks!vars
<1>5. CASE UNCHANGED vars
  BY <1>5 DEF vars, Held, Active, Locks!vars
<1>6. QED BY <1>1, <1>2, <1>3, <1>4, <1>5, DeletionLocks DEF Next

\* Through all its queueing, passing, blocking and draining, the coordinator is a
\* table of readers' and writers' locks: all at once, to fit, never more until
\* everything is given back, and deletion alone (app_operation_coordinator.ts).
THEOREM ImplementsLocksHolds == Spec => ImplementsLocks
<1>1. Init => Locks!Init
  BY SameKind DEF Init, Locks!Init, Held, Active, Idle
<1>2. Init => AloneIsSafe
  BY DEF Init, AloneIsSafe
<1>3. IInv /\ AloneIsSafe /\ [Next]_vars => AloneIsSafe'
  BY AloneStep
<1>4. IInv /\ IInv' /\ AloneIsSafe /\ [Next]_vars => [Locks!Next]_Locks!vars
  BY StepLocks
<1>5. QED
  BY <1>1, <1>2, <1>3, <1>4, AlwaysIInv, PTL DEF Spec, Locks!Spec, ImplementsLocks
=============================================================================
