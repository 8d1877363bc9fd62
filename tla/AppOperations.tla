---------------------------- MODULE AppOperations ----------------------------
(***************************************************************************)
(* The builder's coordinator of one app's work (core/src/ipc/services      *)
(* /app_operation_coordinator.ts): operations claim named resources for    *)
(* reading or writing, all at once; a queued one holds back later work it  *)
(* conflicts with, except past a long session that opted in; failed        *)
(* cleanup leaves a block; deletion closes admission, drains, runs alone.  *)
(* The code's state of an idle app is dropped and made again: it is the    *)
(* initial state here.                                                     *)
(***************************************************************************)
EXTENDS FiniteSets

CONSTANTS
  Op,                 \* the callers of run, each with one operation at a time
  Resource,           \* what is claimed, the halves of "repository" included
  Halves,             \* the resources the umbrella name "repository" stands for
  Umbrella,           \* that name
  Access(_),          \* per caller: the sets of <<name, mode>> it may declare
  Session(_),         \* per caller: allowCompatibleQueueBypass
  Droppable(_)        \* per caller: the sets of resources it may release early

Mode == {"read", "write"}

ASSUME OperationsAssumption ==
  /\ IsFiniteSet(Op) /\ Halves \subseteq Resource /\ Umbrella \notin Resource
  /\ \A o \in Op :
       /\ Access(o) \subseteq SUBSET ((Resource \cup {Umbrella}) \X Mode)
       /\ Session(o) \in BOOLEAN
       /\ Droppable(o) \subseteq SUBSET Resource

VARIABLES
  ops,                \* the operations in their caller's hands
  blocks,             \* the blocks in force, by the operation that left them
  deletion            \* the deletion handle

vars == <<ops, blocks, deletion>>

\* What a request holds: a mode for each resource it names.
Claims == [Resource -> Mode \cup {"none"}]
Nothing == [r \in Resource |-> "none"]

\* An operation is queued, admitted (its callback a later microtask), running,
\* or settled with its claims not yet given back.
Statuses == {"idle", "queued", "admitted", "running", "settled"}
Idle == [status |-> "idle", claims |-> Nothing, released |-> {}, ahead |-> {}]

\* begun, waiting to drain, woken from it, drained, and running exclusively.
Deletions == {"none", "begun", "draining", "woken", "drained", "exclusive"}

\* ahead: the operations queued before this one. A block keeps its claims.
Operation == [status : Statuses, claims : Claims,
              released : SUBSET Resource, ahead : SUBSET Op]

TypeOK ==
  /\ ops \in [Op -> Operation]
  /\ blocks \in [Op -> Claims]
  /\ deletion \in Deletions

Init ==
  /\ ops = [o \in Op |-> Idle]
  /\ blocks = [o \in Op |-> Nothing]
  /\ deletion = "none"

-----------------------------------------------------------------------------
\* The queue and the owners, in a state s of the operations.
Queued(s) == {o \in Op : s[o].status = "queued"}
Active(s) == {o \in Op : s[o].status \in {"admitted", "running", "settled"}}

Named(name) == IF name = Umbrella THEN Halves ELSE {name}

\* normalizeResources: the umbrella is its halves, and write wins over read.
Normalized(accesses) ==
  [r \in Resource |->
     LET modes == {a[2] : a \in {b \in accesses : r \in Named(b[1])}}
     IN IF "write" \in modes THEN "write" ELSE IF "read" \in modes THEN "read" ELSE "none"]

\* Two accesses to one resource exclude each other.
Excludes(m, n) == m # "none" /\ n # "none" /\ (m = "write" \/ n = "write")

\* conflictingResources and requestsConflict.
ConflictsOn(c, d) == {r \in Resource : Excludes(c[r], d[r])}
Conflict(c, d) == ConflictsOn(c, d) # {}

\* Variant: a block counts only while its author is there.
BlockedWhilePresent(c) == \E b \in Op : ops[b].status # "idle" /\ Conflict(blocks[b], c)

Blocked(c) == \E b \in Op : Conflict(blocks[b], c)

Claimed(c) == {r \in Resource : c[r] # "none"}

\* Variant: one opted-in owner among the blockers is enough.
SomeYield(s, direct, o) ==
  \E d \in direct : Session(d) /\ ~Conflict(s[d].claims, s[o].claims)

\* Variant: compatible work passes ordinary owners too.
CompatibleYield(s, direct, o) == \A d \in direct : ~Conflict(s[d].claims, s[o].claims)

\* Every owner that blocks has opted in and is compatible with the overtaker.
AllYield(s, direct, o) ==
  \A d \in direct : Session(d) /\ ~Conflict(s[d].claims, s[o].claims)

\* canBypassBlockedOperation: o may pass the queued w, given the owners.
CanBypass(s, w, o, owners) ==
  LET direct == {d \in owners : Conflict(s[d].claims, s[w].claims)}
      theirs == UNION {Claimed(s[d].claims)
                         \cup (IF Session(w) THEN s[d].released ELSE {}) : d \in direct}
  IN /\ direct # {}
     /\ ConflictsOn(s[w].claims, s[o].claims) \subseteq theirs
     /\ AllYield(s, direct, o)

\* Variant: what this pass has admitted so far is not looked at.
OldOwners(s, o, ready) == Active(s)

\* The owners when the pass reaches o: those admitted earlier in it included.
OwnersSeen(s, o, ready) == Active(s) \cup (ready \cap s[o].ahead)

MayStart(s, o, ready) ==
  LET owners == OwnersSeen(s, o, ready)
  IN /\ \A a \in owners : ~Conflict(s[a].claims, s[o].claims)
     /\ \A w \in s[o].ahead \ ready :
          Conflict(s[w].claims, s[o].claims) => CanBypass(s, w, o, owners)

\* Variant: the walk ends at the first operation that has to wait.
ReadyInTurn(s) ==
  {ready \in SUBSET Queued(s) :
     \A o \in Queued(s) : o \in ready <=> MayStart(s, o, ready) /\ s[o].ahead \subseteq ready}

\* pump walks the queue in order: what it admits is the one set in which every
\* member, and no other queued operation, may start given those before it.
Ready(s) ==
  {ready \in SUBSET Queued(s) : \A o \in Queued(s) : o \in ready <=> MayStart(s, o, ready)}

Admit(s, ready) ==
  [o \in Op |-> IF o \in ready THEN [s[o] EXCEPT !.status = "admitted", !.ahead = {}]
                ELSE [s[o] EXCEPT !.ahead = @ \ ready]]

\* Operations that leave the queue unadmitted, or their claims for good.
Leave(s, gone) ==
  [o \in Op |-> IF o \in gone THEN Idle ELSE [s[o] EXCEPT !.ahead = @ \ gone]]

\* Variant: a block in force keeps the waiting deletion asleep.
WokenIfSafe(s) ==
  IF deletion = "draining" /\ Active(s) = {} /\ Queued(s) = {} /\ blocks' = [o \in Op |-> Nothing]
  THEN "woken" ELSE deletion

\* resolveDeletionDrainIfIdle.
Woken(s) ==
  IF deletion = "draining" /\ Active(s) = {} /\ Queued(s) = {} THEN "woken" ELSE deletion

Pump(s) ==
  /\ \E ready \in Ready(s) : ops' = Admit(s, ready)
  /\ deletion' = Woken(s)

-----------------------------------------------------------------------------
\* Variant: deletion does not close admission.
AlwaysOpen == TRUE

Open == deletion = "none"

\* run, when it is not refused: refusals leave everything as it is.
Submit(o) == \E accesses \in Access(o) :
  LET c == Normalized(accesses)
  IN /\ ops[o].status = "idle" /\ Open /\ ~Blocked(c)
     /\ UNCHANGED blocks
     /\ Pump([ops EXCEPT ![o] = [status |-> "queued", claims |-> c,
                                 released |-> {}, ahead |-> Queued(ops)]])

\* onAbort of a queued operation; an owner is past cancelling.
Cancel(o) ==
  /\ ops[o].status = "queued"
  /\ UNCHANGED blocks
  /\ Pump(Leave(ops, {o}))

Execute(o) ==
  /\ ops[o].status = "admitted"
  /\ ops' = [ops EXCEPT ![o].status = "running"]
  /\ UNCHANGED <<blocks, deletion>>

\* releaseResources, refused once the callback has settled.
ReleaseResources(o) == \E rs \in Droppable(o) :
  LET held == rs \cap Claimed(ops[o].claims)
  IN /\ ops[o].status = "running" /\ held # {}
     /\ UNCHANGED blocks
     /\ Pump([ops EXCEPT ![o].released = @ \cup held,
                         ![o].claims = [r \in Resource |->
                                          IF r \in held THEN "none" ELSE @[r]]])

\* Variant: what is already queued is left waiting.
NoneRejected(c) == {}

Rejected(c) == {o \in Queued(ops) : Conflict(c, ops[o].claims)}

\* blockConflictingOperations, by an owner whose cleanup failed, for its claims.
BlockConflicting(o) ==
  LET c == ops[o].claims
  IN /\ ops[o].status = "running" /\ blocks[o] = Nothing /\ c # Nothing
     /\ blocks' = [blocks EXCEPT ![o] = c]
     /\ Pump(Leave(ops, Rejected(c)))

\* The function it returned, called when recovery is confirmed.
Unblock(o) ==
  /\ blocks[o] # Nothing
  /\ blocks' = [blocks EXCEPT ![o] = Nothing]
  /\ Pump(ops)

\* The callback settles; its claims go in the finally of a later microtask,
\* whichever way it settled.
Settle(o) ==
  /\ ops[o].status = "running"
  /\ ops' = [ops EXCEPT ![o].status = "settled"]
  /\ UNCHANGED <<blocks, deletion>>

Retire(o) ==
  /\ ops[o].status = "settled"
  /\ UNCHANGED blocks
  /\ Pump(Leave(ops, {o}))

-----------------------------------------------------------------------------
Safe == blocks = [o \in Op |-> Nothing]
Busy == Active(ops) \cup Queued(ops) # {}

BeginAppDeletion ==
  /\ deletion = "none" /\ Safe
  /\ deletion' = "begun"
  /\ UNCHANGED <<ops, blocks>>

\* drain waits only when there is something to wait for.
Drain ==
  /\ deletion = "begun" /\ Safe
  /\ deletion' = IF Busy THEN "draining" ELSE "drained"
  /\ UNCHANGED <<ops, blocks>>

\* Its continuation: a block left meanwhile makes it throw.
DrainReturns ==
  /\ deletion = "woken"
  /\ deletion' = IF Safe THEN "drained" ELSE "begun"
  /\ UNCHANGED <<ops, blocks>>

RunExclusive ==
  /\ deletion = "drained" /\ Safe /\ ~Busy
  /\ deletion' = "exclusive"
  /\ UNCHANGED <<ops, blocks>>

ExclusiveEnds ==
  /\ deletion = "exclusive"
  /\ deletion' = "drained"
  /\ UNCHANGED <<ops, blocks>>

\* release, in the deletion's own finally: never while it awaits.
ReleaseDeletion ==
  /\ deletion \in {"begun", "drained"}
  /\ deletion' = "none"
  /\ UNCHANGED <<ops, blocks>>

Next ==
  \/ \E o \in Op : \/ Submit(o) \/ Cancel(o) \/ Execute(o) \/ ReleaseResources(o)
                   \/ BlockConflicting(o) \/ Unblock(o) \/ Settle(o) \/ Retire(o)
  \/ BeginAppDeletion \/ Drain \/ DrainReturns \/ RunExclusive
  \/ ExclusiveEnds \/ ReleaseDeletion

\* Callbacks settle and the promise chain behind them runs; nobody has to call.
Spec ==
  /\ Init /\ [][Next]_vars
  /\ \A o \in Op : WF_vars(Execute(o)) /\ WF_vars(Settle(o)) /\ WF_vars(Retire(o))
  /\ WF_vars(DrainReturns)

-----------------------------------------------------------------------------
\* Owners of the app's resources never conflict, whatever was released, passed
\* or cancelled in between (pump).
OwnersCompatible ==
  \A a, b \in Active(ops) : a # b => ~Conflict(ops[a].claims, ops[b].claims)

\* Deletion's own work runs with nothing admitted and nothing waiting
\* (beginAppDeletion, drain, runExclusive).
DeletionRunsAlone == deletion \in {"drained", "exclusive"} => ~Busy

\* What failed cleanup left unsafe stays fenced for as long as the block is in
\* force: of the operations that own claims or wait for them, only the block's own
\* author may conflict with it (blockConflictingOperations, run).
UnsafeStaysFenced ==
  \A b, o \in Op : o # b /\ ops[o].status # "idle" => ~Conflict(blocks[b], ops[o].claims)

\* One pass is enough: whatever left, gave back or was admitted, and in whichever
\* order, no waiting operation is left that another pass would start (pump walks
\* the queue once, and an operation it admits late may be a reason for an earlier
\* one to be passed).
NobodyForgotten == \A o \in Queued(ops) : ~MayStart(ops, o, {})

Starts(o) == o \in Active(ops)' \ Active(ops)
Behind(o, w) == w \in Queued(ops) /\ (ops[o].status = "queued" => w \in ops[o].ahead)

\* An operation that starts ahead of one queued earlier, which it conflicts with
\* and which keeps waiting, does so only while a session holds that one up, and
\* never while an ordinary owner does ("normal writer fairness resumes when the
\* owner releases", rules/app-operation-coordination.md).
OvertakesBehindSessions ==
  [][\A o, w \in Op :
       /\ Starts(o) /\ Behind(o, w) /\ w \in Queued(ops)'
       /\ Conflict(ops'[w].claims, ops'[o].claims)
       => LET holding == {d \in Active(ops)' : /\ Conflict(ops'[d].claims, ops'[w].claims)
                                              /\ ~(Starts(d) /\ Behind(d, w))}
          IN holding # {} /\ \A d \in holding : Session(d)]_vars

\* With at most one session among the callers, whatever waits is served, however
\* often the others come back.
QueuedIsServed == \A o \in Op : ops[o].status = "queued" ~> ops[o].status # "queued"

\* A deletion that drains is woken.
DrainEnds == deletion = "draining" ~> deletion # "draining"

\* Admitted, an operation holds its claims until they are given back.
Held == [o \in Op |-> IF o \in Active(ops) THEN ops[o].claims ELSE Nothing]

Locks == INSTANCE AppLocks WITH
  held <- Held, fenced <- blocks, alone <- deletion = "exclusive"

\* The queue, with its overtaking, rejections, blocks and drains, implements the
\* table of locks: claims are granted all at once, to fit, and never grow
\* (run, pump, releaseResources, runExclusive).
ImplementsLocks == Locks!Spec
=============================================================================
