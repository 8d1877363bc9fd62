-------------------------- MODULE RunServiceProofs --------------------------
(***************************************************************************)
(* Theorems about RunService, for every set of runs, projects, keys, calls *)
(* and instances and every lease, batch size and bound.                    *)
(***************************************************************************)
EXTENDS RunService, FiniteSetTheorems, WellFoundedInduction, TLAPS

\* A row nobody has inserted yet has no events, and inserting one starts at 0.
AbsentIsEmpty == \A r \in Run : ~Exists(r) => log[r] = {} /\ row[r].seq = 0

\* The cutoff of a sweep under way lies at least one lease in the past.
CutoffIsOld == \A i \in Instance : sweep[i].todo # {} => sweep[i].cutoff + Lease <= now

IInv == TypeOK /\ OneActiveRun /\ AbsentIsEmpty /\ LogContiguous /\ CutoffIsOld

USE DEF Active, Ended, Reapable, States, Kinds, NoState, Types, Exists

-----------------------------------------------------------------------------
(* Lemmas about the tables *)

\* A step that keeps the log and every existing row's counter, or fills an absent
\* row, keeps what is said about the log.
LEMMA LogKept ==
  ASSUME AbsentIsEmpty, LogContiguous, log' = log,
         \A q \in Run : \/ row'[q].state = row[q].state /\ row'[q].seq = row[q].seq
                        \/ ~Exists(q) /\ row'[q].state = "queued" /\ row'[q].seq = 0
  PROVE  AbsentIsEmpty' /\ LogContiguous'
BY DEF AbsentIsEmpty, LogContiguous

\* A transaction that writes the next counter value and the event at it keeps the
\* log contiguous.
LEMMA RecordKept ==
  ASSUME TypeOK, AbsentIsEmpty, LogContiguous,
         NEW r \in Run, NEW type \in Types, NEW ph \in Phase \cup {NoPhase}, Exists(r),
         Record(r, row[r].seq + 1, type, ph),
         \A q \in Run \ {r} : row'[q] = row[q],
         row'[r].seq = row[r].seq + 1, row'[r].state # "absent"
  PROVE  AbsentIsEmpty' /\ LogContiguous'
<1> DEFINE n == row[r].seq + 1
           new == [seq |-> n, type |-> type, phase |-> ph]
<1>1. /\ row[r].seq \in Nat
      /\ \A q \in Run : \A e \in log[q] : e.seq \in Nat
  BY DEF TypeOK, Row, Event
<1>2. /\ log'[r] = log[r] \cup {new}
      /\ \A q \in Run \ {r} : log'[q] = log[q]
  BY DEF TypeOK, Record
<1>3. AbsentIsEmpty'
  BY <1>2 DEF AbsentIsEmpty
<1>4. \A e \in log[r] : e.seq \in 1..row[r].seq
  BY DEF LogContiguous
<1>5. LogContiguous'
  <2> SUFFICES ASSUME NEW q \in Run
               PROVE  /\ \A e \in log'[q] : e.seq \in 1..row'[q].seq
                      /\ \A m \in 1..row'[q].seq : \E e \in log'[q] : e.seq = m
                      /\ \A e, f \in log'[q] : e.seq = f.seq => e = f
    BY DEF LogContiguous
  <2>1. CASE q # r
    BY <2>1, <1>2 DEF LogContiguous
  <2>2. CASE q = r
    <3>1. \A e \in log'[r] : e.seq \in 1..n
      BY <1>1, <1>2, <1>4
    <3>2. ASSUME NEW m \in 1..n PROVE \E e \in log'[r] : e.seq = m
      <4>1. CASE m = n
        <5>1. new \in log'[r] /\ new.seq = m
          BY <4>1, <1>2
        <5> HIDE DEF new
        <5> QED BY <5>1
      <4>2. CASE m # n
        BY <4>2, <1>1, <1>2 DEF LogContiguous
      <4> QED BY <4>1, <4>2
    <3>3. \A e, f \in log'[r] : e.seq = f.seq => e = f
      BY <1>1, <1>2, <1>4 DEF LogContiguous
    <3> QED BY <2>2, <3>1, <3>2, <3>3
  <2> QED BY <2>1, <2>2
<1> QED BY <1>3, <1>5

-----------------------------------------------------------------------------
(* Type correctness *)

\* Moving a request on and answering it keep its type.
LEMMA CallType ==
  ASSUME call \in [Call -> CallRec], NEW c \in Call
  PROVE  /\ \A s \in Steps : Goto(c, s) => call' \in [Call -> CallRec]
         /\ \A r \in Run : AnswerRun(c, r) => call' \in [Call -> CallRec]
<1>1. ASSUME NEW s \in Steps, Goto(c, s) PROVE call' \in [Call -> CallRec]
  BY <1>1 DEF Goto, CallRec
<1>2. ASSUME NEW r \in Run, AnswerRun(c, r) PROVE call' \in [Call -> CallRec]
  <2>1. [call[c] EXCEPT !.step = "answered", !.answer = r] \in CallRec
    BY DEF CallRec, Steps
  <2> QED BY <1>2, <2>1 DEF AnswerRun
<1> QED BY <1>1, <1>2

\* The handlers of requests keep the types.
LEMMA ServeType == ASSUME TypeOK, NEW c \in Call, Serve(c) PROVE TypeOK'
<1> USE DEF TypeOK
<1>1. ASSUME NEW p \in Project, NEW k \in Key \cup {NoKey}, StartCall(c, p, k)
      PROVE TypeOK'
  <2>1. [call[c] EXCEPT !.step = IF k = NoKey THEN "by_active" ELSE "by_key",
                        !.project = p, !.key = k] \in CallRec
    BY DEF CallRec, Steps
  <2> QED BY <1>1, <2>1 DEF StartCall
<1>2. CASE LookupKey(c)
  BY <1>2, CallType DEF LookupKey, KeyedBy, Steps
<1>3. CASE LookupActive(c)
  BY <1>3, CallType DEF LookupActive, ActiveOf, Steps
<1>4. CASE CreateRefused(c)
  <2>1. /\ "again_by_active" \in Steps /\ "again_by_key" \in Steps
        /\ \E s \in Steps : Goto(c, s)
    BY <1>4 DEF CreateRefused, Steps
  <2> QED BY <1>4, <2>1, CallType DEF CreateRefused
<1>5. CASE ContinueRefused(c)
  BY <1>5, CallType DEF ContinueRefused, Steps
<1>6. ASSUME NEW r \in Run, Create(c, r) PROVE TypeOK'
  <2>1. row' \in [Run -> Row]
    BY <1>6 DEF Create, Insert, Row, CallRec
  <2> QED BY <1>6, <2>1, CallType DEF Create
<1>7. ASSUME NEW r \in Run, ContinueCall(c, r) PROVE TypeOK'
  <2>1. row[r].project \in Project \cup {NoProject}
    BY DEF Row
  <2>2. [call[c] EXCEPT !.step = "insert", !.resumes = r,
                        !.project = row[r].project] \in CallRec
    <3>1. call[c] \in CallRec /\ "insert" \in Steps
      BY DEF Steps
    <3> HIDE DEF TypeOK
    <3> QED BY <2>1, <3>1 DEF CallRec
  <2>3. ASSUME NEW q \in ChildrenOf(r)
        PROVE  [call[c] EXCEPT !.step = "answered", !.resumes = r,
                               !.project = row[r].project, !.answer = q] \in CallRec
    <3>1. q \in Run /\ call[c] \in CallRec /\ "answered" \in Steps
      BY DEF ChildrenOf, Steps
    <3> HIDE DEF TypeOK
    <3> QED BY <2>1, <3>1 DEF CallRec
  <2> QED BY <1>7, <2>2, <2>3 DEF ContinueCall
<1>8. ASSUME NEW r \in Run, ContinueInsert(c, r) PROVE TypeOK'
  <2>1. row' \in [Run -> Row]
    BY <1>8 DEF ContinueInsert, Insert, Row, CallRec
  <2> QED BY <1>8, <2>1, CallType DEF ContinueInsert
<1> QED BY <1>1, <1>2, <1>3, <1>4, <1>5, <1>6, <1>7, <1>8 DEF Serve

\* An event a transaction records is an event.
LEMMA RecordType ==
  ASSUME log \in [Run -> SUBSET Event], NEW r \in Run, NEW n \in Nat, NEW type \in Types,
         NEW ph \in Phase \cup {NoPhase}, Record(r, n, type, ph)
  PROVE  log' \in [Run -> SUBSET Event]
<1>1. [seq |-> n, type |-> type, phase |-> ph] \in Event
  BY DEF Event
<1> QED BY <1>1 DEF Record

\* So do the writes of clients and users.
LEMMA WriteType == ASSUME TypeOK, NEW r \in Run, Write(r) PROVE TypeOK'
<1> USE DEF TypeOK
<1>0. row[r] \in Row /\ row[r].seq + 1 \in Nat
  BY DEF Row
<1>1. CASE Heartbeat(r)
  BY <1>1 DEF Heartbeat, Row
<1>2. ASSUME NEW p \in Phase \cup {NoPhase}, Stop(r, p) PROVE TypeOK'
  <2>1. row' \in [Run -> Row]
    BY <1>0, <1>2 DEF Stop, Row
  <2>2. log' \in [Run -> SUBSET Event]
    BY <1>0, <1>2, RecordType DEF Stop
  <2>3. snaps' \in [Run -> SUBSET Kinds]
    BY <1>2 DEF Stop
  <2> QED BY <1>2, <2>1, <2>2, <2>3 DEF Stop
<1>3. ASSUME NEW post \in Posted, Append(r, post) PROVE TypeOK'
  <2>0. /\ post.type \in Types /\ post.state \in States \cup {NoState}
        /\ post.phase \in Phase
    BY DEF Posted, Post
  <2>1. PICK p \in PhasesAfter(r, post) :
          /\ row' = [row EXCEPT ![r].seq = row[r].seq + 1, ![r].beat = BeatAfter(r, post),
                                ![r].state = StateAfter(r, post), ![r].phase = p]
          /\ had' = [had EXCEPT ![r] = @ \cup {p}]
    BY <1>3 DEF Append
  <2>5. p \in Phase \cup {NoPhase}
    BY <1>0, <2>0, <2>1 DEF PhasesAfter, Row
  <2>4. row' \in [Run -> Row] /\ had' \in [Run -> SUBSET (Phase \cup {NoPhase})]
    BY <1>0, <2>0, <2>1, <2>5 DEF StateAfter, BeatAfter, Row
  <2>2. log' \in [Run -> SUBSET Event]
    BY <1>0, <1>3, <2>0, RecordType DEF Append
  <2>3. snaps' \in [Run -> SUBSET Kinds]
    BY <1>3 DEF Append
  <2> QED BY <1>3, <2>4, <2>2, <2>3 DEF Append
<1> QED BY <1>1, <1>2, <1>3 DEF Write

\* And the reapers.
LEMMA ReapType == ASSUME TypeOK, NEW i \in Instance, Reap(i) PROVE TypeOK'
<1> USE RunAssumption DEF TypeOK, SweepRec
<1>0. Resting \in SweepRec
  BY DEF Resting
<1>1. CASE SweepBegin(i)
  <2>1. PICK S \in SUBSET Stale : sweep' = [sweep EXCEPT ![i] = Listing(S)]
    BY <1>1 DEF SweepBegin
  <2>2. Listing(S) \in SweepRec
    BY DEF Listing, Stale, Row
  <2> QED BY <1>1, <2>1, <2>2 DEF SweepBegin
<1>2. CASE SweepAbort(i)
  BY <1>0, <1>2 DEF SweepAbort
<1>5. ASSUME NEW r \in Run, Dealt(i, r) PROVE sweep' \in [Instance -> SweepRec]
  <2>1. Without(sweep[i], r) \in SweepRec
    BY DEF Without
  <2> QED BY <1>0, <1>5, <2>1 DEF Dealt
<1>3. ASSUME NEW r \in Run, Claim(i, r) PROVE TypeOK'
  <2>0. /\ row[r] \in Row /\ row[r].seq + 1 \in Nat
        /\ sweep[i].seen[r] \in Phase \cup {NoPhase}
    BY DEF Row
  <2>1. row' \in [Run -> Row]
    BY <1>3, <2>0 DEF Claim, Row
  <2>2. log' \in [Run -> SUBSET Event]
    BY <1>3, <2>0, RecordType DEF Claim
  <2>3. snaps' \in [Run -> SUBSET Kinds]
    BY <1>3 DEF Claim
  <2>4. sweep' \in [Instance -> SweepRec]
    BY <1>3, <1>5 DEF Claim
  <2> QED BY <1>3, <2>1, <2>2, <2>3, <2>4 DEF Claim
<1>4. ASSUME NEW r \in Run, ClaimLost(i, r) PROVE TypeOK'
  BY <1>4, <1>5 DEF ClaimLost
<1> QED BY <1>1, <1>2, <1>3, <1>4 DEF Reap

\* Every step keeps the types.
LEMMA TypeStep == TypeOK /\ [Next]_vars => TypeOK'
<1> SUFFICES ASSUME TypeOK, [Next]_vars PROVE TypeOK'
  OBVIOUS
<1>1. CASE Tick
  BY <1>1 DEF Tick, TypeOK
<1>2. CASE UNCHANGED vars
  BY <1>2 DEF vars, TypeOK
<1> QED BY <1>1, <1>2, ServeType, WriteType, ReapType DEF Next

\* They hold at the start.
LEMMA InitType == Init => TypeOK
BY DEF Init, TypeOK, Row, CallRec, Steps, SweepRec, Resting

(***************************************************************************)
(* Every reachable row, event, request and sweep has the type the schema   *)
(* and the handlers give it.                                               *)
(***************************************************************************)
THEOREM TypeCorrect == Spec => []TypeOK
BY InitType, TypeStep, PTL DEF Spec

-----------------------------------------------------------------------------
(* The invariant is inductive *)

\* So does the invariant.
LEMMA InitInv == Init => IInv
<1>1. Init => TypeOK
  BY InitType
<1>2. Init => OneActiveRun
  BY DEF Init, OneActiveRun, ActiveOf
<1>3. Init => AbsentIsEmpty /\ LogContiguous
  BY DEF Init, AbsentIsEmpty, LogContiguous
<1>4. Init => CutoffIsOld
  BY DEF Init, CutoffIsOld, Resting
<1> QED BY <1>1, <1>2, <1>3, <1>4 DEF IInv

\* A row is only ever given an active state where the partial index allows it.
LEMMA ActiveGuarded ==
  ASSUME TypeOK, OneActiveRun, NEW r \in Run, NEW p \in Project \cup {NoProject},
         \A q \in Run \ {r} : row'[q].state = row[q].state /\ row'[q].project = row[q].project,
         row'[r].project = p, IndexAllows(r, p, row'[r].state)
  PROVE  OneActiveRun'
BY DEF OneActiveRun, ActiveOf, IndexAllows, TypeOK

\* Every step keeps one active run per project.
LEMMA ActiveStep == TypeOK /\ OneActiveRun /\ [Next]_vars => OneActiveRun'
<1> SUFFICES ASSUME TypeOK, OneActiveRun, [Next]_vars PROVE OneActiveRun'
  OBVIOUS
<1>1. ASSUME row' = row PROVE OneActiveRun'
  BY <1>1 DEF OneActiveRun, ActiveOf
<1>2. ASSUME NEW c \in Call, NEW r \in Run, Create(c, r) \/ ContinueInsert(c, r)
      PROVE OneActiveRun'
  BY <1>2, ActiveGuarded DEF Create, ContinueInsert, CanInsert, Insert, TypeOK, CallRec
<1>3. ASSUME NEW r \in Run, Heartbeat(r) PROVE OneActiveRun'
  BY <1>3 DEF Heartbeat, OneActiveRun, ActiveOf, TypeOK
<1>4. ASSUME NEW r \in Run, NEW p \in Phase \cup {NoPhase}, Stop(r, p) PROVE OneActiveRun'
  BY <1>4 DEF Stop, OneActiveRun, ActiveOf, TypeOK
<1>5. ASSUME NEW r \in Run, NEW post \in Posted, Append(r, post) PROVE OneActiveRun'
  BY <1>5, ActiveGuarded DEF Append, StateAfter, TypeOK, Row
<1>6. ASSUME NEW i \in Instance, NEW r \in Run, Claim(i, r) PROVE OneActiveRun'
  BY <1>6 DEF Claim, OneActiveRun, ActiveOf, TypeOK
<1> QED
  BY <1>1, <1>2, <1>3, <1>4, <1>5, <1>6
     DEF Next, Serve, Write, Reap, Tick, vars, StartCall, LookupKey, LookupActive,
         CreateRefused, ContinueRefused, ContinueCall, SweepBegin, SweepAbort, ClaimLost

\* Every step keeps the logs contiguous.
LEMMA LogStep ==
  ASSUME TypeOK, AbsentIsEmpty, LogContiguous, [Next]_vars
  PROVE  AbsentIsEmpty' /\ LogContiguous'
<1> DEFINE LogInv == AbsentIsEmpty /\ LogContiguous
<1>0. row \in [Run -> Row] /\ \A r \in Run : row[r].state \in States \cup {"absent"}
  BY DEF TypeOK, Row
<1>1. ASSUME row' = row, log' = log PROVE LogInv'
  BY <1>1, LogKept
<1>2. ASSUME NEW c \in Call, NEW r \in Run, Create(c, r) \/ ContinueInsert(c, r)
      PROVE LogInv'
  BY <1>0, <1>2, LogKept DEF Create, ContinueInsert, CanInsert, Insert
<1>3. ASSUME NEW r \in Run, Heartbeat(r) PROVE LogInv'
  BY <1>0, <1>3, LogKept DEF Heartbeat
<1>4. ASSUME NEW r \in Run, NEW p \in Phase \cup {NoPhase}, Stop(r, p) PROVE LogInv'
  <2>1. row'[r].state = "stopped" /\ row'[r].seq = row[r].seq + 1
    BY <1>0, <1>4 DEF Stop, Row
  <2>2. \A q \in Run \ {r} : row'[q] = row[q]
    BY <1>0, <1>4 DEF Stop
  <2> QED BY <1>4, <2>1, <2>2, RecordKept DEF Stop
<1>5. ASSUME NEW r \in Run, NEW post \in Posted, Append(r, post) PROVE LogInv'
  <2>1. /\ post.type \in Types /\ post.state \in States \cup {NoState}
        /\ post.state # "absent" /\ post.phase \in Phase \cup {NoPhase}
    BY DEF Posted, Post
  <2>2. row'[r].seq = row[r].seq + 1 /\ row'[r].state = StateAfter(r, post)
    BY <1>0, <1>5 DEF Append, Row
  <2>3. \A q \in Run \ {r} : row'[q] = row[q]
    BY <1>0, <1>5 DEF Append
  <2>4. /\ Exists(r) /\ Record(r, row[r].seq + 1, post.type, post.phase)
        /\ StateAfter(r, post) # "absent"
    BY <1>5, <2>1 DEF Append, StateAfter
  <2> QED BY <2>1, <2>2, <2>3, <2>4, RecordKept
<1>6. ASSUME NEW i \in Instance, NEW r \in Run, Claim(i, r) PROVE LogInv'
  <2>1. row'[r].state = "interrupted" /\ row'[r].seq = row[r].seq + 1
    BY <1>0, <1>6 DEF Claim, Row
  <2>2. \A q \in Run \ {r} : row'[q] = row[q]
    BY <1>0, <1>6 DEF Claim
  <2>3. Exists(r) /\ sweep[i].seen[r] \in Phase \cup {NoPhase}
    BY <1>6 DEF Claim, Claimable, StaleAt, TypeOK, SweepRec
  <2> QED BY <1>6, <2>1, <2>2, <2>3, RecordKept DEF Claim
<1> QED
  BY <1>1, <1>2, <1>3, <1>4, <1>5, <1>6
     DEF Next, Serve, Write, Reap, Tick, vars, StartCall, LookupKey, LookupActive,
         CreateRefused, ContinueRefused, ContinueCall, SweepBegin, SweepAbort, ClaimLost

\* Every step keeps the cutoffs in the past.
LEMMA CutoffStep == TypeOK /\ CutoffIsOld /\ [Next]_vars => CutoffIsOld'
<1> SUFFICES ASSUME TypeOK, CutoffIsOld, [Next]_vars PROVE CutoffIsOld'
  OBVIOUS
<1> USE RunAssumption DEF TypeOK, SweepRec, CutoffIsOld
<1>1. ASSUME sweep' = sweep, now' = now PROVE CutoffIsOld'
  BY <1>1
<1>2. CASE Tick
  BY <1>2 DEF Tick
<1>3. ASSUME NEW i \in Instance, Reap(i) PROVE CutoffIsOld'
  <2>0. now' = now
    BY <1>3 DEF Reap, SweepBegin, SweepAbort, Claim, ClaimLost
  <2> SUFFICES ASSUME NEW j \in Instance, sweep'[j].todo # {}
               PROVE  sweep'[j].cutoff + Lease <= now
    BY <2>0
  <2>1. now \in Nat /\ Lease \in Nat /\ now - Lease + Lease <= now
    OBVIOUS
  <2>2. CASE SweepBegin(i)
    <3>1. PICK S \in SUBSET Stale : sweep' = [sweep EXCEPT ![i] = Listing(S)]
      BY <2>2 DEF SweepBegin
    <3>2. CASE j = i
      BY <2>1, <3>1, <3>2 DEF Listing
    <3>3. CASE j # i
      BY <3>1, <3>3
    <3> QED BY <3>2, <3>3
  <2>3. ASSUME j # i => sweep'[j] = sweep[j],
               j = i => /\ sweep[i].todo # {} /\ sweep'[i].cutoff = sweep[i].cutoff
        PROVE  sweep'[j].cutoff + Lease <= now
    BY <2>3
  <2>4. CASE SweepAbort(i)
    BY <2>3, <2>4 DEF SweepAbort, Resting
  <2>5. ASSUME NEW r \in Run, Claim(i, r) \/ ClaimLost(i, r)
        PROVE  sweep'[j].cutoff + Lease <= now
    <3>1. Dealt(i, r) /\ r \in sweep[i].todo
      BY <2>5 DEF Claim, ClaimLost
    <3>2. CASE sweep[i].todo = {r}
      BY <2>3, <3>1, <3>2 DEF Dealt, Resting
    <3>3. CASE sweep[i].todo # {r}
      BY <2>3, <3>1, <3>3 DEF Dealt, Without
    <3> QED BY <3>2, <3>3
  <2> QED BY <1>3, <2>2, <2>4, <2>5 DEF Reap
<1> QED
  BY <1>1, <1>2, <1>3
     DEF Next, Serve, Write, vars, StartCall, LookupKey, LookupActive, CreateRefused,
         ContinueRefused, ContinueCall, Create, ContinueInsert, Heartbeat, Stop, Append

\* Every step keeps the invariant.
LEMMA InvStep == IInv /\ [Next]_vars => IInv'
BY TypeStep, ActiveStep, LogStep, CutoffStep DEF IInv

\* It holds in every reachable state.
LEMMA Invariant == Spec => []IInv
BY InitInv, InvStep, PTL DEF Spec

(***************************************************************************)
(* No interleaving of starts, continuations and postings ever gives a      *)
(* project two active runs.                                                *)
(***************************************************************************)
THEOREM OneActiveRunHolds == Spec => []OneActiveRun
BY Invariant, PTL DEF IInv

(***************************************************************************)
(* The event log of every run is gap-free and free of duplicates.          *)
(***************************************************************************)
THEOREM LogContiguousHolds == Spec => []LogContiguous
BY Invariant, PTL DEF IInv

(***************************************************************************)
(* No instance ever interrupts a run whose lease has not expired.          *)
(***************************************************************************)
THEOREM ReapsOnlyExpiredHolds == Spec => ReapsOnlyExpired
<1> DEFINE A == \A r \in Run : row'[r].state = "interrupted" /\ row'[r].seq # row[r].seq
                  /\ row[r].state # "interrupted"
                => /\ row[r].state \in Reapable /\ row[r].beat + Lease < now
                   /\ "interrupted" \in snaps'[r]
<1>1. IInv /\ [Next]_vars => [A]_vars
  <2> SUFFICES ASSUME IInv, Next, NEW q \in Run, row'[q].state = "interrupted",
                      row[q].state # "interrupted"
               PROVE  /\ row[q].state \in Reapable /\ row[q].beat + Lease < now
                      /\ "interrupted" \in snaps'[q]
    OBVIOUS
  <2> USE DEF IInv, TypeOK
  <2>1. \E i \in Instance : Claim(i, q)
    <3>1. ASSUME NEW c \in Call, NEW r \in Run, Create(c, r) \/ ContinueInsert(c, r)
          PROVE FALSE
      BY <3>1 DEF Create, ContinueInsert, Insert
    <3>2. ASSUME NEW r \in Run, NEW p \in Phase \cup {NoPhase}, Heartbeat(r) \/ Stop(r, p)
          PROVE FALSE
      <4>1. ASSUME Heartbeat(r) PROVE row'[q].state = row[q].state
        BY <4>1 DEF Heartbeat
      <4>2. ASSUME Stop(r, p) PROVE row'[q].state \in {row[q].state, "stopped"}
        BY <4>2 DEF Stop
      <4> QED BY <3>2, <4>1, <4>2
    <3>3. ASSUME NEW r \in Run, NEW post \in Posted, Append(r, post) PROVE FALSE
      BY <3>3 DEF Append, StateAfter, Posted, Post
    <3>4. ASSUME NEW i \in Instance, NEW r \in Run, Claim(i, r) PROVE r = q
      BY <3>4 DEF Claim
    <3>5. row' # row
      OBVIOUS
    <3> QED
      BY <3>1, <3>2, <3>3, <3>4, <3>5
         DEF Next, Serve, Write, Reap, Tick, StartCall, LookupKey, LookupActive,
             CreateRefused, ContinueRefused, ContinueCall, SweepBegin, SweepAbort, ClaimLost
  <2>2. PICK i \in Instance : Claim(i, q)
    BY <2>1
  <2>3. row[q].beat \in Nat /\ sweep[i].cutoff \in Int /\ now \in Nat /\ Lease \in Nat
    BY RunAssumption DEF Row, SweepRec
  <2>4. sweep[i].cutoff + Lease <= now
    BY <2>2 DEF Claim, CutoffIsOld
  <2> QED BY <2>2, <2>3, <2>4 DEF Claim, Claimable, StaleAt
<1> QED BY <1>1, Invariant, PTL DEF Spec, ReapsOnlyExpired

-----------------------------------------------------------------------------
(***************************************************************************)
(* A lost lease is reported once.                                          *)
(***************************************************************************)

\* A run that was interrupted and has a lease again was made active again since.
Resumed(r, e) == \E g \in log[r] : e.seq < g.seq /\ g.type \in Resumptions

ResumedSince == \A r \in Run : \A e \in log[r] :
  e.type = "run.interrupted" /\ row[r].state \in Reapable => Resumed(r, e)

\* What a transaction adds to one log keeps interruptions apart, if it is none or
\* comes when every earlier one is over.
LEMMA InterruptedKept ==
  ASSUME TypeOK, LogContiguous, InterruptedOnce,
         NEW r \in Run, NEW type \in Types, NEW ph \in Phase \cup {NoPhase},
         Record(r, row[r].seq + 1, type, ph),
         type = "run.interrupted" =>
           \A e \in log[r] : e.type = "run.interrupted" => Resumed(r, e)
  PROVE  InterruptedOnce'
<1> DEFINE n == row[r].seq + 1
<1> PICK new : new = [seq |-> n, type |-> type, phase |-> ph]
  OBVIOUS
<1>1. /\ log'[r] = log[r] \cup {new} /\ \A q \in Run \ {r} : log'[q] = log[q]
  BY DEF TypeOK, Record
<1>2. new.seq = n /\ new.type = type
  OBVIOUS
<1>3. row[r].seq \in Nat /\ \A e \in log[r] : e.seq \in 1..row[r].seq
  BY DEF TypeOK, Row, LogContiguous
<1> SUFFICES ASSUME NEW q \in Run, NEW e \in log'[q], NEW f \in log'[q],
                    e.type = "run.interrupted", f.type = "run.interrupted", e.seq < f.seq
             PROVE  \E g \in log'[q] : e.seq < g.seq /\ g.seq < f.seq /\ g.type \in Resumptions
  BY DEF InterruptedOnce
<1>4. CASE e \in log[q] /\ f \in log[q]
  BY <1>1, <1>4 DEF InterruptedOnce
<1>5. CASE q = r /\ e \in log[r] /\ f = new
  <2>1. PICK g \in log[r] : e.seq < g.seq /\ g.type \in Resumptions
    BY <1>2, <1>5 DEF Resumed
  <2>2. g.seq < f.seq
    BY <1>2, <1>3, <1>5
  <2> QED BY <1>1, <1>5, <2>1, <2>2
<1>6. e # new \/ q # r
  BY <1>1, <1>2, <1>3
<1> QED BY <1>1, <1>4, <1>5, <1>6

\* Every step keeps a run active between two interruptions.
LEMMA InterruptedStep ==
  ASSUME IInv, ResumedSince, InterruptedOnce, [Next]_vars
  PROVE  ResumedSince' /\ InterruptedOnce'
<1>0. /\ row \in [Run -> Row] /\ log \in [Run -> SUBSET Event]
      /\ TypeOK /\ LogContiguous /\ AbsentIsEmpty
  BY DEF IInv, TypeOK
<1>1. ASSUME log' = log, \A q \in Run : row'[q].state = row[q].state \/ ~Exists(q)
      PROVE  ResumedSince' /\ InterruptedOnce'
  BY <1>0, <1>1 DEF ResumedSince, InterruptedOnce, Resumed, AbsentIsEmpty
<1>2. ASSUME NEW r \in Run, NEW type \in Types, NEW ph \in Phase \cup {NoPhase},
             Record(r, row[r].seq + 1, type, ph),
             \A q \in Run \ {r} : row'[q] = row[q],
             row'[r].state \in Reapable =>
               type # "run.interrupted" /\ (row'[r].state = row[r].state \/ type \in Resumptions)
      PROVE  ResumedSince'
  <2> SUFFICES ASSUME NEW q \in Run, NEW e \in log'[q], e.type = "run.interrupted",
                      row'[q].state \in Reapable
               PROVE  \E g \in log'[q] : e.seq < g.seq /\ g.type \in Resumptions
    BY DEF ResumedSince, Resumed
  <2> PICK new : new = [seq |-> row[r].seq + 1, type |-> type, phase |-> ph]
    OBVIOUS
  <2>1. log'[r] = log[r] \cup {new} /\ \A s \in Run \ {r} : log'[s] = log[s]
    BY <1>0, <1>2 DEF Record
  <2>2. new.seq = row[r].seq + 1 /\ new.type = type
    OBVIOUS
  <2>3. CASE q # r
    BY <1>2, <2>1, <2>3 DEF ResumedSince, Resumed
  <2>4. CASE q = r /\ row'[r].state = row[r].state
    BY <1>2, <2>1, <2>2, <2>4 DEF ResumedSince, Resumed
  <2>5. CASE q = r /\ type \in Resumptions
    <3>1. e \in log[r] /\ row[r].seq \in Nat /\ e.seq \in 1..row[r].seq
      BY <1>0, <1>2, <2>1, <2>2, <2>5 DEF LogContiguous, Row
    <3> QED BY <2>1, <2>2, <2>5, <3>1
  <2> QED BY <1>2, <2>3, <2>4, <2>5
<1>3. ASSUME NEW r \in Run, NEW p \in Phase \cup {NoPhase}, Stop(r, p)
      PROVE  ResumedSince' /\ InterruptedOnce'
  <2>1. \A q \in Run \ {r} : row'[q] = row[q]
    BY <1>0, <1>3 DEF Stop
  <2>2. row'[r].state = "stopped" /\ Record(r, row[r].seq + 1, "run.stopped", p)
    BY <1>0, <1>3 DEF Stop, Row
  <2> QED BY <1>0, <1>2, <2>1, <2>2, InterruptedKept
<1>4. ASSUME NEW r \in Run, NEW post \in Posted, Append(r, post)
      PROVE  ResumedSince' /\ InterruptedOnce'
  <2>1. /\ post.type \in Types \ {"run.interrupted"} /\ post.phase \in Phase \cup {NoPhase}
        /\ post.state \in Reapable => post.type \in Resumptions
    BY DEF Posted, Post, Resumptions
  <2>2. \A q \in Run \ {r} : row'[q] = row[q]
    BY <1>0, <1>4 DEF Append
  <2>3. /\ Record(r, row[r].seq + 1, post.type, post.phase)
        /\ row'[r].state = row[r].state \/ row'[r].state = post.state
    BY <1>0, <1>4 DEF Append, StateAfter, Row
  <2> QED BY <1>0, <1>2, <2>1, <2>2, <2>3, InterruptedKept
<1>5. ASSUME NEW i \in Instance, NEW r \in Run, Claim(i, r)
      PROVE  ResumedSince' /\ InterruptedOnce'
  <2>1. \A q \in Run \ {r} : row'[q] = row[q]
    BY <1>0, <1>5 DEF Claim
  <2>2. /\ row'[r].state = "interrupted" /\ row[r].state \in Reapable
        /\ Record(r, row[r].seq + 1, "run.interrupted", sweep[i].seen[r])
        /\ sweep[i].seen[r] \in Phase \cup {NoPhase}
    BY <1>0, <1>5 DEF Claim, Claimable, StaleAt, Row, TypeOK, SweepRec
  <2> QED BY <1>0, <1>2, <2>1, <2>2, InterruptedKept DEF ResumedSince
<1>6. ASSUME NEW c \in Call, NEW r \in Run, Create(c, r) \/ ContinueInsert(c, r)
      PROVE  ResumedSince' /\ InterruptedOnce'
  BY <1>0, <1>1, <1>6 DEF Create, ContinueInsert, CanInsert, Insert
<1>7. ASSUME NEW r \in Run, Heartbeat(r) PROVE ResumedSince' /\ InterruptedOnce'
  BY <1>0, <1>1, <1>7 DEF Heartbeat
<1> QED
  BY <1>1, <1>3, <1>4, <1>5, <1>6, <1>7
     DEF Next, Serve, Write, Reap, Tick, vars, StartCall, LookupKey, LookupActive,
         CreateRefused, ContinueRefused, ContinueCall, SweepBegin, SweepAbort, ClaimLost

(***************************************************************************)
(* Between two interruptions of a run it was active again, however many    *)
(* instances sweep at a time (reaper).                                     *)
(***************************************************************************)
THEOREM InterruptedOnceHolds == Spec => []InterruptedOnce
<1>1. Init => ResumedSince /\ InterruptedOnce
  BY DEF Init, ResumedSince, InterruptedOnce
<1>2. /\ IInv /\ ResumedSince /\ InterruptedOnce /\ [Next]_vars
      => ResumedSince' /\ InterruptedOnce'
  BY InterruptedStep
<1> QED
  BY <1>1, <1>2, Invariant, PTL DEF Spec

-----------------------------------------------------------------------------
(***************************************************************************)
(* The phase of an interruption is the phase of the run.                   *)
(***************************************************************************)

\* A listed run that can still be claimed is in the phase the sweep has seen.
SeenIsCurrent == \A i \in Instance : \A r \in sweep[i].todo :
  StaleAt(r, sweep[i].cutoff) => sweep[i].seen[r] = row[r].phase

\* No write to a run leaves it claimable and gives it another phase.
LEMMA SeenStep ==
  ASSUME IInv, SeenIsCurrent, [Next]_vars
  PROVE  SeenIsCurrent'
<1>0. /\ row \in [Run -> Row] /\ now \in Nat /\ Lease \in Nat
      /\ \A i \in Instance : \A q \in sweep[i].todo : q \in Run /\ ~(now < sweep[i].cutoff)
  <2>1. now \in Nat /\ Lease \in Nat /\ row \in [Run -> Row]
    BY RunAssumption DEF IInv, TypeOK
  <2>2. \A i \in Instance : /\ sweep[i].cutoff \in Int /\ sweep[i].todo \subseteq Run
                            /\ sweep[i].todo # {} => sweep[i].cutoff + Lease <= now
    BY DEF IInv, TypeOK, SweepRec, CutoffIsOld
  <2>3. ASSUME NEW i \in Instance, NEW q \in sweep[i].todo
        PROVE  q \in Run /\ ~(now < sweep[i].cutoff)
    <3>1. sweep[i].cutoff \in Int /\ sweep[i].todo \subseteq Run /\ sweep[i].cutoff + Lease <= now
      BY <2>2, <2>3
    <3> QED BY <2>1, <2>3, <3>1
  <2> QED BY <2>1, <2>3
<1>1. ASSUME sweep' = sweep,
             \A q \in Run : \/ row'[q] = row[q] \/ row'[q].beat = now
                            \/ row'[q].state \notin Reapable
      PROVE  SeenIsCurrent'
  <2> SUFFICES ASSUME NEW j \in Instance, NEW q \in sweep[j].todo,
                      row'[q].state \in Reapable, row'[q].beat < sweep[j].cutoff
               PROVE  sweep[j].seen[q] = row'[q].phase
    BY <1>1 DEF SeenIsCurrent, StaleAt
  <2>0. q \in Run /\ ~(now < sweep[j].cutoff)
    BY <1>0
  <2>1. row'[q] = row[q]
    BY <1>1, <2>0
  <2> QED BY <2>1 DEF SeenIsCurrent, StaleAt
<1>2. ASSUME NEW i \in Instance, NEW r \in Run, Dealt(i, r),
             \A q \in Run : row'[q] = row[q] \/ row'[q].state \notin Reapable
      PROVE  SeenIsCurrent'
  <2> SUFFICES ASSUME NEW j \in Instance, NEW q \in sweep'[j].todo,
                      row'[q].state \in Reapable, row'[q].beat < sweep'[j].cutoff
               PROVE  sweep'[j].seen[q] = row'[q].phase
    BY DEF SeenIsCurrent, StaleAt
  <2>1. /\ q \in sweep[j].todo /\ sweep'[j].cutoff = sweep[j].cutoff
        /\ sweep'[j].seen[q] = sweep[j].seen[q]
    <3>1. CASE j # i
      BY <1>2, <3>1 DEF Dealt
    <3>2. CASE j = i /\ sweep[i].todo = {r}
      BY <1>2, <3>2 DEF Dealt, Resting, IInv, TypeOK
    <3>3. CASE j = i /\ sweep[i].todo # {r}
      <4>1. sweep'[i] = Without(sweep[i], r)
        BY <1>2, <3>3 DEF Dealt, IInv, TypeOK
      <4>2. sweep[i] \in SweepRec
        BY DEF IInv, TypeOK
      <4>3. /\ sweep'[i].todo = sweep[i].todo \ {r} /\ sweep'[i].cutoff = sweep[i].cutoff
            /\ sweep'[i].seen = [sweep[i].seen EXCEPT ![r] = NoPhase]
        BY <4>1, <4>2 DEF SweepRec, Without
      <4> QED BY <3>3, <4>2, <4>3 DEF SweepRec
    <3> QED BY <3>1, <3>2, <3>3
  <2>2. q \in Run
    BY <1>0, <2>1
  <2>3. row'[q] = row[q]
    BY <1>2, <2>2
  <2> QED BY <2>1, <2>2, <2>3 DEF SeenIsCurrent, StaleAt
<1>3. ASSUME NEW i \in Instance, SweepBegin(i) PROVE SeenIsCurrent'
  <2>1. PICK S \in SUBSET Stale : sweep' = [sweep EXCEPT ![i] = Listing(S)]
    BY <1>3 DEF SweepBegin
  <2>2. sweep'[i] = Listing(S) /\ \A j \in Instance \ {i} : sweep'[j] = sweep[j]
    BY <2>1 DEF IInv, TypeOK
  <2>3. \A q \in Listing(S).todo : Listing(S).seen[q] = row[q].phase
    BY DEF Listing, Stale
  <2> QED BY <1>3, <2>2, <2>3 DEF SeenIsCurrent, StaleAt, SweepBegin
<1>4. ASSUME NEW i \in Instance, SweepAbort(i) PROVE SeenIsCurrent'
  <2>1. sweep'[i].todo = {} /\ \A j \in Instance \ {i} : sweep'[j] = sweep[j]
    BY <1>4 DEF SweepAbort, Resting, IInv, TypeOK
  <2> QED BY <1>4, <2>1 DEF SeenIsCurrent, StaleAt, SweepAbort
<1>5. ASSUME NEW i \in Instance, NEW r \in Run, Claim(i, r) \/ ClaimLost(i, r)
      PROVE  SeenIsCurrent'
  <2>1. Dealt(i, r)
    BY <1>5 DEF Claim, ClaimLost
  <2>2. \A q \in Run : row'[q] = row[q] \/ row'[q].state = "interrupted"
    BY <1>0, <1>5 DEF Claim, ClaimLost, Row
  <2> QED BY <1>2, <2>1, <2>2
<1>6. ASSUME NEW c \in Call, NEW r \in Run, Create(c, r) \/ ContinueInsert(c, r)
      PROVE  SeenIsCurrent'
  <2>1. sweep' = sweep /\ \A q \in Run : row'[q] = row[q] \/ row'[q].beat = now
    BY <1>0, <1>6 DEF Create, ContinueInsert, Insert
  <2> QED BY <1>1, <2>1
<1>7. ASSUME NEW r \in Run, Heartbeat(r) PROVE SeenIsCurrent'
  <2>1. sweep' = sweep /\ \A q \in Run : row'[q] = row[q] \/ row'[q].beat = now
    BY <1>0, <1>7 DEF Heartbeat, Row
  <2> QED BY <1>1, <2>1
<1>8. ASSUME NEW r \in Run, NEW post \in Posted, Append(r, post) PROVE SeenIsCurrent'
  <2>1. sweep' = sweep /\ \A q \in Run : row'[q] = row[q] \/ row'[q].beat = now
    BY <1>0, <1>8 DEF Append, BeatAfter, Row
  <2> QED BY <1>1, <2>1
<1>9. ASSUME NEW r \in Run, NEW p \in Phase \cup {NoPhase}, Stop(r, p) PROVE SeenIsCurrent'
  <2>1. sweep' = sweep /\ \A q \in Run : row'[q] = row[q] \/ row'[q].state = "stopped"
    BY <1>0, <1>9 DEF Stop, Row
  <2> QED BY <1>1, <2>1
<1>10. ASSUME sweep' = sweep, row' = row PROVE SeenIsCurrent'
  BY <1>1, <1>10
<1> QED
  BY <1>3, <1>4, <1>5, <1>6, <1>7, <1>8, <1>9, <1>10
     DEF Next, Serve, Write, Reap, Tick, vars, StartCall, LookupKey, LookupActive,
         CreateRefused, ContinueRefused, ContinueCall

(***************************************************************************)
(* A run is interrupted under the phase it is in, however long ago and by  *)
(* how many instances it was listed (reaper).                              *)
(***************************************************************************)
THEOREM InterruptedInPhaseHolds == Spec => InterruptedInPhase
<1> DEFINE A == \A r \in Run : \A e \in log'[r] \ log[r] :
                  e.type = "run.interrupted" => e.phase = row[r].phase
<1>1. Init => SeenIsCurrent
  BY DEF Init, SeenIsCurrent, Resting
<1>2. IInv /\ SeenIsCurrent /\ [Next]_vars => SeenIsCurrent'
  BY SeenStep
<1>3. IInv /\ SeenIsCurrent /\ [Next]_vars => [A]_vars
  <2> SUFFICES ASSUME IInv, SeenIsCurrent, Next, NEW q \in Run, NEW e \in log'[q] \ log[q],
                      e.type = "run.interrupted"
               PROVE  e.phase = row[q].phase
    OBVIOUS
  <2>0. log \in [Run -> SUBSET Event]
    BY DEF IInv, TypeOK
  <2>1. ASSUME NEW r \in Run, NEW n \in Nat, NEW type \in Types, NEW ph \in Phase \cup {NoPhase},
               Record(r, n, type, ph)
        PROVE  q = r /\ type = "run.interrupted" /\ e.phase = ph
    BY <2>0, <2>1 DEF Record
  <2>2. \A r \in Run : row[r].seq + 1 \in Nat
    BY DEF IInv, TypeOK, Row
  <2>3. ASSUME NEW r \in Run, NEW p \in Phase \cup {NoPhase}, Stop(r, p) PROVE FALSE
    BY <2>1, <2>2, <2>3 DEF Stop
  <2>4. ASSUME NEW r \in Run, NEW post \in Posted, Append(r, post) PROVE FALSE
    <3>1. post.type \in Types \ {"run.interrupted"} /\ post.phase \in Phase
      BY DEF Posted, Post
    <3> QED BY <2>1, <2>2, <2>4, <3>1 DEF Append
  <2>5. ASSUME NEW i \in Instance, NEW r \in Run, Claim(i, r) PROVE e.phase = row[q].phase
    <3>1. /\ sweep[i].seen[r] \in Phase \cup {NoPhase}
          /\ sweep[i].seen[r] = row[r].phase
      BY <2>5 DEF Claim, Claimable, SeenIsCurrent, IInv, TypeOK, SweepRec
    <3>2. q = r /\ e.phase = sweep[i].seen[r]
      BY <2>1, <2>2, <2>5, <3>1 DEF Claim
    <3> QED BY <3>1, <3>2
  <2>6. log' # log
    OBVIOUS
  <2> QED
    BY <2>3, <2>4, <2>5, <2>6
       DEF Next, Serve, Write, Reap, Tick, StartCall, LookupKey, LookupActive, Create,
           CreateRefused, ContinueRefused, ContinueCall, ContinueInsert, Heartbeat, SweepBegin,
           SweepAbort, ClaimLost
<1> QED BY <1>1, <1>2, <1>3, Invariant, PTL DEF Spec, InterruptedInPhase

-----------------------------------------------------------------------------
(***************************************************************************)
(* What requests and rows know of the rows they name.                      *)
(***************************************************************************)
AbsentIsBare == \A r \in Run : ~Exists(r) => row[r].key = NoKey /\ row[r].resumes = NoRun

KeysDiffer == \A r, s \in Run : row[r].key # NoKey /\ row[r].key = row[s].key => r = s

\* A continuation belongs to the project of the run it resumes.
ChildShares == \A r, s \in Run :
  row[r].resumes = s => Exists(s) /\ row[r].project = row[s].project

InsertKnows == \A c \in Call : call[c].step = "insert" =>
  \E r \in Run : call[c].resumes = r /\ Exists(r) /\ call[c].project = row[r].project

AnswerKnows == \A c \in Call : call[c].step = "answered" =>
  \E r \in Run : call[c].answer = r /\ Exists(r) /\ call[c].project = row[r].project

RequestInv == AbsentIsBare /\ KeysDiffer /\ ChildShares /\ InsertKnows /\ AnswerKnows

\* A write to rows that exist, which keeps what a row is identified by.
LEMMA RowsStay ==
  ASSUME RequestInv, UNCHANGED call,
         \A r \in Run : /\ row'[r].key = row[r].key /\ row'[r].resumes = row[r].resumes
                        /\ row'[r].project = row[r].project /\ (Exists(r)' <=> Exists(r))
  PROVE  RequestInv'
BY DEF RequestInv, AbsentIsBare, KeysDiffer, ChildShares, InsertKnows, AnswerKnows

\* An insert answers its request with the row it adds.
LEMMA InsertKeeps ==
  ASSUME TypeOK, RequestInv, NEW c \in Call, NEW r \in Run, NEW k \in Key \cup {NoKey},
         NEW from \in Run \cup {NoRun}, CanInsert(r, call[c].project, k),
         Insert(r, call[c].project, k, from), AnswerRun(c, r),
         \A s \in Run : from = s => Exists(s) /\ call[c].project = row[s].project
  PROVE  RequestInv'
<1>1. /\ ~Exists(r) /\ KeyedBy(k) = {}
      /\ \A q \in Run \ {r} : row'[q] = row[q]
      /\ row'[r].key = k /\ row'[r].resumes = from /\ row'[r].project = call[c].project
      /\ row'[r].state = "queued"
  BY DEF CanInsert, Insert, TypeOK
<1>2. /\ call'[c].step = "answered" /\ call'[c].answer = r /\ call'[c].project = call[c].project
      /\ \A d \in Call \ {c} : call'[d] = call[d]
  BY DEF AnswerRun, TypeOK, CallRec
<1>3. AbsentIsBare'
  BY <1>1 DEF RequestInv, AbsentIsBare
<1>4. KeysDiffer'
  BY <1>1 DEF RequestInv, KeysDiffer, KeyedBy
<1>5. from # r /\ \A q \in Run : row[q].resumes # r
  BY <1>1 DEF RequestInv, ChildShares
<1>6. ChildShares'
  BY <1>1, <1>5 DEF RequestInv, ChildShares
<1>7. InsertKnows'
  BY <1>1, <1>2 DEF RequestInv, InsertKnows
<1>8. AnswerKnows'
  BY <1>1, <1>2 DEF RequestInv, AnswerKnows
<1> QED
  BY <1>3, <1>4, <1>6, <1>7, <1>8 DEF RequestInv

\* A request that moves on without touching a row.
LEMMA CallMoves ==
  ASSUME TypeOK, RequestInv, NEW c \in Call, UNCHANGED row,
         \A d \in Call \ {c} : call'[d] = call[d],
         call'[c].step = "insert" =>
           \E r \in Run : call'[c].resumes = r /\ Exists(r) /\ call'[c].project = row[r].project,
         call'[c].step = "answered" =>
           \E r \in Run : call'[c].answer = r /\ Exists(r) /\ call'[c].project = row[r].project
  PROVE  RequestInv'
BY DEF RequestInv, AbsentIsBare, KeysDiffer, ChildShares, InsertKnows, AnswerKnows

\* Going on to the next step, and answering with a run, change one request.
LEMMA Moved ==
  ASSUME TypeOK, NEW c \in Call
  PROVE  /\ \A s \in Steps : Goto(c, s) =>
              call'[c].step = s /\ \A d \in Call \ {c} : call'[d] = call[d]
         /\ \A r \in Run : AnswerRun(c, r) =>
              /\ call'[c].step = "answered" /\ call'[c].answer = r
              /\ call'[c].project = call[c].project
              /\ \A d \in Call \ {c} : call'[d] = call[d]
<1>1. call[c] \in CallRec /\ call \in [Call -> CallRec]
  BY DEF TypeOK
<1>2. ASSUME NEW s \in Steps, Goto(c, s)
      PROVE  call'[c].step = s /\ \A d \in Call \ {c} : call'[d] = call[d]
  BY <1>1, <1>2 DEF CallRec, Goto
<1>3. ASSUME NEW r \in Run, AnswerRun(c, r)
      PROVE  /\ call'[c].step = "answered" /\ call'[c].answer = r
             /\ call'[c].project = call[c].project
             /\ \A d \in Call \ {c} : call'[d] = call[d]
  BY <1>1, <1>3 DEF CallRec, AnswerRun
<1> QED
  BY <1>2, <1>3

\* Every step of a request keeps what requests and rows know.
LEMMA ServeRequest == ASSUME TypeOK, RequestInv, NEW c \in Call, Serve(c) PROVE RequestInv'
<1>0. call \in [Call -> CallRec] /\ row \in [Run -> Row]
  BY DEF TypeOK
<1>1. ASSUME NEW s \in Steps \ {"insert", "answered"}, Goto(c, s), UNCHANGED row
      PROVE  RequestInv'
  BY <1>1, Moved, CallMoves
<1>2. ASSUME NEW r \in Run, AnswerRun(c, r), Exists(r), row[r].project = call[c].project,
             UNCHANGED row
      PROVE  RequestInv'
  <2>1. /\ call'[c].step = "answered" /\ call'[c].answer = r
        /\ call'[c].project = call[c].project
        /\ \A d \in Call \ {c} : call'[d] = call[d]
    BY <1>2, Moved
  <2> QED
    BY <1>2, <2>1, CallMoves
<1>3. ASSUME NEW p \in Project, NEW k \in Key \cup {NoKey}, StartCall(c, p, k)
      PROVE  RequestInv'
  <2>1. /\ call'[c].step \in {"by_active", "by_key"} /\ UNCHANGED row
        /\ \A d \in Call \ {c} : call'[d] = call[d]
    BY <1>0, <1>3 DEF StartCall, CallRec
  <2> QED
    BY <2>1, CallMoves
<1>4. CASE LookupKey(c)
  <2>1. \A r \in KeyedBy(call[c].key) : r \in Run /\ Exists(r)
    BY DEF KeyedBy, RequestInv, AbsentIsBare
  <2> QED
    BY <1>1, <1>2, <1>4, <2>1 DEF LookupKey, SameProject, Steps
<1>5. CASE LookupActive(c)
  BY <1>1, <1>2, <1>5 DEF LookupActive, ActiveOf, Steps
<1>6. CASE CreateRefused(c)
  BY <1>1, <1>6 DEF CreateRefused, Steps
<1>7. CASE ContinueRefused(c)
  BY <1>1, <1>7 DEF ContinueRefused, Steps
<1>8. ASSUME NEW r \in Run, Create(c, r) PROVE RequestInv'
  <2>1. call[c].key \in Key \cup {NoKey} /\ \A s \in Run : NoRun # s
    BY <1>0, RunAssumption DEF CallRec, RunAssumption
  <2> QED
    BY <1>8, <2>1, InsertKeeps DEF Create
<1>9. ASSUME NEW r \in Run, ContinueInsert(c, r) PROVE RequestInv'
  <2>1. PICK s \in Run : call[c].resumes = s /\ Exists(s) /\ call[c].project = row[s].project
    BY <1>9 DEF ContinueInsert, RequestInv, InsertKnows
  <2> QED
    BY <1>9, <2>1, InsertKeeps DEF ContinueInsert
<1>10. ASSUME NEW r \in Run, ContinueCall(c, r) PROVE RequestInv'
  <2>1. Exists(r) /\ UNCHANGED row
    BY <1>10 DEF ContinueCall
  <2>2. CASE call' = [call EXCEPT ![c] = [@ EXCEPT !.step = "insert", !.resumes = r,
                                          !.project = row[r].project]]
    <3>1. /\ call'[c].step = "insert" /\ call'[c].resumes = r
          /\ call'[c].project = row[r].project
          /\ \A d \in Call \ {c} : call'[d] = call[d]
      BY <1>0, <2>2 DEF CallRec
    <3> QED
      BY <2>1, <3>1, CallMoves
  <2>3. ASSUME NEW q \in ChildrenOf(r),
               call' = [call EXCEPT ![c] = [@ EXCEPT !.step = "answered", !.resumes = r,
                                        !.project = row[r].project, !.answer = q]]
        PROVE  RequestInv'
    <3>1. q \in Run /\ Exists(q) /\ row[q].project = row[r].project
      BY DEF ChildrenOf, RequestInv, ChildShares
    <3>2. /\ call'[c].step = "answered" /\ call'[c].answer = q
          /\ call'[c].project = row[r].project
          /\ \A d \in Call \ {c} : call'[d] = call[d]
      BY <1>0, <2>3 DEF CallRec
    <3> QED
      BY <2>1, <3>1, <3>2, CallMoves
  <2> QED
    BY <1>10, <2>2, <2>3 DEF ContinueCall
<1> QED
  BY <1>3, <1>4, <1>5, <1>6, <1>7, <1>8, <1>9, <1>10 DEF Serve

\* Every step keeps what requests and rows know.
LEMMA RequestStep == ASSUME TypeOK, RequestInv, [Next]_vars PROVE RequestInv'
<1>0. row \in [Run -> Row]
  BY DEF TypeOK
<1>1. CASE UNCHANGED <<row, call>>
  BY <1>1, RowsStay
<1>2. ASSUME NEW r \in Run, Heartbeat(r) PROVE RequestInv'
  BY <1>0, <1>2, RowsStay DEF Heartbeat, Row
<1>3. ASSUME NEW r \in Run, NEW p \in Phase \cup {NoPhase}, Stop(r, p) PROVE RequestInv'
  BY <1>0, <1>3, RowsStay DEF Stop, Row
<1>4. ASSUME NEW r \in Run, NEW post \in Posted, Append(r, post) PROVE RequestInv'
  <2>1. StateAfter(r, post) # "absent" /\ Exists(r)
    BY <1>4 DEF Append, StateAfter, Posted, Post
  <2> QED
    BY <1>0, <1>4, <2>1, RowsStay DEF Append, Row
<1>5. ASSUME NEW i \in Instance, NEW r \in Run, Claim(i, r) PROVE RequestInv'
  <2>1. Exists(r)
    BY <1>5 DEF Claim, Claimable, StaleAt
  <2> QED
    BY <1>0, <1>5, <2>1, RowsStay DEF Claim, Row
<1> QED
  BY <1>1, <1>2, <1>3, <1>4, <1>5, ServeRequest
     DEF Next, Write, Reap, Tick, vars, SweepBegin, SweepAbort, ClaimLost

(***************************************************************************)
(* Start and continue requests answer with a run of their project, and a   *)
(* key names one run, whatever their lookups and inserts race with.        *)
(***************************************************************************)
THEOREM KeyNamesOneRunHolds == Spec => []KeyNamesOneRun
<1>1. Init => RequestInv
  BY RunAssumption DEF RunAssumption, Init, RequestInv, AbsentIsBare, KeysDiffer, ChildShares,
                       InsertKnows, AnswerKnows
<1>2. TypeOK /\ RequestInv /\ [Next]_vars => RequestInv'
  BY RequestStep
<1>3. RequestInv => KeyNamesOneRun
  BY DEF RequestInv, KeysDiffer, AnswerKnows, KeyNamesOneRun
<1> QED
  BY <1>1, <1>2, <1>3, TypeCorrect, PTL DEF Spec

-----------------------------------------------------------------------------
(* A sweep can list what it should *)

\* There is a least number among some: what stands in for an induction rule, which
\* the provers cannot use.
LEMMA LeastNumber ==
  ASSUME NEW some \in SUBSET Nat, some # {}
  PROVE  \E n \in some : \A m \in some : n <= m
<1>1. PICK n \in some : \A m \in some : <<m, n>> \notin OpToRel(<, Nat)
  BY NatLessThanWellFounded, WFMin
<1>2. ASSUME NEW m \in some, m < n PROVE <<m, n>> \in OpToRel(<, Nat)
  <2>1. <<m, n>> \in Nat \X Nat /\ <<m, n>>[1] < <<m, n>>[2]
    BY <1>2
  <2> QED BY <2>1, Zenon DEF OpToRel
<1>3. \A m \in some : ~(m < n)
  BY <1>1, <1>2
<1> QED BY <1>3

\* Among some runs one was heard of before, or with, every other.
LEMMA QuietestRun ==
  ASSUME NEW beat \in [Run -> Nat], NEW some \in SUBSET Run, some # {}
  PROVE  \E r \in some : \A q \in some : beat[r] <= beat[q]
<1> DEFINE beats == {beat[r] : r \in some}
<1>1. beats \in SUBSET Nat /\ beats # {}
  OBVIOUS
<1>2. PICK n \in beats : \A m \in beats : n <= m
  <2> HIDE DEF beats
  <2> QED BY <1>1, LeastNumber
<1> QED BY <1>2

\* S is a first part of all, in the order of heartbeats, of at most k runs, and
\* shorter only if there are no more.
FirstPart(beat, all, k, S) ==
  /\ S \subseteq all /\ Cardinality(S) <= k
  /\ S = all \/ Cardinality(S) = k
  /\ \A r \in S, q \in all \ S : beat[r] <= beat[q]

\* There is a first part of every length: one that is one run shorter, and the
\* quietest of the rest.
LEMMA FirstParts ==
  ASSUME NEW beat \in [Run -> Nat], NEW all \in SUBSET Run, IsFiniteSet(Run)
  PROVE  \A k \in Nat : \E S : FirstPart(beat, all, k, S)
<1> DEFINE short == {k \in Nat : \A S : ~FirstPart(beat, all, k, S)}
<1> SUFFICES ASSUME short # {} PROVE FALSE
  OBVIOUS
<1>1. PICK k \in short : \A m \in short : k <= m
  <2>1. short \in SUBSET Nat
    OBVIOUS
  <2> HIDE DEF short
  <2> QED BY <2>1, LeastNumber
<1>2. k \in Nat /\ \A S : ~FirstPart(beat, all, k, S)
  OBVIOUS
<1>3. k # 0
  <2>1. FirstPart(beat, all, 0, {})
    BY FS_EmptySet DEF FirstPart
  <2> HIDE DEF short
  <2> QED BY <1>2, <2>1
<1>4. PICK S : FirstPart(beat, all, k - 1, S)
  <2>1. k - 1 \in Nat /\ ~(k <= k - 1)
    BY <1>2, <1>3
  <2>2. k - 1 \notin short
    <3> HIDE DEF short
    <3> QED BY <1>1, <2>1
  <2> QED BY <2>1, <2>2
<1> HIDE DEF short
<1>5. IsFiniteSet(S) /\ S \subseteq all /\ Cardinality(S) \in Nat /\ Cardinality(S) <= k - 1
  BY <1>4, FS_Subset, FS_CardinalityType DEF FirstPart
<1>6. S # all
  BY <1>2, <1>4, <1>5 DEF FirstPart
<1>7. PICK r \in all \ S : \A q \in all \ S : beat[r] <= beat[q]
  BY <1>5, <1>6, QuietestRun
<1>8. Cardinality(S \cup {r}) = k
  <2>1. Cardinality(S) = k - 1
    BY <1>4, <1>6 DEF FirstPart
  <2>2. Cardinality(S \cup {r}) = Cardinality(S) + 1
    BY <1>5, <1>7, FS_AddElement
  <2> QED BY <1>2, <2>1, <2>2
<1>9. \A x \in S \cup {r}, q \in all \ (S \cup {r}) : beat[x] <= beat[q]
  BY <1>4, <1>7 DEF FirstPart
<1>10. FirstPart(beat, all, k, S \cup {r})
  BY <1>2, <1>5, <1>7, <1>8, <1>9 DEF FirstPart
<1> QED BY <1>2, <1>10

(***************************************************************************)
(* Whenever runs are stale a sweep finds a batch to list, whatever their   *)
(* number and heartbeats: the timer's fairness, on which LostRunIsReaped   *)
(* rests, is never asked of an impossible step (reaper, findMany).         *)
(***************************************************************************)
THEOREM SweepCanList ==
  ASSUME TypeOK, IsFiniteSet(Run), Stale # {}
  PROVE  \E S \in SUBSET Stale : Oldest(S) /\ S # {}
<1> DEFINE beat == [r \in Run |-> row[r].beat]
<1>1. beat \in [Run -> Nat] /\ Stale \in SUBSET Run /\ Take \in Nat /\ Take # 0
  BY RunAssumption DEF TypeOK, Row, Stale
<1>2. PICK S : FirstPart(beat, Stale, Take, S)
  <2> HIDE DEF beat
  <2> QED BY <1>1, FirstParts
<1>3. Oldest(S)
  BY <1>1, <1>2 DEF FirstPart, Oldest
<1>4. S # {}
  BY <1>1, <1>2, FS_EmptySet DEF FirstPart
<1> QED BY <1>2, <1>3, <1>4 DEF FirstPart
=============================================================================
