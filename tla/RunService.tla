----------------------------- MODULE RunService -----------------------------
(***************************************************************************)
(* The persisted run of the builder backend (build/run.service.ts): the    *)
(* rows of "runs", the log "run_events" and the snapshots, the request     *)
(* handlers that work on them one database call at a time, and the lease   *)
(* reapers of several API instances.                                       *)
(*                                                                         *)
(* A Prisma transaction whose first write is the run's row holds that row's *)
(* lock until it commits, so it is one step here (module RunFeed opens it  *)
(* up); everything a handler reads outside its transaction is a step of    *)
(* its own and may be stale when it is used.                               *)
(***************************************************************************)
EXTENDS Integers, FiniteSets

CONSTANTS
  Run,        \* identifiers the table can still hand out
  Project,
  Key,        \* idempotency keys
  Call,       \* start and continue requests, each made once
  Instance,   \* API processes, each with one reaper timer
  Phase,      \* phases of a build (understand, analyze, build, verify)
  NoRun, NoKey, NoProject, NoPhase,
  Lease,      \* RUN_LEASE_TTL_SECONDS, in ticks
  Take,       \* how many stale runs one sweep lists (50 in the code)
  MaxSeq,     \* bound: events that clients and users cause per run
  MaxTime     \* bound: ticks of the clock

ASSUME RunAssumption ==
  /\ NoRun \notin Run /\ NoKey \notin Key /\ NoProject \notin Project /\ NoPhase \notin Phase
  /\ Lease \in Nat /\ Take \in Nat \ {0} /\ MaxSeq \in Nat /\ MaxTime \in Nat

VARIABLES
  row,      \* the table "runs"
  log,      \* the table "run_events", by run
  snaps,    \* the kinds of project snapshot taken for a run
  now,      \* the clock heartbeats and cutoffs are read from
  call,     \* start and continue requests and their answers
  had,      \* phases each row has had: what a stop request may have read
  sweep     \* the reaper of each instance

vars == <<row, log, snaps, now, call, had, sweep>>

Active   == {"queued", "running", "waiting_for_user", "stopping", "paused_no_credits"}
Ended    == {"stopped", "interrupted", "failed", "completed"}
Reapable == {"queued", "running", "stopping"}
States   == Active \cup Ended
Kinds    == {"final", "stopped", "interrupted"}
NoState  == "none"

(***************************************************************************)
(* What the dashboard and the file sync post to a run, and the state each  *)
(* posting asks for: the frontend's persistRunEvent calls, step.progress   *)
(* standing for every type it posts with the state running, and the        *)
(* files.persisted event of syncWorkspaceFiles. All carry a phase.         *)
(***************************************************************************)
Post(type, state) == [type : {type}, state : {state}, phase : Phase]

Posted == Post("step.progress", "running") \cup Post("run.waiting_for_user", "waiting_for_user")
     \cup Post("run.completed", "completed") \cup Post("run.failed", "failed")
     \cup Post("run.stopped", "stopped") \cup Post("files.persisted", NoState)

Types == {"step.progress", "run.waiting_for_user", "run.completed", "run.failed",
          "run.stopped", "files.persisted", "run.interrupted"}

\* An event stores no state; its type tells which one was asked for.
Event == [seq : Nat, type : Types, phase : Phase \cup {NoPhase}]

Row == [state : States \cup {"absent"}, project : Project \cup {NoProject}, seq : Nat,
        beat : Nat, phase : Phase \cup {NoPhase}, key : Key \cup {NoKey},
        resumes : Run \cup {NoRun}]

Steps == {"new", "by_key", "by_active", "create", "again_by_key", "again_by_active",
          "insert", "answered", "conflict", "failed"}

CallRec == [step : Steps, project : Project \cup {NoProject}, key : Key \cup {NoKey},
            resumes : Run \cup {NoRun}, answer : Run \cup {NoRun}]

SweepRec == [cutoff : Int, todo : SUBSET Run, seen : [Run -> Phase \cup {NoPhase}]]

\* A reaper between two sweeps.
Resting == [cutoff |-> 0, todo |-> {}, seen |-> [r \in Run |-> NoPhase]]

TypeOK ==
  /\ row \in [Run -> Row]
  /\ log \in [Run -> SUBSET Event]
  /\ snaps \in [Run -> SUBSET Kinds]
  /\ now \in Nat
  /\ call \in [Call -> CallRec]
  /\ had \in [Run -> SUBSET (Phase \cup {NoPhase})]
  /\ sweep \in [Instance -> SweepRec]

Init ==
  /\ row = [r \in Run |-> [state |-> "absent", project |-> NoProject, seq |-> 0,
                           beat |-> 0, phase |-> NoPhase, key |-> NoKey, resumes |-> NoRun]]
  /\ log = [r \in Run |-> {}]
  /\ snaps = [r \in Run |-> {}]
  /\ now = 0
  /\ call = [c \in Call |-> [step |-> "new", project |-> NoProject, key |-> NoKey,
                             resumes |-> NoRun, answer |-> NoRun]]
  /\ had = [r \in Run |-> {NoPhase}]
  /\ sweep = [i \in Instance |-> Resting]

-----------------------------------------------------------------------------
(* The tables *)

Exists(r) == row[r].state # "absent"

ActiveOf(p) == {r \in Run : row[r].project = p /\ row[r].state \in Active}

KeyedBy(k) == {r \in Run : k # NoKey /\ row[r].key = k}

ChildrenOf(r) == {c \in Run : row[c].resumes = r /\ row[c].state \in Active}

\* Variant: the index does not cover queued runs.
IndexPastQueued(r, p, s) == s \in Active \ {"queued"} => ActiveOf(p) \subseteq {r}

\* The partial unique index runs_one_active_per_project lets r take state s.
IndexAllows(r, p, s) == s \in Active => ActiveOf(p) \subseteq {r}

\* INSERT of a queued run, refused (P2002) by either unique index.
CanInsert(r, p, k) == /\ ~Exists(r)
                      /\ IndexAllows(r, p, "queued")
                      /\ KeyedBy(k) = {}

Insert(r, p, k, from) ==
  row' = [row EXCEPT ![r] = [state |-> "queued", project |-> p, seq |-> 0,
                             beat |-> now, phase |-> NoPhase, key |-> k,
                             resumes |-> from]]

\* Variant: the number read before the increment.
RecordTooEarly(r, n, type, phase) ==
  log' = [log EXCEPT ![r] = @ \cup {[seq |-> n - 1, type |-> type, phase |-> phase]}]

\* The event a transaction adds to the log of r at position n.
Record(r, n, type, phase) ==
  log' = [log EXCEPT ![r] = @ \cup {[seq |-> n, type |-> type, phase |-> phase]}]

\* The unique index run_events(runId, seq) has room at n.
SeqFree(r, n) == \A e \in log[r] : e.seq # n

-----------------------------------------------------------------------------
(* start: two lookups, an insert, and two more lookups when it is refused  *)

Goto(c, s)      == call' = [call EXCEPT ![c].step = s]
AnswerRun(c, r) == call' = [call EXCEPT ![c] = [@ EXCEPT !.step = "answered", !.answer = r]]

StartCall(c, p, k) ==
  /\ call[c].step = "new"
  /\ call' = [call EXCEPT ![c] = [@ EXCEPT
                  !.step = IF k = NoKey THEN "by_active" ELSE "by_key",
                  !.project = p, !.key = k]]
  /\ UNCHANGED <<row, log, snaps, now, had, sweep>>

\* Variant: the project of the key's run is not compared.
AnyProject(r, c) == Exists(r)

SameProject(r, c) == row[r].project = call[c].project

\* findUnique on the idempotency key, before the insert and after a refusal.
LookupKey(c) ==
  /\ call[c].step \in {"by_key", "again_by_key"}
  /\ \/ /\ KeyedBy(call[c].key) = {}
        /\ Goto(c, IF call[c].step = "by_key" THEN "by_active" ELSE "again_by_active")
     \/ \E r \in KeyedBy(call[c].key) :
           IF SameProject(r, c) THEN AnswerRun(c, r) ELSE Goto(c, "conflict")
  /\ UNCHANGED <<row, log, snaps, now, had, sweep>>

\* findFirst of an active run of the project; after a refusal its absence rethrows.
LookupActive(c) ==
  /\ call[c].step \in {"by_active", "again_by_active"}
  /\ \/ /\ ActiveOf(call[c].project) = {}
        /\ Goto(c, IF call[c].step = "by_active" THEN "create" ELSE "failed")
     \/ \E r \in ActiveOf(call[c].project) : AnswerRun(c, r)
  /\ UNCHANGED <<row, log, snaps, now, had, sweep>>

Create(c, r) ==
  /\ call[c].step = "create"
  /\ CanInsert(r, call[c].project, call[c].key)
  /\ Insert(r, call[c].project, call[c].key, NoRun)
  /\ AnswerRun(c, r)
  /\ UNCHANGED <<log, snaps, now, had, sweep>>

CreateRefused(c) ==
  /\ call[c].step = "create"
  /\ ActiveOf(call[c].project) # {} \/ KeyedBy(call[c].key) # {}
  /\ Goto(c, IF call[c].key = NoKey THEN "again_by_active" ELSE "again_by_key")
  /\ UNCHANGED <<row, log, snaps, now, had, sweep>>

-----------------------------------------------------------------------------
(* continueRun: look for an active child, then insert one *)

\* findUnique of the previous run (only fields that never change are used) and
\* findFirst of an active child.
ContinueCall(c, prev) ==
  /\ call[c].step = "new"
  /\ Exists(prev)
  /\ \/ /\ ChildrenOf(prev) = {}
        /\ call' = [call EXCEPT ![c] = [@ EXCEPT !.step = "insert", !.resumes = prev,
                                        !.project = row[prev].project]]
     \/ \E r \in ChildrenOf(prev) :
          call' = [call EXCEPT ![c] = [@ EXCEPT !.step = "answered", !.resumes = prev,
                                        !.project = row[prev].project, !.answer = r]]
  /\ UNCHANGED <<row, log, snaps, now, had, sweep>>

ContinueInsert(c, r) ==
  /\ call[c].step = "insert"
  /\ CanInsert(r, call[c].project, NoKey)
  /\ Insert(r, call[c].project, NoKey, call[c].resumes)
  /\ AnswerRun(c, r)
  /\ UNCHANGED <<log, snaps, now, had, sweep>>

\* Nothing catches P2002 here: the request fails.
ContinueRefused(c) ==
  /\ call[c].step = "insert"
  /\ ActiveOf(call[c].project) # {}
  /\ Goto(c, "failed")
  /\ UNCHANGED <<row, log, snaps, now, had, sweep>>

-----------------------------------------------------------------------------
(* append, appendInternal, syncWorkspaceFiles, stop *)

Heartbeat(r) ==
  /\ Exists(r) /\ row[r].beat # now
  /\ row' = [row EXCEPT ![r].beat = now]
  /\ UNCHANGED <<log, snaps, now, call, had, sweep>>

StateAfter(r, post) == IF post.state = NoState THEN row[r].state ELSE post.state

\* The file sync leaves the phase of a run that has ended; it looks at the state
\* before its transaction has the row's lock, so it may look at an older one.
PhasesAfter(r, post) == {post.phase} \cup (IF post.state = NoState THEN {row[r].phase} ELSE {})

\* Variant: the file sync does not renew the lease.
BeatKept(r, post) == IF post.type = "files.persisted" THEN row[r].beat ELSE now

BeatAfter(r, post) == now

\* The transaction of append; a refused index or a taken seq rolls it back. No
\* state is refused: a posting may move an ended run back to an active state.
\* Only append takes the final snapshot: the posting of a completion by the
\* internal route (appendInternal) does not.
Append(r, post) ==
  LET n == row[r].seq + 1
      s == StateAfter(r, post)
  IN /\ Exists(r) /\ n <= MaxSeq
     /\ IndexAllows(r, row[r].project, s)
     /\ SeqFree(r, n)
     /\ \E p \in PhasesAfter(r, post) :
          /\ row' = [row EXCEPT ![r].seq = n, ![r].beat = BeatAfter(r, post), ![r].state = s,
                                ![r].phase = p]
          /\ had' = [had EXCEPT ![r] = @ \cup {p}]
     /\ Record(r, n, post.type, post.phase)
     /\ \/ snaps' = [snaps EXCEPT ![r] = @ \cup
                       (IF post.type = "run.completed" THEN {"final"} ELSE {})]
        \/ snaps' = snaps
     /\ UNCHANGED <<now, call, sweep>>

\* stop reads the run before its transaction, at any moment since the run exists;
\* the transaction writes the state and the phase read, then reads the counter,
\* and writes the counter last.
Stop(r, p) ==
  LET n == row[r].seq + 1
  IN /\ Exists(r) /\ p \in had[r] /\ n <= MaxSeq
     /\ SeqFree(r, n)
     /\ row' = [row EXCEPT ![r].seq = n, ![r].state = "stopped", ![r].phase = p]
     /\ Record(r, n, "run.stopped", p)
     /\ snaps' = [snaps EXCEPT ![r] = @ \cup {"stopped"}]
     /\ UNCHANGED <<now, call, had, sweep>>

-----------------------------------------------------------------------------
(* The lease reaper *)

Tick == /\ now < MaxTime
        /\ now' = now + 1
        /\ UNCHANGED <<row, log, snaps, call, had, sweep>>

\* Variant: interrupted runs are listed and claimed again.
StaleAgain(r, cutoff) ==
  row[r].state \in Reapable \cup {"interrupted"} /\ row[r].beat < cutoff

StaleAt(r, cutoff) == row[r].state \in Reapable /\ row[r].beat < cutoff

Stale == {r \in Run : StaleAt(r, now - Lease)}

\* The first Take of the stale runs, oldest heartbeat first.
Oldest(S) == /\ S \subseteq Stale
             /\ S = Stale \/ Cardinality(S) = Take
             /\ Cardinality(S) <= Take
             /\ \A r \in S, q \in Stale \ S : row[r].beat <= row[q].beat

\* What findMany brings of them, for later.
Listing(S) == [cutoff |-> now - Lease, todo |-> S,
               seen |-> [r \in Run |-> IF r \in S THEN row[r].phase ELSE NoPhase]]

\* The sweep goes on without the run just dealt with, or is over.
Without(s, r) == [s EXCEPT !.todo = s.todo \ {r}, !.seen = [s.seen EXCEPT ![r] = NoPhase]]

Dealt(i, r) ==
  sweep' = [sweep EXCEPT ![i] = IF sweep[i].todo = {r} THEN Resting ELSE Without(sweep[i], r)]

\* A timer firing while a sweep of this instance runs does nothing.
SweepBegin(i) ==
  /\ sweep[i].todo = {} /\ Stale # {}
  /\ \E S \in SUBSET Stale :
       Oldest(S) /\ sweep' = [sweep EXCEPT ![i] = Listing(S)]
  /\ UNCHANGED <<row, log, snaps, now, call, had>>

\* Variants of the claim's condition: the heartbeat is not checked again, or the
\* states differ from those the sweep lists.
StillActive(r, cutoff) == row[r].state \in Reapable
StillRunning(r, cutoff) ==
  row[r].state \in {"running", "stopping"} /\ row[r].beat < cutoff

Claimable(r, cutoff) == StaleAt(r, cutoff)

\* The claim transaction: the condition is checked again on the locked row.
Claim(i, r) ==
  LET n == row[r].seq + 1
  IN /\ r \in sweep[i].todo
     /\ Claimable(r, sweep[i].cutoff)
     /\ SeqFree(r, n)
     /\ row' = [row EXCEPT ![r].state = "interrupted", ![r].seq = n]
     /\ Record(r, n, "run.interrupted", sweep[i].seen[r])
     /\ snaps' = [snaps EXCEPT ![r] = @ \cup {"interrupted"}]
     /\ Dealt(i, r)
     /\ UNCHANGED <<now, call, had>>

\* updateMany matched no row: another instance or a heartbeat was first.
ClaimLost(i, r) ==
  /\ r \in sweep[i].todo
  /\ ~Claimable(r, sweep[i].cutoff)
  /\ Dealt(i, r)
  /\ UNCHANGED <<row, log, snaps, now, call, had>>

\* A rejected query ends the sweep (runReaperSafely logs it), a crash drops it.
SweepAbort(i) ==
  /\ sweep[i].todo # {}
  /\ sweep' = [sweep EXCEPT ![i] = Resting]
  /\ UNCHANGED <<row, log, snaps, now, call, had>>

-----------------------------------------------------------------------------
Serve(c) ==
  \/ \E p \in Project, k \in Key \cup {NoKey} : StartCall(c, p, k)
  \/ LookupKey(c) \/ LookupActive(c) \/ CreateRefused(c)
  \/ ContinueRefused(c)
  \/ \E r \in Run : Create(c, r) \/ ContinueCall(c, r) \/ ContinueInsert(c, r)

Write(r) == \/ Heartbeat(r) \/ \E post \in Posted : Append(r, post)
            \/ \E p \in Phase \cup {NoPhase} : Stop(r, p)

Reap(i) == \/ SweepBegin(i) \/ SweepAbort(i)
           \/ \E r \in Run : Claim(i, r) \/ ClaimLost(i, r)

Next == \/ Tick
        \/ \E c \in Call : Serve(c)
        \/ \E r \in Run : Write(r)
        \/ \E i \in Instance : Reap(i)

Spec == Init /\ [][Next]_vars

(***************************************************************************)
(* The timer of every instance keeps firing, and a sweep that could go on  *)
(* goes on; a claim that is possible again and again is one day not lost   *)
(* to a failing query. Clients, users and the clock owe nothing.           *)
(***************************************************************************)
Fairness == \A i \in Instance :
  /\ WF_vars(SweepBegin(i))
  /\ \A r \in Run : SF_vars(Claim(i, r)) /\ WF_vars(ClaimLost(i, r))

FairSpec == Spec /\ Fairness

-----------------------------------------------------------------------------
(***************************************************************************)
(* At most one active run per project, whatever starts, continuations and  *)
(* postings that revive an ended run interleave (start, continueRun and    *)
(* append against runs_one_active_per_project).                            *)
(***************************************************************************)
OneActiveRun == \A p \in Project : \A r, s \in ActiveOf(p) : r = s

(***************************************************************************)
(* The log of a run is gap-free: its sequence numbers are exactly          *)
(* 1..lastEventSeq, each once, whatever posting, stop, file sync or claim  *)
(* takes the next one (their statements are one step each here; RunFeed    *)
(* opens the transactions).                                                *)
(***************************************************************************)
LogContiguous == \A r \in Run :
  /\ \A e \in log[r] : e.seq \in 1..row[r].seq
  /\ \A n \in 1..row[r].seq : \E e \in log[r] : e.seq = n
  /\ \A e, f \in log[r] : e.seq = f.seq => e = f

(***************************************************************************)
(* A run is interrupted only while its lease is expired at that instant,   *)
(* whatever heartbeats, stops or other instances came between the sweep's  *)
(* listing and its claim (the re-check in the reaper's transaction), and   *)
(* the interruption leaves its snapshot behind.                            *)
(***************************************************************************)
ReapsOnlyExpired ==
  [][\A r \in Run : row'[r].state = "interrupted" /\ row'[r].seq # row[r].seq
        /\ row[r].state # "interrupted"
       => /\ row[r].state \in Reapable /\ row[r].beat + Lease < now
          /\ "interrupted" \in snaps'[r]]_vars

\* The types of the postings that ask for a state with a lease.
Resumptions == {post.type : post \in {q \in Posted : q.state \in Reapable}}

(***************************************************************************)
(* One lost lease is reported once: between two run.interrupted events of  *)
(* a run lies an event whose posting made it active again, however many    *)
(* instances reap (emit duplicate events).                                 *)
(***************************************************************************)
InterruptedOnce == \A r \in Run : \A e, f \in log[r] :
  e.type = "run.interrupted" /\ f.type = "run.interrupted" /\ e.seq < f.seq
    => \E g \in log[r] : e.seq < g.seq /\ g.seq < f.seq /\ g.type \in Resumptions

(***************************************************************************)
(* An interruption is reported under the phase the run is in when it is    *)
(* claimed, although the event takes it from the row the sweep listed      *)
(* before: whoever writes a phase in between renews the lease or takes the *)
(* run off the states that have one (reaper against append, syncWorkspace- *)
(* Files and stop, which itself writes back a phase it read long before).  *)
(***************************************************************************)
InterruptedInPhase ==
  [][\A r \in Run : \A e \in log'[r] \ log[r] :
       e.type = "run.interrupted" => e.phase = row[r].phase]_vars

(***************************************************************************)
(* A start answers with a run of the caller's project, and with the key's  *)
(* run if the answer carries that key; a key never names two runs although *)
(* the lookup and the insert are separate calls (start, runs_idempotencyKey *)
(* _key).                                                                  *)
(***************************************************************************)
KeyNamesOneRun ==
  /\ \A r, s \in Run : row[r].key # NoKey /\ row[r].key = row[s].key => r = s
  /\ \A c \in Call : call[c].step = "answered" => row[call[c].answer].project = call[c].project

(***************************************************************************)
(* A run whose worker is lost does not stay active for ever: it is         *)
(* interrupted, or a posting moves it on, or the worker is heard again,    *)
(* even when a sweep lists fewer runs than are stale (the reaper's timer). *)
(***************************************************************************)
LostRunIsReaped == \A r \in Run : (r \in Stale) ~> (r \notin Stale)
=============================================================================
