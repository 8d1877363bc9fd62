------------------------- MODULE WorkspaceSupervisor -------------------------
(***************************************************************************)
(* The gateway's supervisor of workspace runtimes (core/server/src/        *)
(* workspace_supervisor.ts): at most one child process per workspace,      *)
(* started on demand, shared by concurrent requests, collected when idle.  *)
(*                                                                         *)
(* JavaScript runs to the next await, so each stretch between awaits is a  *)
(* step: get up to reservePort, spawn up to waitForRuntime, the end of a   *)
(* start, an exit event, a sweep of the idle collector.                    *)
(***************************************************************************)
EXTENDS Integers, FiniteSets

CONSTANTS
  Workspace, Slug,
  Child,       \* processes that can still be spawned
  Call,        \* calls of get, each made once
  NoChild, NoCall,
  MaxActive    \* MAX_ACTIVE_WORKSPACES

ASSUME SupervisorAssumption ==
  /\ NoChild \notin Child /\ NoCall \notin Call /\ MaxActive \in Nat \ {0}
  /\ Workspace # {} /\ Slug # {}

VARIABLES
  runtimes,    \* Map of workspace to runtime
  starts,      \* Map of workspace to the call whose start is pending
  child,       \* the processes
  call,        \* the calls of get
  closed       \* close was called

vars == <<runtimes, starts, child, call, closed>>

Phases == {"unborn", "booting", "serving", "killed", "exited"}
ChildRec == [phase : Phases, ws : Workspace, slug : Slug, idle : BOOLEAN]

Steps == {"new", "preparing", "booting", "waiting", "answered", "refused", "failed"}
CallRec == [step : Steps, ws : Workspace, slug : Slug, got : Child \cup {NoChild}]

TypeOK ==
  /\ runtimes \in [Workspace -> Child \cup {NoChild}]
  /\ starts \in [Workspace -> Call \cup {NoCall}]
  /\ child \in [Child -> ChildRec]
  /\ call \in [Call -> CallRec]
  /\ closed \in BOOLEAN

\* Every call knows what it will ask for; the fields of unborn children are not read.
Init ==
  /\ runtimes = [w \in Workspace |-> NoChild]
  /\ starts = [w \in Workspace |-> NoCall]
  /\ child = [p \in Child |-> [phase |-> "unborn", ws |-> CHOOSE w \in Workspace : TRUE,
                               slug |-> CHOOSE s \in Slug : TRUE, idle |-> FALSE]]
  /\ call \in [Call -> [step : {"new"}, ws : Workspace, slug : Slug, got : {NoChild}]]
  /\ closed = FALSE

-----------------------------------------------------------------------------
Working(p) == child[p].phase \in {"booting", "serving"}

\* exitCode is null: killed children included, until their exit event.
Alive(p) == child[p].phase \in {"booting", "serving", "killed"}

Current(w) == runtimes[w] # NoChild /\ Alive(runtimes[w])

Size == Cardinality({w \in Workspace : runtimes[w] # NoChild})

\* Variant: the map of pending starts is not consulted.
ForgetsPending(w) == FALSE

Pending(w) == starts[w] # NoCall

\* terminateTree: a signal, the exit comes later.
Terminated(p) == [child[p] EXCEPT !.phase = IF Working(p) THEN "killed" ELSE @]

Answer(c, p) == [call[c] EXCEPT !.step = "answered", !.got = p]

\* get with a live entry: the same slug, or a refusal (STORE_SLUG_MISMATCH).
GetActive(c) ==
  LET w == call[c].ws
      p == runtimes[w]
  IN /\ call[c].step = "new" /\ Current(w)
     /\ IF child[p].slug = call[c].slug
        THEN /\ call' = [call EXCEPT ![c] = Answer(c, p)]
             /\ child' = [child EXCEPT ![p].idle = FALSE]
        ELSE /\ call' = [call EXCEPT ![c].step = "refused"]
             /\ UNCHANGED child
     /\ UNCHANGED <<runtimes, starts, closed>>

GetPending(c) ==
  /\ call[c].step = "new" /\ ~Current(call[c].ws)
  /\ Pending(call[c].ws)
  /\ call' = [call EXCEPT ![c].step = "waiting"]
  /\ UNCHANGED <<runtimes, starts, child, closed>>

\* start checks the capacity before its first await.
GetStart(c) ==
  LET w == call[c].ws
  IN /\ call[c].step = "new" /\ ~Current(w) /\ ~Pending(w)
     /\ IF Size >= MaxActive
        THEN /\ call' = [call EXCEPT ![c].step = "refused"]
             /\ UNCHANGED starts
        ELSE /\ call' = [call EXCEPT ![c].step = "preparing"]
             /\ starts' = [starts EXCEPT ![w] = c]
     /\ UNCHANGED <<runtimes, child, closed>>

\* The port, the directories and the key are there: spawn.
Spawn(c, p) ==
  LET w == call[c].ws
  IN /\ call[c].step = "preparing" /\ child[p].phase = "unborn"
     /\ child' = [child EXCEPT ![p] = [phase |-> "booting", ws |-> w, slug |-> call[c].slug,
                                       idle |-> FALSE]]
     /\ runtimes' = [runtimes EXCEPT ![w] = p]
     /\ call' = [call EXCEPT ![c] = [@ EXCEPT !.step = "booting", !.got = p]]
     /\ UNCHANGED <<starts, closed>>

\* Variant: the promise of a start is not shared.
OwnOnly(c, d) == d = c

SettlesFor(c, d) == d = c \/ (call[d].step = "waiting" /\ call[d].ws = call[c].ws)

\* The start of c is over: its promise settles for c and for everyone waiting.
Settle(c, step, p) ==
  /\ call' = [d \in Call |-> IF SettlesFor(c, d) THEN [call[d] EXCEPT !.step = step, !.got = p]
                                                 ELSE call[d]]
  /\ starts' = [starts EXCEPT ![call[c].ws] = NoCall]

PrepareFails(c) ==
  /\ call[c].step = "preparing"
  /\ Settle(c, "failed", NoChild)
  /\ UNCHANGED <<runtimes, child, closed>>

\* A connection to the port succeeds; a child told to stop may still accept it.
Ready(c) ==
  LET p == call[c].got
  IN /\ call[c].step = "booting" /\ child[p].phase \in {"booting", "killed"}
     /\ Settle(c, "answered", p)
     /\ child' = [child EXCEPT ![p].phase = IF @ = "booting" THEN "serving" ELSE @]
     /\ UNCHANGED <<runtimes, closed>>

\* Variant: the child of a failed start is left running.
LeftRunning(p) == child[p]

AfterFailure(p) == Terminated(p)

\* The child is gone, or 120 seconds are over.
StartFails(c) ==
  LET p == call[c].got
  IN /\ call[c].step = "booting"
     /\ child' = [child EXCEPT ![p] = AfterFailure(p)]
     /\ runtimes' = [runtimes EXCEPT ![call[c].ws] = NoChild]
     /\ Settle(c, "failed", NoChild)
     /\ UNCHANGED closed

\* Variant: the exit handler removes whatever runtime its workspace has.
AfterAnyExit(p) == [runtimes EXCEPT ![child[p].ws] = NoChild]

AfterExit(p) == IF runtimes[child[p].ws] = p
                THEN [runtimes EXCEPT ![child[p].ws] = NoChild] ELSE runtimes

Exit(p) ==
  /\ Alive(p)
  /\ child' = [child EXCEPT ![p].phase = "exited"]
  /\ runtimes' = AfterExit(p)
  /\ UNCHANGED <<starts, call, closed>>

\* A child that could not be spawned has an exit code but no exit event.
SpawnError(p) ==
  /\ child[p].phase = "booting"
  /\ child' = [child EXCEPT ![p].phase = "exited"]
  /\ UNCHANGED <<runtimes, starts, call, closed>>

\* getByKey, for every model request of the runtime.
GetByKey(w) ==
  /\ Current(w) /\ child[runtimes[w]].idle
  /\ child' = [child EXCEPT ![runtimes[w]].idle = FALSE]
  /\ UNCHANGED <<runtimes, starts, call, closed>>

\* touchedAt falls behind the cutoff.
GrowIdle(p) ==
  /\ Working(p) /\ ~child[p].idle
  /\ child' = [child EXCEPT ![p].idle = TRUE]
  /\ UNCHANGED <<runtimes, starts, call, closed>>

\* Variant: workspaces that are starting are collected too.
CollectsStarting(w) == runtimes[w] # NoChild /\ child[runtimes[w]].idle

Collectable(w) == /\ runtimes[w] # NoChild /\ child[runtimes[w]].idle
                  /\ starts[w] = NoCall

\* One sweep of the timer, which close stops.
CollectIdle ==
  LET gone == {w \in Workspace : Collectable(w)}
  IN /\ gone # {} /\ ~closed
     /\ runtimes' = [w \in Workspace |-> IF w \in gone THEN NoChild ELSE runtimes[w]]
     /\ child' = [p \in Child |-> IF \E w \in gone : runtimes[w] = p THEN Terminated(p) ELSE child[p]]
     /\ UNCHANGED <<starts, call, closed>>

Close ==
  /\ ~closed /\ closed' = TRUE
  /\ child' = [p \in Child |-> IF \E w \in Workspace : runtimes[w] = p THEN Terminated(p) ELSE child[p]]
  /\ runtimes' = [w \in Workspace |-> NoChild]
  /\ UNCHANGED <<starts, call>>

-----------------------------------------------------------------------------
Get(c) == GetActive(c) \/ GetPending(c) \/ GetStart(c)

Start(c) == PrepareFails(c) \/ Ready(c) \/ StartFails(c) \/ \E p \in Child : Spawn(c, p)

Next == \/ \E c \in Call : Get(c) \/ Start(c)
        \/ \E p \in Child : Exit(p) \/ SpawnError(p) \/ GrowIdle(p)
        \/ \E w \in Workspace : GetByKey(w)
        \/ CollectIdle \/ Close

Spec == Init /\ [][Next]_vars

\* Every await of a start is bounded: file operations, then 120 seconds.
FairSpec == Spec /\ \A c \in Call : WF_vars(Start(c))

-----------------------------------------------------------------------------
(***************************************************************************)
(* Two children that were not told to stop never run for one workspace, so *)
(* they never write the same data directory, whatever requests, exits,     *)
(* failed starts and sweeps overlap (get and its map of pending starts).   *)
(***************************************************************************)
OneWorkingChild == \A p, q \in Child :
  Working(p) /\ Working(q) /\ child[p].ws = child[q].ws => p = q

(***************************************************************************)
(* No child is forgotten: every child not told to stop is the registered   *)
(* runtime of its workspace, so that it can be found, counted, collected   *)
(* and closed (start, its exit handler, its catch block and close).        *)
(***************************************************************************)
NoOrphan == \A p \in Child : Working(p) => runtimes[child[p].ws] = p

(***************************************************************************)
(* A request that started a runtime, or waited for one, is answered with a *)
(* child that was accepting connections and that the collector had not     *)
(* stopped in the meantime (collectIdle's starts.has).                     *)
(***************************************************************************)
StartsAnswerServing ==
  [][\A c \in Call : call[c].step \in {"booting", "waiting"} /\ call'[c].step = "answered" /\ ~closed
       => child'[call'[c].got].phase = "serving"]_vars

(***************************************************************************)
(* "Builder capacity is full": never more than maxActive runtimes are      *)
(* registered (start).                                                     *)
(***************************************************************************)
CapacityKept == Size <= MaxActive

(***************************************************************************)
(* A request that waits for a start gets an answer or an error: the start  *)
(* it waits for always ends (get's finally, waitForRuntime's deadline).    *)
(***************************************************************************)
WaitersAnswered == \A c \in Call :
  call[c].step \in {"preparing", "waiting"} ~> call[c].step \in {"answered", "failed"}
=============================================================================
