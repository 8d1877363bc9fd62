---------------------------- MODULE GatewayProofs ----------------------------
(***************************************************************************)
(* The gateway's supervisor and the breaker it keeps per model. For any    *)
(* number of workspaces, requests and children: no working child is        *)
(* forgotten, and a workspace never has two. For any configuration and any *)
(* number of operations: no probe slot leaks, and the breaker opens only   *)
(* on evidence.                                                            *)
(***************************************************************************)
EXTENDS WorkspaceSupervisor, CircuitBreaker, FiniteSetTheorems, TLAPS

\* An entry of runtimes names a child that was spawned for its workspace.
Registered == \A w \in Workspace :
  runtimes[w] # NoChild => child[runtimes[w]].ws = w /\ child[runtimes[w]].phase # "unborn"

\* A start in progress is the pending one of its workspace, which has no working
\* child but the one it spawned.
StartOwns == \A c \in Call :
  /\ call[c].step \in {"preparing", "booting"} => starts[call[c].ws] = c
  /\ call[c].step = "preparing" =>
       \A p \in Child : Working(p) => child[p].ws # call[c].ws
  /\ call[c].step = "booting" =>
       /\ call[c].got \in Child
       /\ child[call[c].got].phase # "unborn"
       /\ \A p \in Child : Working(p) /\ child[p].ws = call[c].ws => p = call[c].got

IInv == TypeOK /\ Registered /\ NoOrphan /\ StartOwns

(***************************************************************************)
(* Facts every case of the induction uses.                                 *)
(***************************************************************************)
LEMMA Basics ==
  ASSUME IInv
  PROVE  /\ \A c \in Call : call[c] \in CallRec
         /\ \A p \in Child : child[p] \in ChildRec
         /\ \A w \in Workspace : runtimes[w] \in Child \cup {NoChild}
         /\ DOMAIN call = Call /\ DOMAIN child = Child
         /\ DOMAIN runtimes = Workspace /\ DOMAIN starts = Workspace
BY DEF IInv, TypeOK

\* Going idle and being used again change nothing else of a child.
LEMMA ChildFields ==
  ASSUME NEW r \in ChildRec, NEW q,
         \/ q = r
         \/ q = [r EXCEPT !.idle = TRUE]
         \/ q = [r EXCEPT !.idle = FALSE]
  PROVE  q \in ChildRec /\ q.ws = r.ws /\ q.phase = r.phase
BY DEF ChildRec

(***************************************************************************)
(* Stopping a set of children and removing their entries keeps the         *)
(* invariant: the idle collector and close.                                *)
(***************************************************************************)
LEMMA StopInv ==
  ASSUME SupervisorAssumption, IInv, NEW gone \in SUBSET Workspace,
         runtimes' = [w \in Workspace |-> IF w \in gone THEN NoChild ELSE runtimes[w]],
         child' = [p \in Child |-> IF \E w \in gone : runtimes[w] = p THEN Terminated(p) ELSE child[p]],
         closed' \in BOOLEAN, UNCHANGED <<starts, call>>
  PROVE  IInv'
<1>1. \A p \in Child : child'[p] \in ChildRec /\ child'[p].ws = child[p].ws
                       /\ (child[p].phase # "unborn" => child'[p].phase # "unborn")
                       /\ (Working(p)' => Working(p) /\ ~\E w \in gone : runtimes[w] = p)
  BY Basics DEF Terminated, Working, ChildRec, Phases
<1>2. TypeOK'
  BY <1>1, Basics DEF IInv, TypeOK
<1>3. Registered'
  BY <1>1, Basics, SupervisorAssumption DEF IInv, Registered
<1>4. NoOrphan'
  <2> SUFFICES ASSUME NEW p \in Child, Working(p)' PROVE runtimes'[child'[p].ws] = p
      BY DEF NoOrphan
  <2>1. Working(p) /\ runtimes[child[p].ws] = p /\ child'[p].ws = child[p].ws /\ child[p].ws \in Workspace
    BY <1>1, Basics DEF IInv, NoOrphan, ChildRec
  <2>2. child[p].ws \notin gone
    BY <1>1, <2>1
  <2> QED
    BY <2>1, <2>2
<1>5. StartOwns'
  BY <1>1 DEF IInv, StartOwns
<1> QED
  BY <1>2, <1>3, <1>4, <1>5 DEF IInv

(***************************************************************************)
(* The three ways into get keep the invariant.                             *)
(***************************************************************************)
LEMMA GetInv ==
  ASSUME SupervisorAssumption, IInv, NEW c \in Call, Get(c)
  PROVE  IInv'
<1> USE Basics
<1>1. CASE GetActive(c)
  <2> DEFINE w == call[c].ws
             p == runtimes[w]
  <2>1. w \in Workspace /\ p \in Child /\ UNCHANGED <<runtimes, starts, closed>>
    BY <1>1 DEF GetActive, Current, CallRec
  <2>2. child' = child \/ child' = [child EXCEPT ![p].idle = FALSE]
    BY <1>1 DEF GetActive
  <2>3. \A q \in Child : child'[q] \in ChildRec /\ child'[q].ws = child[q].ws /\ child'[q].phase = child[q].phase
    <3> SUFFICES ASSUME NEW q \in Child
                 PROVE  child'[q] \in ChildRec /\ child'[q].ws = child[q].ws /\ child'[q].phase = child[q].phase
        OBVIOUS
    <3>1. child'[q] = child[q] \/ child'[q] = [child[q] EXCEPT !.idle = FALSE]
      BY <2>2
    <3>2. child[q] \in ChildRec
      OBVIOUS
    <3> QED
      BY <3>1, <3>2, ChildFields
  <2>4. call' = [call EXCEPT ![c] = Answer(c, p)] \/ call' = [call EXCEPT ![c].step = "refused"]
    BY <1>1 DEF GetActive
  <2>5. /\ call'[c] \in CallRec /\ call'[c].step \in {"answered", "refused"} /\ DOMAIN call' = Call
        /\ \A d \in Call \ {c} : call'[d] = call[d]
    <3>1. \/ call'[c] = [call[c] EXCEPT !.step = "answered", !.got = p]
          \/ call'[c] = [call[c] EXCEPT !.step = "refused"]
      BY <2>4 DEF Answer
    <3>2. "answered" \in Steps /\ "refused" \in Steps
      BY DEF Steps
    <3>3. DOMAIN call' = Call /\ \A d \in Call \ {c} : call'[d] = call[d]
      BY <2>4
    <3> HIDE DEF p
    <3>4. call'[c] \in CallRec /\ call'[c].step \in {"answered", "refused"}
      <4>1. call[c] \in CallRec /\ p \in Child \cup {NoChild}
        BY <2>1
      <4>2. CASE call'[c] = [call[c] EXCEPT !.step = "answered", !.got = p]
        BY <4>1, <4>2, <3>2 DEF CallRec
      <4>3. CASE call'[c] = [call[c] EXCEPT !.step = "refused"]
        BY <4>1, <4>3, <3>2 DEF CallRec
      <4> QED
        BY <3>1, <4>2, <4>3
    <3> QED
      BY <3>3, <3>4
  <2>6. TypeOK'
    <3>1. call' \in [Call -> CallRec]
      BY <2>4, <2>5
    <3>2. child' \in [Child -> ChildRec]
      <4>1. CASE child' = child
        BY <4>1 DEF IInv, TypeOK
      <4>2. CASE child' = [child EXCEPT ![p].idle = FALSE]
        <5>1. child' = [q \in Child |-> child'[q]]
          BY <4>2
        <5> QED
          BY <2>3, <5>1
      <4> QED
        BY <2>2, <4>1, <4>2
    <3> QED
      BY <2>1, <3>1, <3>2 DEF IInv, TypeOK
  <2>7. Registered' /\ NoOrphan'
    BY <2>1, <2>3, SupervisorAssumption DEF IInv, Registered, NoOrphan, Working
  <2>8. StartOwns'
    BY <2>1, <2>3, <2>5 DEF IInv, StartOwns, Working
  <2> QED
    BY <2>6, <2>7, <2>8 DEF IInv
<1>2. CASE GetPending(c)
  <2>1. /\ call'[c] \in CallRec /\ call'[c].step = "waiting" /\ call' \in [Call -> CallRec]
        /\ \A d \in Call \ {c} : call'[d] = call[d]
        /\ UNCHANGED <<runtimes, starts, child, closed>>
    BY <1>2 DEF GetPending, CallRec, Steps
  <2> QED
    BY <2>1 DEF IInv, TypeOK, Registered, NoOrphan, StartOwns, Working
<1>3. CASE GetStart(c)
  <2> DEFINE w == call[c].ws
  <2>1. w \in Workspace /\ ~Current(w) /\ ~Pending(w) /\ UNCHANGED <<runtimes, child, closed>>
    BY <1>3 DEF GetStart, CallRec
  <2>2. \A p \in Child : Working(p) => child[p].ws # w
    BY <2>1, SupervisorAssumption DEF IInv, NoOrphan, Current, Working, Alive
  <2>3. CASE call' = [call EXCEPT ![c].step = "refused"] /\ UNCHANGED starts
    <3>1. /\ call'[c].step = "refused" /\ call' \in [Call -> CallRec]
          /\ \A d \in Call \ {c} : call'[d] = call[d]
      BY <2>3 DEF CallRec, Steps
    <3> QED
      BY <2>1, <2>3, <3>1 DEF IInv, TypeOK, Registered, NoOrphan, StartOwns, Working
  <2>4. CASE call' = [call EXCEPT ![c].step = "preparing"] /\ starts' = [starts EXCEPT ![w] = c]
    <3>1. /\ call'[c].step = "preparing" /\ call'[c].ws = w /\ call' \in [Call -> CallRec]
          /\ \A d \in Call \ {c} : call'[d] = call[d]
      BY <2>4 DEF CallRec, Steps
    <3>2. starts' \in [Workspace -> Call \cup {NoCall}] /\ starts'[w] = c
          /\ \A v \in Workspace \ {w} : starts'[v] = starts[v]
      BY <2>1, <2>4 DEF IInv, TypeOK
    <3>3. \A d \in Call \ {c} : call[d].step \in {"preparing", "booting"} => call[d].ws # w
      BY <2>1, SupervisorAssumption DEF IInv, StartOwns, Pending
    <3>4. TypeOK' /\ Registered' /\ NoOrphan'
      BY <2>1, <3>1, <3>2 DEF IInv, TypeOK, Registered, NoOrphan, Working
    <3>5. StartOwns'
      BY <2>1, <2>2, <3>1, <3>2, <3>3 DEF IInv, StartOwns, Working, CallRec
    <3> QED
      BY <3>4, <3>5 DEF IInv
  <2> QED
    BY <1>3, <2>3, <2>4 DEF GetStart
<1> QED
  BY <1>1, <1>2, <1>3 DEF Get

(***************************************************************************)
(* When the start of c is over, nobody of its workspace is in a start.     *)
(***************************************************************************)
LEMMA SettleFacts ==
  ASSUME SupervisorAssumption, IInv, NEW c \in Call, NEW step \in {"answered", "failed"},
         NEW p \in Child \cup {NoChild}, call[c].step \in {"preparing", "booting"}, Settle(c, step, p)
  PROVE  /\ call' \in [Call -> CallRec] /\ starts' \in [Workspace -> Call \cup {NoCall}]
         /\ \A d \in Call : /\ call'[d].ws = call[d].ws
                            /\ call'[d].step \in {"preparing", "booting"} =>
                                 /\ call'[d] = call[d] /\ call[d].ws # call[c].ws
                                 /\ starts'[call[d].ws] = starts[call[d].ws]
<1> USE Basics
<1>1. \A d \in Call : call'[d] = IF SettlesFor(c, d) THEN [call[d] EXCEPT !.step = step, !.got = p] ELSE call[d]
  BY DEF Settle
<1>2. \A d \in Call : call'[d] \in CallRec /\ call'[d].ws = call[d].ws
  <2> SUFFICES ASSUME NEW d \in Call PROVE call'[d] \in CallRec /\ call'[d].ws = call[d].ws
      OBVIOUS
  <2>1. step \in Steps /\ call[d] \in CallRec
    BY DEF Steps
  <2>2. CASE call'[d] = [call[d] EXCEPT !.step = step, !.got = p]
    BY <2>1, <2>2 DEF CallRec
  <2>3. CASE call'[d] = call[d]
    BY <2>1, <2>3
  <2> QED
    BY <1>1, <2>2, <2>3
<1>3. call' \in [Call -> CallRec]
  BY <1>2 DEF Settle
<1>4. call[c].ws \in Workspace /\ starts' \in [Workspace -> Call \cup {NoCall}]
  BY DEF Settle, CallRec, IInv, TypeOK
<1>5. ASSUME NEW d \in Call, call'[d].step \in {"preparing", "booting"}
      PROVE  /\ call'[d] = call[d] /\ call[d].ws # call[c].ws
             /\ starts'[call[d].ws] = starts[call[d].ws]
  <2>1. call'[d] = call[d] /\ d # c
    BY <1>1, <1>5 DEF SettlesFor, CallRec
  <2>2. starts[call[d].ws] = d /\ starts[call[c].ws] = c
    BY <1>5, <2>1 DEF IInv, StartOwns
  <2> QED
    BY <1>4, <2>1, <2>2 DEF Settle, CallRec, IInv, TypeOK
<1> QED
  BY <1>2, <1>3, <1>4, <1>5

(***************************************************************************)
(* The steps of a start keep the invariant.                                *)
(***************************************************************************)
LEMMA StartInv ==
  ASSUME SupervisorAssumption, IInv, NEW c \in Call, Start(c)
  PROVE  IInv'
<1> USE Basics
<1>1. CASE PrepareFails(c)
  <2>1. UNCHANGED <<runtimes, child, closed>> /\ Settle(c, "failed", NoChild) /\ call[c].step = "preparing"
    BY <1>1 DEF PrepareFails
  <2> QED
    BY <2>1, SettleFacts DEF IInv, TypeOK, Registered, NoOrphan, StartOwns, Working
<1>2. CASE Ready(c)
  <2> DEFINE p == call[c].got
  <2>1. p \in Child /\ call[c].step = "booting" /\ Settle(c, "answered", p) /\ UNCHANGED <<runtimes, closed>>
    BY <1>2 DEF Ready, IInv, StartOwns
  <2>2. \A q \in Child : /\ child'[q] \in ChildRec /\ child'[q].ws = child[q].ws
                         /\ Working(q)' <=> Working(q)
                         /\ child'[q].phase = "unborn" <=> child[q].phase = "unborn"
    BY <1>2, <2>1 DEF Ready, ChildRec, Phases, Working
  <2>3. child' \in [Child -> ChildRec]
    BY <1>2, <2>2 DEF Ready
  <2> QED
    <3>1. TypeOK'
      BY <2>1, <2>3, SettleFacts DEF IInv, TypeOK
    <3>2. Registered'
      BY <2>1, <2>2, SupervisorAssumption DEF IInv, Registered
    <3>3. NoOrphan'
      BY <2>1, <2>2 DEF IInv, NoOrphan
    <3>4. StartOwns'
      BY <2>1, <2>2, SettleFacts DEF IInv, StartOwns
    <3> QED
      BY <3>1, <3>2, <3>3, <3>4 DEF IInv
<1>3. CASE StartFails(c)
  <2> DEFINE p == call[c].got
             v == call[c].ws
  <2>1. /\ p \in Child /\ v \in Workspace /\ call[c].step = "booting" /\ Settle(c, "failed", NoChild)
        /\ UNCHANGED closed /\ runtimes' = [runtimes EXCEPT ![v] = NoChild]
    BY <1>3 DEF StartFails, IInv, StartOwns, CallRec
  <2>2. \A q \in Child : /\ child'[q] \in ChildRec /\ child'[q].ws = child[q].ws
                         /\ (Working(q)' => Working(q) /\ q # p)
                         /\ child'[q].phase = "unborn" <=> child[q].phase = "unborn"
    BY <1>3, <2>1 DEF StartFails, AfterFailure, Terminated, ChildRec, Phases, Working
  <2>3. child' \in [Child -> ChildRec]
    BY <1>3, <2>2 DEF StartFails
  <2>4. TypeOK'
    BY <2>1, <2>3, SettleFacts DEF IInv, TypeOK
  <2>5. Registered'
    BY <2>1, <2>2, SupervisorAssumption DEF IInv, Registered
  <2>6. NoOrphan'
    <3> SUFFICES ASSUME NEW q \in Child, Working(q)' PROVE runtimes'[child'[q].ws] = q
        BY DEF NoOrphan
    <3>1. child[q].ws # v /\ runtimes[child[q].ws] = q /\ child[q].ws \in Workspace
      BY <2>1, <2>2 DEF IInv, NoOrphan, StartOwns, ChildRec
    <3> QED
      BY <2>1, <2>2, <3>1
  <2>7. StartOwns'
    BY <2>1, <2>2, SettleFacts DEF IInv, StartOwns
  <2> QED
    BY <2>4, <2>5, <2>6, <2>7 DEF IInv
<1>4. CASE \E p \in Child : Spawn(c, p)
  <2> PICK p \in Child : Spawn(c, p)
    BY <1>4
  <2> DEFINE w == call[c].ws
             new == [phase |-> "booting", ws |-> w, slug |-> call[c].slug, idle |-> FALSE]
  <2>1. /\ w \in Workspace /\ call[c].step = "preparing" /\ child[p].phase = "unborn"
        /\ child' = [child EXCEPT ![p] = new] /\ runtimes' = [runtimes EXCEPT ![w] = p]
        /\ UNCHANGED <<starts, closed>> /\ starts[w] = c
    BY DEF Spawn, CallRec, IInv, StartOwns
  <2>2. new \in ChildRec
    BY DEF ChildRec, Phases, CallRec
  <2>3. /\ child' \in [Child -> ChildRec] /\ child'[p] = new
        /\ \A q \in Child \ {p} : child'[q] = child[q]
    BY <2>1, <2>2
  <2>4. /\ call' \in [Call -> CallRec] /\ call'[c].step = "booting" /\ call'[c].got = p /\ call'[c].ws = w
        /\ \A d \in Call \ {c} : call'[d] = call[d]
    BY DEF Spawn, CallRec, Steps
  <2>5. \A q \in Child : Working(q)' => (q = p \/ (Working(q) /\ child[q].ws # w))
    BY <2>1, <2>3 DEF Working, IInv, StartOwns
  <2>6. TypeOK'
    BY <2>1, <2>3, <2>4 DEF IInv, TypeOK
  <2>7. Registered'
    BY <2>1, <2>3, SupervisorAssumption DEF IInv, Registered
  <2>8. NoOrphan'
    BY <2>1, <2>3, <2>5 DEF IInv, NoOrphan, ChildRec
  <2>9. StartOwns'
    <3> SUFFICES ASSUME NEW d \in Call
                 PROVE  /\ call'[d].step \in {"preparing", "booting"} => starts'[call'[d].ws] = d
                        /\ call'[d].step = "preparing" =>
                             \A q \in Child : Working(q)' => child'[q].ws # call'[d].ws
                        /\ call'[d].step = "booting" =>
                             /\ call'[d].got \in Child
                             /\ child'[call'[d].got].phase # "unborn"
                             /\ \A q \in Child : Working(q)' /\ child'[q].ws = call'[d].ws => q = call'[d].got
        BY DEF StartOwns
    <3>1. CASE d = c
      BY <2>1, <2>3, <2>4, <2>5, <3>1
    <3>2. CASE d # c
      <4>1. call'[d] = call[d] /\ (call[d].step \in {"preparing", "booting"} => call[d].ws # w /\ starts[call[d].ws] = d)
        BY <2>1, <2>4, <3>2 DEF IInv, StartOwns
      <4> QED
        BY <2>1, <2>3, <2>5, <4>1 DEF IInv, StartOwns, Working
    <3> QED
      BY <3>1, <3>2
  <2> QED
    BY <2>6, <2>7, <2>8, <2>9 DEF IInv
<1> QED
  BY <1>1, <1>2, <1>3, <1>4 DEF Start

(***************************************************************************)
(* Exits, growing idle and model requests keep the invariant.              *)
(***************************************************************************)
LEMMA ChildInv ==
  ASSUME SupervisorAssumption, IInv, NEW p \in Child,
         \/ Exit(p) \/ SpawnError(p) \/ GrowIdle(p)
         \/ \E w \in Workspace : GetByKey(w) /\ runtimes[w] = p
  PROVE  IInv'
<1> USE Basics
<1>1. /\ child' \in [Child -> ChildRec] /\ UNCHANGED <<starts, call, closed>>
      /\ \A q \in Child : /\ child'[q].ws = child[q].ws
                          /\ Working(q)' => Working(q)
                          /\ child[q].phase # "unborn" => child'[q].phase # "unborn"
  <2>1. UNCHANGED <<starts, call, closed>>
    BY DEF Exit, SpawnError, GrowIdle, GetByKey
  <2>2. \/ child' = [child EXCEPT ![p].phase = "exited"] /\ child[p].phase # "unborn"
        \/ child' = [child EXCEPT ![p].idle = TRUE]
        \/ child' = [child EXCEPT ![p].idle = FALSE]
    <3>1. CASE Exit(p)
      BY <3>1 DEF Exit, Alive
    <3>2. CASE SpawnError(p)
      BY <3>2 DEF SpawnError
    <3>3. CASE GrowIdle(p)
      BY <3>3 DEF GrowIdle
    <3>4. CASE \E w \in Workspace : GetByKey(w) /\ runtimes[w] = p
      BY <3>4 DEF GetByKey
    <3> QED
      BY <3>1, <3>2, <3>3, <3>4
  <2>3. "exited" \in Phases /\ child' = [q \in Child |-> child'[q]]
    BY <2>2 DEF Phases
  <2>4. \A q \in Child : \/ child'[q] = child[q]
                         \/ child'[q] = [child[q] EXCEPT !.phase = "exited"] /\ child[q].phase # "unborn"
                         \/ child'[q] = [child[q] EXCEPT !.idle = TRUE]
                         \/ child'[q] = [child[q] EXCEPT !.idle = FALSE]
    BY <2>2
  <2>5. \A q \in Child : /\ child'[q] \in ChildRec /\ child'[q].ws = child[q].ws
                         /\ child'[q].phase \in {child[q].phase, "exited"}
    <3> SUFFICES ASSUME NEW q \in Child
                 PROVE  /\ child'[q] \in ChildRec /\ child'[q].ws = child[q].ws
                        /\ child'[q].phase \in {child[q].phase, "exited"}
        OBVIOUS
    <3>1. child[q] \in ChildRec
      OBVIOUS
    <3>2. CASE child'[q] = [child[q] EXCEPT !.phase = "exited"]
      BY <2>3, <3>1, <3>2 DEF ChildRec
    <3>3. CASE child'[q] \in {child[q], [child[q] EXCEPT !.idle = TRUE], [child[q] EXCEPT !.idle = FALSE]}
      BY <3>1, <3>3, ChildFields
    <3> QED
      BY <2>4, <3>2, <3>3
  <2>6. child' \in [Child -> ChildRec]
    BY <2>3, <2>5
  <2> QED
    BY <2>1, <2>5, <2>6 DEF Working
<1>2. StartOwns'
  BY <1>1 DEF IInv, StartOwns
<1>3. CASE UNCHANGED runtimes
  BY <1>1, <1>2, <1>3, SupervisorAssumption DEF IInv, TypeOK, Registered, NoOrphan
<1>4. CASE Exit(p)
  <2>1. child[p].ws \in Workspace /\ ~Working(p)'
    BY <1>4 DEF Exit, ChildRec, Working
  <2>2. runtimes' = AfterExit(p)
    BY <1>4 DEF Exit
  <2>3. CASE runtimes[child[p].ws] = p
    <3>1. runtimes' = [runtimes EXCEPT ![child[p].ws] = NoChild]
      BY <2>2, <2>3 DEF AfterExit
    <3>2. TypeOK' /\ Registered'
      BY <1>1, <2>1, <3>1, SupervisorAssumption DEF IInv, TypeOK, Registered
    <3>3. NoOrphan'
      <4> SUFFICES ASSUME NEW q \in Child, Working(q)' PROVE runtimes'[child'[q].ws] = q
          BY DEF NoOrphan
      <4>1. q # p /\ runtimes[child[q].ws] = q /\ child'[q].ws = child[q].ws /\ child[q].ws \in Workspace
        BY <1>1, <2>1 DEF IInv, NoOrphan, ChildRec
      <4> QED
        BY <2>1, <2>3, <3>1, <4>1
    <3> QED
      BY <1>2, <3>2, <3>3 DEF IInv
  <2> QED
    BY <1>3, <2>2, <2>3 DEF AfterExit
<1> QED
  BY <1>3, <1>4 DEF SpawnError, GrowIdle, GetByKey

(***************************************************************************)
(* Every step keeps the invariant.                                         *)
(***************************************************************************)
LEMMA NextInv == SupervisorAssumption /\ IInv /\ [Next]_vars => IInv'
<1> SUFFICES ASSUME SupervisorAssumption, IInv, [Next]_vars PROVE IInv'
    OBVIOUS
<1>1. CASE \E c \in Call : Get(c) \/ Start(c)
  BY <1>1, GetInv, StartInv
<1>2. CASE \E p \in Child : Exit(p) \/ SpawnError(p) \/ GrowIdle(p)
  BY <1>2, ChildInv
<1>3. CASE \E w \in Workspace : GetByKey(w)
  <2> PICK w \in Workspace : GetByKey(w)
    BY <1>3
  <2>1. runtimes[w] \in Child
    BY Basics DEF GetByKey, Current
  <2> QED
    BY <2>1, ChildInv
<1>4. CASE CollectIdle
  <2> DEFINE gone == {w \in Workspace : Collectable(w)}
  <2>1. gone \in SUBSET Workspace /\ closed' \in BOOLEAN /\ UNCHANGED <<starts, call>>
    BY <1>4 DEF CollectIdle, IInv, TypeOK
  <2>2. /\ runtimes' = [w \in Workspace |-> IF w \in gone THEN NoChild ELSE runtimes[w]]
        /\ child' = [p \in Child |-> IF \E w \in gone : runtimes[w] = p THEN Terminated(p) ELSE child[p]]
    BY <1>4 DEF CollectIdle
  <2> HIDE DEF gone
  <2> QED
    BY <2>1, <2>2, StopInv
<1>5. CASE Close
  <2>1. /\ runtimes' = [w \in Workspace |-> IF w \in Workspace THEN NoChild ELSE runtimes[w]]
        /\ child' = [p \in Child |-> IF \E w \in Workspace : runtimes[w] = p THEN Terminated(p) ELSE child[p]]
        /\ closed' \in BOOLEAN /\ UNCHANGED <<starts, call>>
    BY <1>5 DEF Close
  <2> QED
    BY <2>1, StopInv
<1>6. CASE UNCHANGED vars
  BY <1>6 DEF vars, IInv, TypeOK, Registered, NoOrphan, StartOwns, Working
<1> QED
  BY <1>1, <1>2, <1>3, <1>4, <1>5, <1>6 DEF Next

(***************************************************************************)
(* The invariant holds in every reachable state.                           *)
(***************************************************************************)
LEMMA Invariance == Spec => []IInv
<1>1. Init => IInv
  <2> SUFFICES ASSUME Init PROVE IInv
      OBVIOUS
  <2>1. (CHOOSE w \in Workspace : TRUE) \in Workspace /\ (CHOOSE s \in Slug : TRUE) \in Slug
    BY SupervisorAssumption
  <2>2. child \in [Child -> ChildRec] /\ \A p \in Child : ~Working(p)
    BY <2>1 DEF Init, ChildRec, Phases, Working
  <2>3. call \in [Call -> CallRec] /\ \A c \in Call : call[c].step = "new"
    BY DEF Init, CallRec, Steps
  <2> QED
    BY <2>2, <2>3 DEF Init, IInv, TypeOK, Registered, NoOrphan, StartOwns
<1> QED
  BY <1>1, NextInv, SupervisorAssumption, PTL DEF Spec

(***************************************************************************)
(* The supervisor's maps, children and requests keep their types.          *)
(***************************************************************************)
THEOREM TypeCorrect == Spec => []TypeOK
BY Invariance, PTL DEF IInv

(***************************************************************************)
(* Every child that was not told to stop is the registered runtime of its  *)
(* workspace.                                                              *)
(***************************************************************************)
THEOREM NoOrphanHolds == Spec => []NoOrphan
BY Invariance, PTL DEF IInv

(***************************************************************************)
(* A workspace never has two working children.                             *)
(***************************************************************************)
THEOREM OneWorkingChildHolds == Spec => []OneWorkingChild
<1>1. IInv => OneWorkingChild
  BY DEF IInv, NoOrphan, OneWorkingChild
<1> QED
  BY <1>1, Invariance, PTL

-----------------------------------------------------------------------------
(***************************************************************************)
(* Unless the supervisor is closed, nobody has stopped the child of a      *)
(* start that is still waiting for it.                                     *)
(***************************************************************************)
BootingUnharmed == ~closed => \A c \in Call : call[c].step = "booting" =>
  child[call[c].got].phase # "killed" /\ child[call[c].got].ws = call[c].ws

\* A start in progress loses its child to nothing but its own end, its exit and close.
LEMMA UnharmedStep ==
  ASSUME IInv, BootingUnharmed, [Next]_vars
  PROVE  BootingUnharmed'
<1> SUFFICES ASSUME ~closed', NEW d \in Call, call'[d].step = "booting"
             PROVE  child'[call'[d].got].phase # "killed" /\ child'[call'[d].got].ws = call'[d].ws
    BY DEF BootingUnharmed
<1>0. /\ child \in [Child -> ChildRec] /\ call \in [Call -> CallRec]
      /\ runtimes \in [Workspace -> Child \cup {NoChild}]
      /\ starts \in [Workspace -> Call \cup {NoCall}]
      /\ NoChild \notin Child /\ NoCall \notin Call
  BY SupervisorAssumption DEF IInv, TypeOK
<1>1. ~closed
  BY DEF Next, Get, GetActive, GetPending, GetStart, Start, PrepareFails, Ready, StartFails, Spawn,
         Exit, SpawnError, GrowIdle, GetByKey, CollectIdle, Close, vars
<1>2. call[d].step = "booting" =>
        /\ call[d].got \in Child /\ child[call[d].got].phase # "killed"
        /\ child[call[d].got].ws = call[d].ws /\ starts[call[d].ws] = d
  BY <1>1 DEF BootingUnharmed, IInv, StartOwns
<1>3. CASE call' = call /\ \A p \in Child : child'[p].ws = child[p].ws /\
                             (child'[p].phase = "killed" => child[p].phase = "killed")
  BY <1>2, <1>3
<1>4. ASSUME NEW c \in Call, GetActive(c) \/ GetPending(c) \/ GetStart(c)
      PROVE  call'[d] = call[d] /\ \A p \in Child : child'[p].ws = child[p].ws /\
                             (child'[p].phase = "killed" => child[p].phase = "killed")
  <2>1. \A p \in Child : child'[p].ws = child[p].ws /\ child'[p].phase = child[p].phase
    BY <1>0, <1>4 DEF GetActive, GetPending, GetStart, ChildRec
  <2>2. \A e \in Call : e # c => call'[e] = call[e]
    BY <1>0, <1>4 DEF GetActive, GetPending, GetStart
  <2>3. call'[c].step # "booting"
    <3>1. call[c] \in CallRec /\ call[c].step = "new" /\ DOMAIN call = Call
      BY <1>0, <1>4 DEF GetActive, GetPending, GetStart
    <3>2. \/ call' = [call EXCEPT ![c] = Answer(c, runtimes[call[c].ws])]
          \/ \E step \in {"refused", "waiting", "preparing"} : call' = [call EXCEPT ![c].step = step]
      BY <1>4 DEF GetActive, GetPending, GetStart
    <3>3. CASE call' = [call EXCEPT ![c] = Answer(c, runtimes[call[c].ws])]
      BY <3>1, <3>3 DEF Answer, CallRec
    <3>4. ASSUME NEW step \in {"refused", "waiting", "preparing"}, call' = [call EXCEPT ![c].step = step]
          PROVE  call'[c].step # "booting"
      BY <3>1, <3>4 DEF CallRec
    <3> QED
      BY <3>2, <3>3, <3>4
  <2> QED
    BY <2>1, <2>2, <2>3
<1>5. ASSUME NEW c \in Call, NEW p \in Child, Spawn(c, p)
      PROVE  child'[call'[d].got].phase # "killed" /\ child'[call'[d].got].ws = call'[d].ws
  <2>1. /\ child'[p].phase = "booting" /\ child'[p].ws = call[c].ws
        /\ \A q \in Child : q # p => child'[q] = child[q]
        /\ child[p].phase = "unborn"
    BY <1>0, <1>5 DEF Spawn, ChildRec
  <2>2. /\ call'[c].got = p /\ call'[c].ws = call[c].ws
        /\ \A e \in Call : e # c => call'[e] = call[e]
    BY <1>0, <1>5 DEF Spawn, CallRec
  <2>3. CASE d = c
    BY <2>1, <2>2, <2>3
  <2>4. CASE d # c
    <3>1. call[d].step = "booting" /\ child[call[d].got].phase # "unborn"
      BY <2>2, <2>4 DEF IInv, StartOwns
    <3> QED
      BY <1>2, <2>1, <2>2, <2>4, <3>1
  <2> QED
    BY <2>3, <2>4
<1>6. ASSUME NEW c \in Call, PrepareFails(c) \/ Ready(c) \/ StartFails(c)
      PROVE  child'[call'[d].got].phase # "killed" /\ child'[call'[d].got].ws = call'[d].ws
  <2>1. ~SettlesFor(c, d) /\ call'[d] = call[d]
    <3>1. PICK step \in {"answered", "failed"}, p \in Child \cup {NoChild} : Settle(c, step, p)
      BY <1>1, <1>6 DEF PrepareFails, Ready, StartFails, BootingUnharmed, IInv, StartOwns
    <3>2. call'[d] = IF SettlesFor(c, d) THEN [call[d] EXCEPT !.step = step, !.got = p] ELSE call[d]
      BY <3>1 DEF Settle
    <3>3. call[d] \in CallRec
      BY <1>0
    <3>4. [call[d] EXCEPT !.step = step, !.got = p].step = step
      BY <3>3 DEF CallRec
    <3> QED
      BY <3>2, <3>4
  <2>2. d # c /\ call[d].step = "booting" /\ call'[d] = call[d]
    BY <2>1 DEF SettlesFor
  <2>3. \A p \in Child : child'[p].ws = child[p].ws
    BY <1>0, <1>6 DEF PrepareFails, Ready, StartFails, AfterFailure, Terminated, ChildRec
  <2>4. CASE PrepareFails(c)
    BY <1>2, <2>2, <2>4 DEF PrepareFails
  <2>5. CASE Ready(c) \/ StartFails(c)
    <3>1. /\ call[c].step = "booting" /\ call[c].got \in Child
          /\ child[call[c].got].ws = call[c].ws /\ starts[call[c].ws] = c
      BY <1>1, <2>5 DEF Ready, StartFails, BootingUnharmed, IInv, StartOwns
    <3>2. call[d].got # call[c].got
      BY <1>2, <2>2, <3>1
    <3>3. \A p \in Child : p # call[c].got => child'[p] = child[p]
      BY <1>0, <2>5 DEF Ready, StartFails
    <3> QED
      BY <1>2, <2>2, <3>2, <3>3
  <2> QED
    BY <1>6, <2>4, <2>5
<1>7. ASSUME CollectIdle
      PROVE  child'[call'[d].got].phase # "killed" /\ child'[call'[d].got].ws = call'[d].ws
  <2>1. call' = call /\ call[d].step = "booting" /\ call[d].got \in Child
    BY <1>2, <1>7 DEF CollectIdle
  <2>2. \A w \in Workspace : Collectable(w) => runtimes[w] # call[d].got
    <3> SUFFICES ASSUME NEW w \in Workspace, Collectable(w), runtimes[w] = call[d].got PROVE FALSE
        OBVIOUS
    <3>1. child[runtimes[w]].ws = w
      BY <1>0, <2>1 DEF IInv, Registered
    <3> QED
      BY <1>0, <1>2, <2>1, <3>1 DEF Collectable
  <2>3. child'[call[d].got] = child[call[d].got]
    BY <1>0, <1>7, <2>1, <2>2 DEF CollectIdle
  <2> QED
    BY <1>2, <2>1, <2>3
<1>8. ASSUME NEW p \in Child, Exit(p) \/ SpawnError(p) \/ GrowIdle(p)
      PROVE  call' = call /\ \A q \in Child : child'[q].ws = child[q].ws /\
                             (child'[q].phase = "killed" => child[q].phase = "killed")
  BY <1>0, <1>8 DEF Exit, SpawnError, GrowIdle, ChildRec
<1>9. ASSUME NEW w \in Workspace, GetByKey(w)
      PROVE  call' = call /\ \A q \in Child : child'[q].ws = child[q].ws /\
                             (child'[q].phase = "killed" => child[q].phase = "killed")
  BY <1>0, <1>9 DEF GetByKey, ChildRec, Current
<1>10. CASE UNCHANGED vars
  BY <1>2, <1>10 DEF vars
<1>11. ~Close
  BY <1>1 DEF Close
<1>12. ASSUME call'[d] = call[d], \A p \in Child : child'[p].ws = child[p].ws /\
                             (child'[p].phase = "killed" => child[p].phase = "killed")
       PROVE child'[call'[d].got].phase # "killed" /\ child'[call'[d].got].ws = call'[d].ws
  BY <1>2, <1>12
<1> QED
  BY <1>4, <1>5, <1>6, <1>7, <1>8, <1>9, <1>10, <1>11, <1>12 DEF Next, Get, Start

(***************************************************************************)
(* Whoever started a runtime or waited for one is answered with a child    *)
(* that was accepting connections and that nobody had stopped (get, start, *)
(* collectIdle).                                                           *)
(***************************************************************************)
THEOREM StartsAnswerServingHolds == Spec => StartsAnswerServing
<1>1. Init => BootingUnharmed
  BY DEF Init, BootingUnharmed
<1>2. IInv /\ BootingUnharmed /\ [Next]_vars =>
        [\A c \in Call : call[c].step \in {"booting", "waiting"} /\ call'[c].step = "answered" /\ ~closed
           => child'[call'[c].got].phase = "serving"]_vars
  <2> SUFFICES ASSUME IInv, BootingUnharmed, Next, ~closed,
                      NEW c \in Call, call[c].step \in {"booting", "waiting"},
                      call'[c].step = "answered"
               PROVE  child'[call'[c].got].phase = "serving"
      BY DEF vars
  <2>0. call \in [Call -> CallRec] /\ child \in [Child -> ChildRec]
    BY DEF IInv, TypeOK
  <2>1. PICK d \in Call : Ready(d) /\ call'[c].got = call[d].got
    <3>1. ASSUME NEW d \in Call, Get(d) PROVE call'[c] = call[c]
      BY <2>0, <3>1 DEF Get, GetActive, GetPending, GetStart
    <3>2. ASSUME NEW d \in Call, NEW p \in Child, Spawn(d, p) PROVE call'[c].step # "answered"
      BY <2>0, <3>2 DEF Spawn, CallRec
    <3>3. ASSUME NEW d \in Call, NEW step \in {"answered", "failed"},
                 NEW p \in Child \cup {NoChild}, Settle(d, step, p)
          PROVE  step = "answered" /\ call'[c].got = p
      <4>1. call[c] \in CallRec /\ call[c].step # "answered"
        BY <2>0
      <4>2. call'[c] = IF SettlesFor(d, c) THEN [call[c] EXCEPT !.step = step, !.got = p] ELSE call[c]
        BY <3>3 DEF Settle
      <4>3. [call[c] EXCEPT !.step = step, !.got = p].step = step
        BY <4>1 DEF CallRec
      <4>4. [call[c] EXCEPT !.step = step, !.got = p].got = p
        BY <4>1 DEF CallRec
      <4> QED
        BY <4>1, <4>2, <4>3, <4>4
    <3>4. ASSUME NEW d \in Call, PrepareFails(d) \/ StartFails(d) PROVE FALSE
      BY <3>3, <3>4 DEF PrepareFails, StartFails
    <3>5. ASSUME NEW d \in Call, Ready(d) PROVE call'[c].got = call[d].got
      <4>1. call[d].got \in Child
        BY <3>5 DEF Ready, IInv, StartOwns
      <4> QED
        BY <3>3, <3>5, <4>1 DEF Ready
    <3> QED
      BY <3>1, <3>2, <3>4, <3>5
      DEF Next, Start, Exit, SpawnError, GrowIdle, GetByKey, CollectIdle, Close
  <2>2. call[d].got \in Child /\ child[call[d].got].phase = "booting"
    BY <2>1 DEF Ready, BootingUnharmed, IInv, StartOwns
  <2> QED
    BY <2>0, <2>1, <2>2 DEF Ready, ChildRec
<1> QED
  BY <1>1, <1>2, UnharmedStep, Invariance, PTL DEF Spec, StartsAnswerServing

-----------------------------------------------------------------------------
(***************************************************************************)
(* The circuit breaker in front of a model, which the gateway keeps beside *)
(* its children (CircuitBreaker): no probe slot leaks, for any number of   *)
(* operations and any configuration.                                       *)
(***************************************************************************)
\* A failure counts once, and its operation is over.
FailuresOver ==
  /\ \A f \in failures : op[f.of] = "done"
  /\ \A f, g \in failures : f.of = g.of => f = g

BreakerInv == BreakerTypeOK /\ NoSlotLeaks /\ FailuresOver

(***************************************************************************)
(* The probes in flight are finitely many, and grow and shrink by one.     *)
(***************************************************************************)
LEMMA ProbingFinite ==
  IsFiniteSet(Probing) /\ Cardinality(Probing) \in Nat
<1>1. Probing \subseteq Op /\ IsFiniteSet(Op)
  BY BreakerAssumption DEF Probing
<1> QED
  BY <1>1, FS_Subset, FS_CardinalityType

\* A probe that is admitted adds one.
LEMMA ProbeStarts ==
  ASSUME BreakerTypeOK, NEW o \in Op, op[o] = "new",
         op' = [op EXCEPT ![o] = "half_open"]
  PROVE  Cardinality(Probing') = Cardinality(Probing) + 1
<1>1. Probing' = Probing \cup {o} /\ o \notin Probing
  BY DEF Probing, BreakerTypeOK, Admissions
<1> QED
  BY <1>1, ProbingFinite, FS_AddElement

\* A probe that ends takes one away.
LEMMA OperationEnds ==
  ASSUME BreakerTypeOK, NEW o \in Op, End(o)
  PROVE  Cardinality(Probing') = IF op[o] = "half_open"
                                         THEN Cardinality(Probing) - 1
                                         ELSE Cardinality(Probing)
<1>1. CASE op[o] = "half_open"
  <2>1. Probing' = Probing \ {o} /\ o \in Probing
    BY <1>1 DEF Probing, BreakerTypeOK, Admissions, End
  <2> QED
    BY <1>1, <2>1, ProbingFinite, FS_RemoveElement
<1>2. CASE op[o] # "half_open"
  <2>1. Probing' = Probing
    BY <1>2 DEF Probing, BreakerTypeOK, Admissions, End
  <2> QED
    BY <1>2, <2>1
<1> QED
  BY <1>1, <1>2

(***************************************************************************)
(* Every step of the breaker keeps the types.                              *)
(***************************************************************************)
LEMMA BreakerTypeStep ==
  ASSUME BreakerTypeOK, [BreakerNext]_breakerVars
  PROVE  BreakerTypeOK'
<1> USE DEF BreakerTypeOK
<1>1. CASE Tick \/ UNCHANGED breakerVars
  <2>1. now' \in Nat /\ UNCHANGED <<state, failures, openedAt, probes, op>>
    BY <1>1 DEF Tick, breakerVars
  <2> QED
    BY <2>1
<1>2. ASSUME NEW o \in Op, AdmitClosed(o) PROVE BreakerTypeOK'
  BY <1>2 DEF AdmitClosed, Admissions
<1>3. ASSUME NEW o \in Op, AdmitProbe(o) PROVE BreakerTypeOK'
  BY <1>3, BreakerAssumption DEF AdmitProbe, Room, Admissions, States
<1>4. ASSUME NEW o \in Op, Succeed(o) PROVE BreakerTypeOK'
  BY <1>4, BreakerAssumption DEF Succeed, Forgotten, End, Admissions, States
<1>5. ASSUME NEW o \in Op, FailOther(o) PROVE BreakerTypeOK'
  BY <1>5, BreakerAssumption DEF FailOther, End, SlotAfter, Admissions
<1>6. ASSUME NEW o \in Op, FailProbe(o) PROVE BreakerTypeOK'
  BY <1>6, BreakerAssumption DEF FailProbe, End, Admissions, States
<1>7. ASSUME NEW o \in Op, FailClosed(o) PROVE BreakerTypeOK'
  <2>1. /\ End(o) /\ UNCHANGED <<probes, now>>
        /\ state' \in States /\ openedAt' \in Nat
        /\ failures' \subseteq Failure
    BY <1>7 DEF FailClosed, States, Recent, Failure
  <2> QED
    BY <2>1 DEF End, Admissions
<1> QED
  BY <1>1, <1>2, <1>3, <1>4, <1>5, <1>6, <1>7 DEF BreakerNext, Finish

(***************************************************************************)
(* Every step keeps the slots backed by running probes.                    *)
(***************************************************************************)
LEMMA SlotStep ==
  ASSUME BreakerTypeOK, NoSlotLeaks,
         [BreakerNext]_breakerVars
  PROVE  NoSlotLeaks'
<1> SUFFICES ASSUME state' = "half_open" PROVE probes' <= Cardinality(Probing')
    BY DEF NoSlotLeaks
<1>0. Cardinality(Probing) \in Nat /\ probes \in Nat
  BY ProbingFinite DEF BreakerTypeOK
<1>5. state = "half_open" => probes <= Cardinality(Probing)
  BY DEF NoSlotLeaks
<1>1. CASE Tick \/ UNCHANGED breakerVars
  <2>1. Probing' = Probing /\ probes' = probes /\ state' = state
    BY <1>1 DEF Tick, breakerVars, Probing
  <2> QED
    BY <1>5, <2>1
<1>2. ASSUME NEW o \in Op, AdmitClosed(o) PROVE FALSE
  BY <1>2 DEF AdmitClosed
<1>3. ASSUME NEW o \in Op, AdmitProbe(o) PROVE probes' <= Cardinality(Probing')
  <2>1. Cardinality(Probing') = Cardinality(Probing) + 1
    BY <1>3, ProbeStarts DEF AdmitProbe
  <2> QED
    BY <1>0, <1>3, <1>5, <2>1 DEF AdmitProbe
<1>4. ASSUME NEW o \in Op, Finish(o) PROVE probes' <= Cardinality(Probing')
  <2>1. End(o) /\ (op[o] = "closed" \/ op[o] = "half_open")
    BY <1>4 DEF Finish, Succeed, FailOther, FailProbe,
                FailClosed, InFlight
  <2>2. Cardinality(Probing') = IF op[o] = "half_open"
                                        THEN Cardinality(Probing) - 1
                                        ELSE Cardinality(Probing)
    BY <2>1, OperationEnds
  <2>3. CASE Succeed(o)
    BY <1>0, <1>5, <2>1, <2>2, <2>3 DEF Succeed
  <2>4. CASE FailOther(o)
    <3>1. state = "half_open" /\ probes <= Cardinality(Probing) /\ probes' = SlotAfter(o)
      BY <1>5, <2>4 DEF FailOther
    <3>2. CASE op[o] = "half_open"
      <4>1. o \in Probing
        BY <3>2 DEF Probing
      <4>2. Cardinality(Probing) >= 1
        BY <1>0, <4>1, ProbingFinite, FS_EmptySet
      <4> QED
        BY <1>0, <2>2, <3>1, <3>2, <4>2 DEF SlotAfter
    <3> QED
      BY <1>0, <2>2, <3>1, <3>2 DEF SlotAfter
  <2>5. CASE FailProbe(o)
    BY <2>5 DEF FailProbe
  <2>6. CASE FailClosed(o)
    BY <2>6 DEF FailClosed
  <2> QED
    BY <1>4, <2>3, <2>4, <2>5, <2>6 DEF Finish
<1> QED
  BY <1>1, <1>2, <1>3, <1>4 DEF BreakerNext

(***************************************************************************)
(* No operation fails twice: it is over once it has.                       *)
(***************************************************************************)
LEMMA FailuresStep ==
  ASSUME BreakerTypeOK, FailuresOver, [BreakerNext]_breakerVars
  PROVE  FailuresOver'
<1> USE DEF FailuresOver
<1>0. op \in [Op -> Admissions] /\ failures \subseteq Failure
  BY DEF BreakerTypeOK
<1>1. CASE Tick \/ UNCHANGED breakerVars
  BY <1>1 DEF Tick, breakerVars
<1>2. ASSUME NEW o \in Op, AdmitClosed(o) \/ AdmitProbe(o) PROVE FailuresOver'
  <2>1. \E a \in Admissions : op[o] = "new" /\ op' = [op EXCEPT ![o] = a] /\ failures' = failures
    BY <1>2 DEF AdmitClosed, AdmitProbe, Admissions
  <2> QED
    BY <1>0, <2>1 DEF Failure
<1>3. ASSUME NEW o \in Op, Finish(o) PROVE FailuresOver'
  <2>1. op[o] # "done" /\ op' = [op EXCEPT ![o] = "done"]
    BY <1>3 DEF Finish, Succeed, FailOther, FailProbe, FailClosed, InFlight, End
  <2>2. failures' \subseteq failures \cup {[of |-> o, at |-> now]}
    BY <1>3 DEF Finish, Succeed, Forgotten, FailOther, FailProbe, FailClosed, Recent
  <2> QED
    BY <1>0, <2>1, <2>2 DEF Failure
<1> QED
  BY <1>1, <1>2, <1>3 DEF BreakerNext

(***************************************************************************)
(* The invariant holds in every reachable state.                           *)
(***************************************************************************)
LEMMA BreakerInvariance ==
  BreakerSpec => []BreakerInv
<1>1. BreakerInit => BreakerInv
  BY BreakerAssumption DEF BreakerInit, BreakerInv, BreakerTypeOK,
         NoSlotLeaks, FailuresOver, States, Admissions
<1>2. BreakerInv /\ [BreakerNext]_breakerVars => BreakerInv'
  BY BreakerTypeStep, SlotStep, FailuresStep DEF BreakerInv
<1> QED
  BY <1>1, <1>2, PTL DEF BreakerSpec

(***************************************************************************)
(* The breaker's fields, the clock and the operations keep their types.    *)
(***************************************************************************)
THEOREM BreakerTypeCorrect ==
  BreakerSpec => []BreakerTypeOK
<1>1. BreakerInv => BreakerTypeOK
  BY DEF BreakerInv
<1> QED
  BY <1>1, BreakerInvariance, PTL

(***************************************************************************)
(* In a half-open period every slot in use belongs to a running probe      *)
(* (admit, succeed, fail).                                                 *)
(***************************************************************************)
THEOREM NoSlotLeaksHolds ==
  BreakerSpec => []NoSlotLeaks
<1>1. BreakerInv => NoSlotLeaks
  BY DEF BreakerInv
<1> QED
  BY <1>1, BreakerInvariance, PTL

-----------------------------------------------------------------------------
\* The failures kept are as many as the operations they are of.
LEMMA AsManyOperations ==
  ASSUME NEW kept, kept \subseteq Failure,
         \A f, g \in kept : f.of = g.of => f = g
  PROVE  Cardinality({f.of : f \in kept}) = Cardinality(kept)
<1> DEFINE ops == {f.of : f \in kept}
           of == [f \in kept |-> f.of]
<1>1. IsFiniteSet(ops)
  <2>1. ops \subseteq Op
    BY DEF Failure
  <2> QED
    BY <2>1, BreakerAssumption, FS_Subset
<1>2. of \in Injection(kept, ops)
  BY DEF Injection, IsInjective
<1>3. of \in Surjection(kept, ops)
  BY DEF Surjection
<1> QED
  BY <1>1, <1>2, <1>3, FS_Injection

(***************************************************************************)
(* A closed breaker opens only after FailureThreshold operations failed    *)
(* inside one window, or when a late probe fails (fail).                   *)
(***************************************************************************)
THEOREM OpensOnEvidenceHolds ==
  BreakerSpec => OpensOnEvidence
<1> DEFINE Evidence == state = "closed" /\ state' = "open" =>
       \/ \E o \in Probing : op'[o] = "done"
       \/ Cardinality({f.of : f \in {g \in failures' : g.at >= now - Window}})
            >= FailureThreshold
<1>1. BreakerInv /\ BreakerInv' /\ [BreakerNext]_breakerVars => [Evidence]_breakerVars
  <2> SUFFICES ASSUME BreakerInv, BreakerInv', [BreakerNext]_breakerVars,
                      state = "closed", state' = "open"
               PROVE  Evidence
    OBVIOUS
  <2>1. PICK o \in Op : FailProbe(o) \/ FailClosed(o)
    BY DEF BreakerNext, breakerVars, Tick, AdmitClosed, AdmitProbe, Finish, Succeed, FailOther
  <2>2. CASE FailProbe(o)
    <3>1. o \in Probing /\ op'[o] = "done"
      BY <2>2 DEF FailProbe, End, Probing, BreakerInv, BreakerTypeOK
    <3> QED
      BY <3>1
  <2>3. CASE FailClosed(o)
    <3>1. Cardinality(failures') >= FailureThreshold
      BY <2>3 DEF FailClosed
    <3>2. \A g \in failures' : g.at >= now - Window
      BY <2>3, BreakerAssumption DEF FailClosed, Recent, BreakerInv, BreakerTypeOK
    <3>3. {g \in failures' : g.at >= now - Window} = failures'
      BY <3>2
    <3>4. Cardinality({f.of : f \in failures'}) = Cardinality(failures')
      BY AsManyOperations DEF BreakerInv, BreakerTypeOK, FailuresOver
    <3> QED
      BY <3>1, <3>3, <3>4
  <2> QED
    BY <2>1, <2>2, <2>3
<1> QED
  BY <1>1, BreakerInvariance, PTL DEF BreakerSpec, OpensOnEvidence
=============================================================================
