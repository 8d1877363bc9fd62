---------------------------- MODULE AdmissionGate ----------------------------
(***************************************************************************)
(* The builder engine's gate in front of its actors (core/src/distributed  *)
(* _machines/keyed_admission_gate.ts): work carries the generation it was  *)
(* authorised under, and a fence, put up before an app is deleted, makes   *)
(* that generation stale, lets declared cleanup finish, seals, and opens   *)
(* a new generation when the deletion is over or has failed.               *)
(***************************************************************************)
EXTENDS Naturals

CONSTANTS
  Key,                \* the fenced entities of one machine
  Work,               \* events, constructions and external jobs, each admitted once
  Declared,           \* the work whose event allowDuringDrain lets through
  MaxGeneration       \* no fence is begun beyond this many generations

ASSUME GateAssumption == Declared \subseteq Work /\ MaxGeneration \in Nat

VARIABLES
  entry,              \* the entry of every key, with its fence
  work,               \* what has been authorised, and how far it has come
  next,               \* nextGeneration
  disposed,           \* dispose was called
  lastSealed          \* history: the generation of the last fence sealed

vars == <<entry, work, next, disposed, lastSealed>>

\* The generation of every key that has no entry.
Default == 1

\* tracked: what the fence waits for. awaited: what of it the running seal has
\* looked at and is still waiting for. previous: the generation fenced off.
Entry == [generation : Nat, phase : {"open", "draining", "sealed", "committed"},
          previous : Nat, tracked : SUBSET Work, sealing : BOOLEAN, awaited : SUBSET Work]

\* captured: holds a generation. settled: its promise is, its cleanup is not run.
Item == [status : {"new", "captured", "running", "settled", "done"},
         key : Key, generation : Nat]

TypeOK ==
  /\ entry \in [Key -> Entry]
  /\ work \in [Work -> Item]
  /\ next \in Nat
  /\ disposed \in BOOLEAN
  /\ lastSealed \in [Key -> Nat]

Init ==
  /\ entry = [k \in Key |-> [generation |-> Default, phase |-> "open", previous |-> Default,
                             tracked |-> {}, sealing |-> FALSE, awaited |-> {}]]
  /\ work \in [Work -> {[status |-> "new", key |-> k, generation |-> Default] : k \in Key}]
  /\ next = Default + 1
  /\ disposed = FALSE
  /\ lastSealed = [k \in Key |-> 0]

Fenced(k) == entry[k].phase # "open"

\* entry.active: admitted on k, with its cleanup still to come.
Active(k) == {w \in Work : work[w].key = k /\ work[w].status \in {"running", "settled"}}

Current(w) == work[w].generation = entry[work[w].key].generation

\* Authorised under the generation fenced off, while the fence still drains.
Draining(w) ==
  LET e == entry[work[w].key]
  IN e.phase = "draining" /\ work[w].generation = e.previous

-----------------------------------------------------------------------------
\* captureGeneration, before whatever the caller has to await.
Capture(w, k) ==
  /\ ~disposed /\ work[w].status = "new"
  /\ work' = [work EXCEPT ![w] = [status |-> "captured", key |-> k,
                                  generation |-> entry[k].generation]]
  /\ UNCHANGED <<entry, next, disposed, lastSealed>>

\* trackCaptured: the work starts, and a fence that is up waits for it.
Enrol(w) ==
  LET k == work[w].key
  IN /\ ~disposed /\ work[w].status = "captured"
     /\ Current(w) \/ Draining(w)
     /\ entry[k].phase \in {"open", "draining"}
     /\ work' = [work EXCEPT ![w].status = "running"]
     /\ entry' = [entry EXCEPT ![k].tracked = IF Fenced(k) THEN @ \cup {w} ELSE @]
     /\ UNCHANGED <<next, disposed, lastSealed>>

\* An event, sent through a captured sink or straight to the actor
\* (assertCapturedDispatchAllowed, assertDispatchAllowed, then trackCaptured).
Dispatch(w) ==
  /\ Fenced(work[w].key) => w \in Declared
  /\ Enrol(w)

\* An actor's construction (assertCreateAllowed, then trackCaptured).
Create(w) ==
  /\ ~Fenced(work[w].key)
  /\ Enrol(w)

Settle(w) ==
  /\ work[w].status = "running"
  /\ work' = [work EXCEPT ![w].status = "settled"]
  /\ UNCHANGED <<entry, next, disposed, lastSealed>>

\* Variant: only the fence that was up when the work began forgets it.
OwnFence(k, w) == IF Current(w) THEN entry[k].tracked \ {w} ELSE entry[k].tracked

Untracked(k, w) == entry[k].tracked \ {w}

\* Variant: every idle entry is dropped, whatever generation it has reached.
Dropped(k, w) ==
  IF Active(k) = {w} /\ ~Fenced(k) THEN Default ELSE entry[k].generation

\* An idle entry is dropped, and its key has the default generation again, only
\* if it never had another.
Kept(k, w) ==
  IF Active(k) = {w} /\ ~Fenced(k) /\ entry[k].generation = Default
  THEN Default ELSE entry[k].generation

\* The callback behind the settled promise; it runs before a seal that awaits
\* the same promise resumes.
Cleanup(w) ==
  LET k == work[w].key
  IN /\ work[w].status = "settled"
     /\ work' = [work EXCEPT ![w].status = "done"]
     /\ entry' = [entry EXCEPT ![k].tracked = Untracked(k, w), ![k].awaited = @ \ {w},
                               ![k].generation = Kept(k, w)]
     /\ UNCHANGED <<next, disposed, lastSealed>>

-----------------------------------------------------------------------------
\* Variant: a second fence replaces the first.
AnyTime(k) == TRUE

Unfenced(k) == ~Fenced(k)

BeginFence(k) ==
  /\ ~disposed /\ Unfenced(k) /\ next <= MaxGeneration
  /\ entry' = [entry EXCEPT ![k] = [generation |-> next, phase |-> "draining",
                                    previous |-> @.generation, tracked |-> Active(k),
                                    sealing |-> FALSE, awaited |-> {}]]
  /\ next' = next + 1
  /\ UNCHANGED <<work, disposed, lastSealed>>

\* Variant: what was enrolled while the seal waited is not waited for.
OneRound(k) == entry[k].sealing \/ entry[k].tracked = {}

Quiet(k) == entry[k].tracked = {}

\* One turn of the loop in finishSeal: seal, or wait for what is tracked now.
SealRound(k) ==
  /\ entry' = [entry EXCEPT ![k].phase = IF Quiet(k) THEN "sealed" ELSE @,
                            ![k].sealing = ~Quiet(k),
                            ![k].awaited = IF Quiet(k) THEN {} ELSE @ \cup entry[k].tracked]
  /\ lastSealed' = [lastSealed EXCEPT ![k] = IF Quiet(k) THEN entry[k].generation ELSE @]
  /\ UNCHANGED <<work, next, disposed>>

Seal(k) ==
  /\ ~disposed /\ entry[k].phase = "draining" /\ ~entry[k].sealing
  /\ SealRound(k)

SealResumes(k) ==
  /\ ~disposed /\ entry[k].sealing /\ entry[k].awaited = {}
  /\ SealRound(k)

\* A seal that was waiting when the gate was disposed rejects.
SealRejects(k) ==
  /\ disposed /\ entry[k].sealing
  /\ entry' = [entry EXCEPT ![k].sealing = FALSE]
  /\ UNCHANGED <<work, next, disposed, lastSealed>>

Commit(k) ==
  /\ ~disposed /\ entry[k].phase = "sealed" /\ Quiet(k)
  /\ entry' = [entry EXCEPT ![k].phase = "committed"]
  /\ UNCHANGED <<work, next, disposed, lastSealed>>

\* abort and release open the key under a generation nobody holds.
Reopen(k) ==
  /\ entry' = [entry EXCEPT ![k] = [generation |-> next, phase |-> "open",
                                    previous |-> Default, tracked |-> {},
                                    sealing |-> FALSE, awaited |-> {}]]
  /\ next' = next + 1
  /\ UNCHANGED <<work, disposed, lastSealed>>

\* Refused once committed, and while a seal is waiting.
Abort(k) ==
  /\ ~disposed /\ entry[k].phase \in {"draining", "sealed"} /\ ~entry[k].sealing
  /\ Reopen(k)

Release(k) ==
  /\ ~disposed /\ entry[k].phase = "committed"
  /\ Reopen(k)

\* What was admitted is forgotten; it goes on, but nothing is admitted any more.
Dispose ==
  /\ ~disposed /\ disposed' = TRUE
  /\ entry' = [k \in Key |-> [entry[k] EXCEPT !.tracked = {}, !.awaited = {}]]
  /\ UNCHANGED <<work, next, lastSealed>>

Next ==
  \/ \E w \in Work : \/ Enrol(w) \/ Dispatch(w) \/ Create(w) \/ Settle(w) \/ Cleanup(w)
                     \/ \E k \in Key : Capture(w, k)
  \/ \E k \in Key : \/ BeginFence(k) \/ Seal(k) \/ SealResumes(k) \/ SealRejects(k)
                    \/ Commit(k) \/ Abort(k) \/ Release(k)
  \/ Dispose

\* Admitted work ends, and promises that are settled run their callbacks.
Fairness ==
  /\ \A w \in Work : WF_vars(Settle(w)) /\ WF_vars(Cleanup(w))
  /\ \A k \in Key : WF_vars(SealResumes(k)) /\ WF_vars(SealRejects(k))

Spec == Init /\ [][Next]_vars /\ Fairness

-----------------------------------------------------------------------------
Running(w) == work[w].status = "running"

\* While a fence is sealed or committed nothing admitted is still running on its
\* key: neither what was there when the fence went up, under whichever of the
\* generations before it, nor what was enrolled while it drained (finishSeal).
SealedIsQuiet ==
  \A k \in Key : entry[k].phase \in {"sealed", "committed"} =>
     \A w \in Work : Running(w) => work[w].key # k

\* Authority captured before a fence was sealed starts nothing after it, however
\* many fences and idle periods lie in between (trackCaptured, cleanup).
AuthorityEnds ==
  \A w \in Work : Running(w) => work[w].generation > lastSealed[work[w].key]

MayReport(w) == Current(w) \/ Draining(w)

\* Running work keeps the right to send its declared terminal events until it
\* settles: no fence takes it, only an abort does, which makes every generation
\* before it stale (beginFence, assertCapturedDispatchAllowed). Disposal of the gate,
\* after which nothing is admitted at all, is not counted.
ReportsUntilAborted ==
  [][\A w \in Work :
       LET k == work[w].key
       IN Running(w) /\ Running(w)' /\ MayReport(w) /\ ~MayReport(w)'
            => Fenced(k) /\ entry'[k].phase = "open"]_vars

\* A seal comes to an end once the work it waits for does, or the gate goes.
SealEnds == \A k \in Key : entry[k].sealing ~> ~entry[k].sealing

Closed(k) == entry[k].phase \in {"sealed", "committed"}

\* Authority that is captured, not used, and not stale.
Granted(k) ==
  {w \in Work : /\ work[w].status = "captured" /\ work[w].key = k
                /\ ~disposed /\ ~Closed(k) /\ MayReport(w)}

RunningOn(k) == {w \in Work : work[w].key = k /\ Running(w)}

Gate == INSTANCE WorkGate WITH
  granted <- [k \in Key |-> Granted(k)],
  running <- [k \in Key |-> RunningOn(k)],
  closed  <- [k \in Key |-> Closed(k)]

\* Generations and fences implement the gate: what was granted before a seal is
\* gone after it, whatever fences, aborts and idle periods follow
\* (captureGeneration, trackCaptured, finishSeal, abort, release).
ImplementsGate == Gate!Spec
=============================================================================
