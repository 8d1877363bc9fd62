---------------------------- MODULE CircuitBreaker ----------------------------
(***************************************************************************)
(* The gateway's circuit breaker for one model (core/server/src/resilience *)
(* /circuit_breaker.ts): admission, the two ends of an operation and the   *)
(* clock. execute awaits the operation between admit and succeed or fail,  *)
(* so any number of operations overlap and may end much later, when the    *)
(* breaker has changed its state more than once.                           *)
(***************************************************************************)
EXTENDS Integers, FiniteSets

CONSTANTS
  Op,                 \* operations, each executed once
  FailureThreshold, Window, Cooldown, MaxProbes,   \* BreakerConfig, in ticks
  MaxTime             \* bound: ticks of the clock

ASSUME BreakerAssumption ==
  /\ IsFiniteSet(Op)
  /\ FailureThreshold \in Nat \ {0} /\ MaxProbes \in Nat \ {0}
  /\ Window \in Nat /\ Cooldown \in Nat /\ MaxTime \in Nat

VARIABLES
  state, failures, openedAt, probes,   \* the private fields
  now,                                 \* the clock
  op                                   \* the operations: how admitted, in which half-open period

breakerVars == <<state, failures, openedAt, probes, now, op>>

States == {"closed", "open", "half_open"}

\* An operation is waiting, admitted ("closed" or "half_open"), or over.
Admissions == {"new", "closed", "half_open", "done"}

\* failures holds times; each is kept with the operation that failed then, so
\* that equal times count twice.
Failure == [of : Op, at : Nat]

BreakerTypeOK ==
  /\ state \in States
  /\ failures \subseteq Failure
  /\ openedAt \in Nat /\ probes \in 0..MaxProbes /\ now \in Nat
  /\ op \in [Op -> Admissions]

BreakerInit ==
  /\ state = "closed" /\ failures = {} /\ openedAt = 0 /\ probes = 0
  /\ now = 0
  /\ op = [o \in Op |-> "new"]

-----------------------------------------------------------------------------
CooledDown == now - openedAt >= Cooldown

Room(p) == p < MaxProbes

\* admit: the first admission after the cooldown opens the half-open period.
AdmitClosed(o) ==
  /\ op[o] = "new" /\ state = "closed"
  /\ op' = [op EXCEPT ![o] = "closed"]
  /\ UNCHANGED <<state, failures, openedAt, probes, now>>

AdmitProbe(o) ==
  LET used == IF state = "open" THEN 0 ELSE probes
  IN /\ op[o] = "new"
     /\ (state = "open" /\ CooledDown) \/ state = "half_open"
     /\ Room(used)
     /\ state' = "half_open" /\ probes' = used + 1
     /\ op' = [op EXCEPT ![o] = "half_open"]
     /\ UNCHANGED <<failures, openedAt, now>>

InFlight(o) == op[o] \in {"closed", "half_open"}

End(o) == op' = [op EXCEPT ![o] = "done"]

Forgotten == {}

\* succeed: only a probe that ends in a half-open period closes the breaker.
Succeed(o) ==
  /\ InFlight(o) /\ End(o)
  /\ IF op[o] = "half_open" /\ state = "half_open"
     THEN /\ state' = "closed" /\ failures' = Forgotten /\ probes' = 0
     ELSE UNCHANGED <<state, failures, probes>>
  /\ UNCHANGED <<openedAt, now>>

\* Variant: a probe that fails for other reasons keeps its slot.
SlotKept(o) == probes

SlotAfter(o) == IF op[o] = "half_open" /\ probes > 0 THEN probes - 1 ELSE probes

\* fail with a class that says nothing about the provider.
FailOther(o) ==
  /\ InFlight(o) /\ End(o)
  /\ probes' = SlotAfter(o)
  /\ UNCHANGED <<state, failures, openedAt, now>>

\* fail of a probe, or of any operation in a half-open period: reopen.
FailProbe(o) ==
  /\ InFlight(o) /\ End(o)
  /\ op[o] = "half_open" \/ state = "half_open"
  /\ state' = "open" /\ openedAt' = now /\ probes' = 0
  /\ UNCHANGED <<failures, now>>

\* Variant: failures of the past count for ever.
AllFailures == failures

Recent == {f \in failures : f.at >= now - Window}

\* fail of an operation admitted closed: count it in the window; an operation that
\* ends while the breaker is open already counts too, and starts the cooldown anew.
FailClosed(o) ==
  LET kept == Recent \cup {[of |-> o, at |-> now]}
  IN /\ InFlight(o) /\ End(o)
     /\ op[o] = "closed" /\ state # "half_open"
     /\ failures' = kept
     /\ IF Cardinality(kept) >= FailureThreshold
        THEN state' = "open" /\ openedAt' = now
        ELSE UNCHANGED <<state, openedAt>>
     /\ UNCHANGED <<probes, now>>

Tick == /\ now < MaxTime /\ now' = now + 1
        /\ UNCHANGED <<state, failures, openedAt, probes, op>>

Finish(o) == Succeed(o) \/ FailOther(o) \/ FailProbe(o) \/ FailClosed(o)

BreakerNext == Tick \/ \E o \in Op : AdmitClosed(o) \/ AdmitProbe(o) \/ Finish(o)

BreakerSpec == BreakerInit /\ [][BreakerNext]_breakerVars

-----------------------------------------------------------------------------
Probing == {o \in Op : op[o] = "half_open"}

(***************************************************************************)
(* No probe slot leaks: in a half-open period every slot in use belongs to *)
(* a probe that is still running and will give it back, so the breaker     *)
(* cannot refuse everybody for ever (admit and the Math.max in fail, with  *)
(* probes of earlier periods ending in later ones).                        *)
(***************************************************************************)
NoSlotLeaks == state = "half_open" => probes <= Cardinality(Probing)

(***************************************************************************)
(* A closed breaker opens only on evidence: FailureThreshold operations    *)
(* failed inside one window, each with an error that can be retried, or a  *)
(* late probe of an earlier half-open period did (fail).                   *)
(***************************************************************************)
OpensOnEvidence ==
  [][state = "closed" /\ state' = "open" =>
       \/ \E o \in Probing : op'[o] = "done"
       \/ Cardinality({f.of : f \in {g \in failures' : g.at >= now - Window}})
            >= FailureThreshold]_breakerVars
=============================================================================
