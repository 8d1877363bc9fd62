------------------------------ MODULE WorkGate ------------------------------
(***************************************************************************)
(* What the admission gate promises: work starts only on authority granted *)
(* while its key was not closed, each grant is used once, a key is closed  *)
(* with nothing running on it, and its grants are gone then, for good.     *)
(***************************************************************************)
CONSTANTS Key, Work

VARIABLES
  granted,  \* the work that may start, by key
  running,  \* the work that has
  closed    \* whether the key is

vars == <<granted, running, closed>>

Init ==
  /\ granted = [k \in Key |-> {}] /\ running = [k \in Key |-> {}]
  /\ closed = [k \in Key |-> FALSE]

Grant(w, k) ==
  /\ ~closed[k]
  /\ granted' = [granted EXCEPT ![k] = @ \cup {w}]
  /\ UNCHANGED <<running, closed>>

Start(w, k) ==
  /\ w \in granted[k]
  /\ granted' = [granted EXCEPT ![k] = @ \ {w}]
  /\ running' = [running EXCEPT ![k] = @ \cup {w}]
  /\ UNCHANGED closed

End(w, k) ==
  /\ w \in running[k]
  /\ running' = [running EXCEPT ![k] = @ \ {w}]
  /\ UNCHANGED <<granted, closed>>

Close(k) ==
  /\ running[k] = {}
  /\ closed' = [closed EXCEPT ![k] = TRUE]
  /\ granted' = [granted EXCEPT ![k] = {}]
  /\ UNCHANGED running

Open(k) ==
  /\ closed' = [closed EXCEPT ![k] = FALSE]
  /\ UNCHANGED <<granted, running>>

\* A deletion that is given up takes back what was granted before it.
Revoke(k) ==
  /\ granted' = [granted EXCEPT ![k] = {}]
  /\ UNCHANGED <<running, closed>>

\* The gate is taken down.
Shut ==
  /\ granted' = [k \in Key |-> {}]
  /\ UNCHANGED <<running, closed>>

Next ==
  \/ \E k \in Key : \/ \E w \in Work : Grant(w, k) \/ Start(w, k) \/ End(w, k)
                    \/ Close(k) \/ Open(k) \/ Revoke(k)
  \/ Shut

Spec == Init /\ [][Next]_vars
=============================================================================
