------------------------------ MODULE AppLocks ------------------------------
(***************************************************************************)
(* What the coordinator promises the operations of an app: a table of      *)
(* locks, some for reading and some for writing. An operation gets all its *)
(* locks at once, keeps them or gives some back, and never gets more; what *)
(* is unsafe is fenced off; deletion's work is alone with the app.         *)
(***************************************************************************)
CONSTANTS Op, Resource

VARIABLES
  held,     \* what each operation holds
  fenced,   \* what each operation has left unsafe
  alone     \* deletion's own work is running

vars == <<held, fenced, alone>>

Claims == [Resource -> {"none", "read", "write"}]
Nothing == [r \in Resource |-> "none"]

\* One writer or many readers.
Fits(c, d) == \A r \in Resource : c[r] = "none" \/ d[r] = "none" \/ (c[r] = "read" /\ d[r] = "read")

\* What remains of d when some of it is given back.
Within(c, d) == \A r \in Resource : c[r] \in {"none", d[r]}

Init ==
  /\ held = [o \in Op |-> Nothing] /\ fenced = [o \in Op |-> Nothing]
  /\ alone = FALSE

\* Everyone has what it kept, or held nothing and gets locks that fit with all
\* that the others then hold and have fenced off.
Granting(kept) ==
  /\ ~alone /\ ~alone'
  /\ held' \in [Op -> Claims]
  /\ \A o \in Op :
       \/ held'[o] = kept[o]
       \/ /\ held[o] = Nothing
          /\ \A p \in Op \ {o} : Fits(held'[o], held'[p]) /\ Fits(held'[o], fenced'[p])

Return(o) == \E less \in Claims :
  /\ Within(less, held[o])
  /\ fenced' = fenced
  /\ Granting([held EXCEPT ![o] = less])

Fence(o) ==
  /\ fenced[o] = Nothing
  /\ fenced' = [fenced EXCEPT ![o] = held[o]]
  /\ Granting(held)

Lift(o) ==
  /\ fenced' = [fenced EXCEPT ![o] = Nothing]
  /\ Granting(held)

Enter ==
  /\ held = [o \in Op |-> Nothing] /\ fenced = [o \in Op |-> Nothing]
  /\ ~alone /\ alone'
  /\ UNCHANGED <<held, fenced>>

Exit == alone /\ alone' = FALSE /\ UNCHANGED <<held, fenced>>

Next == (\E o \in Op : Return(o) \/ Fence(o) \/ Lift(o)) \/ Enter \/ Exit

Spec == Init /\ [][Next]_vars
=============================================================================
