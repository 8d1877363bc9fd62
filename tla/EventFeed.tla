------------------------------ MODULE EventFeed ------------------------------
(***************************************************************************)
(* What the event stream of a run promises its subscriber: the events      *)
(* 1..published exist, the subscriber holds a prefix of them that only     *)
(* grows, and the stream ends only once it has delivered an event that     *)
(* ended the run.                                                          *)
(***************************************************************************)
EXTENDS Naturals

VARIABLES
  published,   \* how many events exist
  endings,     \* which of them ended the run
  received,    \* how long a prefix the subscriber holds
  done         \* the stream has been completed

vars == <<published, endings, received, done>>

Init == published = 0 /\ endings = {} /\ received = 0 /\ done = FALSE

Publish == /\ published' = published + 1
           /\ endings' \in {endings, endings \cup {published'}}
           /\ UNCHANGED <<received, done>>

\* New events may arrive with the completion of the stream.
Receive == /\ ~done
           /\ received' \in received .. published
           /\ done' \in BOOLEAN
           /\ done' => \E n \in endings : n <= received'
           /\ UNCHANGED <<published, endings>>

Next == Publish \/ Receive

Spec == Init /\ [][Next]_vars
=============================================================================
