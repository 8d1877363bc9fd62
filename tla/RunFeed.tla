------------------------------- MODULE RunFeed -------------------------------
(***************************************************************************)
(* One run at the level of SQL statements: the transactions that append to *)
(* its log (append, appendInternal, stop, the file sync, the reaper) and   *)
(* the Server-Sent-Events stream that polls it (RunService.stream).        *)
(*                                                                         *)
(* A transaction starts with an UPDATE of the run's row and so holds the   *)
(* row lock until it commits or rolls back; its writes are visible to      *)
(* others from the commit on. The stream reads the row and the events with *)
(* two queries and no transaction, and its one-second timer starts a poll  *)
(* whether or not the one before has returned.                             *)
(***************************************************************************)
EXTENDS Naturals, FiniteSets

CONSTANTS
  Writer,      \* transactions in flight at a time
  Poll,        \* polls in flight at a time
  NoWriter,
  MaxEvents    \* bound: length of the log

ASSUME FeedAssumption == NoWriter \notin Writer /\ MaxEvents \in Nat

VARIABLES
  seq,         \* committed lastEventSeq
  ended,       \* committed: the row's state is completed, failed or stopped
  events,      \* committed events
  lock,        \* holder of the row lock
  txn,         \* the transactions
  cursor,      \* the stream's cursor, shared by its polls
  poll,        \* the polls
  stream,      \* "open", "broken" (connection lost) or "complete"
  got, last    \* the subscriber: sequence numbers received, the latest id

vars == <<seq, ended, events, lock, txn, cursor, poll, stream, got, last>>
dbVars == <<seq, ended, events, lock, txn>>
streamVars == <<cursor, poll, stream, got, last>>

\* What a transaction does to the row's state: leave it, end the run, revive it.
\* An event carries it as history (run_events stores no state): the mapping to
\* EventFeed needs it, and no action reads it of a committed event.
Effects == {"keep", "end", "revive"}
Event == [seq : Nat, effect : Effects]

Txn  == [step : {"idle", "locked", "inserted", "counted"}, stop : BOOLEAN,
         seq : Nat, effect : Effects]
PollRec == [step : {"idle", "row", "events", "emit"}, from : Nat, ended : BOOLEAN,
            batch : SUBSET Nat]

IdleTxn  == [step |-> "idle", stop |-> FALSE, seq |-> 0, effect |-> "keep"]
IdlePoll == [step |-> "idle", from |-> 0, ended |-> FALSE, batch |-> {}]

TypeOK ==
  /\ seq \in Nat /\ ended \in BOOLEAN /\ events \in SUBSET Event
  /\ lock \in Writer \cup {NoWriter}
  /\ txn \in [Writer -> Txn]
  /\ cursor \in Nat /\ poll \in [Poll -> PollRec]
  /\ stream \in {"open", "broken", "complete"}
  /\ got \in SUBSET Nat /\ last \in Nat

Init ==
  /\ seq = 0 /\ ended = FALSE /\ events = {} /\ lock = NoWriter
  /\ txn = [w \in Writer |-> IdleTxn]
  /\ cursor = 0 /\ poll = [p \in Poll |-> IdlePoll] /\ stream = "open"
  /\ got = {} /\ last = 0

-----------------------------------------------------------------------------
(* Transactions *)

\* append: UPDATE ... SET lastEventSeq = lastEventSeq + 1 RETURNING, which waits
\* for the row lock.
BeginAppend(w, effect) ==
  /\ txn[w].step = "idle" /\ lock = NoWriter /\ seq < MaxEvents
  /\ lock' = w
  /\ txn' = [txn EXCEPT ![w] = [step |-> "locked", stop |-> FALSE, seq |-> seq + 1,
                                effect |-> effect]]
  /\ UNCHANGED <<seq, ended, events>> /\ UNCHANGED streamVars

\* stop: UPDATE ... SET state RETURNING lastEventSeq; the counter comes last.
BeginStop(w) ==
  /\ txn[w].step = "idle" /\ lock = NoWriter /\ seq < MaxEvents
  /\ lock' = w
  /\ txn' = [txn EXCEPT ![w] = [step |-> "locked", stop |-> TRUE, seq |-> seq + 1,
                                effect |-> "end"]]
  /\ UNCHANGED <<seq, ended, events>> /\ UNCHANGED streamVars

\* INSERT INTO run_events under the unique index (runId, seq).
InsertEvent(w) ==
  /\ txn[w].step = "locked"
  /\ \A e \in events : e.seq # txn[w].seq
  /\ txn' = [txn EXCEPT ![w].step = "inserted"]
  /\ UNCHANGED <<seq, ended, events, lock>> /\ UNCHANGED streamVars

\* stop's second UPDATE of the row, SET lastEventSeq = seq.
SetCounter(w) ==
  /\ txn[w].step = "inserted" /\ txn[w].stop
  /\ txn' = [txn EXCEPT ![w].step = "counted"]
  /\ UNCHANGED <<seq, ended, events, lock>> /\ UNCHANGED streamVars

CounterAfter(w) == txn[w].seq

Commit(w) ==
  /\ txn[w].step = IF txn[w].stop THEN "counted" ELSE "inserted"
  /\ seq' = CounterAfter(w)
  /\ events' = events \cup {[seq |-> txn[w].seq, effect |-> txn[w].effect]}
  /\ ended' = (txn[w].effect = "end" \/ (txn[w].effect = "keep" /\ ended))
  /\ lock' = NoWriter
  /\ txn' = [txn EXCEPT ![w] = IdleTxn]
  /\ UNCHANGED streamVars

\* A statement fails, the 5 s transaction timeout strikes or the process dies.
Rollback(w) ==
  /\ txn[w].step # "idle"
  /\ lock' = NoWriter
  /\ txn' = [txn EXCEPT ![w] = IdleTxn]
  /\ UNCHANGED <<seq, ended, events>> /\ UNCHANGED streamVars

-----------------------------------------------------------------------------
(* The stream *)

Max0(S) == IF S = {} THEN 0 ELSE CHOOSE n \in S : \A m \in S : m <= n

\* The timer: the query is built with the cursor of this moment.
PollBegin(p) ==
  /\ stream = "open" /\ poll[p].step = "idle"
  /\ poll' = [poll EXCEPT ![p] = [IdlePoll EXCEPT !.step = "row", !.from = cursor]]
  /\ UNCHANGED <<cursor, stream, got, last>> /\ UNCHANGED dbVars

\* findUnique's first query: the row.
ReadRow(p) ==
  /\ poll[p].step = "row"
  /\ poll' = [poll EXCEPT ![p].step = "events", ![p].ended = ended]
  /\ UNCHANGED <<cursor, stream, got, last>> /\ UNCHANGED dbVars

\* Variant: the first event after the cursor is left out.
UnseenLate(p) == {n \in {e.seq : e \in events} : n > poll[p].from + 1}

Unseen(p) == {n \in {e.seq : e \in events} : n > poll[p].from}

\* Its second query: the included events after the captured cursor.
ReadEvents(p) ==
  /\ poll[p].step = "events"
  /\ poll' = [poll EXCEPT ![p].step = "emit", ![p].batch = Unseen(p)]
  /\ UNCHANGED <<cursor, stream, got, last>> /\ UNCHANGED dbVars

\* Variant: the row is read after the events.
EndedByNow(p) == ended

EndSeen(p) == poll[p].ended

\* The events are emitted in one turn, the cursor follows the last of them even
\* when that moves it back, and an ended run completes the stream. A stream that
\* another poll has completed emits nothing any more.
Emit(p) ==
  /\ poll[p].step = "emit"
  /\ LET batch == poll[p].batch
     IN /\ cursor' = IF batch = {} THEN cursor ELSE Max0(batch)
        /\ IF stream = "open"
           THEN /\ got' = got \cup batch
                /\ last' = IF batch = {} THEN last ELSE Max0(batch)
                /\ stream' = IF EndSeen(p) THEN "complete" ELSE "open"
           ELSE UNCHANGED <<got, last, stream>>
  /\ poll' = [poll EXCEPT ![p] = IdlePoll]
  /\ UNCHANGED dbVars

\* The connection drops while a batch is on its way: a prefix of it arrives.
EmitBroken(p) ==
  /\ poll[p].step = "emit" /\ stream = "open"
  /\ \E n \in poll[p].batch \cup {poll[p].from} :
       LET arrived == {m \in poll[p].batch : m <= n}
       IN /\ got' = got \cup arrived
          /\ last' = IF arrived = {} THEN last ELSE n
  /\ stream' = "broken"
  /\ poll' = [q \in Poll |-> IdlePoll]
  /\ UNCHANGED cursor /\ UNCHANGED dbVars

\* Variants: the stream resumes at the head of the log, or one past the last id.
ResumeAtHead == seq
ResumePast == last + 1

ResumeFrom == last

\* EventSource reconnects with the Last-Event-ID it received.
Reconnect ==
  /\ stream = "broken"
  /\ stream' = "open" /\ cursor' = ResumeFrom
  /\ UNCHANGED <<poll, got, last>> /\ UNCHANGED dbVars

-----------------------------------------------------------------------------
WriterStep(w) == \/ \E effect \in Effects : BeginAppend(w, effect)
                 \/ BeginStop(w) \/ InsertEvent(w) \/ SetCounter(w)
                 \/ Commit(w) \/ Rollback(w)

PollStep(p) == PollBegin(p) \/ ReadRow(p) \/ ReadEvents(p) \/ Emit(p) \/ EmitBroken(p)

Next == \/ \E w \in Writer : WriterStep(w)
        \/ \E p \in Poll : PollStep(p)
        \/ Reconnect

Spec == Init /\ [][Next]_vars

(***************************************************************************)
(* The interval timer keeps starting polls while the stream is open and    *)
(* the database answers them; the browser reconnects; not every batch is   *)
(* cut off. Writers owe nothing.                                           *)
(***************************************************************************)
Fairness == /\ WF_vars(Reconnect)
            /\ \A p \in Poll : /\ WF_vars(PollBegin(p)) /\ WF_vars(ReadRow(p))
                               /\ WF_vars(ReadEvents(p)) /\ SF_vars(Emit(p))

FairSpec == Spec /\ Fairness

-----------------------------------------------------------------------------
(***************************************************************************)
(* The subscriber never misses an event: what it holds is a prefix of the  *)
(* log, across overlapping polls that move the shared cursor back, lost    *)
(* connections and Last-Event-ID reconnects (RunService.stream).           *)
(***************************************************************************)
NoEventMissed == \A n \in got : 1..n \subseteq got

(***************************************************************************)
(* The stream completes only after the subscriber holds an event that      *)
(* ended the run, although row and events are read by two queries: the row *)
(* is read first (RunService.stream).                                      *)
(***************************************************************************)
CompletionAnnounced ==
  stream = "complete" => \E e \in events : e.effect = "end" /\ e.seq \in got

(***************************************************************************)
(* Every committed event reaches the subscriber, unless the stream was     *)
(* completed before (poll, reconnect).                                     *)
(***************************************************************************)
EventDelivered == \A n \in 1..MaxEvents :
  (n <= seq) ~> (n \in got \/ stream = "complete")

\* How long a prefix of the log the subscriber holds.
Prefix == Max0({n \in 0..seq : 1..n \subseteq got})

Feed == INSTANCE EventFeed WITH
  published <- seq,
  endings   <- {e.seq : e \in {f \in events : f.effect = "end"}},
  received  <- Prefix,
  done      <- stream = "complete"

(***************************************************************************)
(* The transactions and the polling stream implement the prefix feed.      *)
(***************************************************************************)
ImplementsFeed == Feed!Spec
=============================================================================
