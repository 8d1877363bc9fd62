---------------------------- MODULE RunFeedProofs ----------------------------
(***************************************************************************)
(* The log and the stream of one run, statement by statement, for any      *)
(* number of writers and polls: no event is missed, a completed stream has *)
(* announced the end, and both implement EventFeed.                        *)
(***************************************************************************)
EXTENDS RunFeed, TLAPS

Idle(p) == poll[p].step = "idle"

\* Whoever is in a transaction holds the lock and writes the next number.
LockHeld == \A w \in Writer :
  txn[w].step # "idle" => lock = w /\ txn[w].seq = seq + 1

\* The committed log has no gap, and the row is ended by an event in it.
Numbered ==
  /\ \A e \in events : e.seq \in 1..seq
  /\ \A n \in 1..seq : \E e \in events : e.seq = n
  /\ ended => \E e \in events : e.effect = "end"

\* The subscriber holds 1..k, and everything the stream resumes from is in it.
Holds(k) ==
  /\ got = 1..k /\ last <= k
  /\ stream # "complete" => cursor <= k
  /\ stream = "open" => \A p \in Poll : ~Idle(p) => poll[p].from <= k

PrefixHeld == \E k \in 0..seq : Holds(k)

\* A poll has read what follows its cursor, and an end if it has read one.
BatchOf(p) ==
  /\ poll[p].from <= seq
  /\ poll[p].step = "emit" => \E m \in poll[p].from .. seq : poll[p].batch = (poll[p].from + 1) .. m
  /\ poll[p].step \in {"events", "emit"} /\ poll[p].ended =>
       \E e \in events : /\ e.effect = "end"
                         /\ poll[p].step = "emit" => e.seq <= poll[p].from \/ e.seq \in poll[p].batch

BatchesKnown == \A p \in Poll : BatchOf(p)

BrokenIsIdle == stream = "broken" => \A p \in Poll : Idle(p)

FeedInv ==
  /\ TypeOK /\ LockHeld /\ Numbered /\ PrefixHeld /\ BatchesKnown
  /\ BrokenIsIdle /\ CompletionAnnounced

(***************************************************************************)
(* The records RunFeed names have their types.                             *)
(***************************************************************************)
LEMMA FeedRecords ==
  /\ IdleTxn \in Txn /\ IdleTxn.step = "idle"
  /\ IdlePoll \in PollRec /\ IdlePoll.step = "idle"
BY DEF IdleTxn, Txn, Effects, IdlePoll, PollRec

(***************************************************************************)
(* The greatest number of an interval is its end.                          *)
(***************************************************************************)
LEMMA Greatest ==
  ASSUME NEW a \in Nat, NEW b \in Nat, a <= b
  PROVE  Max0(a..b) = b
<1> DEFINE Top(n) == n \in a..b /\ \A m \in a..b : m <= n
<1>1. Top(b) /\ a..b # {}
  OBVIOUS
<1>2. \A n : Top(n) => n = b
  OBVIOUS
<1>3. Top(CHOOSE n : Top(n))
  BY <1>1
<1>4. Max0(a..b) = CHOOSE n \in a..b : \A m \in a..b : m <= n
  BY <1>1 DEF Max0
<1> QED
  BY <1>1, <1>2, <1>4

(***************************************************************************)
(* A transaction's steps keep the log gap-free and change no poll.         *)
(***************************************************************************)
LEMMA WriterKeeps ==
  ASSUME FeedAssumption, FeedInv, NEW w \in Writer, WriterStep(w)
  PROVE  FeedInv'
<1>0. /\ txn \in [Writer -> Txn] /\ seq \in Nat /\ lock \in Writer \cup {NoWriter}
      /\ UNCHANGED <<cursor, poll, stream, got, last>>
  BY DEF FeedInv, TypeOK, WriterStep, BeginAppend, BeginStop, InsertEvent,
         SetCounter, Commit, Rollback, streamVars
<1>1. ASSUME NEW t \in Txn, txn[w].step = "idle", lock = NoWriter, lock' = w,
             txn' = [txn EXCEPT ![w] = t], t.seq = seq + 1, UNCHANGED <<seq, ended, events>>
      PROVE  FeedInv'
  <2>1. TypeOK'
    BY <1>0, <1>1 DEF FeedInv, TypeOK
  <2>2. LockHeld'
    BY <1>0, <1>1 DEF FeedInv, LockHeld, FeedAssumption
  <2> QED
    BY <1>0, <1>1, <2>1, <2>2 DEF FeedInv, Numbered, PrefixHeld, Holds, Idle, BatchesKnown, BatchOf,
                                  BrokenIsIdle, CompletionAnnounced
<1>2. ASSUME NEW t \in Txn, txn[w].step # "idle", UNCHANGED <<seq, ended, events, lock>>,
             txn' = [txn EXCEPT ![w] = t], t.seq = txn[w].seq
      PROVE  FeedInv'
  <2>1. TypeOK'
    BY <1>0, <1>2 DEF FeedInv, TypeOK
  <2>2. LockHeld'
    BY <1>0, <1>2 DEF FeedInv, LockHeld
  <2> QED
    BY <1>0, <1>2, <2>1, <2>2 DEF FeedInv, Numbered, PrefixHeld, Holds, Idle, BatchesKnown, BatchOf,
                                  BrokenIsIdle, CompletionAnnounced
<1>3. CASE Commit(w)
  <2> DEFINE new == [seq |-> seq + 1, effect |-> txn[w].effect]
  <2>1. txn[w].step # "idle" /\ txn[w].seq = seq + 1 /\ lock = w
    <3>1. txn[w].step # "idle"
      BY <1>3 DEF Commit
    <3> QED
      BY <3>1 DEF FeedInv, LockHeld
  <2>2. /\ seq' = seq + 1 /\ events' = events \cup {new} /\ lock' = NoWriter
        /\ ended' = (txn[w].effect = "end" \/ (txn[w].effect = "keep" /\ ended))
        /\ txn' = [txn EXCEPT ![w] = IdleTxn]
    BY <1>3, <2>1 DEF Commit, CounterAfter
  <2>3. TypeOK'
    <3>1. new \in Event /\ ended' \in BOOLEAN
      BY <1>0, <2>2 DEF Event, Txn
    <3> QED
      BY <1>0, <2>2, <3>1, FeedRecords DEF FeedInv, TypeOK
  <2>4. LockHeld'
    BY <1>0, <2>1, <2>2, FeedRecords DEF FeedInv, LockHeld
  <2>5. Numbered'
    <3>1. \A e \in events : e.seq \in 1..seq'
      BY <1>0, <2>2 DEF FeedInv, Numbered
    <3>2. ASSUME NEW n \in 1..seq' PROVE \E e \in events' : e.seq = n
      <4>1. CASE n = seq + 1
        <5>1. new \in events' /\ new.seq = n
          BY <2>2, <4>1
        <5> QED
          BY <5>1
      <4>2. CASE n \in 1..seq
        BY <2>2, <4>2 DEF FeedInv, Numbered
      <4> QED
        BY <1>0, <2>2, <4>1, <4>2
    <3>3. ended' => \E e \in events' : e.effect = "end"
      BY <2>2 DEF FeedInv, Numbered
    <3> QED
      BY <1>0, <2>2, <3>1, <3>2, <3>3 DEF Numbered
  <2>6. PrefixHeld'
    BY <1>0, <2>2 DEF FeedInv, PrefixHeld, Holds, Idle
  <2>7. BatchesKnown'
    <3> SUFFICES ASSUME NEW p \in Poll PROVE BatchOf(p)'
        BY DEF BatchesKnown
    <3>1. poll[p].from \in Nat
      BY DEF FeedInv, TypeOK, PollRec
    <3> QED
      BY <1>0, <2>2, <3>1 DEF FeedInv, BatchesKnown, BatchOf
  <2> QED
    BY <1>0, <2>2, <2>3, <2>4, <2>5, <2>6, <2>7
    DEF FeedInv, BrokenIsIdle, Idle, CompletionAnnounced
<1>4. CASE Rollback(w)
  <2>1. /\ txn' = [txn EXCEPT ![w] = IdleTxn] /\ lock' = NoWriter /\ lock = w
        /\ UNCHANGED <<seq, ended, events>>
    BY <1>4 DEF Rollback, FeedInv, LockHeld
  <2>2. TypeOK'
    BY <1>0, <2>1, FeedRecords DEF FeedInv, TypeOK
  <2>3. LockHeld'
    BY <1>0, <2>1, FeedRecords DEF FeedInv, LockHeld
  <2> QED
    BY <1>0, <2>1, <2>2, <2>3 DEF FeedInv, Numbered, PrefixHeld, Holds, Idle, BatchesKnown, BatchOf,
                                  BrokenIsIdle, CompletionAnnounced
<1>5. ASSUME NEW effect \in Effects, BeginAppend(w, effect) PROVE FeedInv'
  <2> DEFINE t == [step |-> "locked", stop |-> FALSE, seq |-> seq + 1, effect |-> effect]
  <2>1. t \in Txn
    BY <1>0 DEF Txn
  <2> QED
    BY <1>1, <1>5, <2>1 DEF BeginAppend
<1>6. CASE BeginStop(w)
  <2> DEFINE t == [step |-> "locked", stop |-> TRUE, seq |-> seq + 1, effect |-> "end"]
  <2>1. t \in Txn
    BY <1>0 DEF Txn, Effects
  <2> QED
    BY <1>1, <1>6, <2>1 DEF BeginStop
<1>7. CASE InsertEvent(w)
  <2> DEFINE t == [txn[w] EXCEPT !.step = "inserted"]
  <2>1. txn[w] \in Txn
    BY <1>0
  <2>2. t \in Txn /\ t.seq = txn[w].seq
    BY <2>1 DEF Txn
  <2> QED
    BY <1>2, <1>7, <2>2 DEF InsertEvent
<1>8. CASE SetCounter(w)
  <2> DEFINE t == [txn[w] EXCEPT !.step = "counted"]
  <2>1. txn[w] \in Txn
    BY <1>0
  <2>2. t \in Txn /\ t.seq = txn[w].seq
    BY <2>1 DEF Txn
  <2> QED
    BY <1>2, <1>8, <2>2 DEF SetCounter
<1> QED
  BY <1>3, <1>4, <1>5, <1>6, <1>7, <1>8 DEF WriterStep

(***************************************************************************)
(* A poll's steps keep what the subscriber holds a prefix of the log.      *)
(***************************************************************************)
LEMMA ReaderKeeps ==
  ASSUME FeedInv, (\E p \in Poll : PollStep(p)) \/ Reconnect
  PROVE  FeedInv'
<1>0. /\ poll \in [Poll -> PollRec] /\ seq \in Nat /\ cursor \in Nat /\ last \in Nat
      /\ \A p \in Poll : poll[p].from \in Nat
      /\ UNCHANGED <<seq, ended, events, lock, txn>>
  BY DEF FeedInv, TypeOK, PollRec, PollStep, PollBegin, ReadRow,
         ReadEvents, Emit, EmitBroken, Reconnect, dbVars
<1>1. LockHeld' /\ Numbered'
  BY <1>0 DEF FeedInv, LockHeld, Numbered
<1>2. PICK k \in 0..seq : Holds(k)
  BY DEF FeedInv, PrefixHeld
<1>3. ASSUME NEW p \in Poll, NEW r \in PollRec, poll' = [poll EXCEPT ![p] = r],
             stream = "open" \/ poll[p].step # "idle", stream = "open" => r.from <= k,
             UNCHANGED <<cursor, stream, got, last>>, BatchOf(p)'
      PROVE  FeedInv'
  <2>1. poll'[p] = r /\ \A q \in Poll \ {p} : poll'[q] = poll[q]
    BY <1>0, <1>3
  <2>2. TypeOK'
    BY <1>0, <1>3 DEF FeedInv, TypeOK
  <2>3. Holds(k)'
    BY <1>2, <1>3, <2>1 DEF Holds, Idle
  <2>4. BatchesKnown'
    BY <1>0, <1>3, <2>1 DEF FeedInv, BatchesKnown, BatchOf
  <2>5. BrokenIsIdle'
    BY <1>3 DEF FeedInv, BrokenIsIdle, Idle
  <2> QED
    BY <1>0, <1>1, <1>3, <2>2, <2>3, <2>4, <2>5 DEF FeedInv, PrefixHeld, CompletionAnnounced
<1>4. ASSUME NEW p \in Poll, PollBegin(p) PROVE FeedInv'
  <2> DEFINE r == [IdlePoll EXCEPT !.step = "row", !.from = cursor]
  <2>1. r \in PollRec /\ r.step = "row" /\ r.from = cursor
    BY <1>0, FeedRecords DEF PollRec, IdlePoll
  <2>2. poll' = [poll EXCEPT ![p] = r] /\ stream = "open" /\ UNCHANGED <<cursor, stream, got, last>>
    BY <1>4 DEF PollBegin
  <2>3. cursor <= k
    BY <1>2, <2>2 DEF Holds
  <2> HIDE DEF r
  <2>4. poll'[p] = r
    BY <1>0, <2>2
  <2>5. BatchOf(p)'
    BY <1>0, <2>1, <2>3, <2>4 DEF BatchOf
  <2> QED
    BY <1>3, <2>1, <2>2, <2>3, <2>5
<1>5. ASSUME NEW p \in Poll, ReadRow(p) PROVE FeedInv'
  <2> DEFINE r == [poll[p] EXCEPT !.step = "events", !.ended = ended]
  <2>1. /\ poll[p] \in PollRec /\ ended \in BOOLEAN /\ poll[p].step = "row"
        /\ poll' = [poll EXCEPT ![p] = r] /\ UNCHANGED <<cursor, stream, got, last>>
    BY <1>0, <1>5 DEF ReadRow, FeedInv, TypeOK
  <2>2. r \in PollRec /\ r.step = "events" /\ r.from = poll[p].from /\ r.ended = ended
    BY <2>1 DEF PollRec
  <2> HIDE DEF r
  <2>3. poll'[p] = r
    BY <1>0, <2>1
  <2>4. BatchOf(p)'
    BY <1>0, <2>2, <2>3 DEF BatchOf, FeedInv, BatchesKnown, Numbered
  <2>5. stream = "open" => r.from <= k
    BY <1>2, <2>1, <2>2 DEF Holds, Idle
  <2> QED
    BY <1>3, <2>1, <2>2, <2>4, <2>5
<1>6. ASSUME NEW p \in Poll, ReadEvents(p) PROVE FeedInv'
  <2> PICK r : r = [poll[p] EXCEPT !.step = "emit", !.batch = Unseen(p)]
    OBVIOUS
  <2>1. /\ poll[p] \in PollRec /\ poll[p].step = "events"
        /\ poll' = [poll EXCEPT ![p] = r] /\ UNCHANGED <<cursor, stream, got, last>>
    BY <1>0, <1>6 DEF ReadEvents
  <2>2. {e.seq : e \in events} = 1..seq
    BY DEF FeedInv, Numbered
  <2>3. Unseen(p) = {n \in 1..seq : n > poll[p].from}
    BY <2>2 DEF Unseen
  <2>4. poll[p].from <= seq
    BY DEF FeedInv, BatchesKnown, BatchOf
  <2>5. Unseen(p) = (poll[p].from + 1) .. seq
    BY <1>0, <2>3, <2>4
  <2>6. /\ r \in PollRec /\ r.step = "emit" /\ r.from = poll[p].from
        /\ r.ended = poll[p].ended /\ r.batch = (poll[p].from + 1) .. seq
    <3>1. (poll[p].from + 1) .. seq \in SUBSET Nat
      BY <1>0
    <3> QED
      BY <2>1, <2>5, <3>1 DEF PollRec
  <2>7. poll'[p] = r
    BY <1>0, <2>1
  <2>8. poll[p].ended => \E e \in events : e.effect = "end" /\ e.seq \in 1..seq
    BY <2>1 DEF FeedInv, BatchesKnown, BatchOf, Numbered
  <2>9. BatchOf(p)'
    BY <1>0, <2>4, <2>6, <2>7, <2>8 DEF BatchOf
  <2>10. stream = "open" => r.from <= k
    BY <1>2, <2>1, <2>6 DEF Holds, Idle
  <2> QED
    BY <1>3, <2>1, <2>6, <2>9, <2>10
<1>7. ASSUME NEW p \in Poll, Emit(p) PROVE FeedInv'
  <2> PICK from, batch : from = poll[p].from /\ batch = poll[p].batch
    OBVIOUS
  <2>1. /\ poll[p].step = "emit" /\ poll' = [poll EXCEPT ![p] = IdlePoll]
        /\ cursor' = IF batch = {} THEN cursor ELSE Max0(batch)
    BY <1>7 DEF Emit
  <2>2. PICK m \in from..seq : batch = (from + 1) .. m
    BY <1>7, <2>1 DEF FeedInv, BatchesKnown, BatchOf
  <2>3. from \in Nat /\ m \in Nat /\ from <= seq /\ m <= seq
    BY <1>0, <2>2
  <2>4. batch # {} => Max0(batch) = m /\ from < m
    BY <2>2, <2>3, Greatest
  <2>5. /\ poll'[p] = IdlePoll /\ \A q \in Poll \ {p} : poll'[q] = poll[q]
    BY <1>0, <2>1
  <2>6. BatchesKnown'
    <3> SUFFICES ASSUME NEW q \in Poll PROVE BatchOf(q)'
        BY DEF BatchesKnown
    <3>1. CASE q = p
      BY <1>0, <2>5, <3>1 DEF BatchOf, IdlePoll
    <3>2. CASE q # p
      BY <1>0, <2>5, <3>2 DEF FeedInv, BatchesKnown, BatchOf
    <3> QED
      BY <3>1, <3>2
  <2>7. CASE stream = "open"
    <3>1. /\ got' = got \cup batch /\ last' = IF batch = {} THEN last ELSE Max0(batch)
          /\ stream' = IF poll[p].ended THEN "complete" ELSE "open"
      BY <1>7, <2>7 DEF Emit, EndSeen
    <3>2. from <= k
      BY <1>2, <2>1, <2>7 DEF Holds, Idle
    <3>3. PICK j \in 0..seq : j = IF m > k THEN m ELSE k
      BY <1>0, <2>3
    <3>4. got' = 1..j
      BY <1>0, <1>2, <2>2, <2>3, <3>1, <3>2, <3>3 DEF Holds
    <3>5. TypeOK'
      <4>1. batch \in SUBSET Nat /\ cursor' \in Nat /\ last' \in Nat
        BY <1>0, <2>1, <2>2, <2>3, <2>4, <3>1
      <4> QED
        BY <1>0, <2>1, <3>1, <4>1, FeedRecords DEF FeedInv, TypeOK
    <3>6. Holds(j)'
      <4>1. last' <= j
        BY <1>0, <1>2, <2>3, <2>4, <3>1, <3>3 DEF Holds
      <4>2. cursor' <= j
        BY <1>0, <1>2, <2>1, <2>3, <2>4, <2>7, <3>3 DEF Holds
      <4>3. \A q \in Poll : poll'[q].step # "idle" => poll'[q].from <= j
        <5> SUFFICES ASSUME NEW q \in Poll, poll'[q].step # "idle" PROVE poll'[q].from <= j
            OBVIOUS
        <5>1. q # p /\ poll'[q] = poll[q]
          BY <2>5, FeedRecords
        <5>2. poll[q].from <= k
          BY <1>2, <2>7, <5>1 DEF Holds, Idle
        <5> QED
          BY <1>0, <2>3, <3>3, <5>1, <5>2
      <4> QED
        BY <3>4, <4>1, <4>2, <4>3 DEF Holds, Idle
    <3>7. CompletionAnnounced'
      <4> SUFFICES ASSUME poll[p].ended PROVE \E e \in events : e.effect = "end" /\ e.seq \in got'
          BY <1>0, <3>1 DEF CompletionAnnounced
      <4>1. PICK e \in events : e.effect = "end" /\ (e.seq <= from \/ e.seq \in batch)
        BY <2>1 DEF FeedInv, BatchesKnown, BatchOf
      <4>2. e.seq \in 1..seq
        BY DEF FeedInv, Numbered
      <4>3. e.seq \in got'
        BY <1>0, <1>2, <2>3, <3>1, <3>2, <4>1, <4>2 DEF Holds
      <4> QED
        BY <4>1, <4>3
    <3> QED
      BY <1>0, <1>1, <2>6, <3>1, <3>5, <3>6, <3>7 DEF FeedInv, PrefixHeld, BrokenIsIdle
  <2>8. CASE stream # "open"
    <3>1. UNCHANGED <<got, last, stream>>
      BY <1>7, <2>8 DEF Emit
    <3>2. stream = "complete"
      BY <2>1, <2>8 DEF FeedInv, BrokenIsIdle, Idle, TypeOK
    <3>3. TypeOK'
      <4>1. cursor' \in Nat
        BY <1>0, <2>1, <2>3, <2>4
      <4> QED
        BY <1>0, <2>1, <3>1, <4>1, FeedRecords DEF FeedInv, TypeOK
    <3>4. Holds(k)'
      BY <1>2, <3>1, <3>2 DEF Holds
    <3> QED
      BY <1>0, <1>1, <2>6, <3>1, <3>2, <3>3, <3>4
      DEF FeedInv, PrefixHeld, BrokenIsIdle, CompletionAnnounced
  <2> QED
    BY <2>7, <2>8
<1>8. ASSUME NEW p \in Poll, EmitBroken(p) PROVE FeedInv'
  <2> PICK from, batch : from = poll[p].from /\ batch = poll[p].batch
    OBVIOUS
  <2>1. /\ poll[p].step = "emit" /\ poll' = [q \in Poll |-> IdlePoll]
        /\ stream = "open" /\ stream' = "broken" /\ cursor' = cursor
    BY <1>8 DEF EmitBroken
  <2>2. PICK n \in batch \cup {from} :
          /\ got' = got \cup {i \in batch : i <= n}
          /\ last' = IF {i \in batch : i <= n} = {} THEN last ELSE n
    BY <1>8 DEF EmitBroken
  <2>3. PICK m \in from..seq : batch = (from + 1) .. m
    BY <2>1 DEF FeedInv, BatchesKnown, BatchOf
  <2>4. from \in Nat /\ n \in Nat /\ from <= n /\ n <= seq /\ {i \in batch : i <= n} = (from + 1) .. n
    BY <1>0, <2>2, <2>3
  <2>5. from <= k
    BY <1>2, <2>1 DEF Holds, Idle
  <2>6. PICK j \in 0..seq : j = IF n > k THEN n ELSE k
    BY <1>0, <2>4
  <2>7. got' = 1..j
    BY <1>0, <1>2, <2>2, <2>4, <2>5, <2>6 DEF Holds
  <2>8. last' \in Nat /\ last' <= j
    BY <1>0, <1>2, <2>2, <2>4, <2>6 DEF Holds
  <2>9. Holds(j)'
    BY <1>0, <1>2, <2>1, <2>4, <2>6, <2>7, <2>8 DEF Holds
  <2>10. TypeOK'
    BY <1>0, <2>1, <2>7, <2>8, FeedRecords DEF FeedInv, TypeOK
  <2>11. BatchesKnown' /\ BrokenIsIdle'
    BY <1>0, <2>1 DEF BatchesKnown, BatchOf, BrokenIsIdle, Idle, IdlePoll
  <2> QED
    BY <1>0, <1>1, <2>1, <2>9, <2>10, <2>11 DEF FeedInv, PrefixHeld, CompletionAnnounced
<1>9. CASE Reconnect
  <2>1. /\ stream = "broken" /\ stream' = "open" /\ cursor' = last
        /\ UNCHANGED <<poll, got, last>>
    BY <1>9 DEF Reconnect, ResumeFrom
  <2>2. TypeOK'
    BY <1>0, <2>1 DEF FeedInv, TypeOK
  <2>3. Holds(k)'
    BY <1>2, <2>1 DEF Holds, FeedInv, BrokenIsIdle, Idle
  <2>4. BatchesKnown'
    BY <1>0, <2>1 DEF FeedInv, BatchesKnown, BatchOf
  <2> QED
    BY <1>0, <1>1, <2>1, <2>2, <2>3, <2>4
    DEF FeedInv, PrefixHeld, BrokenIsIdle, CompletionAnnounced
<1> QED
  BY <1>4, <1>5, <1>6, <1>7, <1>8, <1>9 DEF PollStep

\* The invariant holds in every reachable state.
LEMMA FeedInvariance == Spec => []FeedInv
<1>1. Init => FeedInv
  <2> SUFFICES ASSUME Init PROVE FeedInv
      OBVIOUS
  <2>1. TypeOK
    BY FeedRecords DEF Init, TypeOK, Event
  <2>2. Holds(0)
    BY FeedRecords DEF Init, Holds, Idle
  <2>3. \A p \in Poll : BatchOf(p)
    BY DEF Init, BatchOf, IdlePoll
  <2> QED
    BY <2>1, <2>2, <2>3, FeedRecords
    DEF Init, FeedInv, LockHeld, Numbered, PrefixHeld, BatchesKnown, BrokenIsIdle,
        CompletionAnnounced
<1>2. FeedInv /\ [Next]_vars => FeedInv'
  <2>1. CASE UNCHANGED vars
    BY <2>1 DEF vars, FeedInv, TypeOK, LockHeld, Numbered, PrefixHeld, Holds, Idle,
                BatchesKnown, BatchOf, BrokenIsIdle, CompletionAnnounced
  <2> QED
    BY <2>1, WriterKeeps, ReaderKeeps, FeedAssumption DEF Next
<1> QED
  BY <1>1, <1>2, PTL DEF Spec

(***************************************************************************)
(* Every statement implements a step of the promised feed, or none of it.  *)
(***************************************************************************)
LEMMA FeedStep ==
  ASSUME FeedInv, FeedInv', [Next]_vars
  PROVE  [Feed!Next]_Feed!vars
<1> DEFINE endings == {e.seq : e \in {f \in events : f.effect = "end"}}
<1>0. seq \in Nat /\ seq' \in Nat
  BY DEF FeedInv, TypeOK
<1>1. PICK k \in 0..seq : Holds(k)
  BY DEF FeedInv, PrefixHeld
<1>2. PICK j \in 0..seq' : got' = 1..j
  BY DEF FeedInv, PrefixHeld, Holds
<1>3. Prefix = k /\ Prefix' = j
  <2>1. /\ {n \in 0..seq : 1..n \subseteq got} = 0..k
        /\ {n \in 0..seq' : 1..n \subseteq got'} = 0..j
    BY <1>0, <1>1, <1>2 DEF Holds
  <2>2. 0 \in Nat /\ k \in Nat /\ 0 <= k /\ j \in Nat /\ 0 <= j
    BY <1>0
  <2> QED
    BY <2>1, <2>2, Greatest DEF Prefix
<1>4. ASSUME UNCHANGED <<seq, events, got>>, (stream = "complete") <=> (stream' = "complete")
      PROVE  UNCHANGED Feed!vars
  BY <1>4 DEF Feed!vars, Prefix
<1>5. ASSUME NEW w \in Writer, Commit(w) PROVE Feed!Publish
  <2>1. txn[w].step # "idle" /\ txn[w].seq = seq + 1
    BY <1>5 DEF Commit, FeedInv, LockHeld
  <2>2. PICK new : new = [seq |-> seq + 1, effect |-> txn[w].effect]
    OBVIOUS
  <2>3. /\ seq' = seq + 1 /\ events' = events \cup {new}
        /\ UNCHANGED <<got, stream>>
    BY <1>5, <2>1, <2>2 DEF Commit, CounterAfter, streamVars
  <2>4. new.seq = seq'
    BY <2>2, <2>3
  <2>5. endings' \in {endings, endings \cup {seq'}}
    <3>1. CASE new.effect = "end"
      <4>1. {f \in events' : f.effect = "end"} = {f \in events : f.effect = "end"} \cup {new}
        BY <2>3, <3>1
      <4>2. endings' = endings \cup {new.seq}
        BY <4>1
      <4> QED
        BY <2>4, <4>2
    <3>2. CASE new.effect # "end"
      <4>1. {f \in events' : f.effect = "end"} = {f \in events : f.effect = "end"}
        BY <2>3, <3>2
      <4> QED
        BY <4>1
    <3> QED
      BY <3>1, <3>2
  <2>6. j = k
    <3>1. 1..k = 1..j /\ k \in Nat /\ j \in Nat
      BY <1>0, <1>1, <1>2, <2>3 DEF Holds
    <3>2. (k # 0 => k \in 1..k) /\ (j # 0 => j \in 1..j)
      BY <3>1
    <3> QED
      BY <3>1, <3>2
  <2> QED
    BY <1>3, <2>3, <2>5, <2>6 DEF Feed!Publish
<1>6. ASSUME NEW p \in Poll, Emit(p) \/ EmitBroken(p), stream = "open"
      PROVE  Feed!Receive
  <2>1. UNCHANGED <<seq, events>> /\ got \subseteq got'
    BY <1>6 DEF Emit, EmitBroken, dbVars
  <2>2. j \in k..seq
    <3>1. 1..k \subseteq 1..j /\ k \in Nat /\ j \in Nat
      BY <1>0, <1>1, <1>2, <2>1 DEF Holds
    <3>2. k <= j
      <4>1. CASE k = 0
        BY <3>1, <4>1
      <4>2. CASE k # 0
        <5>1. k \in 1..k
          BY <3>1, <4>2
        <5> QED
          BY <3>1, <5>1
      <4> QED
        BY <4>1, <4>2
    <3> QED
      BY <1>0, <2>1, <3>1, <3>2
  <2>3. stream' = "complete" => \E n \in endings : n <= j
    <3> SUFFICES ASSUME stream' = "complete" PROVE \E n \in endings : n <= j
        OBVIOUS
    <3>1. PICK e \in events : e.effect = "end" /\ e.seq \in got'
      BY <2>1 DEF FeedInv, CompletionAnnounced
    <3>2. e.seq \in endings
      BY <3>1
    <3>3. e.seq <= j
      BY <1>0, <1>2, <3>1
    <3> QED
      BY <3>2, <3>3
  <2> QED
    BY <1>3, <1>6, <2>1, <2>2, <2>3 DEF Feed!Receive
<1>7. ASSUME NEW p \in Poll, Emit(p), stream # "open"
      PROVE  UNCHANGED Feed!vars
  BY <1>4, <1>7 DEF Emit, dbVars
<1>8. ASSUME NEW w \in Writer, WriterStep(w), ~Commit(w)
      PROVE  UNCHANGED Feed!vars
  BY <1>4, <1>8 DEF WriterStep, BeginAppend, BeginStop, InsertEvent,
                    SetCounter, Rollback, streamVars
<1>9. ASSUME NEW p \in Poll, PollBegin(p) \/ ReadRow(p) \/ ReadEvents(p)
      PROVE  UNCHANGED Feed!vars
  BY <1>4, <1>9 DEF PollBegin, ReadRow, ReadEvents, dbVars
<1>10. Reconnect \/ UNCHANGED vars => UNCHANGED Feed!vars
  BY <1>4 DEF Reconnect, dbVars, vars
<1> QED
  BY <1>5, <1>6, <1>7, <1>8, <1>9, <1>10
  DEF Next, PollStep, EmitBroken, WriterStep, Feed!Next

(***************************************************************************)
(* The initial states are those of the promised feed.                      *)
(***************************************************************************)
LEMMA FeedStart == Init => Feed!Init
<1>1. ASSUME Init PROVE Prefix = 0
  <2>1. {n \in 0..seq : 1..n \subseteq got} = 0..0
    BY <1>1 DEF Init
  <2>2. Max0(0..0) = 0
    BY Greatest, 0 \in Nat, 0 <= 0
  <2> QED
    BY <2>1, <2>2 DEF Prefix
<1> QED
  BY <1>1 DEF Init, Feed!Init

(***************************************************************************)
(* The tables, the transactions, the polls and the subscriber keep their   *)
(* types, for any writers, polls and length of the log.                    *)
(***************************************************************************)
THEOREM TypeCorrect == Spec => []TypeOK
<1>1. FeedInv => TypeOK
  BY DEF FeedInv
<1> QED
  BY <1>1, FeedInvariance, PTL

(***************************************************************************)
(* The subscriber holds a prefix of the log, however many polls overlap    *)
(* and connections break (RunService.stream).                              *)
(***************************************************************************)
THEOREM NoEventMissedHolds == Spec => []NoEventMissed
<1>1. FeedInv => NoEventMissed
  BY DEF FeedInv, PrefixHeld, Holds, TypeOK, NoEventMissed
<1> QED
  BY <1>1, FeedInvariance, PTL

(***************************************************************************)
(* A completed stream has delivered an event that ended the run.           *)
(***************************************************************************)
THEOREM CompletionAnnouncedHolds == Spec => []CompletionAnnounced
<1>1. FeedInv => CompletionAnnounced
  BY DEF FeedInv
<1> QED
  BY <1>1, FeedInvariance, PTL

(***************************************************************************)
(* The row locks, the two queries of a poll, the shared cursor and the     *)
(* reconnects implement the prefix feed (append, stop, stream).            *)
(***************************************************************************)
THEOREM ImplementsFeedHolds == Spec => ImplementsFeed
<1>1. FeedInv /\ FeedInv' /\ [Next]_vars => [Feed!Next]_Feed!vars
  BY FeedStep
<1> QED
  BY <1>1, FeedStart, FeedInvariance, PTL DEF Spec, Feed!Spec, ImplementsFeed
=============================================================================
