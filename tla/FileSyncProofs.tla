--------------------------- MODULE FileSyncProofs ---------------------------
(***************************************************************************)
(* For any files, sessions, runs and faults: the gateway waits for one     *)
(* handler at a time, and without faults whatever is saved is announced    *)
(* and in the latest snapshot of its run.                                  *)
(***************************************************************************)
EXTENDS FileSync, TLAPS

Running(h) == handler[h].at # "free"

Live(h) == handler[h].caller # NoSession

\* The operation that is being sent is the only one, and its session sends it.
ActiveSends ==
  /\ \A s \in Session : s \in active <=> walk[s].at \in {"sending", "awaiting"}
  /\ \A s, t \in active : s = t

\* A handler the gateway waits for has a session that awaits it.
LiveAwaits == \A h \in Request : Live(h) => Running(h) /\ walk[handler[h].caller].at = "awaiting"

FreeIsEmpty == \A h \in Request : ~Running(h) => handler[h].changed = {}

SyncInv == ActiveSends /\ LiveAwaits /\ FreeIsEmpty /\ OneSyncAtATime

\* Handlers work, and rows are saved, for a run that exists.
RowRuns ==
  /\ \A f \in File : row[f].run <= run
  /\ \A h \in Request : handler[h].run <= run

\* Only handlers posted before the first run have none, and then no row has one.
NoRunYet == \A h \in Request : Running(h) /\ handler[h].run = 0 => \A f \in File : row[f].run = 0

HasRun == \A h \in Request :
  handler[h].at \in {"announcing", "listing", "snapshotting"} => handler[h].run # 0

\* What a handler has saved is still there, and it is announced once it says so.
Progress == \A h \in Request : \A f \in handler[h].changed :
  /\ handler[h].run # 0 => row[f].run = handler[h].run
  /\ \/ handler[h].at \in {"writing", "announcing"} /\ row[f].version = handler[h].files[f]
     \/ handler[h].at \in {"listing", "snapshotting"} /\ row[f].version = announced[f]

\* Nobody writes between the manifest and the snapshot.
Listing == \A h \in Request : handler[h].at = "snapshotting" => handler[h].manifest = Saved

AllLive == \A h \in Request : Running(h) => Live(h)

RecordInv == faults = 0 =>
  AllLive /\ NoRunYet /\ HasRun /\ Progress /\ Listing

\* No content is newer than the file.
OnDisk == \A f \in File :
  /\ row[f].version <= disk[f]
  /\ \A s \in Session : walk[s].files[f] <= disk[f]
  /\ \A h \in Request : handler[h].files[f] <= disk[f]

\* What a walk has read is as new as all that is saved or on its way, until
\* another session begins to send.
ReadsNewest == \A s \in Session \ overtaken, f \in File :
  walk[s].at = "reading" /\ f \notin walk[s].unread =>
    /\ row[f].version <= walk[s].files[f]
    /\ \A h \in Request : handler[h].files[f] <= walk[s].files[f]
    /\ \A t \in active : walk[t].files[f] <= walk[s].files[f]

SendsNewest == \A s \in active \ overtaken, f \in File : walk[s].files[f] # 0 =>
  /\ row[f].version <= walk[s].files[f]
  /\ \A h \in Request : handler[h].files[f] <= walk[s].files[f]

WritesNewest == \A h \in Request, f \in File :
  Live(h) /\ handler[h].caller \notin overtaken /\ handler[h].files[f] # 0 =>
    /\ row[f].version <= handler[h].files[f]
    /\ \A g \in Request : handler[g].files[f] <= handler[h].files[f]

TodoHasContent == \A h \in Request : \A f \in handler[h].todo :
  handler[h].at = "writing" /\ handler[h].files[f] # 0

NewestInv == OnDisk /\ ReadsNewest /\ SendsNewest /\ WritesNewest /\ TodoHasContent

IInv == TypeOK /\ SyncInv /\ RowRuns /\ RecordInv /\ SavedIsRecorded /\ NewestInv

(***************************************************************************)
(* The records the module names have their types.                          *)
(***************************************************************************)
LEMMA Records == IdleWalk \in Walk /\ Free \in Handler /\ Nothing \in Versions
BY SyncAssumption DEF SyncAssumption, IdleWalk, Free, Nothing, Walk, Handler, Versions

(***************************************************************************)
(* Ending an operation makes its session, and who joined it, idle.         *)
(***************************************************************************)
LEMMA EndType ==
  ASSUME TypeOK, NEW s \in Session, NEW left \in SUBSET Session, EndOperation(s, left)
  PROVE  /\ walk' \in [Session -> Walk]
         /\ active' \subseteq Session
         /\ overtaken' \subseteq Session
BY Records DEF EndOperation, TypeOK

\* An answered request keeps the types.
LEMMA AnswerType ==
  ASSUME TypeOK, NEW h \in Request, Answer(h)
  PROVE  /\ walk' \in [Session -> Walk]
         /\ active' \subseteq Session
         /\ overtaken' \subseteq Session
         /\ handler' \in [Request -> Handler]
<1>1. handler' \in [Request -> Handler]
  BY Records DEF Answer, TypeOK
<1>2. CASE handler[h].caller = NoSession
  BY <1>1, <1>2 DEF Answer, TypeOK
<1>3. CASE handler[h].caller # NoSession
  <2> PICK s \in Session : s = handler[h].caller
    BY <1>3 DEF TypeOK, Handler
  <2>1. CASE walk[s].files # Nothing
    <3>1. /\ walk' = [walk EXCEPT ![s].at = "sending"]
          /\ UNCHANGED <<active, overtaken>>
      BY <1>3, <2>1 DEF Answer
    <3>2. walk' \in [Session -> Walk]
      BY <3>1 DEF TypeOK, Walk
    <3> QED
      BY <1>1, <3>1, <3>2 DEF TypeOK
  <2>2. CASE walk[s].files = Nothing
    <3>1. EndOperation(s, active \ {s})
      BY <1>3, <2>2 DEF Answer
    <3> QED
      BY <1>1, <3>1, EndType DEF TypeOK
  <2> QED
    BY <2>1, <2>2
<1> QED
  BY <1>2, <1>3

Posted(s, batch, h) ==
  /\ handler[h].at = "free"
  /\ \A g \in Request \ {h} : handler'[g] = handler[g]
  /\ handler' \in [Request -> Handler]
  /\ handler'[h].at = "hashing"
  /\ handler'[h].caller = s /\ handler'[h].run = run
  /\ handler'[h].todo = {} /\ handler'[h].changed = {}
  /\ handler'[h].files = [f \in File |-> IF f \in batch THEN walk[s].files[f] ELSE 0]

\* A POST finds a slot and fills it with what the session read.
LEMMA PostedType ==
  ASSUME TypeOK, NEW s \in Session, NEW batch \in SUBSET File, Post(s, batch)
  PROVE  \E h \in Request : Posted(s, batch, h)
<1> DEFINE h == First({g \in Request : handler[g].at = "free"})
           sent == [f \in File |-> IF f \in batch THEN walk[s].files[f] ELSE 0]
           e == [Free EXCEPT !.at = "hashing", !.caller = s, !.run = run, !.files = sent]
<1>1. h \in Request /\ handler[h].at = "free"
  BY DEF Post, First
<1>2. handler' = [handler EXCEPT ![h] = e]
  BY DEF Post
<1>3. sent \in Versions
  BY DEF TypeOK, Walk, Versions
<1>4. e \in Handler
  BY <1>3, Records DEF TypeOK, Handler
<1>5. /\ e.at = "hashing" /\ e.caller = s /\ e.run = run
      /\ e.todo = {} /\ e.changed = {} /\ e.files = sent
  BY DEF Free
<1> HIDE DEF h, e
<1>6. /\ handler'[h] = e /\ handler' \in [Request -> Handler]
      /\ \A g \in Request \ {h} : handler'[g] = handler[g]
  BY <1>1, <1>2, <1>4 DEF TypeOK
<1> QED
  BY <1>1, <1>5, <1>6 DEF Posted

(***************************************************************************)
(* Every step keeps the types.                                             *)
(***************************************************************************)
LEMMA TypeStep == TypeOK /\ [Next]_vars => TypeOK'
<1> SUFFICES ASSUME TypeOK, [Next]_vars PROVE TypeOK'
    OBVIOUS
<1>0. run \in Nat /\ faults \in Nat /\ MaxRun \in Nat /\ MaxFaults \in Nat
  BY SyncAssumption DEF SyncAssumption, TypeOK
<1>1. CASE UNCHANGED vars
  BY <1>1 DEF TypeOK, vars
<1>2. ASSUME NEW f \in File, Edit(f) PROVE TypeOK'
  <2>1. disk' = [disk EXCEPT ![f] = @ + 1]
    BY <1>2 DEF Edit
  <2>2. disk' \in Versions
    BY <2>1 DEF TypeOK, Versions
  <2> QED
    BY <1>2, <2>2 DEF Edit, TypeOK
<1>3. CASE CreateRun
  BY <1>0, <1>3 DEF CreateRun, TypeOK
<1>4. CASE EndRun
  <2>1. Saved \in Versions /\ run \in Runs
    BY <1>0, <1>4 DEF EndRun, Saved, TypeOK, Versions, Runs
  <2>2. snapshot' \in [Runs -> [taken : BOOLEAN, manifest : Versions]]
    BY <1>4, <2>1 DEF EndRun, TypeOK
  <2> QED
    BY <1>4, <2>2 DEF EndRun, TypeOK
<1>5. ASSUME NEW s \in Session, StartWalk(s) PROVE TypeOK'
  <2> DEFINE e == [walk[s] EXCEPT !.at = "reading", !.unread = File]
  <2>1. walk[s] \in Walk /\ walk' = [walk EXCEPT ![s] = e]
    BY <1>5 DEF StartWalk, TypeOK, Walk
  <2>2. e \in Walk
    BY <2>1 DEF Walk
  <2>3. walk' \in [Session -> Walk]
    BY <2>1, <2>2 DEF TypeOK
  <2> QED
    BY <1>5, <2>3 DEF StartWalk, TypeOK
<1>6. ASSUME NEW s \in Session, ReadFile(s) PROVE TypeOK'
  <2> PICK f \in File : walk' = [walk EXCEPT ![s].unread = @ \ {f}, ![s].files[f] = disk[f]]
    BY <1>6 DEF ReadFile, First, TypeOK, Walk
  <2>1. walk[s] \in Walk /\ disk[f] \in Nat
    BY DEF TypeOK, Versions
  <2>2. [walk[s].files EXCEPT ![f] = disk[f]] \in Versions
    BY <2>1 DEF Versions, Walk
  <2>3. walk' = [walk EXCEPT ![s] = [walk[s] EXCEPT !.unread = walk[s].unread \ {f},
                                       !.files = [walk[s].files EXCEPT ![f] = disk[f]]]]
    BY DEF TypeOK, Walk
  <2>4. walk' \in [Session -> Walk]
    BY <2>1, <2>2, <2>3 DEF TypeOK, Walk
  <2> QED
    BY <1>6, <2>4 DEF ReadFile, TypeOK
<1>7. ASSUME NEW s \in Session, Submit(s) PROVE TypeOK'
  <2>1. active' \subseteq Session /\ overtaken' \subseteq Session
    BY <1>7 DEF Submit, TypeOK
  <2>2. ASSUME NEW w \in Walk, walk' = [walk EXCEPT ![s] = w] PROVE walk' \in [Session -> Walk]
    BY <2>2 DEF TypeOK
  <2>3. [walk[s] EXCEPT !.at = "sending"] \in Walk
    BY DEF TypeOK, Walk
  <2>4. ASSUME NEW t \in Session PROVE [IdleWalk EXCEPT !.at = "joined", !.behind = t] \in Walk
    BY Records DEF Walk
  <2>5. \/ walk' = [walk EXCEPT ![s] = IdleWalk]
        \/ \E t \in Session :
             walk' = [walk EXCEPT ![s] = [IdleWalk EXCEPT !.at = "joined", !.behind = t]]
        \/ walk' = [walk EXCEPT ![s] = [walk[s] EXCEPT !.at = "sending"]]
    BY <1>7 DEF Submit, Shared, TypeOK
  <2>6. walk' \in [Session -> Walk]
    BY <2>2, <2>3, <2>4, <2>5, Records
  <2> QED
    BY <1>7, <2>1, <2>6 DEF Submit, TypeOK
<1>8. ASSUME NEW s \in Session, NEW batch \in SUBSET File, Post(s, batch) PROVE TypeOK'
  <2> DEFINE kept == [f \in File |-> IF f \in batch THEN 0 ELSE walk[s].files[f]]
  <2>1. walk[s] \in Walk /\ kept \in Versions
    BY DEF TypeOK, Versions, Walk
  <2>2. handler' \in [Request -> Handler]
    <3>1. PICK h \in Request : Posted(s, batch, h)
      BY <1>8, PostedType
    <3> QED
      BY <3>1 DEF Posted
  <2>3. walk' = [walk EXCEPT ![s] = [walk[s] EXCEPT !.at = "awaiting", !.files = kept]]
    BY <1>8 DEF Post, TypeOK, Walk
  <2>4. walk' \in [Session -> Walk]
    BY <2>1, <2>3 DEF TypeOK, Walk
  <2> QED
    BY <1>8, <2>2, <2>4 DEF Post, TypeOK
<1>9. ASSUME NEW s \in Session, Lose(s) PROVE TypeOK'
  <2>1. EndOperation(s, active \ {s}) /\ faults' \in 0..MaxFaults
    BY <1>0, <1>9 DEF Lose, Forgotten
  <2> QED
    BY <1>9, <2>1, EndType DEF Lose, TypeOK
<1>10. ASSUME NEW h \in Request, GiveUp(h) PROVE TypeOK'
  <2> PICK s \in Session : s = handler[h].caller
    BY <1>10 DEF GiveUp, TypeOK, Handler
  <2>1. EndOperation(s, active \ {s}) /\ faults' \in 0..MaxFaults
    BY <1>0, <1>10 DEF GiveUp, Forgotten
  <2>2. handler' \in [Request -> Handler]
    <3>1. handler[h] \in Handler
      BY DEF TypeOK
    <3>2. [handler[h] EXCEPT !.caller = NoSession] \in Handler
      BY <3>1 DEF Handler
    <3> QED
      BY <1>10, <3>2 DEF GiveUp, TypeOK
  <2> QED
    BY <1>10, <2>1, <2>2, EndType DEF GiveUp, TypeOK
<1>11. ASSUME NEW h \in Request, Stop(h) PROVE TypeOK'
  <2>1. handler' \in [Request -> Handler]
    <3>1. handler \in [Request -> Handler] /\ Free \in Handler
      BY Records DEF TypeOK
    <3> QED
      BY <1>11, <3>1 DEF Stop
  <2> QED
    BY <1>11, <2>1 DEF Stop, TypeOK
<1>12. ASSUME NEW h \in Request, ReadHashes(h) PROVE TypeOK'
  <2> DEFINE e == [handler[h] EXCEPT !.at = "writing", !.todo = Differing(h)]
  <2>1. e \in Handler
    <3>1. handler[h] \in Handler /\ Differing(h) \in SUBSET File
      BY DEF TypeOK, Differing
    <3> QED
      BY <3>1 DEF Handler
  <2>2. handler' = [handler EXCEPT ![h] = e]
    BY <1>12 DEF ReadHashes, TypeOK, Handler
  <2>3. handler' \in [Request -> Handler]
    BY <2>1, <2>2 DEF TypeOK
  <2> QED
    BY <1>12, <2>3 DEF ReadHashes, TypeOK
<1>13. ASSUME NEW h \in Request, NEW f \in File, Write(h, f) PROVE TypeOK'
  <2>1. handler[h] \in Handler /\ handler[h].files[f] \in Nat
    BY DEF TypeOK, Handler, Versions
  <2> DEFINE e == [handler[h] EXCEPT !.todo = handler[h].todo \ {f},
                                     !.changed = handler[h].changed \cup {f}]
  <2>2. handler' \in [Request -> Handler]
    <3>1. e \in Handler
      BY <2>1 DEF Handler
    <3>2. handler' = [handler EXCEPT ![h] = e]
      BY <1>13 DEF Write, TypeOK, Handler
    <3> QED
      BY <3>1, <3>2 DEF TypeOK
  <2>3. row' \in [File -> [version : Nat, run : 0..MaxRun]]
    BY <1>13, <2>1 DEF Write, TypeOK, Handler
  <2> QED
    BY <1>13, <2>2, <2>3 DEF Write, TypeOK
<1>14. ASSUME NEW h \in Request, Written(h) PROVE TypeOK'
  <2>1. CASE handler[h].run = 0
    BY <1>14, <2>1, AnswerType DEF Written, TypeOK
  <2>2. CASE handler[h].run # 0
    <3>1. PICK next \in {"listing", "announcing"} :
            handler' = [handler EXCEPT ![h] = [handler[h] EXCEPT !.at = next]]
      BY <1>14, <2>2 DEF Written, TypeOK
    <3>2. handler[h] \in Handler
      BY DEF TypeOK
    <3>3. [handler[h] EXCEPT !.at = next] \in Handler
      BY <3>2 DEF Handler
    <3>4. handler' \in [Request -> Handler]
      BY <3>1, <3>3 DEF TypeOK
    <3> QED
      BY <1>14, <2>2, <3>4 DEF Written, TypeOK
  <2> QED
    BY <2>1, <2>2
<1>15. ASSUME NEW h \in Request, Announce(h) PROVE TypeOK'
  <2> DEFINE e == [handler[h] EXCEPT !.at = "listing", !.files = Nothing]
  <2>0. handler[h] \in Handler /\ handler' = [handler EXCEPT ![h] = e]
    BY <1>15 DEF Announce, TypeOK, Handler
  <2>1. handler' \in [Request -> Handler]
    <3>1. e \in Handler
      BY <2>0, Records DEF Handler
    <3> QED
      BY <2>0, <3>1 DEF TypeOK
  <2>2. announced' \in Versions
    BY <1>15 DEF Announce, TypeOK, Handler, Versions
  <2> QED
    BY <1>15, <2>1, <2>2 DEF Announce, TypeOK
<1>16. ASSUME NEW h \in Request, ReadRows(h) PROVE TypeOK'
  <2>1. Saved \in Versions
    BY DEF Saved, TypeOK, Versions
  <2> DEFINE e == [handler[h] EXCEPT !.at = "snapshotting", !.manifest = Saved]
  <2>2. handler' \in [Request -> Handler]
    <3>1. handler[h] \in Handler
      BY DEF TypeOK
    <3>2. e \in Handler
      BY <2>1, <3>1 DEF Handler
    <3>3. handler' = [handler EXCEPT ![h] = e]
      BY <1>16 DEF ReadRows, TypeOK, Handler
    <3> QED
      BY <3>2, <3>3 DEF TypeOK
  <2> QED
    BY <1>16, <2>2 DEF ReadRows, TypeOK
<1>17. ASSUME NEW h \in Request, TakeSnapshot(h) PROVE TypeOK'
  <2>1. snapshot' \in [Runs -> [taken : BOOLEAN, manifest : Versions]]
    BY <1>17 DEF TakeSnapshot, TypeOK, Handler
  <2> QED
    BY <1>17, <2>1, AnswerType DEF TakeSnapshot, TypeOK
<1> QED
  BY <1>1, <1>2, <1>3, <1>4, <1>5, <1>6, <1>7, <1>8, <1>9, <1>10, <1>11, <1>12, <1>13, <1>14,
     <1>15, <1>16, <1>17 DEF Next, Proceed, Handle

-----------------------------------------------------------------------------
(***************************************************************************)
(* The operation of s ends: then nothing is being sent.                    *)
(***************************************************************************)
LEMMA EndSync ==
  ASSUME TypeOK, SyncInv, NEW s \in active, EndOperation(s, active \ {s}),
         \A h \in Request : handler'[h].caller = NoSession,
         FreeIsEmpty'
  PROVE  SyncInv'
<1>0. s \in Session /\ active = {s}
  BY DEF TypeOK, SyncInv, ActiveSends
<1>1. active' = {}
  BY <1>0 DEF EndOperation
<1>2. \A t \in Session : walk'[t].at \notin {"sending", "awaiting"}
  <2> TAKE t \in Session
  <2>1. walk'[t] = IdleWalk \/ (t # s /\ walk'[t] = walk[t])
    BY DEF EndOperation
  <2>2. t # s => walk[t].at \notin {"sending", "awaiting"}
    BY <1>0 DEF SyncInv, ActiveSends
  <2> QED
    BY <2>1, <2>2 DEF IdleWalk
<1> QED
  BY <1>1, <1>2 DEF SyncInv, ActiveSends, LiveAwaits, Live, OneSyncAtATime

(***************************************************************************)
(* A handler that goes on keeps its place.                                 *)
(***************************************************************************)
Moves(h) ==
  /\ UNCHANGED <<walk, active>>
  /\ \A g \in Request \ {h} : handler'[g] = handler[g]
  /\ Running(h) /\ handler'[h].at # "free"
  /\ handler'[h].caller = handler[h].caller /\ handler'[h].run = handler[h].run

\* A handler that goes on keeps the sync invariant.
LEMMA MoveSync ==
  ASSUME SyncInv, NEW h \in Request, Moves(h)
  PROVE  SyncInv'
BY DEF Moves, SyncInv, ActiveSends, LiveAwaits, FreeIsEmpty, Running, Live, OneSyncAtATime

\* So does one that answers.
LEMMA AnswerSync ==
  ASSUME TypeOK, SyncInv, NEW h \in Request, Answer(h)
  PROVE  SyncInv'
<1>1. handler' = [handler EXCEPT ![h] = Free]
  BY DEF Answer
<1>2. /\ handler'[h] = Free /\ Free.caller = NoSession /\ Free.changed = {} /\ Free.at = "free"
      /\ \A g \in Request : g # h => handler'[g] = handler[g]
  BY <1>1 DEF TypeOK, Free
<1>3. FreeIsEmpty'
  BY <1>2 DEF SyncInv, FreeIsEmpty, Running
<1>4. CASE handler[h].caller = NoSession
  <2>1. UNCHANGED <<walk, active>>
    BY <1>4 DEF Answer
  <2> QED
    BY <1>2, <1>3, <2>1 DEF SyncInv, ActiveSends, LiveAwaits, Running, Live, OneSyncAtATime
<1>5. CASE handler[h].caller # NoSession
  <2> PICK s \in Session : s = handler[h].caller
    BY <1>5 DEF TypeOK, Handler
  <2>1. walk[s].at = "awaiting" /\ s \in active
    BY <1>5 DEF SyncInv, LiveAwaits, Live, ActiveSends
  <2>2. \A g \in Request : handler'[g].caller = NoSession
    BY <1>2, <1>5 DEF SyncInv, OneSyncAtATime
  <2>3. CASE walk[s].files # Nothing
    <3>1. walk' = [walk EXCEPT ![s].at = "sending"] /\ active' = active
      BY <1>5, <2>3 DEF Answer
    <3>2. \A t \in Session : walk'[t].at = IF t = s THEN "sending" ELSE walk[t].at
      BY <3>1 DEF TypeOK, Walk
    <3> QED
      BY <1>3, <2>1, <2>2, <3>1, <3>2 DEF SyncInv, ActiveSends, LiveAwaits, Live, OneSyncAtATime
  <2>4. CASE walk[s].files = Nothing
    <3>1. EndOperation(s, active \ {s})
      BY <1>5, <2>4 DEF Answer
    <3> QED
      BY <1>3, <2>1, <2>2, <3>1, EndSync
  <2> QED
    BY <2>3, <2>4
<1> QED
  BY <1>4, <1>5

(***************************************************************************)
(* The steps by which a handler goes on.                                   *)
(***************************************************************************)
LEMMA HandlerMoves ==
  ASSUME TypeOK, NEW h \in Request,
         \/ ReadHashes(h) \/ (\E f \in File : Write(h, f)) \/ Announce(h) \/ ReadRows(h)
         \/ Written(h) /\ handler[h].run # 0
  PROVE  Moves(h) /\ UNCHANGED overtaken
<1>0. handler \in [Request -> Handler]
  BY DEF TypeOK
<1>1. CASE ReadHashes(h)
  BY <1>0, <1>1 DEF Handler, ReadHashes, Moves, Running
<1>2. ASSUME NEW f \in File, Write(h, f) PROVE Moves(h) /\ UNCHANGED overtaken
  BY <1>0, <1>2 DEF Handler, Write, Moves, Running
<1>3. CASE Announce(h)
  BY <1>0, <1>3 DEF Handler, Announce, Moves, Running
<1>4. CASE ReadRows(h)
  BY <1>0, <1>4 DEF Handler, ReadRows, Moves, Running
<1>5. CASE Written(h) /\ handler[h].run # 0
  BY <1>0, <1>5 DEF Handler, Written, Moves, Running
<1> QED
  BY <1>1, <1>2, <1>3, <1>4, <1>5

(***************************************************************************)
(* Every step keeps the gateway to one operation and one handler.          *)
(***************************************************************************)
LEMMA SyncStep == TypeOK /\ SyncInv /\ [Next]_vars => SyncInv'
<1> SUFFICES ASSUME TypeOK, SyncInv, [Next]_vars PROVE SyncInv'
    OBVIOUS
<1>1. CASE UNCHANGED <<walk, active, handler>>
  BY <1>1 DEF SyncInv, ActiveSends, LiveAwaits, FreeIsEmpty, Running, Live, OneSyncAtATime
<1>2. ASSUME NEW s \in Session, StartWalk(s) PROVE SyncInv'
  <2>1. \A t \in Session : walk'[t].at = IF t = s THEN "reading" ELSE walk[t].at
    BY <1>2 DEF StartWalk, TypeOK, Walk
  <2>2. walk[s].at = "idle" /\ UNCHANGED <<active, handler>>
    BY <1>2 DEF StartWalk
  <2>3. \A h \in Request : Live(h) => handler[h].caller \in Session
    BY DEF Live, TypeOK, Handler
  <2>4. ActiveSends'
    BY <2>1, <2>2 DEF SyncInv, ActiveSends, TypeOK
  <2>5. LiveAwaits'
    BY <2>1, <2>2, <2>3 DEF SyncInv, LiveAwaits, Running, Live
  <2> QED
    BY <2>2, <2>4, <2>5 DEF SyncInv, FreeIsEmpty, Running, OneSyncAtATime
<1>3. ASSUME NEW s \in Session, ReadFile(s) PROVE SyncInv'
  <2>1. \A t \in Session : walk'[t].at = walk[t].at
    BY <1>3 DEF ReadFile, TypeOK, Walk
  <2>2. UNCHANGED <<active, handler>>
    BY <1>3 DEF ReadFile
  <2> QED
    BY <2>1, <2>2 DEF SyncInv, ActiveSends, LiveAwaits, FreeIsEmpty, Running, Live, OneSyncAtATime,
                      TypeOK, Handler
<1>4. ASSUME NEW s \in Session, Submit(s) PROVE SyncInv'
  <2>1. walk[s].at = "reading" /\ UNCHANGED handler /\ s \notin active
    BY <1>4 DEF Submit, SyncInv, ActiveSends
  <2>2. CASE UNCHANGED active
    <3>1. walk'[s].at \in {"idle", "joined"} /\ \A t \in Session \ {s} : walk'[t] = walk[t]
      <4>1. \/ walk' = [walk EXCEPT ![s] = IdleWalk]
            \/ \E t \in Shared :
                 walk' = [walk EXCEPT ![s] = [IdleWalk EXCEPT !.at = "joined", !.behind = t]]
        BY <1>4, <2>1, <2>2 DEF Submit
      <4>2. CASE walk' = [walk EXCEPT ![s] = IdleWalk]
        BY <4>2 DEF TypeOK, IdleWalk
      <4>3. ASSUME NEW t \in Shared,
                   walk' = [walk EXCEPT ![s] = [IdleWalk EXCEPT !.at = "joined", !.behind = t]]
            PROVE  walk'[s].at = "joined" /\ \A u \in Session \ {s} : walk'[u] = walk[u]
        BY <4>3 DEF TypeOK, IdleWalk
      <4> QED
        BY <4>1, <4>2, <4>3
    <3>2. ActiveSends'
      BY <2>1, <2>2, <3>1 DEF SyncInv, ActiveSends
    <3>3. LiveAwaits'
      <4>1. \A h \in Request : Live(h) => handler[h].caller \in Session \ {s}
        BY <2>1 DEF SyncInv, LiveAwaits, Live, TypeOK, Handler
      <4> QED
        BY <2>1, <3>1, <4>1 DEF SyncInv, LiveAwaits, Running, Live
    <3> QED
      BY <2>1, <2>2, <3>2, <3>3 DEF SyncInv, FreeIsEmpty, Running, OneSyncAtATime
  <2>3. CASE ~UNCHANGED active
    <3>1. /\ active = {} /\ active' = {s}
          /\ walk'[s].at = "sending" /\ \A t \in Session \ {s} : walk'[t] = walk[t]
      <4>1. active = {} /\ active' = {s} /\ walk' = [walk EXCEPT ![s].at = "sending"]
        BY <1>4, <2>3 DEF Submit, Shared
      <4> QED
        BY <4>1 DEF TypeOK, Walk
    <3> QED
      BY <2>1, <3>1 DEF SyncInv, ActiveSends, LiveAwaits, FreeIsEmpty, Running, Live,
                        OneSyncAtATime, TypeOK, Handler
  <2> QED
    BY <2>2, <2>3
<1>5. ASSUME NEW s \in Session, NEW batch \in SUBSET File, Post(s, batch) PROVE SyncInv'
  <2>0. PICK h \in Request : Posted(s, batch, h)
    BY <1>5, PostedType
  <2>1. /\ walk[s].at = "sending" /\ UNCHANGED active
        /\ \A t \in Session : walk'[t].at = IF t = s THEN "awaiting" ELSE walk[t].at
    BY <1>5 DEF Post, TypeOK, Walk
  <2>2. s \in active /\ \A g \in Request : handler[g].caller = NoSession
    BY <2>1 DEF SyncInv, ActiveSends, LiveAwaits, Live, TypeOK, Handler
  <2>3. /\ handler[h].at = "free" /\ handler'[h].at = "hashing" /\ handler'[h].caller = s
        /\ \A g \in Request \ {h} : handler'[g] = handler[g]
    BY <2>0 DEF Posted
  <2> QED
    BY <2>1, <2>2, <2>3 DEF SyncInv, ActiveSends, LiveAwaits, FreeIsEmpty, Running, Live,
                            OneSyncAtATime
<1>6. ASSUME NEW s \in Session, Lose(s) PROVE SyncInv'
  <2>1. EndOperation(s, active \ {s}) /\ s \in active /\ UNCHANGED handler
    BY <1>6 DEF Lose, Forgotten, SyncInv, ActiveSends
  <2>2. \A g \in Request : handler[g].caller = NoSession
    BY <1>6, <2>1 DEF Lose, SyncInv, ActiveSends, LiveAwaits, Live, TypeOK, Handler
  <2>3. FreeIsEmpty'
    BY <2>1 DEF SyncInv, FreeIsEmpty, Running
  <2> QED
    BY <2>1, <2>2, <2>3, EndSync
<1>7. ASSUME NEW h \in Request, GiveUp(h) PROVE SyncInv'
  <2> PICK s \in Session : s = handler[h].caller
    BY <1>7 DEF GiveUp, TypeOK, Handler
  <2>1. EndOperation(s, active \ {s}) /\ s \in active
    BY <1>7 DEF GiveUp, Forgotten, SyncInv, ActiveSends, LiveAwaits, Live
  <2>2. \A g \in Request : /\ handler'[g].caller = NoSession
                           /\ handler'[g].at = handler[g].at
                           /\ handler'[g].changed = handler[g].changed
    BY <1>7 DEF GiveUp, SyncInv, OneSyncAtATime, TypeOK, Handler
  <2>3. FreeIsEmpty'
    BY <2>2 DEF SyncInv, FreeIsEmpty, Running
  <2> QED
    BY <2>1, <2>2, <2>3, EndSync
<1>8. ASSUME NEW h \in Request, Stop(h) PROVE SyncInv'
  <2>1. /\ handler'[h] = Free /\ \A g \in Request \ {h} : handler'[g] = handler[g]
        /\ UNCHANGED <<walk, active>>
    BY <1>8 DEF Stop, TypeOK
  <2> QED
    BY <2>1 DEF SyncInv, ActiveSends, LiveAwaits, FreeIsEmpty, Running, Live, OneSyncAtATime, Free
<1>9. ASSUME NEW h \in Request, Handle(h) PROVE SyncInv'
  <2>1. \/ ReadHashes(h) \/ (\E f \in File : Write(h, f)) \/ Announce(h) \/ ReadRows(h)
        \/ (Written(h) /\ handler[h].run # 0)
        \/ Answer(h)
    BY <1>9 DEF Handle, Written, TakeSnapshot
  <2> QED
    BY <2>1, HandlerMoves, MoveSync, AnswerSync
<1>10. (\E f \in File : Edit(f)) \/ CreateRun \/ EndRun \/ UNCHANGED vars
         => UNCHANGED <<walk, active, handler>>
  BY DEF Edit, CreateRun, EndRun, vars
<1> QED
  BY <1>1, <1>2, <1>3, <1>4, <1>5, <1>6, <1>7, <1>8, <1>9, <1>10 DEF Next, Proceed

-----------------------------------------------------------------------------
(***************************************************************************)
(* What a handler leaves when it is through.                               *)
(***************************************************************************)
LEMMA Leaves ==
  ASSUME TypeOK, NEW h \in Request, Answer(h)
  PROVE  /\ handler'[h].at = "free" /\ handler'[h].caller = NoSession
         /\ handler'[h].run = 0 /\ handler'[h].changed = {}
         /\ \A g \in Request \ {h} : handler'[g] = handler[g]
BY DEF Answer, TypeOK, Free

(***************************************************************************)
(* The steps that touch rows, handlers, events or snapshots.               *)
(***************************************************************************)
Quiet == UNCHANGED <<handler, row, announced, snapshot, faults>> /\ run' \in {run, run + 1}

\* Every step touches rows, handlers, events or snapshots, or is quiet.
LEMMA Steps ==
  ASSUME [Next]_vars
  PROVE  \/ Quiet
         \/ EndRun
         \/ \E s \in Session : Lose(s)
         \/ \E s \in Session : \E batch \in SUBSET File : Post(s, batch)
         \/ \E h \in Request : GiveUp(h) \/ Stop(h) \/ Handle(h)
<1>1. CASE UNCHANGED vars
  BY <1>1 DEF vars, Quiet
<1>2. CASE CreateRun
  BY <1>2 DEF CreateRun, Quiet
<1>3. ASSUME NEW f \in File, Edit(f) PROVE Quiet
  BY <1>3 DEF Edit, Quiet
<1>4. ASSUME NEW s \in Session, StartWalk(s) \/ ReadFile(s) \/ Submit(s) PROVE Quiet
  BY <1>4 DEF StartWalk, ReadFile, Submit, Quiet
<1> QED
  BY <1>1, <1>2, <1>3, <1>4 DEF Next, Proceed

(***************************************************************************)
(* Handlers and rows only name runs that exist.                            *)
(***************************************************************************)
LEMMA RowRunsStep == TypeOK /\ RowRuns /\ [Next]_vars => RowRuns'
<1> SUFFICES ASSUME TypeOK, RowRuns, [Next]_vars PROVE RowRuns'
    OBVIOUS
<1>0. /\ run \in Nat /\ \A f \in File : row[f].run \in Nat
      /\ \A h \in Request : handler[h].run \in Nat
  BY SyncAssumption DEF SyncAssumption, TypeOK, Handler
<1>1. ASSUME UNCHANGED <<row, handler>>, run' \in {run, run + 1} PROVE RowRuns'
  BY <1>0, <1>1 DEF RowRuns
<1>2. ASSUME NEW s \in Session, NEW batch \in SUBSET File, Post(s, batch) PROVE RowRuns'
  <2>1. PICK h \in Request : Posted(s, batch, h)
    BY <1>2, PostedType
  <2>2. /\ handler'[h].run = run /\ \A g \in Request \ {h} : handler'[g] = handler[g]
        /\ UNCHANGED <<row, run>>
    BY <1>2, <2>1 DEF Posted, Post
  <2> QED
    BY <1>0, <2>2 DEF RowRuns
<1>3. ASSUME NEW h \in Request, GiveUp(h) \/ Stop(h) \/ Handle(h) PROVE RowRuns'
  <2>1. /\ run' = run
        /\ \A g \in Request : handler'[g].run \in {handler[g].run, 0}
    <3>1. CASE GiveUp(h)
      BY <3>1 DEF GiveUp, TypeOK, Handler
    <3>2. CASE Stop(h)
      BY <3>2 DEF Stop, TypeOK, Free
    <3>3. CASE Answer(h) /\ run' = run
      BY <3>3, Leaves
    <3>4. CASE Moves(h) /\ run' = run
      BY <3>4 DEF Moves
    <3> QED
      BY <1>3, <3>1, <3>2, <3>3, <3>4, HandlerMoves
      DEF Handle, ReadHashes, Write, Written, Announce, ReadRows, TakeSnapshot
  <2>2. \A f \in File : row'[f].run = row[f].run \/ row'[f].run = handler[h].run
    <3>1. ASSUME NEW f \in File, Write(h, f)
          PROVE  \A g \in File : row'[g].run = row[g].run \/ row'[g].run = handler[h].run
      BY <3>1 DEF Write, TypeOK
    <3> QED
      BY <1>3, <3>1 DEF GiveUp, Stop, Handle, ReadHashes, Written, Announce, ReadRows, TakeSnapshot
  <2> QED
    BY <1>0, <2>1, <2>2 DEF RowRuns
<1> QED
  BY <1>1, <1>2, <1>3, Steps DEF Quiet, EndRun, Lose

(***************************************************************************)
(* Without faults, at most one handler runs, and what it and those before  *)
(* it saved is recorded.                                                   *)
(***************************************************************************)
LEMMA RecordStep ==
  ASSUME TypeOK, TypeOK', SyncInv, RowRuns, RecordInv, SavedIsRecorded, [Next]_vars
  PROVE  RecordInv' /\ SavedIsRecorded'
<1> SUFFICES ASSUME faults' = 0 PROVE RecordInv' /\ SavedIsRecorded'
    BY DEF RecordInv, SavedIsRecorded
<1>1. /\ faults \in Nat /\ run \in Nat
      /\ \A f \in File : row[f].run \in Nat /\ row[f].run <= run
  BY SyncAssumption DEF SyncAssumption, TypeOK, RowRuns
<1>2. CASE Quiet
  BY <1>2 DEF Quiet, RecordInv, SavedIsRecorded, AllLive, NoRunYet, HasRun, Progress, Listing,
              Running, Live, Saved
<1>3. CASE EndRun
  <2>1. faults = 0 /\ UNCHANGED <<handler, row, announced>>
    BY <1>3 DEF EndRun
  <2>2. \A f \in File : row[f].run # 0 => snapshot'[row[f].run] =
          IF row[f].run = run THEN [taken |-> TRUE, manifest |-> Saved] ELSE snapshot[row[f].run]
    BY <1>1, <1>3 DEF EndRun, TypeOK, Runs
  <2>3. ASSUME NEW f \in File, row[f].run # 0, \A h \in Request : f \notin handler[h].changed
        PROVE  /\ announced[f] = row[f].version /\ snapshot'[row[f].run].taken
               /\ snapshot'[row[f].run].manifest[f] = row[f].version
    <3>1. /\ announced[f] = row[f].version /\ snapshot[row[f].run].taken
          /\ snapshot[row[f].run].manifest[f] = row[f].version
      BY <2>1, <2>3 DEF SavedIsRecorded
    <3>2. CASE row[f].run = run
      <4>1. snapshot'[row[f].run] = [taken |-> TRUE, manifest |-> Saved]
        BY <2>2, <2>3, <3>2
      <4>2. snapshot'[row[f].run].taken /\ snapshot'[row[f].run].manifest = Saved
        BY <4>1
      <4> QED
        BY <3>1, <4>2 DEF Saved
    <3>3. CASE row[f].run # run
      BY <2>2, <2>3, <3>1, <3>3
    <3> QED
      BY <3>2, <3>3
  <2>4. SavedIsRecorded'
    BY <2>1, <2>3 DEF SavedIsRecorded
  <2> QED
    BY <2>1, <2>4 DEF RecordInv, AllLive, NoRunYet, HasRun, Progress, Listing, Running, Live, Saved
<1>4. ASSUME NEW s \in Session, Lose(s) PROVE FALSE
  BY <1>1, <1>4 DEF Lose
<1>5. ASSUME NEW h \in Request, GiveUp(h) PROVE FALSE
  BY <1>1, <1>5 DEF GiveUp
<1>6. ASSUME NEW h \in Request, Stop(h) PROVE FALSE
  BY <1>6 DEF Stop, RecordInv, AllLive, Running, Live
<1>7. ASSUME NEW s \in Session, NEW batch \in SUBSET File, Post(s, batch)
      PROVE  RecordInv' /\ SavedIsRecorded'
  <2>1. PICK h \in Request : Posted(s, batch, h)
    BY <1>7, PostedType
  <2>2. /\ handler[h].at = "free" /\ handler'[h].at = "hashing" /\ handler'[h].caller = s
        /\ handler'[h].run = run /\ handler'[h].changed = {}
        /\ \A g \in Request \ {h} : handler'[g] = handler[g]
        /\ faults = 0 /\ UNCHANGED <<row, announced, snapshot>>
    BY <1>7, <2>1 DEF Posted, Post
  <2>3. handler[h].changed = {} /\ s # NoSession
    BY <2>2, SyncAssumption DEF SyncInv, FreeIsEmpty, Running, SyncAssumption
  <2>4. AllLive' /\ HasRun' /\ Progress' /\ Listing'
    BY <2>2, <2>3 DEF RecordInv, AllLive, HasRun, Progress, Listing, Running, Live, Saved
  <2>5. NoRunYet'
    BY <1>1, <2>2 DEF RecordInv, NoRunYet, Running
  <2>6. SavedIsRecorded'
    BY <2>2, <2>3 DEF SavedIsRecorded
  <2> QED
    BY <2>4, <2>5, <2>6 DEF RecordInv
<1>8. ASSUME NEW h \in Request, Handle(h) PROVE RecordInv' /\ SavedIsRecorded'
  <2>1. /\ faults = 0 /\ AllLive /\ NoRunYet /\ HasRun /\ Progress /\ Listing
        /\ Running(h) /\ run' = run
    BY <1>8 DEF RecordInv, Handle, ReadHashes, Write, Written, Announce, ReadRows, TakeSnapshot,
                Running
  <2>2. \A g \in Request \ {h} : handler[g].at = "free" /\ handler[g].changed = {}
    BY <2>1 DEF AllLive, Running, Live, SyncInv, OneSyncAtATime, FreeIsEmpty
  <2>3. ASSUME NEW f \in File, row[f].run # 0, f \notin handler[h].changed
        PROVE  /\ announced[f] = row[f].version /\ snapshot[row[f].run].taken
               /\ snapshot[row[f].run].manifest[f] = row[f].version
    BY <2>1, <2>2, <2>3 DEF SavedIsRecorded
  <2>4. ASSUME Moves(h), UNCHANGED faults,
               \A f \in File : handler'[h].run = 0 => row'[f].run = 0,
               handler'[h].at \in {"announcing", "listing", "snapshotting"} => handler[h].run # 0,
               \A f \in handler'[h].changed :
                 /\ handler[h].run # 0 => row'[f].run = handler[h].run
                 /\ \/ handler'[h].at \in {"writing", "announcing"}
                       /\ row'[f].version = handler'[h].files[f]
                    \/ handler'[h].at \in {"listing", "snapshotting"}
                       /\ row'[f].version = announced'[f],
               handler'[h].at = "snapshotting" => handler'[h].manifest = Saved'
        PROVE  RecordInv'
    <3>1. \A g \in Request \ {h} : handler'[g].at = "free" /\ handler'[g].changed = {}
      BY <2>2, <2>4 DEF Moves
    <3>2. handler'[h].caller # NoSession /\ handler'[h].run = handler[h].run
      BY <2>1, <2>4 DEF Moves, AllLive, Running, Live
    <3> QED
      BY <2>4, <3>1, <3>2 DEF RecordInv, AllLive, NoRunYet, HasRun, Progress, Listing, Running, Live
  <2>5. ASSUME \A f \in File : row'[f].run # 0 /\ f \notin handler'[h].changed =>
                 /\ announced'[f] = row'[f].version /\ snapshot'[row'[f].run].taken
                 /\ snapshot'[row'[f].run].manifest[f] = row'[f].version
        PROVE  SavedIsRecorded'
    BY <2>5 DEF SavedIsRecorded
  <2>6. handler \in [Request -> Handler]
    BY DEF TypeOK
  <2>7. CASE ReadHashes(h)
    <3>1. /\ handler[h].at = "hashing" /\ handler'[h].at = "writing"
          /\ handler'[h].changed = handler[h].changed /\ handler'[h].files = handler[h].files
          /\ handler'[h].run = handler[h].run
          /\ UNCHANGED <<row, announced, snapshot, faults>> /\ Moves(h)
      BY <2>6, <2>7, HandlerMoves DEF ReadHashes, Handler
    <3>2. handler[h].changed = {}
      BY <2>1, <3>1 DEF Progress
    <3> QED
      BY <2>1, <2>3, <2>4, <2>5, <3>1, <3>2 DEF NoRunYet
  <2>8. ASSUME NEW f \in File, Write(h, f) PROVE RecordInv' /\ SavedIsRecorded'
    <3>1. /\ handler[h].at = "writing" /\ handler'[h].at = "writing"
          /\ handler'[h].changed = handler[h].changed \cup {f}
          /\ handler'[h].files = handler[h].files /\ handler'[h].run = handler[h].run
          /\ UNCHANGED <<announced, snapshot, faults>> /\ Moves(h)
      BY <2>6, <2>8, HandlerMoves DEF Write, Handler
    <3>2. /\ row'[f].version = handler[h].files[f]
          /\ row'[f].run = IF handler[h].run = 0 THEN row[f].run ELSE handler[h].run
          /\ \A g \in File \ {f} : row'[g] = row[g]
      BY <2>8 DEF Write, TypeOK
    <3>3. ASSUME NEW g \in handler'[h].changed
          PROVE  /\ handler[h].run # 0 => row'[g].run = handler[h].run
                 /\ row'[g].version = handler'[h].files[g]
      <4>1. CASE g = f
        BY <3>1, <3>2, <4>1
      <4>2. CASE g # f
        <5>1. g \in handler[h].changed /\ row'[g] = row[g]
          BY <2>6, <3>1, <3>2, <3>3, <4>2 DEF Handler
        <5> QED
          BY <2>1, <3>1, <5>1 DEF Progress
      <4> QED
        BY <4>1, <4>2
    <3>4. \A g \in File : handler'[h].run = 0 => row'[g].run = 0
      <4> SUFFICES ASSUME NEW g \in File, handler'[h].run = 0 PROVE row'[g].run = 0
          OBVIOUS
      <4>1. row[g].run = 0 /\ row[f].run = 0 /\ handler[h].run = 0
        BY <2>1, <3>1 DEF NoRunYet
      <4> QED
        BY <3>2, <4>1
    <3>5. RecordInv'
      BY <2>4, <3>1, <3>3, <3>4
    <3>6. SavedIsRecorded'
      BY <2>3, <2>5, <3>1, <3>2
    <3> QED
      BY <3>5, <3>6
  <2>9. CASE Written(h) /\ handler[h].run # 0
    <3>1. /\ handler[h].at = "writing" /\ handler[h].run # 0
          /\ handler'[h].at = IF handler[h].changed = {} THEN "listing" ELSE "announcing"
          /\ handler'[h].changed = handler[h].changed /\ handler'[h].files = handler[h].files
          /\ handler'[h].run = handler[h].run
          /\ UNCHANGED <<row, announced, snapshot, faults>> /\ Moves(h)
      BY <2>6, <2>9, HandlerMoves DEF Written, Handler
    <3> QED
      BY <2>1, <2>3, <2>4, <2>5, <3>1 DEF Progress
  <2>10. CASE Announce(h)
    <3>1. /\ handler[h].at = "announcing" /\ handler'[h].at = "listing"
          /\ handler'[h].changed = handler[h].changed /\ handler'[h].run = handler[h].run
          /\ UNCHANGED <<row, snapshot, faults>> /\ Moves(h)
      BY <2>6, <2>10, HandlerMoves DEF Announce, Handler
    <3>2. \A f \in File : announced'[f] = IF f \in handler[h].changed THEN handler[h].files[f]
                                          ELSE announced[f]
      BY <2>10 DEF Announce
    <3>3. handler[h].changed \subseteq File /\ handler[h].run # 0
      BY <2>1, <2>6, <3>1 DEF HasRun, Handler
    <3>4. RecordInv'
      BY <2>1, <2>4, <3>1, <3>2, <3>3 DEF Progress
    <3>5. SavedIsRecorded'
      BY <2>3, <2>5, <3>1, <3>2
    <3> QED
      BY <3>4, <3>5
  <2>11. CASE ReadRows(h)
    <3>1. /\ handler[h].at = "listing" /\ handler'[h].at = "snapshotting"
          /\ handler'[h].changed = handler[h].changed /\ handler'[h].run = handler[h].run
          /\ handler'[h].manifest = Saved
          /\ UNCHANGED <<row, announced, snapshot, faults>> /\ Moves(h)
      BY <2>6, <2>11, HandlerMoves DEF ReadRows, Handler
    <3>2. handler[h].run # 0 /\ Saved' = Saved
      BY <2>1, <3>1 DEF HasRun, Saved
    <3> QED
      BY <2>1, <2>3, <2>4, <2>5, <3>1, <3>2 DEF Progress
  <2>12. CASE Answer(h) /\ UNCHANGED <<row, announced, faults>>
    <3>1. /\ handler'[h].changed = {}
          /\ \A g \in Request : handler'[g].at = "free" /\ handler'[g].changed = {}
      BY <2>2, <2>12, Leaves
    <3>2. RecordInv'
      BY <3>1 DEF RecordInv, AllLive, NoRunYet, HasRun, Progress, Listing, Running
    <3>3. CASE Written(h)
      <4>1. UNCHANGED snapshot
        BY <3>3 DEF Written
      <4>2. handler[h].run = 0
        BY <3>1, <3>3, HandlerMoves DEF Moves
      <4>3. \A f \in File : row[f].run = 0
        BY <2>1, <4>2 DEF NoRunYet
      <4> QED
        BY <2>5, <2>12, <3>2, <4>3
    <3>4. CASE TakeSnapshot(h)
      <4> DEFINE r == handler[h].run
                 shot == [taken |-> TRUE, manifest |-> handler[h].manifest]
      <4>1. /\ handler[h].at = "snapshotting" /\ r # 0 /\ handler[h].manifest = Saved
            /\ r \in Runs
        BY <2>1, <2>6, <3>4, SyncAssumption
        DEF TakeSnapshot, HasRun, Listing, Handler, Runs, SyncAssumption
      <4>2. CASE Due(h)
        <5>1. snapshot' = [snapshot EXCEPT ![r] = shot]
          BY <3>4, <4>2 DEF TakeSnapshot
        <5>2. snapshot'[r] = shot /\ \A q \in Runs \ {r} : snapshot'[q] = snapshot[q]
          BY <4>1, <5>1 DEF TypeOK
        <5>3. shot.taken /\ \A f \in File : shot.manifest[f] = row[f].version
          BY <4>1 DEF Saved
        <5>4. \A f \in handler[h].changed : row[f].run = r /\ row[f].version = announced[f]
          BY <2>1, <4>1 DEF Progress
        <5>5. \A f \in File : row[f].run # 0 => row[f].run \in Runs
          BY SyncAssumption DEF TypeOK, Runs, SyncAssumption
        <5>6. ASSUME NEW f \in File, row[f].run # 0
              PROVE  /\ announced[f] = row[f].version /\ snapshot'[row[f].run].taken
                     /\ snapshot'[row[f].run].manifest[f] = row[f].version
          <6>1. announced[f] = row[f].version
            BY <2>3, <5>4, <5>6
          <6>2. CASE row[f].run = r
            <7> HIDE DEF shot, r
            <7> QED
              BY <5>2, <5>3, <6>1, <6>2
          <6>3. CASE row[f].run # r
            <7>1. f \notin handler[h].changed
              BY <5>4, <6>3
            <7>2. snapshot'[row[f].run] = snapshot[row[f].run]
              BY <5>2, <5>5, <5>6, <6>3
            <7> QED
              BY <2>3, <5>6, <6>1, <7>1, <7>2
          <6> QED
            BY <6>2, <6>3
        <5> QED
          BY <2>5, <2>12, <3>2, <5>6
      <4>3. CASE ~Due(h)
        <5>1. UNCHANGED snapshot /\ handler[h].changed = {}
          BY <3>4, <4>3 DEF TakeSnapshot, Due
        <5> QED
          BY <2>3, <2>5, <2>12, <3>2, <5>1
      <4> QED
        BY <4>2, <4>3
    <3> QED
      BY <1>8, <3>1, <3>3, <3>4, HandlerMoves DEF Handle, Moves
  <2> QED
    BY <1>8, <2>7, <2>8, <2>9, <2>10, <2>11, <2>12 DEF Handle, Written, TakeSnapshot
<1> QED
  BY <1>2, <1>3, <1>4, <1>5, <1>6, <1>7, <1>8, Steps

-----------------------------------------------------------------------------
(***************************************************************************)
(* A step after which less is read, sent or written keeps the order.       *)
(***************************************************************************)
Recedes ==
  /\ UNCHANGED <<disk, row>> /\ active' \subseteq active
  /\ \A h \in Request, f \in File : handler'[h].files[f] \in {0, handler[h].files[f]}
  /\ \A s \in Session, f \in File : walk'[s].files[f] \in {0, walk[s].files[f]}
  /\ \A s \in Session : walk'[s].at = "reading" =>
       walk'[s] = walk[s] /\ (s \in overtaken => s \in overtaken')
  /\ \A s \in active' : s \in overtaken => s \in overtaken'
  /\ \A h \in Request : handler'[h].caller # NoSession =>
       /\ handler'[h].caller = handler[h].caller
       /\ handler[h].caller \in overtaken => handler[h].caller \in overtaken'

\* Where everything under way only recedes, the newest content stays ahead.
LEMMA RecedesNewest ==
  ASSUME TypeOK, TypeOK', NewestInv, Recedes, TodoHasContent'
  PROVE  NewestInv'
<1>0. /\ \A f \in File : row[f].version \in Nat /\ disk[f] \in Nat
      /\ \A h \in Request, f \in File : handler[h].files[f] \in Nat
      /\ \A s \in Session, f \in File : walk[s].files[f] \in Nat
      /\ active \subseteq Session
  BY DEF TypeOK, Handler, Walk, Versions
<1>1. /\ \A h \in Request, f \in File, n \in Nat :
           handler[h].files[f] <= n => handler'[h].files[f] <= n
      /\ \A s \in Session, f \in File, n \in Nat :
           walk[s].files[f] <= n => walk'[s].files[f] <= n
  BY <1>0 DEF Recedes
<1>2. OnDisk'
  BY <1>0, <1>1 DEF Recedes, NewestInv, OnDisk
<1>3. ReadsNewest'
  <2> SUFFICES ASSUME NEW s \in Session, s \notin overtaken', NEW f \in File,
                      walk'[s].at = "reading", f \notin walk'[s].unread
               PROVE  /\ row'[f].version <= walk'[s].files[f]
                      /\ \A h \in Request : handler'[h].files[f] <= walk'[s].files[f]
                      /\ \A t \in active' : walk'[t].files[f] <= walk'[s].files[f]
      BY DEF ReadsNewest
  <2>1. walk'[s] = walk[s] /\ s \notin overtaken
    BY DEF Recedes
  <2>2. /\ row[f].version <= walk[s].files[f]
        /\ \A h \in Request : handler[h].files[f] <= walk[s].files[f]
        /\ \A t \in active : walk[t].files[f] <= walk[s].files[f]
    BY <2>1 DEF NewestInv, ReadsNewest
  <2> QED
    BY <1>0, <1>1, <2>1, <2>2 DEF Recedes
<1>4. SendsNewest'
  <2> SUFFICES ASSUME NEW s \in active', s \notin overtaken', NEW f \in File,
                      walk'[s].files[f] # 0
               PROVE  /\ row'[f].version <= walk'[s].files[f]
                      /\ \A h \in Request : handler'[h].files[f] <= walk'[s].files[f]
      BY DEF SendsNewest
  <2>1. s \in active \ overtaken /\ walk'[s].files[f] = walk[s].files[f]
    BY <1>0 DEF Recedes
  <2>2. /\ row[f].version <= walk[s].files[f]
        /\ \A h \in Request : handler[h].files[f] <= walk[s].files[f]
    BY <2>1 DEF NewestInv, SendsNewest
  <2> QED
    BY <1>0, <1>1, <2>1, <2>2 DEF Recedes
<1>5. WritesNewest'
  <2> SUFFICES ASSUME NEW h \in Request, NEW f \in File, handler'[h].caller # NoSession,
                      handler'[h].caller \notin overtaken', handler'[h].files[f] # 0
               PROVE  /\ row'[f].version <= handler'[h].files[f]
                      /\ \A g \in Request : handler'[g].files[f] <= handler'[h].files[f]
      BY DEF WritesNewest, Live
  <2>1. /\ handler[h].caller \notin overtaken \cup {NoSession}
        /\ handler'[h].files[f] = handler[h].files[f]
    BY DEF Recedes
  <2>2. /\ row[f].version <= handler[h].files[f]
        /\ \A g \in Request : handler[g].files[f] <= handler[h].files[f]
    BY <2>1 DEF NewestInv, WritesNewest, Live
  <2> QED
    BY <1>0, <1>1, <2>1, <2>2 DEF Recedes
<1> QED
  BY <1>2, <1>3, <1>4, <1>5 DEF NewestInv

(***************************************************************************)
(* An operation that ends leaves less to send.                             *)
(***************************************************************************)
LEMMA EndRecedes ==
  ASSUME TypeOK, SyncInv, NEW s \in active, EndOperation(s, active \ {s}),
         UNCHANGED <<disk, row>>,
         \A h \in Request : /\ handler'[h].caller = NoSession
                            /\ \A f \in File : handler'[h].files[f] \in {0, handler[h].files[f]}
  PROVE  Recedes
<1>1. s \in Session /\ active' = {} /\ overtaken' = overtaken \ {s}
  BY DEF TypeOK, SyncInv, ActiveSends, EndOperation
<1>2. \A t \in Session : walk'[t] = IdleWalk \/ (t # s /\ walk'[t] = walk[t])
  BY DEF EndOperation
<1>3. IdleWalk.at = "idle" /\ \A f \in File : IdleWalk.files[f] = 0
  BY DEF IdleWalk, Nothing
<1>4. ASSUME NEW t \in Session
      PROVE  /\ \A f \in File : walk'[t].files[f] \in {0, walk[t].files[f]}
             /\ walk'[t].at = "reading" => t # s /\ walk'[t] = walk[t]
  BY <1>2, <1>3
<1> QED
  BY <1>1, <1>4 DEF Recedes

\* An answer only recedes.
LEMMA AnswerRecedes ==
  ASSUME TypeOK, SyncInv, NEW h \in Request, Answer(h), UNCHANGED <<disk, row>>
  PROVE  Recedes
<1>1. /\ handler'[h].caller = NoSession /\ \A f \in File : handler'[h].files[f] = 0
      /\ \A g \in Request \ {h} : handler'[g] = handler[g]
  BY DEF Answer, TypeOK, Free, Nothing
<1>2. \A g \in Request : \A f \in File : handler'[g].files[f] \in {0, handler[g].files[f]}
  BY <1>1
<1>3. CASE handler[h].caller = NoSession
  <2>1. UNCHANGED <<walk, active, overtaken>>
    BY <1>3 DEF Answer
  <2> QED
    BY <1>1, <1>2, <2>1 DEF Recedes
<1>4. CASE handler[h].caller # NoSession
  <2> PICK s \in Session : s = handler[h].caller
    BY <1>4 DEF TypeOK, Handler
  <2>1. walk[s].at = "awaiting" /\ s \in active
    BY <1>4 DEF SyncInv, LiveAwaits, Live, ActiveSends
  <2>2. \A g \in Request : handler'[g].caller = NoSession
    BY <1>1, <1>4 DEF SyncInv, OneSyncAtATime
  <2>3. CASE walk[s].files # Nothing
    <3>1. walk' = [walk EXCEPT ![s].at = "sending"] /\ UNCHANGED <<active, overtaken>>
      BY <1>4, <2>3 DEF Answer
    <3>2. /\ \A t \in Session : walk'[t].files = walk[t].files
          /\ walk'[s].at = "sending" /\ \A t \in Session \ {s} : walk'[t] = walk[t]
      BY <3>1 DEF TypeOK, Walk
    <3>3. \A t \in Session : walk'[t].at = "reading" => walk'[t] = walk[t]
      BY <3>2
    <3> QED
      BY <1>2, <2>2, <3>1, <3>2, <3>3 DEF Recedes
  <2>4. CASE walk[s].files = Nothing
    <3>1. EndOperation(s, active \ {s})
      BY <1>4, <2>4 DEF Answer
    <3> QED
      BY <1>2, <2>1, <2>2, <3>1, EndRecedes
  <2> QED
    BY <2>3, <2>4
<1> QED
  BY <1>3, <1>4

(***************************************************************************)
(* Every step keeps the order: what is read is newer than what is sent,    *)
(* and that newer than what is saved.                                      *)
(***************************************************************************)
LEMMA NewestStep ==
  ASSUME TypeOK, TypeOK', SyncInv, NewestInv, [Next]_vars
  PROVE  NewestInv'
<1>0. /\ \A f \in File : row[f].version \in Nat /\ disk[f] \in Nat
      /\ \A h \in Request, f \in File : handler[h].files[f] \in Nat
      /\ \A s \in Session, f \in File : walk[s].files[f] \in Nat
      /\ active \subseteq Session
      /\ walk \in [Session -> Walk] /\ handler \in [Request -> Handler]
  BY DEF TypeOK, Handler, Walk, Versions
<1>1. CASE UNCHANGED <<disk, walk, active, handler, row, overtaken>>
  BY <1>1 DEF NewestInv, OnDisk, ReadsNewest, SendsNewest, WritesNewest, Live, TodoHasContent
<1>2. ASSUME NEW e \in File, Edit(e) PROVE NewestInv'
  <2>1. \A f \in File : disk'[f] \in Nat /\ disk[f] <= disk'[f]
    BY <1>0, <1>2 DEF Edit, TypeOK, Versions
  <2>2. UNCHANGED <<walk, active, handler, row, overtaken>>
    BY <1>2 DEF Edit
  <2>3. OnDisk'
    BY <1>0, <2>1, <2>2 DEF NewestInv, OnDisk
  <2> QED
    BY <2>2, <2>3 DEF NewestInv, ReadsNewest, SendsNewest, WritesNewest, Live, TodoHasContent
<1>3. ASSUME NEW s \in Session, StartWalk(s) PROVE NewestInv'
  <2>1. /\ walk'[s].unread = File /\ \A t \in Session : walk'[t].files = walk[t].files
        /\ \A t \in Session \ {s} : walk'[t] = walk[t]
        /\ UNCHANGED <<disk, active, handler, row, overtaken>>
    BY <1>0, <1>3 DEF StartWalk, Walk
  <2>2. OnDisk' /\ SendsNewest' /\ WritesNewest' /\ TodoHasContent'
    BY <1>0, <2>1 DEF NewestInv, OnDisk, SendsNewest, WritesNewest, Live, TodoHasContent
  <2>3. ReadsNewest'
    BY <1>0, <2>1 DEF NewestInv, ReadsNewest
  <2> QED
    BY <2>2, <2>3 DEF NewestInv
<1>4. ASSUME NEW s \in Session, ReadFile(s) PROVE NewestInv'
  <2>0. PICK e \in File : walk' = [walk EXCEPT ![s].unread = @ \ {e}, ![s].files[e] = disk[e]]
    BY <1>0, <1>4 DEF ReadFile, First, Walk
  <2>1. /\ walk[s].at = "reading"
        /\ UNCHANGED <<disk, active, handler, row, overtaken>>
    BY <1>4 DEF ReadFile
  <2>2. /\ walk'[s].unread = walk[s].unread \ {e}
        /\ walk'[s].files[e] = disk[e]
        /\ \A f \in File \ {e} : walk'[s].files[f] = walk[s].files[f]
        /\ \A t \in Session \ {s} : walk'[t] = walk[t]
        /\ s \notin active
    BY <1>0, <2>0, <2>1 DEF Walk, Versions, SyncInv, ActiveSends
  <2>3. OnDisk'
    BY <1>0, <2>1, <2>2 DEF NewestInv, OnDisk
  <2>4. ReadsNewest'
    <3> SUFFICES ASSUME NEW t \in Session, t \notin overtaken, NEW f \in File,
                        walk'[t].at = "reading", f \notin walk'[t].unread
                 PROVE  /\ row[f].version <= walk'[t].files[f]
                        /\ \A h \in Request : handler[h].files[f] <= walk'[t].files[f]
                        /\ \A u \in active : walk'[u].files[f] <= walk'[t].files[f]
        BY <2>1 DEF ReadsNewest
    <3>1. \A u \in active : walk'[u] = walk[u]
      BY <1>0, <2>2
    <3>2. CASE t = s /\ f = e
      BY <1>0, <2>2, <3>1, <3>2 DEF NewestInv, OnDisk
    <3>3. CASE t = s /\ f # e
      <4>1. f \notin walk[s].unread /\ walk'[t].files[f] = walk[s].files[f]
        BY <2>2, <3>3
      <4> QED
        BY <2>1, <3>1, <3>3, <4>1 DEF NewestInv, ReadsNewest
    <3>4. CASE t # s
      BY <2>2, <3>1, <3>4 DEF NewestInv, ReadsNewest
    <3> QED
      BY <3>2, <3>3, <3>4
  <2>5. SendsNewest' /\ WritesNewest' /\ TodoHasContent'
    BY <1>0, <2>1, <2>2 DEF NewestInv, SendsNewest, WritesNewest, Live, TodoHasContent
  <2> QED
    BY <2>3, <2>4, <2>5 DEF NewestInv
<1>5. ASSUME NEW s \in Session, Submit(s) PROVE NewestInv'
  <2>1. /\ walk[s].at = "reading" /\ walk[s].unread = {} /\ s \notin active
        /\ UNCHANGED <<disk, handler, row>>
    BY <1>5 DEF Submit, SyncInv, ActiveSends
  <2>2. CASE UNCHANGED active
    <3>1. /\ walk'[s].at \in {"idle", "joined"} /\ walk'[s].files = Nothing
          /\ \A t \in Session \ {s} : walk'[t] = walk[t]
      <4>1. \/ walk' = [walk EXCEPT ![s] = IdleWalk]
            \/ \E t \in Shared :
                 walk' = [walk EXCEPT ![s] = [IdleWalk EXCEPT !.at = "joined", !.behind = t]]
        BY <1>5, <2>1, <2>2 DEF Submit
      <4>2. CASE walk' = [walk EXCEPT ![s] = IdleWalk]
        BY <1>0, <4>2 DEF IdleWalk
      <4>3. ASSUME NEW t \in Shared,
                   walk' = [walk EXCEPT ![s] = [IdleWalk EXCEPT !.at = "joined", !.behind = t]]
            PROVE  /\ walk'[s].at = "joined" /\ walk'[s].files = Nothing
                   /\ \A u \in Session \ {s} : walk'[u] = walk[u]
        BY <1>0, <4>3 DEF IdleWalk
      <4> QED
        BY <4>1, <4>2, <4>3
    <3>2. overtaken' = overtaken \ {s}
      BY <1>5, <2>1, <2>2 DEF Submit
    <3>3. \A h \in Request : handler[h].caller # NoSession => handler[h].caller # s
      BY <2>1 DEF SyncInv, LiveAwaits, Live
    <3>4. Recedes
      BY <2>1, <2>2, <3>1, <3>2, <3>3 DEF Recedes, Nothing
    <3>5. TodoHasContent'
      BY <2>1 DEF NewestInv, TodoHasContent
    <3> QED
      BY <3>4, <3>5, RecedesNewest
  <2>3. CASE ~UNCHANGED active
    <3>1. /\ active = {} /\ active' = {s}
          /\ walk'[s].at = "sending" /\ \A t \in Session : walk'[t].files = walk[t].files
          /\ \A t \in Session \ {s} : walk'[t] = walk[t]
          /\ overtaken' = overtaken \cup {t \in Session \ {s} : walk[t].at = "reading"}
      <4>1. /\ active = {} /\ active' = {s}
            /\ walk' = [walk EXCEPT ![s].at = "sending"]
            /\ overtaken' = overtaken \cup {t \in Session \ {s} : walk[t].at = "reading"}
        BY <1>5, <2>3 DEF Submit, Shared
      <4>2. /\ walk'[s].at = "sending" /\ \A t \in Session : walk'[t].files = walk[t].files
            /\ \A t \in Session \ {s} : walk'[t] = walk[t]
        BY <1>0, <4>1 DEF Walk
      <4> QED
        BY <4>1, <4>2
    <3>2. ReadsNewest'
      BY <3>1 DEF ReadsNewest
    <3>3. OnDisk' /\ TodoHasContent'
      BY <2>1, <3>1 DEF NewestInv, OnDisk, TodoHasContent
    <3>4. WritesNewest'
      BY <2>1, <3>1 DEF NewestInv, WritesNewest, Live
    <3>5. SendsNewest'
      BY <2>1, <3>1 DEF NewestInv, SendsNewest, ReadsNewest
    <3> QED
      BY <3>2, <3>3, <3>4, <3>5 DEF NewestInv
  <2> QED
    BY <2>2, <2>3
<1>6. ASSUME NEW s \in Session, NEW batch \in SUBSET File, Post(s, batch) PROVE NewestInv'
  <2>0. PICK h \in Request : Posted(s, batch, h)
    BY <1>6, PostedType
  <2>1. /\ walk[s].at = "sending" /\ s \in active
        /\ UNCHANGED <<disk, active, row, overtaken>>
    BY <1>6 DEF Post, SyncInv, ActiveSends
  <2>2. /\ \A t \in Session \ {s} : walk'[t] = walk[t]
        /\ walk'[s].at = "awaiting"
        /\ \A f \in File : walk'[s].files[f] = IF f \in batch THEN 0 ELSE walk[s].files[f]
    BY <1>0, <1>6 DEF Post, Walk
  <2>3. /\ handler'[h].caller = s /\ handler'[h].todo = {}
        /\ \A f \in File : handler'[h].files[f] = IF f \in batch THEN walk[s].files[f] ELSE 0
        /\ \A g \in Request \ {h} : handler'[g] = handler[g]
    BY <2>0 DEF Posted
  <2>4. \A g \in Request : handler[g].caller = NoSession
    BY <1>0, <2>1 DEF SyncInv, ActiveSends, LiveAwaits, Live, Handler
  <2>5. active = {s}
    BY <1>0, <2>1 DEF SyncInv, ActiveSends
  <2>6. OnDisk'
    BY <1>0, <2>1, <2>2, <2>3 DEF NewestInv, OnDisk
  <2>7. TodoHasContent'
    BY <2>3 DEF NewestInv, TodoHasContent
  <2>8. ReadsNewest'
    <3> SUFFICES ASSUME NEW t \in Session, t \notin overtaken, NEW f \in File,
                        walk'[t].at = "reading", f \notin walk'[t].unread
                 PROVE  /\ row[f].version <= walk'[t].files[f]
                        /\ \A g \in Request : handler'[g].files[f] <= walk'[t].files[f]
                        /\ \A u \in active : walk'[u].files[f] <= walk'[t].files[f]
        BY <2>1 DEF ReadsNewest
    <3>1. walk'[t] = walk[t]
      BY <2>2
    <3>2. /\ row[f].version <= walk[t].files[f] /\ walk[s].files[f] <= walk[t].files[f]
          /\ \A g \in Request : handler[g].files[f] <= walk[t].files[f]
      BY <2>1, <3>1 DEF NewestInv, ReadsNewest
    <3> QED
      BY <1>0, <2>2, <2>3, <2>5, <3>1, <3>2
  <2>9. SendsNewest'
    <3> SUFFICES ASSUME s \notin overtaken, NEW f \in File, walk'[s].files[f] # 0
                 PROVE  /\ row[f].version <= walk'[s].files[f]
                        /\ \A g \in Request : handler'[g].files[f] <= walk'[s].files[f]
        BY <2>1, <2>5 DEF SendsNewest
    <3>1. /\ walk[s].files[f] # 0 /\ walk'[s].files[f] = walk[s].files[f]
          /\ handler'[h].files[f] = 0
      BY <2>2, <2>3
    <3> QED
      BY <1>0, <2>1, <2>3, <3>1 DEF NewestInv, SendsNewest
  <2>10. WritesNewest'
    <3> SUFFICES ASSUME s \notin overtaken, NEW f \in File, handler'[h].files[f] # 0
                 PROVE  /\ row[f].version <= handler'[h].files[f]
                        /\ \A g \in Request : handler'[g].files[f] <= handler'[h].files[f]
        BY <2>1, <2>3, <2>4 DEF WritesNewest, Live
    <3>1. walk[s].files[f] # 0 /\ handler'[h].files[f] = walk[s].files[f]
      BY <2>3
    <3> QED
      BY <1>0, <2>1, <2>3, <3>1 DEF NewestInv, SendsNewest
  <2> QED
    BY <2>6, <2>7, <2>8, <2>9, <2>10 DEF NewestInv
<1>7. ASSUME NEW s \in Session, Lose(s) PROVE NewestInv'
  <2>1. EndOperation(s, active \ {s}) /\ s \in active /\ UNCHANGED <<disk, row, handler>>
    BY <1>7 DEF Lose, Forgotten, SyncInv, ActiveSends
  <2>2. \A g \in Request : handler[g].caller = NoSession
    BY <1>0, <1>7, <2>1 DEF Lose, SyncInv, ActiveSends, LiveAwaits, Live, Handler
  <2>3. Recedes
    BY <2>1, <2>2, EndRecedes
  <2>4. TodoHasContent'
    BY <2>1 DEF NewestInv, TodoHasContent
  <2> QED
    BY <2>3, <2>4, RecedesNewest
<1>8. ASSUME NEW h \in Request, GiveUp(h) PROVE NewestInv'
  <2> PICK s \in Session : s = handler[h].caller
    BY <1>0, <1>8 DEF GiveUp, Handler
  <2>1. EndOperation(s, active \ {s}) /\ s \in active /\ UNCHANGED <<disk, row>>
    BY <1>8 DEF GiveUp, Forgotten, SyncInv, ActiveSends, LiveAwaits, Live
  <2>2. \A g \in Request : /\ handler'[g].caller = NoSession
                           /\ handler'[g].at = handler[g].at
                           /\ handler'[g].files = handler[g].files
                           /\ handler'[g].todo = handler[g].todo
    BY <1>0, <1>8 DEF GiveUp, SyncInv, OneSyncAtATime, Handler
  <2>3. Recedes
    BY <2>1, <2>2, EndRecedes
  <2>4. TodoHasContent'
    BY <2>2 DEF NewestInv, TodoHasContent
  <2> QED
    BY <2>3, <2>4, RecedesNewest
<1>9. ASSUME NEW h \in Request, Stop(h) PROVE NewestInv'
  <2>1. /\ handler'[h] = Free /\ \A g \in Request \ {h} : handler'[g] = handler[g]
        /\ UNCHANGED <<disk, row, walk, active, overtaken>>
    BY <1>0, <1>9 DEF Stop
  <2>2. Free.caller = NoSession /\ Free.todo = {} /\ \A f \in File : Free.files[f] = 0
    BY DEF Free, Nothing
  <2>3. TodoHasContent'
    BY <2>1, <2>2 DEF NewestInv, TodoHasContent
  <2>4. Recedes
    BY <2>1, <2>2 DEF Recedes
  <2> QED
    BY <2>3, <2>4, RecedesNewest
<1>10. ASSUME NEW h \in Request, Handle(h) PROVE NewestInv'
  <2>1. ASSUME Moves(h), UNCHANGED <<disk, row, overtaken>>,
               \A f \in File : handler'[h].files[f] \in {0, handler[h].files[f]},
               \A f \in handler'[h].todo : handler'[h].at = "writing" /\ handler'[h].files[f] # 0
        PROVE  NewestInv'
    <3>1. TodoHasContent'
      BY <2>1 DEF NewestInv, TodoHasContent, Moves
    <3>2. Recedes
      BY <2>1 DEF Recedes, Moves
    <3> QED
      BY <3>1, <3>2, RecedesNewest
  <2>2. CASE ReadHashes(h)
    <3>1. /\ handler'[h].at = "writing" /\ handler'[h].files = handler[h].files
          /\ handler'[h].todo = Differing(h) /\ UNCHANGED <<disk, row, overtaken>>
      BY <1>0, <2>2 DEF ReadHashes, Handler
    <3> QED
      BY <2>1, <2>2, <3>1, HandlerMoves DEF Differing
  <2>3. ASSUME NEW e \in File, Write(h, e) PROVE NewestInv'
    <3>1. /\ handler[h].at = "writing" /\ handler'[h].at = "writing"
          /\ handler'[h].files = handler[h].files
          /\ handler'[h].todo = handler[h].todo \ {e} /\ e \in handler[h].todo
          /\ UNCHANGED <<disk, overtaken>> /\ Moves(h)
      BY <1>0, <2>3, HandlerMoves DEF Write, Handler
    <3>2. /\ row'[e].version = handler[h].files[e]
          /\ \A f \in File \ {e} : row'[f].version = row[f].version
      BY <2>3 DEF Write, TypeOK
    <3>3. \A g \in Request : handler'[g].files = handler[g].files
                            /\ handler'[g].caller = handler[g].caller
      BY <3>1 DEF Moves
    <3>4. UNCHANGED <<walk, active>>
      BY <3>1 DEF Moves
    <3>5. OnDisk'
      BY <3>1, <3>2, <3>3, <3>4 DEF NewestInv, OnDisk
    <3>6. ReadsNewest'
      BY <3>1, <3>2, <3>3, <3>4 DEF NewestInv, ReadsNewest
    <3>7. SendsNewest'
      BY <1>0, <3>1, <3>2, <3>3, <3>4 DEF NewestInv, SendsNewest
    <3>8. WritesNewest'
      BY <3>1, <3>2, <3>3, <3>4 DEF NewestInv, WritesNewest, Live
    <3>9. TodoHasContent'
      BY <3>1 DEF NewestInv, TodoHasContent, Moves
    <3> QED
      BY <3>5, <3>6, <3>7, <3>8, <3>9 DEF NewestInv
  <2>4. CASE Written(h) /\ handler[h].run # 0
    <3>1. /\ handler'[h].files = handler[h].files /\ handler'[h].todo = {}
          /\ UNCHANGED <<disk, row, overtaken>>
      BY <1>0, <2>4, HandlerMoves DEF Written, Handler
    <3> QED
      BY <2>1, <2>4, <3>1, HandlerMoves
  <2>5. CASE Announce(h)
    <3>1. /\ handler[h].at = "announcing" /\ handler'[h].files = Nothing
          /\ handler'[h].todo = handler[h].todo /\ UNCHANGED <<disk, row, overtaken>>
      BY <1>0, <2>5 DEF Announce, Handler
    <3>2. handler'[h].todo = {}
      BY <3>1 DEF NewestInv, TodoHasContent
    <3> QED
      BY <2>1, <2>5, <3>1, <3>2, HandlerMoves DEF Nothing
  <2>6. CASE ReadRows(h)
    <3>1. /\ handler[h].at = "listing" /\ handler'[h].files = handler[h].files
          /\ handler'[h].todo = handler[h].todo /\ UNCHANGED <<disk, row, overtaken>>
      BY <1>0, <2>6 DEF ReadRows, Handler
    <3>2. handler'[h].todo = {}
      BY <3>1 DEF NewestInv, TodoHasContent
    <3> QED
      BY <2>1, <2>6, <3>1, <3>2, HandlerMoves
  <2>7. CASE Answer(h) /\ UNCHANGED <<disk, row>>
    <3>1. handler'[h].todo = {} /\ \A g \in Request \ {h} : handler'[g] = handler[g]
      BY <1>0, <2>7 DEF Answer, Free
    <3>2. TodoHasContent'
      BY <3>1 DEF NewestInv, TodoHasContent
    <3> QED
      BY <2>7, <3>2, AnswerRecedes, RecedesNewest
  <2> QED
    BY <1>10, <2>2, <2>3, <2>4, <2>5, <2>6, <2>7 DEF Handle, Written, TakeSnapshot
<1>11. CreateRun \/ EndRun \/ UNCHANGED vars
         => UNCHANGED <<disk, walk, active, handler, row, overtaken>>
  BY DEF CreateRun, EndRun, vars
<1> QED
  BY <1>1, <1>2, <1>3, <1>4, <1>5, <1>6, <1>7, <1>8, <1>9, <1>10, <1>11 DEF Next, Proceed

-----------------------------------------------------------------------------
\* The invariant holds in every reachable state.
LEMMA Invariance == Spec => []IInv
<1>1. Init => IInv
  <2> SUFFICES ASSUME Init PROVE IInv
      OBVIOUS
  <2>1. TypeOK
    BY Records, SyncAssumption DEF Init, TypeOK, SyncAssumption, Versions, Runs
  <2>2. \A s \in Session : walk[s] = IdleWalk
    BY DEF Init
  <2>3. \A h \in Request : handler[h] = Free
    BY DEF Init
  <2>4. SyncInv
    BY <2>2, <2>3 DEF Init, SyncInv, ActiveSends, LiveAwaits, FreeIsEmpty, OneSyncAtATime,
                      Running, Live, IdleWalk, Free
  <2>5. RowRuns /\ RecordInv /\ SavedIsRecorded
    BY <2>3 DEF Init, RowRuns, RecordInv, AllLive, NoRunYet, HasRun, Progress, Listing,
                SavedIsRecorded, Running, Live, Free
  <2>6. NewestInv
    BY <2>2, <2>3 DEF Init, NewestInv, OnDisk, ReadsNewest, SendsNewest, WritesNewest,
                      TodoHasContent, Live, IdleWalk, Free, Nothing
  <2> QED
    BY <2>1, <2>4, <2>5, <2>6 DEF IInv
<1>2. IInv /\ [Next]_vars => IInv'
  <2> SUFFICES ASSUME IInv, [Next]_vars PROVE IInv'
      OBVIOUS
  <2>1. TypeOK'
    BY TypeStep DEF IInv
  <2> QED
    BY <2>1, SyncStep, RowRunsStep, RecordStep, NewestStep DEF IInv
<1> QED
  BY <1>1, <1>2, PTL DEF Spec

(***************************************************************************)
(* Every variable keeps its type, for any files, sessions and bounds.      *)
(***************************************************************************)
THEOREM TypeCorrect == Spec => []TypeOK
BY Invariance, PTL DEF IInv

(***************************************************************************)
(* workspaceFileSyncs lets the gateway wait for one handler of the         *)
(* workspace at a time, however many sockets and requests walk it, and     *)
(* whatever POSTs are lost or given up (main.ts:99, :2185).                *)
(***************************************************************************)
THEOREM OneSyncHolds == Spec => []OneSyncAtATime
BY Invariance, PTL DEF IInv, SyncInv

(***************************************************************************)
(* Without faults, what the handlers of syncWorkspaceFiles save is         *)
(* announced and in the latest snapshot of its run when they are through,  *)
(* whatever walks, edits, runs and ends of runs come in between.           *)
(***************************************************************************)
THEOREM SavedIsRecordedHolds == Spec => []SavedIsRecorded
BY Invariance, PTL DEF IInv

(***************************************************************************)
(* The upserts of syncWorkspaceFiles take no row back, except those of a   *)
(* handler given up or of a walk begun before another walk was sent.       *)
(***************************************************************************)
THEOREM NoRollbackHolds == Spec => NoRollback
<1> DEFINE Step == \A h \in Request : handler[h].caller \notin overtaken \cup {NoSession}
               => \A f \in handler[h].todo \ handler'[h].todo : row'[f].version >= row[f].version
<1>1. IInv /\ [Next]_vars => [Step]_vars
  <2> SUFFICES ASSUME IInv, [Next]_vars,
                      NEW h \in Request, handler[h].caller \notin overtaken \cup {NoSession},
                      NEW f \in handler[h].todo, f \notin handler'[h].todo
               PROVE  row'[f].version >= row[f].version
      OBVIOUS
  <2>0. f \in File /\ row[f].version \in Nat
    BY DEF IInv, TypeOK, Handler
  <2>1. CASE UNCHANGED row
    BY <2>0, <2>1
  <2>2. ASSUME NEW g \in Request, NEW e \in File, Write(g, e)
        PROVE  row'[f].version >= row[f].version
    <3>1. handler'[h].todo = IF h = g THEN handler[h].todo \ {e} ELSE handler[h].todo
      BY <2>2 DEF Write, IInv, TypeOK, Handler
    <3>2. h = g /\ f = e
      BY <3>1
    <3>3. row'[f].version = handler[h].files[f]
      BY <2>0, <2>2, <3>2 DEF Write, IInv, TypeOK
    <3>4. handler[h].files[f] # 0 /\ handler[h].files[f] \in Nat
      BY <2>0 DEF IInv, NewestInv, TodoHasContent, TypeOK, Handler, Versions
    <3>5. row[f].version <= handler[h].files[f]
      BY <2>0, <3>4 DEF IInv, NewestInv, WritesNewest, Live
    <3> QED
      BY <2>0, <3>3, <3>4, <3>5
  <2>3. UNCHANGED row \/ \E g \in Request, e \in File : Write(g, e)
    BY DEF Next, Edit, CreateRun, EndRun, StartWalk, Proceed, ReadFile, Submit, Post, Lose, GiveUp,
           Stop, Handle, ReadHashes, Written, Announce, ReadRows, TakeSnapshot, vars
  <2> QED
    BY <2>1, <2>2, <2>3
<1> QED
  BY <1>1, Invariance, PTL DEF Spec, NoRollback
=============================================================================
