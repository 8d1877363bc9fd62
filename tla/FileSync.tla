------------------------------- MODULE FileSync -------------------------------
(***************************************************************************)
(* How the files an agent writes in its sandbox reach the database: every  *)
(* builder session of the gateway walks the workspace now and then         *)
(* (core/server/src/main.ts), one walk at a time of a workspace is sent to *)
(* the backend, whose handlers (BuilderService.syncWorkspaceFiles) save    *)
(* the rows that changed, announce them in the run's log and snapshot the  *)
(* project. One workspace, whose runs and files are numbered as they come. *)
(***************************************************************************)
EXTENDS Naturals, FiniteSetsExt

CONSTANTS
  File,
  Session,            \* sockets of the workspace, and list-apps requests, which walk once
  Lasting,            \* sockets that stay open
  Request,            \* the POSTs that may be in the backend at a time
  NoSession,
  MaxEdits,           \* no more edits
  MaxRun,             \* no more runs are created
  MaxFaults           \* no more POSTs time out, fail or are lost

ASSUME SyncAssumption ==
  /\ Lasting \subseteq Session /\ NoSession \notin Session
  /\ MaxEdits \in Nat /\ MaxRun \in Nat /\ MaxFaults \in Nat

VARIABLES
  disk,               \* the version of each file in the sandbox, 0 before it exists
  walk,               \* per session: workspaceSyncInFlight and the files it has read
  active,             \* workspaceFileSyncs: the session whose operation is being sent
  handler,            \* the syncWorkspaceFiles calls in the backend
  row,                \* project_files
  run,                \* the newest run, 0 before the first
  announced,          \* the versions named in files.persisted events
  snapshot,           \* each run's latest project snapshot
  faults,
  overtaken           \* history: sessions that still read when another began to send

vars == <<disk, walk, active, handler, row, run, announced, snapshot, faults, overtaken>>

Versions == [File -> Nat]
Nothing == [f \in File |-> 0]
Runs == 1..MaxRun

\* joined: waits for the operation of the session `behind`, its own files dropped.
Walk == [at : {"idle", "reading", "sending", "awaiting", "joined"},
         unread : SUBSET File, files : Versions, behind : Session \cup {NoSession}]

\* todo: the files still to be upserted. manifest: the rows read for the snapshot.
Handler == [at : {"free", "hashing", "writing", "announcing", "listing",
                  "snapshotting"},
            caller : Session \cup {NoSession}, run : 0..MaxRun, files : Versions,
            todo : SUBSET File, changed : SUBSET File, manifest : Versions]

IdleWalk == [at |-> "idle", unread |-> {}, files |-> Nothing, behind |-> NoSession]
Free == [at |-> "free", caller |-> NoSession, run |-> 0, files |-> Nothing,
         todo |-> {}, changed |-> {}, manifest |-> Nothing]

TypeOK ==
  /\ disk \in Versions
  /\ walk \in [Session -> Walk]
  /\ active \subseteq Session
  /\ handler \in [Request -> Handler]
  /\ row \in [File -> [version : Nat, run : 0..MaxRun]]
  /\ run \in 0..MaxRun
  /\ announced \in Versions
  /\ snapshot \in [Runs -> [taken : BOOLEAN, manifest : Versions]]
  /\ faults \in 0..MaxFaults
  /\ overtaken \subseteq Session

Init ==
  /\ disk = Nothing
  /\ walk = [s \in Session |-> IdleWalk]
  /\ active = {}
  /\ handler = [h \in Request |-> Free]
  /\ row = [f \in File |-> [version |-> 0, run |-> 0]]
  /\ run = 0
  /\ announced = Nothing
  /\ snapshot = [r \in Runs |-> [taken |-> FALSE, manifest |-> Nothing]]
  /\ faults = 0
  /\ overtaken = {}

Saved == [f \in File |-> row[f].version]

-----------------------------------------------------------------------------
EditsMade == MapThenSumSet(LAMBDA f : disk[f], File)

\* The agent, or the user, writes a file.
Edit(f) ==
  /\ EditsMade < MaxEdits
  /\ disk' = [disk EXCEPT ![f] = @ + 1]
  /\ UNCHANGED <<walk, active, handler, row, run, announced, snapshot, faults, overtaken>>

\* A start or continue request creates the next run.
CreateRun ==
  /\ run < MaxRun
  /\ run' = run + 1
  /\ UNCHANGED <<disk, walk, active, handler, row, announced, snapshot, faults, overtaken>>

\* The run ends: its rows are snapshotted in the transaction that ends it.
EndRun ==
  /\ run > 0
  /\ snapshot' = [snapshot EXCEPT ![run] = [taken |-> TRUE, manifest |-> Saved]]
  /\ UNCHANGED <<disk, walk, active, handler, row, run, announced, faults, overtaken>>
-----------------------------------------------------------------------------
\* A socket that opens walks, again every 8 seconds unless its last walk is
\* still under way, and one that closes lets its walk end; so does list-apps.
StartWalk(s) ==
  /\ walk[s].at = "idle"
  /\ walk' = [walk EXCEPT ![s].at = "reading", ![s].unread = File]
  /\ UNCHANGED <<disk, active, handler, row, run, announced, snapshot, faults, overtaken>>

\* The files are read one after the other, in the order of readdir.
First(files) == CHOOSE f \in files : TRUE

ReadFile(s) ==
  /\ walk[s].at = "reading" /\ walk[s].unread # {}
  /\ LET f == First(walk[s].unread)
     IN walk' = [walk EXCEPT ![s].unread = @ \ {f}, ![s].files[f] = disk[f]]
  /\ UNCHANGED <<disk, active, handler, row, run, announced, snapshot, faults, overtaken>>

\* Variant: every session sends its own files.
NeverShared == {}

Shared == active

\* syncWorkspaceFileBatches: the files are dropped if others are being sent.
Submit(s) ==
  /\ walk[s].at = "reading" /\ walk[s].unread = {}
  /\ \/ /\ walk[s].files = Nothing
        /\ walk' = [walk EXCEPT ![s] = IdleWalk]
        /\ overtaken' = overtaken \ {s}
        /\ UNCHANGED active
     \/ /\ walk[s].files # Nothing
        /\ \E t \in Shared :
             walk' = [walk EXCEPT ![s] = [IdleWalk EXCEPT !.at = "joined", !.behind = t]]
        /\ overtaken' = overtaken \ {s}
        /\ UNCHANGED active
     \/ /\ walk[s].files # Nothing /\ Shared = {}
        /\ walk' = [walk EXCEPT ![s].at = "sending"]
        /\ active' = active \cup {s}
        /\ overtaken' = overtaken \cup {t \in Session \ {s} : walk[t].at = "reading"}
  /\ UNCHANGED <<disk, handler, row, run, announced, snapshot, faults>>
-----------------------------------------------------------------------------
\* performWorkspaceFileBatches posts one batch and waits for its answer. The
\* handler looks up its run, which the newest is: at most one is active.
Post(s, batch) ==
  LET h == First({g \in Request : handler[g].at = "free"})
  IN /\ walk[s].at = "sending" /\ \E g \in Request : handler[g].at = "free"
     /\ batch # {} /\ batch \subseteq {f \in File : walk[s].files[f] # 0}
     /\ handler' = [handler EXCEPT ![h] =
          [Free EXCEPT !.at = "hashing", !.caller = s, !.run = run,
                       !.files = [f \in File |-> IF f \in batch THEN walk[s].files[f] ELSE 0]]]
     /\ walk' = [walk EXCEPT ![s].at = "awaiting",
                             ![s].files = [f \in File |-> IF f \in batch THEN 0 ELSE @[f]]]
     /\ UNCHANGED <<disk, active, row, run, announced, snapshot, faults, overtaken>>

\* Variant: a failed operation stays in workspaceFileSyncs.
Remembered(s) == active

Forgotten(s) == active \ {s}

\* The operation of s is over, for s and for everyone who joined it.
EndOperation(s, left) ==
  /\ walk' = [t \in Session |->
       IF t = s \/ (walk[t].at = "joined" /\ walk[t].behind = s) THEN IdleWalk ELSE walk[t]]
  /\ active' = left
  /\ overtaken' = overtaken \ {s}

\* The backend has answered h: the caller sends the next batch, if there is one.
Answer(h) ==
  LET s == handler[h].caller
  IN /\ handler' = [handler EXCEPT ![h] = Free]
     /\ CASE s = NoSession -> UNCHANGED <<walk, active, overtaken>>
          [] s # NoSession /\ walk[s].files # Nothing ->
               walk' = [walk EXCEPT ![s].at = "sending"] /\ UNCHANGED <<active, overtaken>>
          [] OTHER -> EndOperation(s, active \ {s})

\* A POST fails before the backend sees it.
Lose(s) ==
  /\ walk[s].at = "sending" /\ faults < MaxFaults
  /\ EndOperation(s, Forgotten(s))
  /\ faults' = faults + 1
  /\ UNCHANGED <<disk, handler, row, run, announced, snapshot>>

\* The gateway stops waiting, after 15 seconds or because the handler threw.
\* The handler goes on; one that threw may still have upserts under way.
GiveUp(h) ==
  /\ handler[h].caller # NoSession /\ faults < MaxFaults
  /\ handler' = [handler EXCEPT ![h].caller = NoSession]
  /\ EndOperation(handler[h].caller, Forgotten(handler[h].caller))
  /\ faults' = faults + 1
  /\ UNCHANGED <<disk, row, run, announced, snapshot>>

\* A handler nobody waits for ends early.
Stop(h) ==
  /\ handler[h].at # "free" /\ handler[h].caller = NoSession
  /\ handler' = [handler EXCEPT ![h] = Free]
  /\ UNCHANGED <<disk, walk, active, row, run, announced, snapshot, faults, overtaken>>
-----------------------------------------------------------------------------
Differing(h) == {f \in File : handler[h].files[f] \notin {0, row[f].version}}

ReadHashes(h) ==
  /\ handler[h].at = "hashing"
  /\ handler' = [handler EXCEPT ![h].at = "writing", ![h].todo = Differing(h)]
  /\ UNCHANGED <<disk, walk, active, row, run, announced, snapshot, faults, overtaken>>

\* The upserts of a batch run side by side; lastRunId stays if no run was found.
Write(h, f) ==
  LET r == handler[h].run
  IN /\ handler[h].at = "writing" /\ f \in handler[h].todo
     /\ row' = [row EXCEPT ![f] = [version |-> handler[h].files[f],
                                   run |-> IF r = 0 THEN @.run ELSE r]]
     /\ handler' = [handler EXCEPT ![h].todo = @ \ {f}, ![h].changed = @ \cup {f}]
     /\ UNCHANGED <<disk, walk, active, run, announced, snapshot, faults, overtaken>>

\* All rows are saved; without a run that is all, without changes nothing is announced.
Written(h) ==
  /\ handler[h].at = "writing" /\ handler[h].todo = {}
  /\ \/ /\ handler[h].run = 0
        /\ Answer(h)
     \/ /\ handler[h].run # 0
        /\ handler' = [handler EXCEPT ![h].at = IF handler[h].changed = {} THEN "listing"
                                                ELSE "announcing"]
        /\ UNCHANGED <<walk, active, overtaken>>
  /\ UNCHANGED <<disk, row, run, announced, snapshot, faults>>

\* The event's payload counts all changed files and names the first 50 of them; the
\* model stands for a sync that changes no more.
Announce(h) ==
  /\ handler[h].at = "announcing"
  /\ announced' = [f \in File |-> IF f \in handler[h].changed THEN handler[h].files[f]
                                  ELSE announced[f]]
  /\ handler' = [handler EXCEPT ![h].at = "listing", ![h].files = Nothing]
  /\ UNCHANGED <<disk, walk, active, row, run, snapshot, faults, overtaken>>

\* The manifest is read, and the apps' manifests are derived from it.
ReadRows(h) ==
  /\ handler[h].at = "listing"
  /\ handler' = [handler EXCEPT ![h].at = "snapshotting", ![h].manifest = Saved]
  /\ UNCHANGED <<disk, walk, active, row, run, announced, snapshot, faults, overtaken>>

\* Variant: a run is snapshotted once.
FirstOnly(h) == ~snapshot[handler[h].run].taken

Due(h) == handler[h].changed # {} \/ ~snapshot[handler[h].run].taken

TakeSnapshot(h) ==
  /\ handler[h].at = "snapshotting"
  /\ snapshot' = IF Due(h)
                 THEN [snapshot EXCEPT ![handler[h].run] =
                         [taken |-> TRUE, manifest |-> handler[h].manifest]]
                 ELSE snapshot
  /\ Answer(h)
  /\ UNCHANGED <<disk, row, run, announced, faults>>
-----------------------------------------------------------------------------
Handle(h) ==
  \/ ReadHashes(h) \/ (\E f \in File : Write(h, f))
  \/ Written(h) \/ Announce(h) \/ ReadRows(h) \/ TakeSnapshot(h)

Proceed(s) ==
  \/ ReadFile(s) \/ Submit(s)
  \/ \E batch \in SUBSET File : Post(s, batch)

Next ==
  \/ \E f \in File : Edit(f)
  \/ CreateRun \/ EndRun
  \/ \E s \in Session : StartWalk(s) \/ Proceed(s) \/ Lose(s)
  \/ \E h \in Request : GiveUp(h) \/ Stop(h) \/ Handle(h)

Spec == Init /\ [][Next]_vars

\* The timer fires, files are read and sent, and handlers come to an end.
FairSpec ==
  /\ Spec
  /\ \A s \in Lasting : WF_vars(StartWalk(s))
  /\ \A s \in Session : WF_vars(Proceed(s))
  /\ \A h \in Request : WF_vars(Handle(h))
-----------------------------------------------------------------------------
(***************************************************************************)
(* "Share one durable file snapshot sync across those sockets": however    *)
(* many sockets poll, the gateway waits for one handler of the workspace   *)
(* at a time (workspaceFileSyncs, main.ts:99).                             *)
(***************************************************************************)
OneSyncAtATime ==
  \A g, h \in Request : g # h => NoSession \in {handler[g].caller, handler[h].caller}

(***************************************************************************)
(* A saved row goes back to older content only through a handler the       *)
(* gateway gave up, or one whose session was still reading when another    *)
(* session, which may have read later, began to send: neither the batches  *)
(* of a sync nor hashes read before other writes do it.                    *)
(***************************************************************************)
NoRollback ==
  [][\A h \in Request : handler[h].caller \notin overtaken \cup {NoSession}
       => \A f \in handler[h].todo \ handler'[h].todo : row'[f].version >= row[f].version]_vars

(***************************************************************************)
(* "records files.persisted only after the changed file rows are saved",   *)
(* "writes an auto project snapshot after changed files are durable": as   *)
(* long as no POST was lost or given up, what a file holds is announced    *)
(* and in the latest snapshot of the run it was saved for, once the        *)
(* handler that saved it is through, however many sessions poll and        *)
(* whatever runs start and end in the meantime. (Of more than 50 changed   *)
(* files the announcement names 50.)                                       *)
(***************************************************************************)
SavedIsRecorded ==
  faults = 0 => \A f \in File :
    row[f].run # 0 /\ (\A h \in Request : f \notin handler[h].changed)
      => LET shot == snapshot[row[f].run]
         IN announced[f] = row[f].version /\ shot.taken /\ shot.manifest[f] = row[f].version

(***************************************************************************)
(* "The periodic sync will pick up edits made mid-run": while a socket     *)
(* is open the rows come to hold what is on the disk, and the newest run   *)
(* has a snapshot, although calls that find a sync under way drop their    *)
(* files, and whatever handlers outlived their POST.                       *)
(***************************************************************************)
SyncConverges ==
  <>[](Saved = disk /\ (run = 0 \/ disk = Nothing \/ snapshot[run].taken))
=============================================================================
