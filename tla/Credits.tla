------------------------------- MODULE Credits -------------------------------
(***************************************************************************)
(* The credit account of one user: the row of "user_credits", its mirror   *)
(* in "workspace_credits", the ledger, and the calls that work on them:    *)
(* ensureAccount and ensureWorkspaceMirror, the usage core reports, and    *)
(* the reserve / settle / release of an engine call.                       *)
(*                                                                         *)
(* A transaction that starts by changing the account row holds its lock to *)
(* the end and is one step. What a call reads before is a step of its own. *)
(* Accounts of different users share nothing, so one is modelled.          *)
(***************************************************************************)
EXTENDS Integers, FiniteSets

CONSTANTS
  Call,        \* calls, each made once
  Plan,        \* canonical plans
  Allowance,   \* credits per UTC day, by plan
  Cost,        \* what a call may turn out to cost
  ImageCost,   \* price of an image request, known before it starts
  MaxDay       \* bound: UTC days

ASSUME CreditsAssumption ==
  /\ IsFiniteSet(Call) /\ Allowance \in [Plan -> Nat] /\ Plan # {}
  /\ Cost \subseteq Nat \ {0} /\ ImageCost \in Nat \ {0} /\ MaxDay \in Nat

VARIABLES
  acct,     \* the row of user_credits
  mirror,   \* the row of workspace_credits
  ledger,   \* user_credit_ledger: the total of the deltas, by kind
  usage,    \* seltra_engine_usage: the total of costUnits
  plan,     \* the user's plan
  day,      \* the current UTC day
  req       \* the calls

vars == <<acct, mirror, ledger, usage, plan, day, req>>

Kinds == {"grant", "reset", "usage", "reserve", "release", "engine_usage"}

Account == [open : BOOLEAN, balance : Nat, granted : Nat, used : Nat, day : Nat, plan : Plan]
Copy    == [balance : Nat, granted : Nat, used : Nat, day : Nat]

Steps == {"new", "read", "create", "created", "reset", "reset_write", "mirror", "reserved",
          "releasing", "settled", "released", "lost", "done"}

Req == [step : Steps, plan : Plan, row : Copy, est : Nat]

TypeOK ==
  /\ acct \in Account /\ mirror \in Copy
  /\ ledger \in [Kinds -> Int] /\ usage \in Nat
  /\ plan \in Plan /\ day \in Nat
  /\ req \in [Call -> Req]

NoRow == [balance |-> 0, granted |-> 0, used |-> 0, day |-> 0]

Init ==
  /\ plan \in Plan
  /\ acct = [open |-> FALSE, balance |-> 0, granted |-> 0, used |-> 0, day |-> 0, plan |-> plan]
  /\ mirror = NoRow
  /\ ledger = [k \in Kinds |-> 0] /\ usage = 0
  /\ day = 0
  /\ req = [c \in Call |-> [step |-> "new", plan |-> plan, row |-> NoRow, est |-> 0]]

-----------------------------------------------------------------------------
CopyOf(a) == [balance |-> a.balance, granted |-> a.granted, used |-> a.used, day |-> a.day]

\* A transaction that leaves account a, books delta under kind and mirrors a.
Transact(a, kind, delta) ==
  /\ acct' = a
  /\ ledger' = [ledger EXCEPT ![kind] = @ + delta]
  /\ mirror' = CopyOf(a)

Goto(c, s) == req' = [req EXCEPT ![c].step = s]

Covers(a, n) == a.balance >= n

\* Variant: a reset does not count as granted.
GrantedByFirst(a, n) == a.granted

GrantedAfter(a, n) == a.granted + n

-----------------------------------------------------------------------------
(* ensureAccount, ensureWorkspaceMirror, grant *)

\* The caller reads the user's plan.
EnsureStart(c) ==
  /\ req[c].step = "new"
  /\ req' = [req EXCEPT ![c] = [@ EXCEPT !.step = "read", !.plan = plan]]
  /\ UNCHANGED <<acct, mirror, ledger, usage, plan, day>>

ResetDue(c) == acct.day < day \/ acct.plan # req[c].plan

EnsureRead(c) ==
  /\ req[c].step = "read"
  /\ req' = [req EXCEPT ![c] = [@ EXCEPT
                !.row = CopyOf(acct),
                !.step = IF ~acct.open THEN "create" ELSE IF ResetDue(c) THEN "reset" ELSE "mirror"]]
  /\ UNCHANGED <<acct, mirror, ledger, usage, plan, day>>

\* ensureWorkspaceMirror of an existing account does not look at its window.
MirrorRead(c) ==
  /\ req[c].step = "new" /\ acct.open
  /\ req' = [req EXCEPT ![c] = [@ EXCEPT !.step = "mirror", !.row = CopyOf(acct)]]
  /\ UNCHANGED <<acct, mirror, ledger, usage, plan, day>>

\* A transaction of its own, with the row read before.
MirrorWrite(c) ==
  /\ req[c].step = "mirror"
  /\ mirror' = req[c].row
  /\ Goto(c, "done")
  /\ UNCHANGED <<acct, ledger, usage, plan, day>>

CreateAccount(c) ==
  LET n == Allowance[req[c].plan]
      a == [open |-> TRUE, balance |-> n, granted |-> n, used |-> 0, day |-> day,
            plan |-> req[c].plan]
  IN /\ req[c].step = "create" /\ ~acct.open
     /\ Transact(a, "grant", n)
     /\ req' = [req EXCEPT ![c] = [@ EXCEPT !.step = "created", !.row = CopyOf(a)]]
     /\ UNCHANGED <<usage, plan, day>>

\* The row just created goes through the same test: midnight may have passed.
TestCreated(c) ==
  /\ req[c].step = "created"
  /\ Goto(c, IF req[c].row.day < day THEN "reset" ELSE "mirror")
  /\ UNCHANGED <<acct, mirror, ledger, usage, plan, day>>

\* P2002: another call created it; read again.
CreateRefused(c) ==
  /\ req[c].step = "create" /\ acct.open
  /\ Goto(c, "read")
  /\ UNCHANGED <<acct, mirror, ledger, usage, plan, day>>

\* grant(..., 'reset') reads the old balance for the ledger without locking it...
ResetRead(c) ==
  /\ req[c].step = "reset"
  /\ req' = [req EXCEPT ![c] = [@ EXCEPT !.step = "reset_write", !.row = CopyOf(acct)]]
  /\ UNCHANGED <<acct, mirror, ledger, usage, plan, day>>

\* ... and sets the new one.
ResetWrite(c) ==
  LET n == Allowance[req[c].plan]
  IN /\ req[c].step = "reset_write"
     /\ Transact([acct EXCEPT !.balance = n, !.granted = GrantedAfter(acct, n), !.day = day,
                              !.plan = req[c].plan], "reset", n - req[c].row.balance)
     /\ Goto(c, "done")
     /\ UNCHANGED <<usage, plan, day>>

-----------------------------------------------------------------------------
(* Usage reported by core. A refusal (INSUFFICIENT_CREDITS, OUT_OF_CREDITS)  *)
(* changes nothing and is left out, here and in Reserve.                     *)

ReportUsage(c, cost) ==
  /\ req[c].step = "new" /\ acct.open
  /\ Covers(acct, cost)
  /\ Transact([acct EXCEPT !.balance = @ - cost, !.used = @ + cost], "usage", -cost)
  /\ Goto(c, "done")
  /\ UNCHANGED <<usage, plan, day>>

-----------------------------------------------------------------------------
(* An engine call: reserve, provider work, settle or release *)

Reserve(c, est) ==
  /\ req[c].step = "new" /\ acct.open
  /\ Covers(acct, est)
  /\ Transact([acct EXCEPT !.balance = @ - est], "reserve", -est)
  /\ req' = [req EXCEPT ![c] = [@ EXCEPT !.step = "reserved", !.est = est]]
  /\ UNCHANGED <<usage, plan, day>>

\* A chat reserves one credit and costs what its tokens weigh; images cost what
\* they reserved.
Outcome(c) == IF req[c].est = 1 THEN Cost \cup {1} ELSE {req[c].est}

Adjustment(c, cost) == req[c].est - cost

\* Variant: the ledger books the whole cost.
BooksCost(c, cost) == -cost

Booked(c, cost) == Adjustment(c, cost)

\* Variant: the account only counts what the reservation did not cover.
UsedBeyond(c, cost) == acct.used + cost - req[c].est

UsedAfter(c, cost) == acct.used + cost

Settle(c, cost) ==
  /\ req[c].step = "reserved" /\ cost \in Outcome(c)
  /\ Covers(acct, -Adjustment(c, cost))
  /\ Transact([acct EXCEPT !.balance = @ + Adjustment(c, cost), !.used = UsedAfter(c, cost)],
              "engine_usage", Booked(c, cost))
  /\ usage' = usage + cost
  /\ Goto(c, "settled")
  /\ UNCHANGED <<plan, day>>

\* Variant: nothing releases the reservation of a failed call.
GiveUp(c) == "done"

OnError(c) == "releasing"

\* The balance does not cover the rest: the settlement throws.
SettleRefused(c, cost) ==
  /\ req[c].step = "reserved" /\ cost \in Outcome(c)
  /\ ~Covers(acct, -Adjustment(c, cost))
  /\ Goto(c, OnError(c))
  /\ UNCHANGED <<acct, mirror, ledger, usage, plan, day>>

ProviderFails(c) ==
  /\ req[c].step = "reserved"
  /\ Goto(c, OnError(c))
  /\ UNCHANGED <<acct, mirror, ledger, usage, plan, day>>

\* Variant: the release returns an image's price whatever was reserved.
ReturnsImage(c) == ImageCost

Returned(c) == req[c].est

Release(c) ==
  /\ req[c].step = "releasing"
  /\ Transact([acct EXCEPT !.balance = @ + Returned(c)], "release", Returned(c))
  /\ Goto(c, "released")
  /\ UNCHANGED <<usage, plan, day>>

\* The process dies, or the release itself fails; nothing looks for the reservation.
Crash(c) ==
  /\ req[c].step \in {"reserved", "releasing"}
  /\ Goto(c, "lost")
  /\ UNCHANGED <<acct, mirror, ledger, usage, plan, day>>

-----------------------------------------------------------------------------
NextDay == /\ day < MaxDay /\ day' = day + 1
           /\ UNCHANGED <<acct, mirror, ledger, usage, plan, req>>

ChangePlan(p) == /\ plan # p /\ plan' = p
                 /\ UNCHANGED <<acct, mirror, ledger, usage, day, req>>

Ensure(c) == \/ EnsureStart(c) \/ EnsureRead(c) \/ MirrorRead(c) \/ MirrorWrite(c)
             \/ CreateAccount(c) \/ TestCreated(c) \/ CreateRefused(c)
             \/ ResetRead(c) \/ ResetWrite(c)

Finish(c) == \/ ProviderFails(c) \/ Release(c)
             \/ \E cost \in Outcome(c) : Settle(c, cost) \/ SettleRefused(c, cost)

Engine(c) == \/ \E est \in {1, ImageCost} : Reserve(c, est)
             \/ Finish(c) \/ Crash(c)

Next == \/ NextDay
        \/ \E p \in Plan : ChangePlan(p)
        \/ \E c \in Call : Ensure(c) \/ Engine(c) \/ \E cost \in Cost : ReportUsage(c, cost)

Spec == Init /\ [][Next]_vars

(***************************************************************************)
(* Provider calls are cut off by an abort timer and both ways out of the   *)
(* call are awaited, so a process that lives finishes them.                *)
(***************************************************************************)
FairSpec == Spec /\ \A c \in Call : WF_vars(Finish(c))

-----------------------------------------------------------------------------
\* Credits under reservation according to the tables alone.
Held == -(ledger["reserve"] + ledger["release"] + ledger["engine_usage"]) - usage

LedgerTotal == ledger["grant"] + ledger["reset"] + ledger["usage"] + ledger["reserve"]
             + ledger["release"] + ledger["engine_usage"]

Drift == LedgerTotal - acct.balance

(***************************************************************************)
(* What a user has, has used and has under reservation was granted, at     *)
(* every instant and whatever resets, plan changes, settlements, refused   *)
(* settlements, releases and crashes interleave (grant, reserveCredits,    *)
(* commitUsage, releaseCredits).                                           *)
(***************************************************************************)
SpendsOnlyGranted == acct.balance + acct.used + Held <= acct.granted

(***************************************************************************)
(* lifetimeUsed is the usage core reported plus the engine usage records,  *)
(* although settlements book only the difference to the reservation in the *)
(* ledger (commitUsage of credits and of the engine).                      *)
(***************************************************************************)
UsageBooked == acct.used = usage - ledger["usage"]

Reserved == {c \in Call : req[c].step \in {"reserved", "releasing", "lost"}}

\* The credits those calls have reserved, one by one.
ReservedCredits == UNION {{c} \X (1..req[c].est) : c \in Reserved}

(***************************************************************************)
(* The ledger tells which credits are still reserved: what it says is held *)
(* is what calls in flight, or lost to a crash, have reserved, each once   *)
(* ("failures release the reservation", docs/engine-audit.md).             *)
(***************************************************************************)
HeldIsReserved == Held = Cardinality(ReservedCredits)

(***************************************************************************)
(* Balance and ledger part only in a reset whose read of the old balance   *)
(* went stale before its write; every other call books exactly what it     *)
(* changes (grant reads previous without a lock).                          *)
(***************************************************************************)
DriftsOnlyInStaleReset ==
  [][Drift' # Drift => \E c \in Call : /\ req[c].step = "reset_write"
                                       /\ req'[c].step = "done"
                                       /\ req[c].row.balance # acct.balance]_vars

(***************************************************************************)
(* A reservation does not stay open: it is settled or released, unless the *)
(* process dies (the try/catch around every provider call).                *)
(***************************************************************************)
ReservationCloses == \A c \in Call :
  req[c].step = "reserved" ~> req[c].step \in {"settled", "released", "lost"}
=============================================================================
