---------------------------- MODULE CreditsProofs ----------------------------
(***************************************************************************)
(* What Credits promises for any number of calls, any plans and allowances *)
(* and any costs: types, that only granted credits are spent, that         *)
(* lifetimeUsed is the usage that was recorded, that the ledger tells what *)
(* is reserved, and where it drifts from the balance.                      *)
(***************************************************************************)
EXTENDS Credits, FiniteSetTheorems, TLAPS

NeedsAccount == {"created", "reset", "reset_write", "reserved", "releasing"}

\* Before the account exists nothing was granted or used, and nobody is at a
\* step that needs it.
NoAccountYet == ~acct.open => /\ acct.granted = 0 /\ acct.used = 0
                              /\ \A c \in Call : req[c].step \notin NeedsAccount

IInv == TypeOK /\ NoAccountYet /\ SpendsOnlyGranted /\ UsageBooked

(***************************************************************************)
(* A transaction keeps the types when its account and its delta have them. *)
(***************************************************************************)
LEMMA TransactType ==
  ASSUME TypeOK, NEW a \in Account, NEW k \in Kinds, NEW n \in Int, Transact(a, k, n)
  PROVE  /\ acct' \in Account /\ mirror' \in Copy /\ ledger' \in [Kinds -> Int]
         /\ acct' = a
         /\ ledger'[k] = ledger[k] + n
         /\ \A j \in Kinds \ {k} : ledger'[j] = ledger[j]
BY DEF TypeOK, Transact, CopyOf, Account, Copy, Kinds

(***************************************************************************)
(* The empty tables satisfy the invariant.                                 *)
(***************************************************************************)
LEMMA InitInv == Init => IInv
BY CreditsAssumption DEF Init, IInv, TypeOK, NoAccountYet, NeedsAccount, SpendsOnlyGranted, UsageBooked,
   Held, Account, Copy, Req, Steps, Kinds, NoRow

(***************************************************************************)
(* Steps that do not change the tables keep the sums as they are.          *)
(***************************************************************************)
LEMMA TablesSame ==
  ASSUME IInv, UNCHANGED <<acct, ledger, usage>>
  PROVE  SpendsOnlyGranted' /\ UsageBooked'
BY DEF IInv, SpendsOnlyGranted, UsageBooked, Held

(***************************************************************************)
(* ensureAccount and grant keep the invariant.                             *)
(***************************************************************************)
LEMMA EnsureInv ==
  ASSUME CreditsAssumption, IInv, NEW c \in Call, Ensure(c)
  PROVE  IInv'
<1> USE CreditsAssumption
<1> SUFFICES TypeOK' /\ NoAccountYet' /\ SpendsOnlyGranted' /\ UsageBooked'
    BY DEF IInv
<1>0. CopyOf(acct) \in Copy
    BY DEF IInv, TypeOK, CopyOf, Account, Copy
<1>1. CASE EnsureStart(c)
  BY <1>1, TablesSame DEF EnsureStart, IInv, TypeOK, NoAccountYet, NeedsAccount, Req, Steps
<1>2. CASE EnsureRead(c)
  <2> DEFINE s == IF ~acct.open THEN "create" ELSE IF ResetDue(c) THEN "reset" ELSE "mirror"
  <2>0. s \in Steps
    BY DEF Steps
  <2>1. TypeOK'
    <3> HIDE DEF s
    <3>1. req' = [req EXCEPT ![c] = [@ EXCEPT !.row = CopyOf(acct), !.step = s]]
      BY <1>2 DEF EnsureRead, s
    <3>2. [req[c] EXCEPT !.row = CopyOf(acct), !.step = s] \in Req
      BY <1>0, <2>0 DEF IInv, TypeOK, Req
    <3> QED
      BY <1>2, <3>1, <3>2 DEF EnsureRead, IInv, TypeOK
  <2> QED
    BY <1>2, <2>1, TablesSame DEF EnsureRead, IInv, TypeOK, NoAccountYet, NeedsAccount, Req, Steps
<1>3. CASE MirrorRead(c)
  BY <1>0, <1>3, TablesSame DEF MirrorRead, IInv, TypeOK, NoAccountYet, NeedsAccount, Req, Steps
<1>4. CASE MirrorWrite(c)
  BY <1>4, TablesSame DEF MirrorWrite, Goto, IInv, TypeOK, NoAccountYet, NeedsAccount, Req, Steps
<1>5. CASE CreateAccount(c)
  <2> DEFINE n == Allowance[req[c].plan]
             a == [open |-> TRUE, balance |-> n, granted |-> n, used |-> 0, day |-> day,
                   plan |-> req[c].plan]
  <2>1. n \in Nat /\ a \in Account
    BY DEF IInv, TypeOK, Req, Account
  <2>2. Transact(a, "grant", n) /\ "grant" \in Kinds /\ usage' = usage
    BY <1>5 DEF CreateAccount, Kinds
  <2>3. /\ acct' \in Account /\ mirror' \in Copy /\ ledger' \in [Kinds -> Int] /\ acct' = a
        /\ \A j \in Kinds \ {"grant"} : ledger'[j] = ledger[j]
    BY <2>1, <2>2, TransactType DEF IInv
  <2>7. req' = [req EXCEPT ![c] = [@ EXCEPT !.step = "created", !.row = CopyOf(a)]] /\ CopyOf(a) \in Copy
    BY <1>5, <2>1 DEF CreateAccount, CopyOf, Account, Copy
  <2>8. [req[c] EXCEPT !.step = "created", !.row = CopyOf(a)] \in Req
    BY <2>7 DEF IInv, TypeOK, Req, Steps
  <2>9. acct'.open /\ UNCHANGED <<plan, day>>
    BY <1>5, <2>3 DEF CreateAccount
  <2>4. TypeOK' /\ NoAccountYet'
    <3> HIDE DEF a
    <3> QED BY <2>2, <2>3, <2>7, <2>8, <2>9 DEF IInv, TypeOK, NoAccountYet
  <2>5. acct.used = 0 /\ acct.granted = 0 /\ acct.balance \in Nat
    BY <1>5 DEF CreateAccount, IInv, TypeOK, NoAccountYet, Account
  <2>6. Held' = Held /\ ledger'["usage"] = ledger["usage"] /\ Held \in Int
    BY <2>2, <2>3 DEF Held, Kinds, IInv, TypeOK
  <2> QED
    BY <2>1, <2>2, <2>3, <2>4, <2>5, <2>6 DEF IInv, SpendsOnlyGranted, UsageBooked
<1>6. CASE CreateRefused(c)
  BY <1>6, TablesSame DEF CreateRefused, Goto, IInv, TypeOK, NoAccountYet, NeedsAccount, Req, Steps
<1>7. CASE ResetRead(c)
  BY <1>0, <1>7, TablesSame DEF ResetRead, IInv, TypeOK, NoAccountYet, NeedsAccount, Req, Steps
<1>8. CASE ResetWrite(c)
  <2> DEFINE n == Allowance[req[c].plan]
             a == [acct EXCEPT !.balance = n, !.granted = GrantedAfter(acct, n), !.day = day,
                               !.plan = req[c].plan]
             d == n - req[c].row.balance
  <2>0. n \in Nat /\ req[c].plan \in Plan /\ day \in Nat /\ d \in Int
    BY DEF IInv, TypeOK, Req, Copy
  <2>1. n \in Nat /\ a \in Account /\ d \in Int
    <3> HIDE DEF n, d
    <3>1. acct.granted + n \in Nat
      BY <2>0 DEF IInv, TypeOK, Account
    <3> QED
      BY <2>0, <3>1 DEF IInv, TypeOK, Account, GrantedAfter
  <2>2. Transact(a, "reset", d) /\ "reset" \in Kinds /\ usage' = usage
    BY <1>8 DEF ResetWrite, Kinds
  <2>3. /\ acct' \in Account /\ mirror' \in Copy /\ ledger' \in [Kinds -> Int] /\ acct' = a
        /\ \A j \in Kinds \ {"reset"} : ledger'[j] = ledger[j]
    BY <2>1, <2>2, TransactType DEF IInv
  <2>4. TypeOK'
    BY <1>8, <2>3 DEF ResetWrite, Goto, IInv, TypeOK, Req, Steps
  <2>5. acct.open
    BY <1>8 DEF ResetWrite, IInv, NoAccountYet, NeedsAccount
  <2>6. /\ acct'.open /\ acct'.balance = n /\ acct'.used = acct.used
        /\ acct'.granted = acct.granted + n
    BY <2>3, <2>5 DEF GrantedAfter, Account, IInv, TypeOK
  <2>7. Held' = Held /\ ledger'["usage"] = ledger["usage"] /\ Held \in Int
    BY <2>2, <2>3 DEF Held, Kinds, IInv, TypeOK
  <2>8. acct.balance \in Nat /\ acct.granted \in Nat /\ acct.used \in Nat
    BY DEF IInv, TypeOK, Account
  <2> QED
    BY <2>1, <2>2, <2>4, <2>6, <2>7, <2>8 DEF IInv, NoAccountYet, SpendsOnlyGranted, UsageBooked
<1>9. CASE TestCreated(c)
  BY <1>9, TablesSame DEF TestCreated, Goto, IInv, TypeOK, NoAccountYet, NeedsAccount, Req, Steps
<1> QED
  BY <1>1, <1>2, <1>3, <1>4, <1>5, <1>6, <1>7, <1>8, <1>9 DEF Ensure

(***************************************************************************)
(* Usage reports and engine calls keep the invariant.                      *)
(***************************************************************************)
LEMMA SpendInv ==
  ASSUME CreditsAssumption, IInv, NEW c \in Call,
         Engine(c) \/ \E cost \in Cost : ReportUsage(c, cost)
  PROVE  IInv'
<1> USE CreditsAssumption
<1> SUFFICES TypeOK' /\ NoAccountYet' /\ SpendsOnlyGranted' /\ UsageBooked'
    BY DEF IInv
<1>0. /\ acct.balance \in Nat /\ acct.granted \in Nat /\ acct.used \in Nat /\ usage \in Nat
      /\ req[c].est \in Nat /\ \A k \in Kinds : ledger[k] \in Int
    BY DEF IInv, TypeOK, Account, Req
<1>1. CASE \E cost \in Cost : ReportUsage(c, cost)
  <2> PICK cost \in Cost : ReportUsage(c, cost)
    BY <1>1
  <2> DEFINE a == [acct EXCEPT !.balance = @ - cost, !.used = @ + cost]
  <2>0. Covers(acct, cost) /\ cost \in Nat
    BY DEF ReportUsage
  <2>1. cost \in Nat /\ -cost \in Int /\ a \in Account
    <3>1. acct.balance - cost \in Nat /\ acct.used + cost \in Nat /\ -cost \in Int
      BY <1>0, <2>0 DEF Covers
    <3> QED
      BY <2>0, <3>1 DEF IInv, TypeOK, Account
  <2>2. Transact(a, "usage", -cost) /\ "usage" \in Kinds /\ usage' = usage
    BY DEF ReportUsage, Kinds
  <2>3. /\ acct' \in Account /\ mirror' \in Copy /\ ledger' \in [Kinds -> Int] /\ acct' = a
        /\ ledger'["usage"] = ledger["usage"] - cost
        /\ \A j \in Kinds \ {"usage"} : ledger'[j] = ledger[j]
    BY <2>1, <2>2, TransactType, <1>0 DEF IInv
  <2>4. /\ acct'.open /\ acct'.balance = acct.balance - cost /\ acct'.used = acct.used + cost
        /\ acct'.granted = acct.granted
    BY <2>3 DEF ReportUsage, Account, IInv, TypeOK
  <2>5. TypeOK' /\ NoAccountYet'
    <3> HIDE DEF a
    <3>1. req' = [req EXCEPT ![c].step = "done"] /\ UNCHANGED <<usage, plan, day>>
      BY DEF ReportUsage, Goto
    <3>2. req' \in [Call -> Req]
      BY <3>1 DEF IInv, TypeOK, Req, Steps
    <3>3. TypeOK'
      BY <2>3, <3>1, <3>2 DEF IInv, TypeOK
    <3> QED
      BY <2>4, <3>3 DEF NoAccountYet
  <2>6. Held' = Held /\ Held \in Int
    BY <1>0, <2>2, <2>3 DEF Held, Kinds
  <2> QED
    BY <1>0, <2>1, <2>2, <2>3, <2>4, <2>5, <2>6 DEF IInv, SpendsOnlyGranted, UsageBooked, Kinds
<1>2. CASE \E est \in {1, ImageCost} : Reserve(c, est)
  <2> PICK est \in {1, ImageCost} : Reserve(c, est)
    BY <1>2
  <2> DEFINE a == [acct EXCEPT !.balance = @ - est]
  <2>1. est \in Nat /\ -est \in Int /\ a \in Account
    BY <1>0 DEF Reserve, Covers, IInv, TypeOK, Account
  <2>2. Transact(a, "reserve", -est) /\ "reserve" \in Kinds /\ usage' = usage
    BY DEF Reserve, Kinds
  <2>3. /\ acct' \in Account /\ mirror' \in Copy /\ ledger' \in [Kinds -> Int] /\ acct' = a
        /\ ledger'["reserve"] = ledger["reserve"] - est
        /\ \A j \in Kinds \ {"reserve"} : ledger'[j] = ledger[j]
    BY <2>1, <2>2, TransactType, <1>0 DEF IInv
  <2>4. /\ acct'.open /\ acct'.balance = acct.balance - est /\ acct'.used = acct.used
        /\ acct'.granted = acct.granted
    BY <2>3 DEF Reserve, Account, IInv, TypeOK
  <2>5. TypeOK' /\ NoAccountYet'
    <3> HIDE DEF a
    <3>1. req' = [req EXCEPT ![c] = [@ EXCEPT !.step = "reserved", !.est = est]] /\ UNCHANGED <<usage, plan, day>>
      BY DEF Reserve
    <3>2. [req[c] EXCEPT !.step = "reserved", !.est = est] \in Req
      BY <2>1 DEF IInv, TypeOK, Req, Steps
    <3>3. TypeOK'
      BY <2>3, <3>1, <3>2 DEF IInv, TypeOK
    <3> QED
      BY <2>4, <3>3 DEF NoAccountYet
  <2>6. Held' = Held + est /\ Held \in Int /\ ledger'["usage"] = ledger["usage"]
    BY <1>0, <2>1, <2>2, <2>3 DEF Held, Kinds
  <2> QED
    BY <1>0, <2>1, <2>2, <2>4, <2>5, <2>6 DEF IInv, SpendsOnlyGranted, UsageBooked
<1>3. CASE \E cost \in Outcome(c) : Settle(c, cost)
  <2> PICK cost \in Outcome(c) : Settle(c, cost)
    BY <1>3
  <2> DEFINE d == Adjustment(c, cost)
             a == [acct EXCEPT !.balance = @ + d, !.used = UsedAfter(c, cost)]
  <2>1. cost \in Nat /\ d \in Int /\ d = req[c].est - cost
    BY <1>0 DEF Outcome, Adjustment
  <2>2. a \in Account
    <3>1. acct.balance + d \in Nat /\ UsedAfter(c, cost) \in Nat
      BY <1>0, <2>1 DEF Settle, Covers, UsedAfter
    <3> HIDE DEF d
    <3> QED
      BY <3>1 DEF IInv, TypeOK, Account
  <2>3. Transact(a, "engine_usage", d) /\ "engine_usage" \in Kinds /\ usage' = usage + cost
    BY DEF Settle, Booked, Kinds
  <2>4. /\ acct' \in Account /\ mirror' \in Copy /\ ledger' \in [Kinds -> Int] /\ acct' = a
        /\ ledger'["engine_usage"] = ledger["engine_usage"] + d
        /\ \A j \in Kinds \ {"engine_usage"} : ledger'[j] = ledger[j]
    BY <2>1, <2>2, <2>3, TransactType DEF IInv
  <2>5. acct.open
    BY DEF Settle, IInv, NoAccountYet, NeedsAccount
  <2>6. /\ acct'.open /\ acct'.balance = acct.balance + d /\ acct'.used = acct.used + cost
        /\ acct'.granted = acct.granted
    BY <2>4, <2>5 DEF UsedAfter, Account, IInv, TypeOK
  <2>7. TypeOK' /\ NoAccountYet'
    BY <1>0, <2>1, <2>4, <2>6 DEF Settle, Goto, IInv, TypeOK, NoAccountYet, Req, Steps
  <2>8. Held' = Held - req[c].est /\ Held \in Int /\ ledger'["usage"] = ledger["usage"]
    BY <1>0, <2>1, <2>3, <2>4 DEF Held, Kinds
  <2> QED
    BY <1>0, <2>1, <2>3, <2>6, <2>7, <2>8 DEF IInv, SpendsOnlyGranted, UsageBooked, Kinds
<1>4. CASE Release(c)
  <2> DEFINE n == req[c].est
             a == [acct EXCEPT !.balance = @ + n]
  <2>1. n \in Nat /\ a \in Account
    BY <1>0 DEF IInv, TypeOK, Account
  <2>2. Transact(a, "release", n) /\ "release" \in Kinds /\ usage' = usage
    BY <1>4 DEF Release, Returned, Kinds
  <2>3. /\ acct' \in Account /\ mirror' \in Copy /\ ledger' \in [Kinds -> Int] /\ acct' = a
        /\ ledger'["release"] = ledger["release"] + n
        /\ \A j \in Kinds \ {"release"} : ledger'[j] = ledger[j]
    BY <2>1, <2>2, TransactType DEF IInv
  <2>4. acct.open
    BY <1>4 DEF Release, IInv, NoAccountYet, NeedsAccount
  <2>5. /\ acct'.open /\ acct'.balance = acct.balance + n /\ acct'.used = acct.used
        /\ acct'.granted = acct.granted
    BY <2>3, <2>4 DEF Account, IInv, TypeOK
  <2>6. TypeOK' /\ NoAccountYet'
    BY <1>4, <2>3, <2>5 DEF Release, Goto, IInv, TypeOK, NoAccountYet, Req, Steps
  <2>7. Held' = Held - n /\ Held \in Int /\ ledger'["usage"] = ledger["usage"]
    BY <1>0, <2>1, <2>2, <2>3 DEF Held, Kinds
  <2> QED
    BY <1>0, <2>1, <2>2, <2>5, <2>6, <2>7 DEF IInv, SpendsOnlyGranted, UsageBooked
<1>5. CASE (\E cost \in Outcome(c) : SettleRefused(c, cost)) \/ ProviderFails(c) \/ Crash(c)
  BY <1>5, TablesSame DEF SettleRefused, ProviderFails, Crash, OnError, Goto, IInv, TypeOK,
     NoAccountYet, NeedsAccount, Req, Steps
<1> QED
  BY <1>1, <1>2, <1>3, <1>4, <1>5 DEF Engine, Finish

(***************************************************************************)
(* Every step keeps the invariant.                                         *)
(***************************************************************************)
LEMMA NextInv == CreditsAssumption /\ IInv /\ [Next]_vars => IInv'
<1> SUFFICES ASSUME CreditsAssumption, IInv, [Next]_vars PROVE IInv'
    OBVIOUS
<1>1. CASE NextDay \/ (\E p \in Plan : ChangePlan(p)) \/ UNCHANGED vars
  <2>1. TypeOK' /\ NoAccountYet'
    BY <1>1 DEF NextDay, ChangePlan, vars, IInv, TypeOK, NoAccountYet, Req
  <2> QED
    BY <1>1, <2>1, TablesSame DEF NextDay, ChangePlan, vars, IInv
<1> QED
  BY <1>1, EnsureInv, SpendInv DEF Next

(***************************************************************************)
(* The invariant holds in every reachable state.                           *)
(***************************************************************************)
LEMMA Invariance == Spec => []IInv
BY InitInv, NextInv, CreditsAssumption, PTL DEF Spec

(***************************************************************************)
(* The tables and the calls keep their types: in particular no             *)
(* interleaving makes a balance negative.                                  *)
(***************************************************************************)
THEOREM TypeCorrect == Spec => []TypeOK
BY Invariance, PTL DEF IInv

(***************************************************************************)
(* Balance, usage and reservations never exceed what was granted.          *)
(***************************************************************************)
THEOREM SpendsOnlyGrantedHolds == Spec => []SpendsOnlyGranted
BY Invariance, PTL DEF IInv

(***************************************************************************)
(* lifetimeUsed agrees with the usage records.                             *)
(***************************************************************************)
THEOREM UsageBookedHolds == Spec => []UsageBooked
BY Invariance, PTL DEF IInv

-----------------------------------------------------------------------------
\* An account that does not exist yet has no balance.
EmptyAtFirst == ~acct.open => acct.balance = 0

(***************************************************************************)
(* A transaction moves the balance by what it sets and the ledger by what  *)
(* it books.                                                               *)
(***************************************************************************)
LEMMA TransactDrift ==
  ASSUME TypeOK, NEW a \in Account, NEW k \in Kinds, NEW n \in Int, Transact(a, k, n)
  PROVE  /\ Drift' = Drift + n - (a.balance - acct.balance)
         /\ Drift \in Int /\ Drift' \in Int
<1>1. /\ ledger \in [Kinds -> Int] /\ acct.balance \in Int /\ a.balance \in Int
      /\ acct' = a
  BY DEF TypeOK, Account, Transact
<1>2. /\ ledger'[k] = ledger[k] + n /\ \A j \in Kinds \ {k} : ledger'[j] = ledger[j]
      /\ ledger' \in [Kinds -> Int]
  BY TransactType
<1>3. LedgerTotal' = LedgerTotal + n /\ LedgerTotal \in Int
  BY <1>1, <1>2 DEF LedgerTotal, Kinds
<1> QED
  BY <1>1, <1>3 DEF Drift

(***************************************************************************)
(* Every transaction but a reset books exactly what it changes, and a      *)
(* reset does when the balance it read is still there.                     *)
(***************************************************************************)
LEMMA DriftStep ==
  ASSUME CreditsAssumption, IInv, EmptyAtFirst, Next,
         \A c \in Call : ResetWrite(c) => req[c].row.balance = acct.balance
  PROVE  Drift' = Drift
<1>0. /\ TypeOK /\ acct \in Account /\ req \in [Call -> Req] /\ ledger \in [Kinds -> Int]
      /\ \A p \in Plan : Allowance[p] \in Nat
      /\ plan \in Plan /\ day \in Nat
  BY CreditsAssumption DEF IInv, TypeOK
<1>1. CASE UNCHANGED <<acct, ledger>>
  BY <1>1 DEF Drift, LedgerTotal
<1>2. ASSUME NEW a \in Account, NEW k \in Kinds, NEW n \in Int, Transact(a, k, n),
             n = a.balance - acct.balance
      PROVE  Drift' = Drift
  BY <1>0, <1>2, TransactDrift DEF Account
<1>3. ASSUME NEW c \in Call, CreateAccount(c) PROVE Drift' = Drift
  <2> DEFINE n == Allowance[req[c].plan]
             a == [open |-> TRUE, balance |-> n, granted |-> n, used |-> 0, day |-> day,
                   plan |-> req[c].plan]
  <2>1. n \in Nat /\ a \in Account /\ a.balance = n /\ "grant" \in Kinds
    BY <1>0 DEF Req, Account, Kinds
  <2>2. Transact(a, "grant", n) /\ acct.balance = 0
    BY <1>3 DEF CreateAccount, EmptyAtFirst
  <2> HIDE DEF a, n
  <2> QED
    BY <1>2, <2>1, <2>2
<1>4. ASSUME NEW c \in Call, ResetWrite(c) PROVE Drift' = Drift
  <2>1. PICK n \in Nat, g \in Nat, p \in Plan :
          Transact([acct EXCEPT !.balance = n, !.granted = g, !.day = day, !.plan = p],
                   "reset", n - req[c].row.balance)
    <3>1. Allowance[req[c].plan] \in Nat /\ acct.granted \in Nat /\ req[c].plan \in Plan
      BY <1>0 DEF Req, Account
    <3>2. GrantedAfter(acct, Allowance[req[c].plan]) \in Nat
      BY <3>1 DEF GrantedAfter
    <3> QED
      BY <1>4, <3>1, <3>2 DEF ResetWrite
  <2>2. PICK a : a = [acct EXCEPT !.balance = n, !.granted = g, !.day = day, !.plan = p]
    OBVIOUS
  <2>3. a \in Account /\ a.balance = n
    BY <1>0, <2>2 DEF Account
  <2>4. Transact(a, "reset", n - req[c].row.balance) /\ "reset" \in Kinds
    BY <2>1, <2>2 DEF Kinds
  <2>5. req[c].row.balance = acct.balance /\ acct.balance \in Nat
    BY <1>0, <1>4 DEF Account
  <2> QED
    BY <1>2, <2>3, <2>4, <2>5
<1>5. ASSUME NEW n \in Nat, NEW k \in Kinds, NEW u \in Nat, acct.balance >= n,
             Transact([acct EXCEPT !.balance = @ - n, !.used = u], k, -n)
      PROVE  Drift' = Drift
  <2>1. PICK m \in Nat : m = acct.balance - n /\ -n = m - acct.balance /\ -n \in Int
    BY <1>0, <1>5 DEF Account
  <2>2. PICK a : a = [acct EXCEPT !.balance = m, !.used = u]
    OBVIOUS
  <2>3. a \in Account /\ a.balance = m
    BY <1>0, <2>2 DEF Account
  <2>4. Transact(a, k, -n)
    BY <1>5, <2>1, <2>2
  <2> QED
    BY <1>2, <2>1, <2>3, <2>4
<1>6. ASSUME NEW c \in Call, NEW cost \in Cost, ReportUsage(c, cost) PROVE Drift' = Drift
  <2>1. cost \in Nat /\ acct.used + cost \in Nat /\ "usage" \in Kinds
    BY <1>0, CreditsAssumption DEF CreditsAssumption, Account, Kinds
  <2> QED
    BY <1>5, <1>6, <2>1 DEF ReportUsage, Covers
<1>7. ASSUME NEW c \in Call, NEW est \in {1, ImageCost}, Reserve(c, est) PROVE Drift' = Drift
  <2>1. est \in Nat /\ acct.used \in Nat /\ "reserve" \in Kinds
    BY <1>0, CreditsAssumption DEF CreditsAssumption, Account, Kinds
  <2>2. [acct EXCEPT !.balance = @ - est] = [acct EXCEPT !.balance = @ - est, !.used = acct.used]
    BY <1>0 DEF Account
  <2> QED
    BY <1>5, <1>7, <2>1, <2>2 DEF Reserve, Covers
<1>8. ASSUME NEW c \in Call, NEW cost \in Outcome(c), Settle(c, cost) PROVE Drift' = Drift
  <2>1. /\ cost \in Nat /\ req[c].est \in Nat /\ acct.balance \in Nat /\ acct.used \in Nat
    BY <1>0, CreditsAssumption DEF CreditsAssumption, Outcome, Req, Account
  <2>2. PICK n \in Int : n = Adjustment(c, cost)
    BY <2>1 DEF Adjustment
  <2>3. PICK m \in Nat, u \in Nat : m = acct.balance + n /\ u = UsedAfter(c, cost)
    BY <1>8, <2>1, <2>2 DEF Settle, Covers, UsedAfter
  <2>4. PICK a : a = [acct EXCEPT !.balance = m, !.used = u]
    OBVIOUS
  <2>5. a \in Account /\ a.balance = m
    BY <1>0, <2>4 DEF Account
  <2>6. Transact(a, "engine_usage", n) /\ "engine_usage" \in Kinds
    BY <1>8, <2>2, <2>3, <2>4 DEF Settle, Booked, Kinds
  <2> QED
    BY <1>2, <2>1, <2>2, <2>3, <2>5, <2>6
<1>9. ASSUME NEW c \in Call, Release(c) PROVE Drift' = Drift
  <2>1. Returned(c) \in Nat /\ acct.balance \in Nat
    BY <1>0 DEF Returned, Req, Account
  <2>2. PICK a : a = [acct EXCEPT !.balance = @ + Returned(c)]
    OBVIOUS
  <2>3. a \in Account /\ a.balance = acct.balance + Returned(c)
    BY <1>0, <2>1, <2>2 DEF Account
  <2>4. Transact(a, "release", Returned(c)) /\ "release" \in Kinds
    BY <1>9, <2>2 DEF Release, Kinds
  <2> QED
    BY <1>2, <2>1, <2>3, <2>4
<1> QED
  BY <1>1, <1>3, <1>4, <1>6, <1>7, <1>8, <1>9
  DEF Next, NextDay, ChangePlan, Ensure, Engine, Finish, EnsureStart, EnsureRead, MirrorRead,
      MirrorWrite, TestCreated, CreateRefused, ResetRead, SettleRefused, ProviderFails, Crash

(***************************************************************************)
(* An account that does not exist is not written before it is created.     *)
(***************************************************************************)
LEMMA EmptyStep == IInv /\ EmptyAtFirst /\ [Next]_vars => EmptyAtFirst'
<1> SUFFICES ASSUME IInv, EmptyAtFirst, [Next]_vars PROVE acct' = acct \/ acct'.open
    BY DEF EmptyAtFirst
<1>0. acct \in Account
  BY DEF IInv, TypeOK
<1>1. ASSUME NEW c \in Call, req[c].step \in NeedsAccount PROVE acct.open
  BY <1>1 DEF IInv, NoAccountYet
<1>2. ASSUME NEW c \in Call, CreateAccount(c) PROVE acct'.open
  BY <1>2 DEF CreateAccount, Transact
<1>3. ASSUME NEW c \in Call, ResetWrite(c) PROVE acct'.open
  BY <1>0, <1>1, <1>3 DEF NeedsAccount, ResetWrite, Transact, Account
<1>4. ASSUME NEW c \in Call, NEW cost \in Cost, ReportUsage(c, cost) PROVE acct'.open
  BY <1>0, <1>4 DEF ReportUsage, Transact, Account
<1>5. ASSUME NEW c \in Call, NEW est \in {1, ImageCost}, Reserve(c, est) PROVE acct'.open
  BY <1>0, <1>5 DEF Reserve, Transact, Account
<1>6. ASSUME NEW c \in Call, NEW cost \in Outcome(c), Settle(c, cost) PROVE acct'.open
  BY <1>0, <1>1, <1>6 DEF NeedsAccount, Settle, Transact, Account
<1>7. ASSUME NEW c \in Call, Release(c) PROVE acct'.open
  BY <1>0, <1>1, <1>7 DEF NeedsAccount, Release, Transact, Account
<1> QED
  BY <1>2, <1>3, <1>4, <1>5, <1>6, <1>7
  DEF Next, NextDay, ChangePlan, Ensure, Engine, Finish, EnsureStart, EnsureRead, MirrorRead,
      MirrorWrite, TestCreated, CreateRefused, ResetRead, SettleRefused, ProviderFails, Crash, vars

(***************************************************************************)
(* Balance and ledger part only in a reset whose read of the balance went  *)
(* stale (grant), for any number of calls.                                 *)
(***************************************************************************)
THEOREM DriftsOnlyInStaleResetHolds == Spec => DriftsOnlyInStaleReset
<1>1. Init => EmptyAtFirst
  BY DEF Init, EmptyAtFirst
<1>2. IInv /\ EmptyAtFirst /\ [Next]_vars =>
        [Drift' # Drift => \E c \in Call : /\ req[c].step = "reset_write"
                                           /\ req'[c].step = "done"
                                           /\ req[c].row.balance # acct.balance]_vars
  <2> SUFFICES ASSUME IInv, EmptyAtFirst, Next, Drift' # Drift
               PROVE  \E c \in Call : /\ req[c].step = "reset_write"
                                      /\ req'[c].step = "done"
                                      /\ req[c].row.balance # acct.balance
      BY DEF vars
  <2>1. PICK c \in Call : ResetWrite(c) /\ req[c].row.balance # acct.balance
    BY DriftStep, CreditsAssumption
  <2>2. req'[c].step = "done"
    BY <2>1 DEF ResetWrite, Goto, IInv, TypeOK, Req
  <2> QED
    BY <2>1, <2>2 DEF ResetWrite
<1> QED
  BY <1>1, <1>2, EmptyStep, Invariance, PTL DEF Spec, DriftsOnlyInStaleReset

-----------------------------------------------------------------------------
\* What one call has reserved, credit by credit.
Credits(c, n) == {c} \X (1..n)

\* There are as many of them as the call reserved.
LEMMA CreditsCount ==
  ASSUME NEW c, NEW n \in Nat
  PROVE  IsFiniteSet(Credits(c, n)) /\ Cardinality(Credits(c, n)) = n
<1>1. IsFiniteSet({c}) /\ Cardinality({c}) = 1
  BY FS_Singleton
<1>2. IsFiniteSet(1..n) /\ Cardinality(1..n) = n
  <2>1. 1 \in Int /\ n \in Int
    OBVIOUS
  <2>2. IsFiniteSet(1..n) /\ Cardinality(1..n) = IF 1 > n THEN 0 ELSE n - 1 + 1
    BY <2>1, FS_Interval, Zenon
  <2> QED
    BY <2>2
<1>3. /\ IsFiniteSet({c} \X (1..n))
      /\ Cardinality({c} \X (1..n)) = Cardinality({c}) * Cardinality(1..n)
  BY <1>1, <1>2, FS_Product, Zenon
<1> QED
  BY <1>1, <1>2, <1>3 DEF Credits

\* All reservations together are finite.
LEMMA ReservedFinite ==
  ASSUME TypeOK
  PROVE  IsFiniteSet(ReservedCredits) /\ Cardinality(ReservedCredits) \in Nat
<1> DEFINE sets == {Credits(c, req[c].est) : c \in Reserved}
<1>1. ReservedCredits = UNION sets
  BY DEF ReservedCredits, Credits
<1>2. IsFiniteSet(sets)
  <2>1. IsFiniteSet(Reserved)
    BY CreditsAssumption, FS_Subset DEF Reserved
  <2>2. [c \in Reserved |-> Credits(c, req[c].est)] \in Surjection(Reserved, sets)
    BY DEF Surjection
  <2> QED
    BY <2>1, <2>2, FS_Surjection
<1>3. \A set \in sets : IsFiniteSet(set)
  BY CreditsCount DEF Reserved, TypeOK, Req
<1> QED
  BY <1>1, <1>2, <1>3, FS_UNION, FS_CardinalityType

(***************************************************************************)
(* A step that lets everyone keep what he has reserved changes no sum.     *)
(***************************************************************************)
LEMMA ReservationsKept ==
  ASSUME HeldIsReserved, Held' = Held, Reserved' = Reserved,
         \A d \in Reserved : req'[d].est = req[d].est
  PROVE  HeldIsReserved'
<1>1. ReservedCredits' = ReservedCredits
  BY DEF ReservedCredits
<1> QED
  BY <1>1 DEF HeldIsReserved

\* A reservation that is made adds its credits.
LEMMA ReservationMade ==
  ASSUME TypeOK, TypeOK', HeldIsReserved, NEW c \in Call \ Reserved,
         Reserved' = Reserved \cup {c}, \A d \in Reserved : req'[d].est = req[d].est,
         Held' = Held + req'[c].est
  PROVE  HeldIsReserved'
<1>0. req'[c].est \in Nat
  BY DEF TypeOK, Req
<1>1. ReservedCredits' = ReservedCredits \cup Credits(c, req'[c].est)
  BY DEF ReservedCredits, Credits
<1>2. ReservedCredits \cap Credits(c, req'[c].est) = {}
  BY DEF ReservedCredits, Credits
<1>3. IsFiniteSet(Credits(c, req'[c].est)) /\ Cardinality(Credits(c, req'[c].est)) = req'[c].est
  BY <1>0, CreditsCount
<1>4. Cardinality(ReservedCredits') = Cardinality(ReservedCredits) + req'[c].est
  <2>1. Cardinality(ReservedCredits \cap Credits(c, req'[c].est)) = 0
    BY <1>2, FS_EmptySet, Zenon
  <2>2. Cardinality(ReservedCredits') = Cardinality(ReservedCredits)
           + Cardinality(Credits(c, req'[c].est)) - Cardinality(ReservedCredits \cap Credits(c, req'[c].est))
    BY <1>1, <1>3, ReservedFinite, FS_Union, Zenon
  <2> QED
    BY <1>0, <1>3, <2>1, <2>2, ReservedFinite
<1> QED
  BY <1>4 DEF HeldIsReserved

\* A reservation that is settled or released takes its credits away.
LEMMA ReservationClosed ==
  ASSUME TypeOK, TypeOK', HeldIsReserved, NEW c \in Reserved,
         Reserved' = Reserved \ {c}, \A d \in Reserved' : req'[d].est = req[d].est,
         Held' = Held - req[c].est
  PROVE  HeldIsReserved'
<1>0. c \in Call /\ req[c].est \in Nat
  BY DEF Reserved, TypeOK, Req
<1>1. ReservedCredits' = ReservedCredits \ Credits(c, req[c].est)
  BY DEF ReservedCredits, Credits
<1>2. ReservedCredits \cap Credits(c, req[c].est) = Credits(c, req[c].est)
  BY DEF ReservedCredits, Credits
<1>3. Cardinality(ReservedCredits') = Cardinality(ReservedCredits) - req[c].est
  <2>1. Cardinality(ReservedCredits') = Cardinality(ReservedCredits)
           - Cardinality(ReservedCredits \cap Credits(c, req[c].est))
    BY <1>1, ReservedFinite, FS_Difference, Zenon
  <2> QED
    BY <1>0, <1>2, <2>1, CreditsCount
<1> QED
  BY <1>3 DEF HeldIsReserved

\* The credits said to be held are a number.
LEMMA HeldType == ASSUME TypeOK PROVE Held \in Int
BY DEF TypeOK, Held, Kinds

(***************************************************************************)
(* Every step keeps what is held equal to what is reserved.                *)
(***************************************************************************)
LEMMA HeldStep ==
  ASSUME IInv, HeldIsReserved, [Next]_vars
  PROVE  HeldIsReserved'
<1> DEFINE Holding == {"reserved", "releasing", "lost"}
<1>0. TypeOK /\ TypeOK'
  BY NextInv, CreditsAssumption DEF IInv
<1>1. /\ req \in [Call -> Req] /\ req' \in [Call -> Req] /\ Held \in Int /\ usage \in Nat
      /\ \A k \in Kinds : ledger[k] \in Int
      /\ \A p \in Plan : Allowance[p] \in Nat
  BY <1>0, HeldType, CreditsAssumption DEF TypeOK, CreditsAssumption
<1>2. ASSUME NEW c \in Call, req[c].step \notin Holding, req'[c].step \notin Holding,
             \A d \in Call \ {c} : req'[d] = req[d], Held' = Held
      PROVE  HeldIsReserved'
  <2>1. Reserved' = Reserved /\ \A d \in Reserved : req'[d].est = req[d].est
    BY <1>2 DEF Reserved
  <2> QED
    BY <1>2, <2>1, ReservationsKept
<1>3. ASSUME NEW c \in Call, req[c].step \in Holding, req'[c].step \notin Holding,
             \A d \in Call \ {c} : req'[d] = req[d], Held' = Held - req[c].est
      PROVE  HeldIsReserved'
  <2>1. c \in Reserved /\ Reserved' = Reserved \ {c} /\ \A d \in Reserved' : req'[d].est = req[d].est
    BY <1>3 DEF Reserved
  <2> QED
    BY <1>0, <1>3, <2>1, ReservationClosed
<1>4. CASE NextDay \/ (\E p \in Plan : ChangePlan(p)) \/ UNCHANGED vars
  BY <1>4, ReservationsKept DEF NextDay, ChangePlan, vars, Held, Reserved
<1>5. ASSUME NEW c \in Call,
             EnsureStart(c) \/ EnsureRead(c) \/ MirrorRead(c) \/ MirrorWrite(c)
               \/ TestCreated(c) \/ CreateRefused(c) \/ ResetRead(c)
      PROVE  HeldIsReserved'
  <2>1. Held' = Held
    BY <1>5 DEF EnsureStart, EnsureRead, MirrorRead, MirrorWrite, TestCreated, CreateRefused,
                ResetRead, Held
  <2>2. /\ req[c].step \notin Holding /\ req'[c].step \notin Holding
        /\ \A d \in Call \ {c} : req'[d] = req[d]
    <3>1. CASE EnsureRead(c)
      <4>1. PICK s \in {"create", "reset", "mirror"} :
              /\ req[c].step = "read"
              /\ req' = [req EXCEPT ![c] = [@ EXCEPT !.row = CopyOf(acct), !.step = s]]
        BY <3>1 DEF EnsureRead
      <4> QED
        BY <1>1, <4>1 DEF Req
    <3>2. CASE EnsureStart(c)
      BY <1>1, <3>2 DEF EnsureStart, Req
    <3>3. CASE MirrorRead(c) \/ ResetRead(c)
      <4>1. PICK s \in {"mirror", "reset_write"} :
              /\ req[c].step \in {"new", "reset"}
              /\ req' = [req EXCEPT ![c] = [@ EXCEPT !.step = s, !.row = CopyOf(acct)]]
        BY <3>3 DEF MirrorRead, ResetRead
      <4> QED
        BY <1>1, <4>1 DEF Req
    <3>4. CASE MirrorWrite(c) \/ TestCreated(c) \/ CreateRefused(c)
      BY <1>1, <3>4 DEF MirrorWrite, TestCreated, CreateRefused, Goto, Req
    <3> QED
      BY <1>5, <3>1, <3>2, <3>3, <3>4
  <2> QED
    BY <1>2, <2>1, <2>2
<1>6. ASSUME NEW c \in Call,
             CreateAccount(c) \/ ResetWrite(c) \/ \E cost \in Cost : ReportUsage(c, cost)
      PROVE  HeldIsReserved'
  <2>1. \E k \in {"grant", "reset", "usage"}, n \in Int : ledger' = [ledger EXCEPT ![k] = @ + n]
    <3>1. /\ Allowance[req[c].plan] \in Int /\ req[c].row.balance \in Int
          /\ \A cost \in Cost : -cost \in Int
      BY <1>1, CreditsAssumption DEF CreditsAssumption, Req, Copy
    <3>2. Allowance[req[c].plan] - req[c].row.balance \in Int
      BY <3>1
    <3> QED
      BY <1>6, <3>1, <3>2 DEF CreateAccount, ResetWrite, ReportUsage, Transact
  <2>2. usage' = usage
    BY <1>1, <1>6 DEF CreateAccount, ResetWrite, ReportUsage
  <2>3. Held' = Held
    BY <1>1, <2>1, <2>2 DEF Held, Kinds
  <2>4. /\ req[c].step \notin Holding /\ req'[c].step \notin Holding
        /\ \A d \in Call \ {c} : req'[d] = req[d]
    BY <1>1, <1>6 DEF CreateAccount, ResetWrite, ReportUsage, Goto, Req, Steps
  <2> QED
    BY <1>2, <2>3, <2>4
<1>7. ASSUME NEW c \in Call, NEW est \in {1, ImageCost}, Reserve(c, est)
      PROVE  HeldIsReserved'
  <2>1. est \in Nat /\ -est \in Int
    BY CreditsAssumption DEF CreditsAssumption
  <2>2. /\ ledger'["reserve"] = ledger["reserve"] - est /\ usage' = usage
        /\ \A j \in Kinds \ {"reserve"} : ledger'[j] = ledger[j]
    BY <1>0, <1>1, <1>7, <2>1 DEF Reserve, Transact, TypeOK, Kinds
  <2>3. Held' = Held + est
    BY <1>1, <2>1, <2>2 DEF Held, Kinds
  <2>4. /\ c \notin Reserved /\ req'[c].step = "reserved" /\ req'[c].est = est
        /\ \A d \in Call \ {c} : req'[d] = req[d]
    BY <1>1, <1>7 DEF Reserve, Reserved, Req
  <2>5. Reserved' = Reserved \cup {c} /\ \A d \in Reserved : req'[d].est = req[d].est
    BY <2>4 DEF Reserved
  <2> QED
    BY <1>0, <2>3, <2>4, <2>5, ReservationMade DEF Reserved
<1>8. ASSUME NEW c \in Call, NEW cost \in Outcome(c), Settle(c, cost) PROVE HeldIsReserved'
  <2>1. cost \in Nat /\ req[c].est \in Nat
    BY <1>1, CreditsAssumption DEF CreditsAssumption, Outcome, Req
  <2>2. /\ ledger'["engine_usage"] = ledger["engine_usage"] + (req[c].est - cost)
        /\ usage' = usage + cost
        /\ \A j \in Kinds \ {"engine_usage"} : ledger'[j] = ledger[j]
    BY <1>0, <1>8, <2>1 DEF Settle, Transact, Booked, Adjustment, TypeOK, Kinds
  <2>3. Held' = Held - req[c].est
    BY <1>1, <2>1, <2>2 DEF Held, Kinds
  <2>4. /\ req[c].step \in Holding /\ req'[c].step \notin Holding
        /\ \A d \in Call \ {c} : req'[d] = req[d]
    BY <1>1, <1>8 DEF Settle, Goto, Req
  <2> QED
    BY <1>3, <2>3, <2>4
<1>9. ASSUME NEW c \in Call, Release(c) PROVE HeldIsReserved'
  <2>1. req[c].est \in Nat
    BY <1>1 DEF Req
  <2>2. /\ ledger'["release"] = ledger["release"] + req[c].est /\ usage' = usage
        /\ \A j \in Kinds \ {"release"} : ledger'[j] = ledger[j]
    BY <1>0, <1>9, <2>1 DEF Release, Transact, Returned, TypeOK, Kinds
  <2>3. Held' = Held - req[c].est
    BY <1>1, <2>1, <2>2 DEF Held, Kinds
  <2>4. /\ req[c].step \in Holding /\ req'[c].step \notin Holding
        /\ \A d \in Call \ {c} : req'[d] = req[d]
    BY <1>1, <1>9 DEF Release, Goto, Req
  <2> QED
    BY <1>3, <2>3, <2>4
<1>10. ASSUME NEW c \in Call,
              (\E cost \in Outcome(c) : SettleRefused(c, cost)) \/ ProviderFails(c) \/ Crash(c)
       PROVE  HeldIsReserved'
  <2>1. Held' = Held
    BY <1>10 DEF SettleRefused, ProviderFails, Crash, Held
  <2>2. /\ req[c].step \in Holding /\ req'[c].step \in Holding /\ req'[c].est = req[c].est
        /\ \A d \in Call \ {c} : req'[d] = req[d]
    BY <1>1, <1>10 DEF SettleRefused, ProviderFails, Crash, OnError, Goto, Req
  <2>3. Reserved' = Reserved /\ \A d \in Reserved : req'[d].est = req[d].est
    BY <2>2 DEF Reserved
  <2> QED
    BY <2>1, <2>3, ReservationsKept
<1> HIDE DEF Holding
<1> QED
  BY <1>4, <1>5, <1>6, <1>7, <1>8, <1>9, <1>10 DEF Next, Ensure, Engine, Finish

(***************************************************************************)
(* What the ledger says is held is what calls in flight, or lost to a      *)
(* crash, have reserved, for any number of calls and any costs.            *)
(***************************************************************************)
THEOREM HeldIsReservedHolds == Spec => []HeldIsReserved
<1>1. Init => HeldIsReserved
  <2> SUFFICES ASSUME Init PROVE HeldIsReserved
      OBVIOUS
  <2>1. /\ ledger["reserve"] = 0 /\ ledger["release"] = 0 /\ ledger["engine_usage"] = 0
        /\ usage = 0
    BY DEF Init, Kinds
  <2>2. Held = 0
    BY <2>1 DEF Held
  <2>3. ReservedCredits = {}
    BY DEF Init, ReservedCredits, Reserved
  <2> QED
    BY <2>2, <2>3, FS_EmptySet DEF HeldIsReserved
<1>2. IInv /\ HeldIsReserved /\ [Next]_vars => HeldIsReserved'
  BY HeldStep
<1> QED
  BY <1>1, <1>2, Invariance, PTL DEF Spec
=============================================================================
