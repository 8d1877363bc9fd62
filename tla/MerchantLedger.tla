--------------------------- MODULE MerchantLedger ---------------------------
(***************************************************************************)
(* The money of one store: its orders, paid through Moolre and credited to *)
(* the merchant ledger, and the disbursements that pay the balance out.    *)
(*                                                                         *)
(* Every handler of PaymentService awaits between its statements, so each  *)
(* database call and each call to Moolre is a step, and handlers of        *)
(* different requests interleave. Only the ledger write of a confirmed     *)
(* disbursement is a transaction. A handler may throw at any call and      *)
(* leaves what it wrote. Ledgers of different stores share nothing. All    *)
(* reports of a payment are taken to name the same amount.                 *)
(***************************************************************************)
EXTENDS Integers, FiniteSets, Functions

CONSTANTS
  Orders,     \* orders of the store
  Disbs,      \* disbursements of the store
  Handlers,   \* requests being handled at a time
  Net,        \* what an order brings the merchant: the price less the fee
  Amounts,    \* amounts a merchant asks for
  Reserve,    \* what has to remain (50 in the code)
  MaxFaults,  \* bound: exceptions and lost answers
  None

ASSUME LedgerAssumption ==
  /\ Net \in [Orders -> Nat] /\ Amounts \subseteq Int
  /\ Reserve \in Nat /\ MaxFaults \in Nat
  /\ IsFiniteSet(Orders) /\ IsFiniteSet(Disbs) /\ IsFiniteSet(Handlers)
  /\ Orders \cap Disbs = {} /\ None \notin Orders \cup Disbs

VARIABLES
  order,    \* rows of Order: phase, whether merchantAmount is set, disbursed
  balance,  \* MerchantLedger.balance
  credits,  \* credit rows of LedgerTransaction, by order
  debits,   \* debit rows of LedgerTransaction, by disbursement
  disb,     \* rows of Disbursement
  sent,     \* transfers Moolre has carried out, by disbursement
  misread,  \* history: disbursements with a success answered and no transfer made
  faults,   \* exceptions and lost answers so far
  job,      \* what each handler does next, and to which row
  crossed,  \* history: rows two handlers were at, at a time
  unheard   \* history: transfers whose outcome was never stored

vars == <<order, balance, credits, debits, disb, sent, misread, faults, job, crossed, unheard>>
money == <<balance, credits, debits>>
shop  == <<order, credits>>
pays  == <<debits, disb, sent, misread, crossed, unheard>>

Order == [phase : {"none", "linking", "pending", "gone"}, credited : BOOLEAN, disbursed : BOOLEAN]

Status == {"none", "pending_otp", "transfer_sent", "paid", "gone"}

Disb == [status : Status, amount : Int, offered : BOOLEAN, expired : BOOLEAN]

CreditSteps == {"find", "increment", "row", "stamp"}
PayoutSteps == {"create", "sms", "balance", "transfer", "persist", "commit", "mark"}

Job == [step : {"idle"} \cup CreditSteps \cup PayoutSteps,
        row : Orders \cup Disbs \cup {None}, amount : Int]

Idle == [step |-> "idle", row |-> None, amount |-> 0]

TypeOK ==
  /\ order \in [Orders -> Order]
  /\ balance \in Int
  /\ credits \in [Orders -> Nat] /\ debits \in [Disbs -> Nat]
  /\ disb \in [Disbs -> Disb] /\ sent \in [Disbs -> Nat]
  /\ misread \subseteq Disbs
  /\ faults \in Nat
  /\ job \in [Handlers -> Job]
  /\ \A h \in Handlers : /\ job[h].step \in CreditSteps => job[h].row \in Orders
                         /\ job[h].step \in PayoutSteps => job[h].row \in Disbs
  /\ crossed \subseteq Orders \cup Disbs /\ unheard \in [Disbs -> Nat]

Init ==
  /\ order = [o \in Orders |-> [phase |-> "none", credited |-> FALSE, disbursed |-> FALSE]]
  /\ balance = 0
  /\ credits = [o \in Orders |-> 0] /\ debits = [d \in Disbs |-> 0]
  /\ disb = [d \in Disbs |->
               [status |-> "none", amount |-> 0, offered |-> FALSE, expired |-> FALSE]]
  /\ sent = [d \in Disbs |-> 0] /\ misread = {}
  /\ faults = 0
  /\ job = [h \in Handlers |-> Idle]
  /\ crossed = {} /\ unheard = [d \in Disbs |-> 0]

-----------------------------------------------------------------------------
At(h, step) == job[h].step = step

Start(h, step, row, n) ==
  /\ At(h, "idle")
  /\ job' = [job EXCEPT ![h] = [step |-> step, row |-> row, amount |-> n]]

Goto(h, from, to) == At(h, from) /\ job' = [job EXCEPT ![h].step = to]
Stop(h, from)     == At(h, from) /\ job' = [job EXCEPT ![h] = Idle]

(* Checkout: the pending order is stored first, then the payment link is   *)
(* asked for; without one the order is deleted again.                      *)
Place(o) ==
  /\ order[o].phase = "none"
  /\ order' = [order EXCEPT ![o].phase = "linking"]
  /\ UNCHANGED <<money, disb, sent, misread, faults, job, crossed, unheard>>

Link(o, phase) ==
  /\ order[o].phase = "linking"
  /\ order' = [order EXCEPT ![o].phase = phase]
  /\ UNCHANGED <<money, disb, sent, misread, faults, job, crossed, unheard>>

(* A payment is reported by Moolre's webhook, any number of times, and by  *)
(* the success page. The webhook takes its body's word: whoever knows the  *)
(* order's reference, handed out with the link, may report. An order whose *)
(* merchantAmount is found unset is credited.                              *)
Report(h, o) ==
  /\ order[o].phase = "pending" /\ ~order[o].credited
  /\ Start(h, "find", o, Net[o])
  /\ crossed' = IF \E g \in Handlers : job[g].row = o THEN crossed \cup {o} ELSE crossed
  /\ UNCHANGED <<shop, balance, debits, disb, sent, misread, faults, unheard>>

\* Variant: no search for an earlier credit.
CreditsAlways(o) == FALSE

AlreadyCredited(o) == credits[o] > 0

Find(h) ==
  /\ At(h, "find")
  /\ IF AlreadyCredited(job[h].row) THEN Stop(h, "find") ELSE Goto(h, "find", "increment")
  /\ UNCHANGED <<shop, balance, pays, faults>>

\* Variant: the increment is forgotten.
Untouched(n) == balance

Incremented(n) == balance + n

Increment(h) ==
  /\ Goto(h, "increment", "row")
  /\ balance' = Incremented(job[h].amount)
  /\ UNCHANGED <<shop, pays, faults>>

WriteRow(h) ==
  /\ Goto(h, "row", "stamp")
  /\ credits' = [credits EXCEPT ![job[h].row] = @ + 1]
  /\ UNCHANGED <<order, balance, pays, faults>>

Stamp(h) ==
  /\ Stop(h, "stamp")
  /\ order' = [order EXCEPT ![job[h].row].credited = TRUE, ![job[h].row].disbursed = FALSE]
  /\ UNCHANGED <<money, disb, sent, misread, faults, crossed, unheard>>

-----------------------------------------------------------------------------
(* requestDisbursement: the balance read must cover the amount and leave   *)
(* the reserve; the row is created, and deleted again if the code cannot   *)
(* be sent. The client learns the row's id only when it was.               *)
Request(h, d, n) ==
  /\ disb[d].status = "none" /\ \A g \in Handlers : job[g].row # d
  /\ balance > 0 /\ n > 0 /\ balance - n >= Reserve
  /\ Start(h, "create", d, n)
  /\ UNCHANGED <<shop, balance, pays, faults>>

Create(h) ==
  /\ Goto(h, "create", "sms")
  /\ disb' = [disb EXCEPT ![job[h].row].status = "pending_otp",
                          ![job[h].row].amount = job[h].amount]
  /\ UNCHANGED <<shop, balance, debits, sent, misread, faults, crossed, unheard>>

Offer(h) ==
  /\ Stop(h, "sms")
  /\ disb' = [disb EXCEPT ![job[h].row].offered = TRUE]
  /\ UNCHANGED <<shop, balance, debits, sent, misread, faults, crossed, unheard>>

Withdraw(h) ==
  /\ Stop(h, "sms")
  /\ disb' = [disb EXCEPT ![job[h].row].status = "gone"]
  /\ UNCHANGED <<shop, balance, debits, sent, misread, faults, crossed, unheard>>

Expire(d) ==
  /\ disb[d].status = "pending_otp" /\ ~disb[d].expired
  /\ disb' = [disb EXCEPT ![d].expired = TRUE]
  /\ UNCHANGED <<shop, balance, debits, sent, misread, faults, job, crossed, unheard>>

(* confirmDisbursement: reads the row; a pending one needs its code and    *)
(* moves money, one already sent only lacks the ledger write.              *)
Confirm(h, d) ==
  /\ disb[d].offered
  /\ \/ disb[d].status = "pending_otp" /\ ~disb[d].expired /\ Start(h, "balance", d, disb[d].amount)
     \/ disb[d].status = "transfer_sent" /\ Start(h, "commit", d, disb[d].amount)
  /\ crossed' = IF \E g \in Handlers : job[g].row = d THEN crossed \cup {d} ELSE crossed
  /\ UNCHANGED <<shop, balance, debits, disb, sent, misread, faults, unheard>>

CheckBalance(h) ==
  /\ IF balance < job[h].amount THEN Stop(h, "balance") ELSE Goto(h, "balance", "transfer")
  /\ UNCHANGED <<shop, balance, pays, faults>>

Transferred(h) ==
  /\ Goto(h, "transfer", "persist")
  /\ sent' = [sent EXCEPT ![job[h].row] = @ + 1]
  /\ UNCHANGED <<shop, balance, debits, disb, misread, faults, crossed, unheard>>

\* Success is answered and nothing transferred: a 2xx whose body cannot be
\* parsed or whose status is not 0, or a dry run.
Misread(h) ==
  /\ Goto(h, "transfer", "persist")
  /\ misread' = misread \cup {job[h].row}
  /\ UNCHANGED <<shop, balance, debits, disb, sent, faults, crossed, unheard>>

\* Variant: the failed answer is not looked at.
RefusalUnnoticed(h) == Goto(h, "transfer", "persist")

GiveUp(h) == Stop(h, "transfer")

Refused(h) ==
  /\ GiveUp(h)
  /\ UNCHANGED <<shop, balance, pays, faults>>

\* The transfer is made and fetch throws, or the answer is not a 2xx: the code
\* takes it for refused.
AnswerLost(h) ==
  /\ faults < MaxFaults /\ faults' = faults + 1
  /\ Stop(h, "transfer")
  /\ sent' = [sent EXCEPT ![job[h].row] = @ + 1]
  /\ unheard' = [unheard EXCEPT ![job[h].row] = @ + 1]
  /\ UNCHANGED <<shop, balance, debits, disb, misread, crossed>>

\* Variant: the status is left for the ledger transaction to set.
KeepStatus(d) == disb[d].status

SentStatus(d) == "transfer_sent"

Persist(h) ==
  /\ Goto(h, "persist", "commit")
  /\ disb' = [disb EXCEPT ![job[h].row].status = SentStatus(job[h].row)]
  /\ UNCHANGED <<shop, balance, debits, sent, misread, faults, crossed, unheard>>

Commit(h) ==
  /\ Goto(h, "commit", "mark")
  /\ balance' = balance - job[h].amount
  /\ debits' = [debits EXCEPT ![job[h].row] = @ + 1]
  /\ disb' = [disb EXCEPT ![job[h].row].status = "paid"]
  /\ UNCHANGED <<shop, sent, misread, faults, crossed, unheard>>

\* Variant: every order of the store.
Everything(r) == TRUE

Disbursable(r) == r.credited /\ ~r.disbursed

Mark(h) ==
  /\ Stop(h, "mark")
  /\ order' = [o \in Orders |->
                 IF Disbursable(order[o]) THEN [order[o] EXCEPT !.disbursed = TRUE] ELSE order[o]]
  /\ UNCHANGED <<money, disb, sent, misread, faults, crossed, unheard>>

(* A call throws, or the process dies: the handler's later steps are lost. *)
Throw(h) ==
  /\ ~At(h, "idle")
  /\ faults < MaxFaults /\ faults' = faults + 1
  /\ job' = [job EXCEPT ![h] = Idle]
  /\ unheard' = IF At(h, "persist") THEN [unheard EXCEPT ![job[h].row] = @ + 1] ELSE unheard
  /\ UNCHANGED <<shop, balance, debits, disb, sent, misread, crossed>>

-----------------------------------------------------------------------------
Checkout(o) == Place(o) \/ Link(o, "pending") \/ Link(o, "gone")

Credit(h) == (\E o \in Orders : Report(h, o)) \/ Find(h) \/ Increment(h) \/ WriteRow(h) \/ Stamp(h)

Payout(h) ==
  \/ \E d \in Disbs : Confirm(h, d) \/ \E n \in Amounts : Request(h, d, n)
  \/ Create(h) \/ Offer(h) \/ Withdraw(h)
  \/ CheckBalance(h) \/ Transferred(h) \/ Misread(h) \/ Refused(h) \/ AnswerLost(h)
  \/ Persist(h) \/ Commit(h) \/ Mark(h)

Next ==
  \/ \E o \in Orders : Checkout(o)
  \/ \E h \in Handlers : Credit(h) \/ Payout(h) \/ Throw(h)
  \/ \E d \in Disbs : Expire(d)

Spec == Init /\ [][Next]_vars

-----------------------------------------------------------------------------
Booked  == SumFunction([o \in Orders |-> credits[o] * Net[o]])
PaidOut == SumFunction([d \in Disbs |-> debits[d] * disb[d].amount])

(* The balance covers the rows of the ledger: a handler of                 *)
(* creditMerchantLedger that dies, or races another one for the same       *)
(* order, may leave money without a row, never a row without money; and    *)
(* the two agree to the coin, whatever raced, until some handler has died. *)
(* Two handlers that credit one payment write a row each: that passes, and *)
(* is against "already credited" of the webhook (see SerialCreditIsExact). *)
LedgerCovers ==
  /\ balance >= Booked - PaidOut
  /\ faults = 0 /\ (\A h \in Handlers : ~At(h, "row")) => balance = Booked - PaidOut

\* initiateTransfer answered success: a transfer was made, or none was and the
\* code cannot tell.
Answered(d) == sent[d] > 0 \/ d \in misread

(* A disbursement recorded as sent or paid, or taken off the balance, had  *)
(* a transfer made for it, or an answer misread as success: refusals, lost *)
(* answers, exceptions and overlapping confirmations alone never record    *)
(* one. One recorded as paid was taken off.                                *)
PayoutBacked ==
  \A d \in Disbs :
    /\ (debits[d] > 0 \/ disb[d].status \in {"transfer_sent", "paid"}) => Answered(d)
    /\ disb[d].status = "paid" => debits[d] > 0

(* A payment reported any number of times, to one handler at a time, is    *)
(* credited by one row, although handlers die between any two statements;  *)
(* an order that counts as credited has its row and nobody is left at it,  *)
(* whose stamp would take a payout's mark back.                            *)
SerialCreditIsExact ==
  \A o \in Orders \ crossed :
    /\ credits[o] <= 1
    /\ order[o].credited => credits[o] = 1 /\ \A h \in Handlers : job[h].row # o
    /\ order[o].disbursed => order[o].credited

(* A disbursement confirmed by one handler at a time is taken off the      *)
(* balance exactly when it is paid, once, and transferred a second time    *)
(* only when the outcome of the first was never stored. Its confirmation   *)
(* may fail at any call and be repeated: that is what transfer_sent is for.*)
SerialConfirmIsExact ==
  \A d \in Disbs \ crossed :
    /\ debits[d] = IF disb[d].status = "paid" THEN 1 ELSE 0
    /\ sent[d] <= 1 + unheard[d]

(* What the comment in confirmDisbursement says of its first write: once   *)
(* the row is no longer pending_otp, no transfer is made for it.           *)
NeverTransferredAgain ==
  [][\A d \in Disbs :
       disb[d].status \in {"transfer_sent", "paid"} => sent'[d] = sent[d]]_vars
=============================================================================
