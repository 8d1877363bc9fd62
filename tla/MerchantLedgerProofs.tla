------------------------ MODULE MerchantLedgerProofs ------------------------
(* The rows of a store's ledger stay consistent, for any numbers of        *)
(* orders, disbursements, handlers and faults.                             *)
EXTENDS MerchantLedger, FiniteSetTheorems, WellFoundedInduction, TLAPS

(* A handler that is about to record a transfer was answered success.      *)
JobsBacked ==
  \A h \in Handlers, d \in Disbs :
    job[h].step \in {"persist", "commit"} /\ job[h].row = d => Answered(d)

IInv == TypeOK /\ JobsBacked /\ PayoutBacked

(* The steps of credits and payouts are different and neither is idle.     *)
LEMMA StepsDiffer ==
  /\ CreditSteps \cap PayoutSteps = {} /\ "idle" \notin CreditSteps \cup PayoutSteps
BY DEF CreditSteps, PayoutSteps

(* A handler that goes on keeps its row, the others keep their jobs.       *)
LEMMA GotoType ==
  ASSUME TypeOK, NEW h \in Handlers, NEW from, NEW to, Goto(h, from, to),
         \/ from \in CreditSteps /\ to \in CreditSteps
         \/ from \in PayoutSteps /\ to \in PayoutSteps
  PROVE  /\ job' \in [Handlers -> Job]
         /\ \A g \in Handlers : /\ job'[g].step \in CreditSteps => job'[g].row \in Orders
                                /\ job'[g].step \in PayoutSteps => job'[g].row \in Disbs
         /\ job[h].step = from /\ job'[h].step = to /\ job'[h].row = job[h].row
         /\ \A g \in Handlers \ {h} : job'[g] = job[g]
<1>1. job[h].step = from /\ job' = [job EXCEPT ![h].step = to]
  BY DEF Goto, At
<1>2. job'[h] = [job[h] EXCEPT !.step = to] /\ \A g \in Handlers \ {h} : job'[g] = job[g]
  BY <1>1 DEF TypeOK
<1>3. job[h] \in Job /\ to \in CreditSteps \cup PayoutSteps
  BY DEF TypeOK
<1>4. job'[h] \in Job
  BY <1>2, <1>3 DEF Job
<1>5. job'[h].step = to /\ job'[h].row = job[h].row
  BY <1>2, <1>3 DEF Job
<1> QED BY <1>1, <1>2, <1>4, <1>5, StepsDiffer DEF TypeOK

(* A handler that starts or stops, the others keep their jobs.             *)
LEMMA StopType ==
  ASSUME TypeOK, NEW h \in Handlers, job' = [job EXCEPT ![h] = Idle]
  PROVE  /\ job' \in [Handlers -> Job]
         /\ \A g \in Handlers : /\ job'[g].step \in CreditSteps => job'[g].row \in Orders
                                /\ job'[g].step \in PayoutSteps => job'[g].row \in Disbs
         /\ job'[h] = Idle
         /\ \A g \in Handlers \ {h} : job'[g] = job[g]
BY StepsDiffer DEF TypeOK, Job, Idle

\* A handler that starts keeps the types.
LEMMA StartType ==
  ASSUME TypeOK, NEW h \in Handlers, NEW step, NEW row, NEW n \in Int, Start(h, step, row, n),
         \/ step \in CreditSteps /\ row \in Orders
         \/ step \in PayoutSteps /\ row \in Disbs
  PROVE  /\ job' \in [Handlers -> Job]
         /\ \A g \in Handlers : /\ job'[g].step \in CreditSteps => job'[g].row \in Orders
                                /\ job'[g].step \in PayoutSteps => job'[g].row \in Disbs
         /\ job'[h].step = step /\ job'[h].row = row
         /\ \A g \in Handlers \ {h} : job'[g] = job[g]
<1>1. [step |-> step, row |-> row, amount |-> n] \in Job
  BY DEF Job
<1> QED BY <1>1, StepsDiffer DEF TypeOK, Start

-----------------------------------------------------------------------------
(* Checkouts and reports of a payment touch no disbursement.               *)
LEMMA CheckoutKeeps ==
  ASSUME IInv, NEW o \in Orders, Checkout(o)
  PROVE  IInv'
<1>1. PICK p \in {"linking", "pending", "gone"} : order' = [order EXCEPT ![o].phase = p]
  BY DEF Checkout, Place, Link
<1>2. UNCHANGED <<money, disb, sent, misread, faults, job, crossed, unheard>>
  BY DEF Checkout, Place, Link
<1>3. order' \in [Orders -> Order]
  BY <1>1 DEF IInv, TypeOK, Order
<1> QED BY <1>2, <1>3 DEF IInv, TypeOK, JobsBacked, PayoutBacked, Answered, money

(* A handler that does not come to record a transfer, and takes nothing    *)
(* from what was answered, recorded and taken off.                         *)
LEMMA BackedKept ==
  ASSUME IInv, NEW h \in Handlers, \A g \in Handlers \ {h} : job'[g] = job[g],
         job'[h].step \in {"persist", "commit"} => \A d \in Disbs : job'[h].row = d => Answered(d)',
         UNCHANGED <<debits, disb>>, \A d \in Disbs : Answered(d) => Answered(d)'
  PROVE  JobsBacked' /\ PayoutBacked'
<1>2. JobsBacked'
  BY DEF IInv, JobsBacked
<1>3. PayoutBacked'
  BY DEF IInv, PayoutBacked
<1> QED BY <1>2, <1>3

(* A report, as far as the stamp on the order.                             *)
LEMMA CreditKeeps ==
  ASSUME IInv, NEW h \in Handlers, Credit(h)
  PROVE  IInv'
<1>1. UNCHANGED <<debits, disb, sent, misread, faults, unheard>>
  BY DEF Credit, Report, Find, Increment, WriteRow, Stamp, pays, money
<1>2. \A d \in Disbs : Answered(d) => Answered(d)'
  BY <1>1 DEF Answered
<1>3. {"find", "increment", "row", "stamp"} \subseteq CreditSteps
      /\ CreditSteps \cap {"persist", "commit"} = {}
  BY DEF CreditSteps
<1>4. TypeOK
  BY DEF IInv
<1>5. ASSUME NEW o \in Orders, Report(h, o) PROVE IInv'
  <2>1. Net[o] \in Int BY LedgerAssumption
  <2>2. Start(h, "find", o, Net[o]) BY <1>5 DEF Report
  <2>3. crossed' \subseteq Orders \cup Disbs /\ UNCHANGED <<order, credits, balance>>
    BY <1>4, <1>5 DEF Report, shop, TypeOK
  <2>4. TypeOK' BY <1>1, <1>3, <1>4, <2>1, <2>2, <2>3, StartType DEF TypeOK
  <2>5. job'[h].step = "find" /\ \A g \in Handlers \ {h} : job'[g] = job[g]
    BY <1>3, <1>4, <2>1, <2>2, StartType
  <2> QED BY <1>1, <1>2, <2>4, <2>5, BackedKept DEF IInv
<1>6. ASSUME NEW from \in CreditSteps, NEW to \in CreditSteps, Goto(h, from, to),
             UNCHANGED <<order, crossed>>, credits' \in [Orders -> Nat], balance' \in Int
      PROVE  IInv'
  <2>1. TypeOK' BY <1>1, <1>4, <1>6, GotoType DEF TypeOK
  <2>2. job'[h].step = to /\ \A g \in Handlers \ {h} : job'[g] = job[g]
    BY <1>4, <1>6, GotoType
  <2> QED BY <1>1, <1>2, <1>3, <1>6, <2>1, <2>2, BackedKept DEF IInv
<1>7. ASSUME job' = [job EXCEPT ![h] = Idle], order' \in [Orders -> Order],
             UNCHANGED <<credits, balance, crossed>>
      PROVE  IInv'
  <2>1. TypeOK' BY <1>1, <1>4, <1>7, StopType DEF TypeOK
  <2>2. job'[h] = Idle /\ \A g \in Handlers \ {h} : job'[g] = job[g]
    BY <1>4, <1>7, StopType
  <2> QED BY <1>1, <1>2, <2>1, <2>2, BackedKept DEF IInv, Idle
<1>8. CASE Find(h)
  <2>1. UNCHANGED <<order, credits, balance, crossed>> BY <1>8 DEF Find, shop, pays
  <2> QED BY <1>3, <1>4, <1>6, <1>7, <1>8, <2>1 DEF Find, Stop, TypeOK
<1>9. CASE Increment(h)
  <2>1. UNCHANGED <<order, credits, crossed>> BY <1>9 DEF Increment, shop, pays
  <2>2. balance' \in Int BY <1>4, <1>9 DEF Increment, Incremented, TypeOK, Job
  <2> QED BY <1>3, <1>4, <1>6, <1>9, <2>1, <2>2 DEF Increment, TypeOK
<1>10. CASE WriteRow(h)
  <2>1. UNCHANGED <<order, balance, crossed>> BY <1>10 DEF WriteRow, pays
  <2>2. job[h].row \in Orders BY <1>3, <1>4, <1>10 DEF WriteRow, Goto, At, TypeOK
  <2>3. credits' \in [Orders -> Nat] BY <1>4, <1>10, <2>2 DEF WriteRow, TypeOK
  <2> QED BY <1>3, <1>4, <1>6, <1>10, <2>1, <2>3 DEF WriteRow, TypeOK
<1>11. CASE Stamp(h)
  <2>1. UNCHANGED <<credits, balance, crossed>> BY <1>11 DEF Stamp, money
  <2>2. job[h].row \in Orders BY <1>3, <1>4, <1>11 DEF Stamp, Stop, At, TypeOK
  <2>3. order' \in [Orders -> Order] BY <1>4, <1>11, <2>2 DEF Stamp, TypeOK, Order
  <2> QED BY <1>7, <1>11, <2>1, <2>3 DEF Stamp, Stop
<1> QED BY <1>5, <1>8, <1>9, <1>10, <1>11 DEF Credit

-----------------------------------------------------------------------------
(* A disbursement row gets another status.                                 *)
LEMMA StatusSet ==
  ASSUME TypeOK, NEW d \in Disbs, NEW s \in Status, disb' = [disb EXCEPT ![d].status = s]
  PROVE  /\ disb' \in [Disbs -> Disb] /\ disb'[d].status = s
         /\ \A e \in Disbs : e # d => disb'[e] = disb[e]
BY DEF TypeOK, Disb

(* A request for a payout, and a confirmation that passes.                 *)
LEMMA EntersKeeps ==
  ASSUME IInv, NEW h \in Handlers, NEW d \in Disbs,
         Confirm(h, d) \/ \E n \in Amounts : Request(h, d, n)
  PROVE  IInv'
<1>1. TypeOK
  BY DEF IInv
<1>2. PICK step \in {"create", "balance", "commit"}, n \in Int :
        Start(h, step, d, n) /\ (step = "commit" => disb[d].status = "transfer_sent")
  BY <1>1, LedgerAssumption DEF Confirm, Request, TypeOK, Disb
<1>3. {"create", "balance", "commit"} \subseteq PayoutSteps
  BY DEF PayoutSteps
<1>4. /\ UNCHANGED <<order, credits, balance, debits, disb, sent, misread, faults, unheard>>
      /\ crossed' \subseteq Orders \cup Disbs
  BY <1>1 DEF Confirm, Request, shop, pays, TypeOK
<1>5. TypeOK'
  BY <1>1, <1>2, <1>3, <1>4, StartType DEF TypeOK
<1>6. job'[h].step = step /\ job'[h].row = d /\ \A g \in Handlers \ {h} : job'[g] = job[g]
  BY <1>1, <1>2, <1>3, StartType
<1>7. step = "commit" => Answered(d)
  BY <1>2 DEF IInv, PayoutBacked
<1>9. \A e \in Disbs : Answered(e) => Answered(e)'
  BY <1>4 DEF Answered
<1>10. JobsBacked' /\ PayoutBacked'
  BY <1>2, <1>4, <1>6, <1>7, <1>9, BackedKept
<1> QED BY <1>5, <1>10 DEF IInv

(* A counter goes up by one.                                               *)
LEMMA CountUp ==
  ASSUME NEW S, NEW f \in [S -> Nat], NEW x \in S, NEW g, g = [f EXCEPT ![x] = @ + 1]
  PROVE  /\ g \in [S -> Nat] /\ g[x] > 0
         /\ \A y \in S : f[y] > 0 => g[y] > 0
OBVIOUS

(* A handler that stops, for whatever reason, records nothing.             *)
LEMMA StoppingKeeps ==
  ASSUME IInv, NEW h \in Handlers,
         \/ Refused(h) \/ AnswerLost(h) \/ Throw(h) \/ Mark(h)
         \/ CheckBalance(h) /\ Stop(h, "balance")
  PROVE  IInv'
<1>0. TypeOK BY DEF IInv
<1>1. job' = [job EXCEPT ![h] = Idle] BY DEF Refused, GiveUp, AnswerLost, Throw, Mark, Stop
<1>2. UNCHANGED <<credits, balance, debits, disb, misread, crossed>>
  BY DEF Refused, AnswerLost, Throw, Mark, CheckBalance, pays, shop, money
<1>3. faults' \in Nat
  BY <1>0 DEF Refused, AnswerLost, Throw, Mark, CheckBalance, TypeOK
<1>4. order' \in [Orders -> Order]
  <2>1. CASE Mark(h)
    <3>1. ASSUME NEW o \in Orders PROVE order'[o] \in Order
      <4>1. order[o] \in Order BY <1>0 DEF TypeOK
      <4>2. [order[o] EXCEPT !.disbursed = TRUE] \in Order BY <4>1 DEF Order
      <4>3. order'[o] \in {order[o], [order[o] EXCEPT !.disbursed = TRUE]} BY <2>1 DEF Mark
      <4> QED BY <4>1, <4>2, <4>3
    <3> QED BY <2>1, <3>1 DEF Mark
  <2>2. CASE ~Mark(h)
    <3>1. order' = order BY <2>2 DEF Refused, AnswerLost, Throw, CheckBalance, shop
    <3> QED BY <1>0, <3>1 DEF TypeOK
  <2> QED BY <2>1, <2>2
<1>5. job[h].step \in {"transfer", "persist"} => job[h].row \in Disbs
  BY <1>0 DEF TypeOK, PayoutSteps
<1>6. sent \in [Disbs -> Nat] /\ unheard \in [Disbs -> Nat] BY <1>0 DEF TypeOK
<1>7. unheard' \in [Disbs -> Nat]
  BY <1>5, <1>6 DEF Refused, AnswerLost, Throw, Mark, CheckBalance, pays, Stop, At
<1>8. sent' = sent \/ (job[h].row \in Disbs /\ sent' = [sent EXCEPT ![job[h].row] = @ + 1])
  BY <1>5 DEF Refused, AnswerLost, Throw, Mark, CheckBalance, pays, Stop, At
<1>9. sent' \in [Disbs -> Nat] /\ \A d \in Disbs : sent[d] > 0 => sent'[d] > 0
  BY <1>6, <1>8, CountUp
<1>10. TypeOK'
  BY <1>0, <1>1, <1>2, <1>3, <1>4, <1>7, <1>9, StopType DEF TypeOK
<1>11. job'[h] = Idle /\ \A g \in Handlers \ {h} : job'[g] = job[g]
  BY <1>0, <1>1, StopType
<1>12. \A d \in Disbs : Answered(d) => Answered(d)'
  BY <1>2, <1>9 DEF Answered
<1> QED BY <1>2, <1>10, <1>11, <1>12, BackedKept DEF IInv, Idle

(* What the steps that write the row, or only go on, have in common.       *)
LEMMA RowKeeps ==
  ASSUME IInv, NEW h \in Handlers,
         UNCHANGED <<order, credits, balance, debits, sent, misread, faults, crossed, unheard>>,
         disb' \in [Disbs -> Disb],
         \A d \in Disbs : /\ disb'[d].status = "transfer_sent" => Answered(d)
                          /\ disb'[d].status = "paid" => disb[d].status = "paid",
         \/ job' = [job EXCEPT ![h] = Idle]
         \/ \E from \in PayoutSteps, to \in PayoutSteps :
              Goto(h, from, to) /\ (to \in {"persist", "commit"} => Answered(job[h].row))
  PROVE  IInv'
<1>0. TypeOK BY DEF IInv
<1>1. /\ TypeOK'
      /\ \A g \in Handlers \ {h} : job'[g] = job[g]
      /\ job'[h].step \in {"persist", "commit"} => Answered(job'[h].row)
  <2>1. CASE job' = [job EXCEPT ![h] = Idle]
    BY <1>0, <2>1, StopType DEF TypeOK, Idle
  <2>2. CASE \E from \in PayoutSteps, to \in PayoutSteps :
               Goto(h, from, to) /\ (to \in {"persist", "commit"} => Answered(job[h].row))
    <3>1. PICK from \in PayoutSteps, to \in PayoutSteps :
            Goto(h, from, to) /\ (to \in {"persist", "commit"} => Answered(job[h].row))
      BY <2>2
    <3>2. TypeOK' BY <1>0, <3>1, GotoType DEF TypeOK
    <3> QED BY <1>0, <3>1, <3>2, GotoType
  <2> QED BY <2>1, <2>2
<1>2. \A d : Answered(d)' <=> Answered(d)
  BY DEF Answered
<1>3. JobsBacked'
  BY <1>1, <1>2 DEF IInv, JobsBacked
<1>4. PayoutBacked'
  BY <1>2 DEF IInv, PayoutBacked
<1> QED BY <1>1, <1>3, <1>4 DEF IInv

(* The row of a request is created, offered, withdrawn, or its transfer    *)
(* recorded; the balance is checked.                                       *)
LEMMA RowStepKeeps ==
  ASSUME IInv, NEW h \in Handlers,
         \/ Create(h) \/ Offer(h) \/ Withdraw(h) \/ Persist(h)
         \/ CheckBalance(h) /\ Goto(h, "balance", "transfer")
  PROVE  IInv'
<1> DEFINE d == job[h].row
<1>0. TypeOK BY DEF IInv
<1>1. {"create", "sms", "balance", "transfer", "persist", "commit"} \subseteq PayoutSteps
  BY DEF PayoutSteps
<1>2. d \in Disbs /\ job[h].amount \in Int
  BY <1>0, <1>1 DEF Create, Offer, Withdraw, Persist, CheckBalance, Goto, Stop, At, TypeOK, Job
<1>3. UNCHANGED <<order, credits, balance, debits, sent, misread, faults, crossed, unheard>>
  BY DEF Create, Offer, Withdraw, Persist, CheckBalance, shop, pays
<1>4. Persist(h) => Answered(d)
  BY <1>2 DEF Persist, Goto, At, IInv, JobsBacked
<1>5. disb' \in [Disbs -> Disb]
  <2>1. CASE Create(h) BY <1>0, <1>2, <2>1 DEF Create, TypeOK, Disb, Status
  <2>2. CASE Offer(h) BY <1>0, <1>2, <2>2 DEF Offer, TypeOK, Disb
  <2>3. CASE Withdraw(h) BY <1>0, <1>2, <2>3 DEF Withdraw, TypeOK, Disb, Status
  <2>4. CASE Persist(h) BY <1>0, <1>2, <2>4 DEF Persist, SentStatus, TypeOK, Disb, Status
  <2>5. CASE CheckBalance(h) BY <1>0, <2>5 DEF CheckBalance, pays, TypeOK
  <2> QED BY <2>1, <2>2, <2>3, <2>4, <2>5
<1>6. ASSUME NEW e \in Disbs
      PROVE  /\ disb'[e].status = "transfer_sent" => Answered(e)
             /\ disb'[e].status = "paid" => disb[e].status = "paid"
  <2>1. CASE Create(h)
    BY <1>0, <1>2, <2>1 DEF Create, IInv, PayoutBacked, TypeOK, Disb
  <2>2. CASE Offer(h) \/ Withdraw(h)
    <3>1. disb \in [Disbs -> Disb] BY <1>0 DEF TypeOK
    <3>2. CASE Offer(h)
      <4>1. disb' = [disb EXCEPT ![d].offered = TRUE] BY <3>2 DEF Offer
      <4>2. disb'[e].status = disb[e].status BY <1>2, <3>1, <4>1 DEF Disb
      <4> QED BY <4>2 DEF IInv, PayoutBacked
    <3>3. CASE Withdraw(h)
      <4>1. disb' = [disb EXCEPT ![d].status = "gone"] BY <3>3 DEF Withdraw
      <4>2. disb'[e].status \in {disb[e].status, "gone"} BY <1>2, <3>1, <4>1 DEF Disb
      <4> QED BY <4>2 DEF IInv, PayoutBacked
    <3> QED BY <2>2, <3>2, <3>3
  <2>3. CASE Persist(h)
    BY <1>0, <1>2, <1>4, <2>3 DEF Persist, SentStatus, IInv, PayoutBacked, TypeOK, Disb
  <2>4. CASE CheckBalance(h)
    BY <2>4 DEF CheckBalance, pays, IInv, PayoutBacked
  <2> QED BY <2>1, <2>2, <2>3, <2>4
<1>7. CASE Create(h)
  BY <1>1, <1>3, <1>5, <1>6, <1>7, RowKeeps DEF Create
<1>8. CASE Offer(h) \/ Withdraw(h)
  BY <1>3, <1>5, <1>6, <1>8, RowKeeps DEF Offer, Withdraw, Stop
<1>9. CASE Persist(h)
  BY <1>1, <1>3, <1>4, <1>5, <1>6, <1>9, RowKeeps DEF Persist
<1>10. CASE CheckBalance(h) /\ Goto(h, "balance", "transfer")
  BY <1>1, <1>3, <1>5, <1>6, <1>10, RowKeeps
<1> QED BY <1>7, <1>8, <1>9, <1>10

\* A code that expires.
LEMMA ExpireKeeps ==
  ASSUME IInv, NEW d \in Disbs, Expire(d)
  PROVE  IInv'
<1>1. disb' = [disb EXCEPT ![d].expired = TRUE] BY DEF Expire
<1>2. /\ disb' \in [Disbs -> Disb]
      /\ \A e \in Disbs : disb'[e].status = disb[e].status
  BY <1>1 DEF IInv, TypeOK, Disb
<1> QED
  BY <1>2 DEF Expire, IInv, TypeOK, JobsBacked, PayoutBacked, Answered, shop

(* A success, with a transfer behind it or without.                        *)
LEMMA SuccessKeeps ==
  ASSUME IInv, NEW h \in Handlers, Transferred(h) \/ Misread(h)
  PROVE  IInv'
<1> DEFINE d == job[h].row
<1>0. TypeOK BY DEF IInv
<1>1. {"transfer", "persist"} \subseteq PayoutSteps BY DEF PayoutSteps
<1>2. /\ Goto(h, "transfer", "persist")
      /\ UNCHANGED <<order, credits, balance, debits, disb, faults, crossed, unheard>>
  BY DEF Transferred, Misread, shop
<1>3. /\ job[h].step = "transfer" /\ job'[h].step = "persist" /\ job'[h].row = d
      /\ \A g \in Handlers \ {h} : job'[g] = job[g]
  BY <1>0, <1>1, <1>2, GotoType
<1>4. d \in Disbs BY <1>0, <1>1, <1>3 DEF TypeOK
<1>5. sent \in [Disbs -> Nat] /\ misread \subseteq Disbs BY <1>0 DEF TypeOK
<1>6. /\ sent' \in [Disbs -> Nat] /\ \A e \in Disbs : sent[e] > 0 => sent'[e] > 0
      /\ misread \subseteq misread' /\ misread' \subseteq Disbs
      /\ sent'[d] > 0 \/ d \in misread'
  BY <1>4, <1>5, CountUp DEF Transferred, Misread
<1>7. TypeOK' BY <1>0, <1>1, <1>2, <1>6, GotoType DEF TypeOK
<1>8. (\A e \in Disbs : job'[h].row = e => Answered(e)') /\ \A e \in Disbs : Answered(e) => Answered(e)'
  BY <1>3, <1>6 DEF Answered
<1>9. JobsBacked' /\ PayoutBacked'
  BY <1>2, <1>3, <1>8, BackedKept
<1> QED BY <1>7, <1>9 DEF IInv

(* The ledger transaction takes off what was answered success for.         *)
LEMMA CommitKeeps ==
  ASSUME IInv, NEW h \in Handlers, Commit(h)
  PROVE  IInv'
<1> USE DEF IInv
<1> DEFINE d == job[h].row
<1>1. {"commit", "mark"} \subseteq PayoutSteps BY DEF PayoutSteps
<1>2. /\ Goto(h, "commit", "mark") /\ debits' = [debits EXCEPT ![d] = @ + 1]
      /\ disb' = [disb EXCEPT ![d].status = "paid"] /\ balance' = balance - job[h].amount
      /\ UNCHANGED <<order, credits, sent, misread, faults, crossed, unheard>>
  BY DEF Commit, shop
<1>3. job[h].step = "commit" /\ job'[h].step = "mark"
  BY <1>1, <1>2, GotoType
<1>4. \A g \in Handlers \ {h} : job'[g] = job[g] BY <1>1, <1>2, GotoType
<1>5. d \in Disbs /\ Answered(d) BY <1>1, <1>3 DEF TypeOK, JobsBacked
<1>6. "paid" \in Status /\ debits \in [Disbs -> Nat] BY DEF Status, TypeOK
<1>7. /\ disb' \in [Disbs -> Disb] /\ disb'[d].status = "paid"
      /\ \A e \in Disbs : e # d => disb'[e] = disb[e]
  BY <1>2, <1>5, <1>6, StatusSet
<1>8. debits' \in [Disbs -> Nat] /\ debits'[d] > 0
  BY <1>2, <1>5, <1>6, CountUp
<1>9. \A e \in Disbs : e # d => debits'[e] = debits[e] BY <1>2, <1>6
<1>10. balance' \in Int BY <1>2 DEF TypeOK, Job
<1>11. TypeOK' BY <1>1, <1>2, <1>7, <1>8, <1>10, GotoType DEF TypeOK
<1>12. \A e : Answered(e)' <=> Answered(e) BY <1>2 DEF Answered
<1>13. JobsBacked' BY <1>3, <1>4, <1>12 DEF JobsBacked
<1>14. PayoutBacked' BY <1>5, <1>7, <1>8, <1>9, <1>12 DEF PayoutBacked
<1> QED BY <1>11, <1>13, <1>14

-----------------------------------------------------------------------------
\* Every step of a payout.
LEMMA PayoutKeeps ==
  ASSUME IInv, NEW h \in Handlers, Payout(h)
  PROVE  IInv'
<1>1. CASE \E d \in Disbs : Confirm(h, d) \/ \E n \in Amounts : Request(h, d, n)
  BY <1>1, EntersKeeps
<1>2. CASE Create(h) \/ Offer(h) \/ Withdraw(h) \/ Persist(h) BY <1>2, RowStepKeeps
<1>3. CASE CheckBalance(h) BY <1>3, RowStepKeeps, StoppingKeeps DEF CheckBalance
<1>4. CASE Refused(h) \/ AnswerLost(h) \/ Mark(h) BY <1>4, StoppingKeeps
<1>5. CASE Transferred(h) \/ Misread(h) BY <1>5, SuccessKeeps
<1>6. CASE Commit(h) BY <1>6, CommitKeeps
<1> QED BY <1>1, <1>2, <1>3, <1>4, <1>5, <1>6 DEF Payout

(* The invariant holds at first and is kept by every step.                 *)
THEOREM Inductive == Spec => []IInv
<1>1. Init => IInv
  <2> SUFFICES ASSUME Init PROVE IInv OBVIOUS
  <2>1. TypeOK BY StepsDiffer DEF Init, TypeOK, Order, Disb, Status, Job, Idle
  <2>2. JobsBacked BY StepsDiffer DEF Init, JobsBacked, Idle
  <2>3. PayoutBacked BY DEF Init, PayoutBacked
  <2> QED BY <2>1, <2>2, <2>3 DEF IInv
<1>2. IInv /\ [Next]_vars => IInv'
  <2> SUFFICES ASSUME IInv, [Next]_vars PROVE IInv' OBVIOUS
  <2>1. CASE \E o \in Orders : Checkout(o) BY <2>1, CheckoutKeeps
  <2>2. ASSUME NEW h \in Handlers, Credit(h) \/ Payout(h) \/ Throw(h) PROVE IInv'
    BY <2>2, CreditKeeps, PayoutKeeps, StoppingKeeps
  <2>3. CASE \E d \in Disbs : Expire(d) BY <2>3, ExpireKeeps
  <2>4. CASE UNCHANGED vars
    BY <2>4 DEF vars, IInv, TypeOK, JobsBacked, PayoutBacked, Answered
  <2> QED BY <2>1, <2>2, <2>3, <2>4 DEF Next
<1> QED BY <1>1, <1>2, PTL DEF Spec

(* Rows, balance and handlers keep their types: no step of a handler mixes *)
(* up an order with a disbursement.                                        *)
THEOREM TypeCorrect == Spec => []TypeOK
<1>1. IInv => TypeOK BY DEF IInv
<1> QED BY Inductive, <1>1, PTL

(* Whatever confirmDisbursement records as sent or paid was transferred,   *)
(* or an answer without a transfer was taken for success.                  *)
THEOREM PayoutBackedHolds == Spec => []PayoutBacked
<1>1. IInv => PayoutBacked BY DEF IInv
<1> QED BY Inductive, <1>1, PTL

-----------------------------------------------------------------------------
(* An order whose payment is reported to one handler at a time. Between    *)
(* the search and the row the handler is the only one that could have      *)
(* written a row, so it finds what an earlier one, alive or dead, left.    *)
CreditFits(step, rows) ==
  /\ step \in CreditSteps
  /\ step \in {"increment", "row"} => rows = 0
  /\ step = "stamp" => rows = 1

CreditedOnce(o) ==
  /\ \A g, h \in Handlers : job[g].row = o /\ job[h].row = o => g = h
  /\ \A g \in Handlers : job[g].row = o => ~order[o].credited /\ CreditFits(job[g].step, credits[o])
  /\ credits[o] <= 1
  /\ order[o].credited => credits[o] = 1
  /\ order[o].disbursed => order[o].credited

CreditInv == \A o \in Orders \ crossed : CreditedOnce(o)

(* A handler at another row leaves this one alone.                         *)
LEMMA OtherOrder ==
  ASSUME NEW o \in Orders, CreditedOnce(o), NEW h \in Handlers,
         job[h].row # o, job'[h].row # o, \A g \in Handlers \ {h} : job'[g] = job[g],
         order'[o].credited = order[o].credited, order'[o].disbursed => order'[o].credited,
         credits'[o] = credits[o]
  PROVE  CreditedOnce(o)'
<1>1. \A g \in Handlers : job'[g].row = o => job'[g] = job[g]
  OBVIOUS
<1> QED BY <1>1 DEF CreditedOnce

(* The only handler at an order, and what it has to leave behind.          *)
LEMMA AloneAtOrder ==
  ASSUME NEW o \in Orders, NEW h \in Handlers,
         \A g \in Handlers \ {h} : job[g].row # o /\ job'[g] = job[g],
         job'[h].row = o => ~order'[o].credited /\ CreditFits(job'[h].step, credits'[o]),
         credits'[o] <= 1, order'[o].credited => credits'[o] = 1,
         order'[o].disbursed => order'[o].credited
  PROVE  CreditedOnce(o)'
<1>1. \A g \in Handlers : job'[g].row = o => g = h
  OBVIOUS
<1> QED BY <1>1 DEF CreditedOnce

(* Nobody pays out an order: a payout's handler leaves every order alone,  *)
(* except that it may mark the credited ones.                              *)
LEMMA PayoutCreditedOnce ==
  ASSUME TypeOK, NEW h \in Handlers, Payout(h), NEW o \in Orders, CreditedOnce(o)
  PROVE  CreditedOnce(o)'
<1>1. /\ Orders \cap Disbs = {} /\ None \notin Orders
      /\ order \in [Orders -> Order] /\ job \in [Handlers -> Job]
  BY LedgerAssumption DEF TypeOK
<1>2. credits' = credits
  BY DEF Payout, Confirm, Request, Create, Offer, Withdraw, CheckBalance, Transferred, Misread,
         Refused, AnswerLost, Persist, Commit, Mark, shop, money
<1>3. order'[o].credited = order[o].credited /\ (order'[o].disbursed => order'[o].credited)
  <2>1. CASE Mark(h)
    BY <1>1, <2>1 DEF Mark, Disbursable, Order, CreditedOnce
  <2>2. CASE ~Mark(h)
    <3>1. order' = order
      BY <2>2 DEF Payout, Confirm, Request, Create, Offer, Withdraw, CheckBalance, Transferred,
                  Misread, Refused, AnswerLost, Persist, Commit, shop
    <3> QED BY <3>1 DEF CreditedOnce
  <2> QED BY <2>1, <2>2
<1>4. ASSUME job' = [job EXCEPT ![h] = Idle] PROVE job'[h].row # o
  BY <1>1, <1>4 DEF Idle
<1>5. ASSUME NEW from, NEW to, Goto(h, from, to) PROVE job'[h].row = job[h].row
  BY <1>1, <1>5 DEF Goto, Job
<1>6. ASSUME NEW s, NEW d \in Disbs, NEW n, Start(h, s, d, n) PROVE job'[h].row = d
  BY <1>1, <1>6 DEF Start
<1>7. \A g \in Handlers \ {h} : job'[g] = job[g]
  BY <1>1 DEF Payout, Confirm, Request, Create, Offer, Withdraw, CheckBalance, Transferred, Misread,
              Refused, GiveUp, AnswerLost, Persist, Commit, Mark, Start, Goto, Stop
<1>8. job[h].row # o
  <2>1. job[h].step \in {"idle"} \cup PayoutSteps
    BY DEF Payout, Confirm, Request, Create, Offer, Withdraw, CheckBalance, Transferred, Misread,
           Refused, GiveUp, AnswerLost, Persist, Commit, Mark, Start, Goto, Stop, At, PayoutSteps
  <2> QED BY <2>1, StepsDiffer DEF CreditedOnce, CreditFits
<1>9. job'[h].row # o
  BY <1>1, <1>4, <1>5, <1>6, <1>8 DEF Payout, Confirm, Request, Create, Offer, Withdraw, CheckBalance,
     Transferred, Misread, Refused, GiveUp, AnswerLost, Persist, Commit, Mark, Stop
<1> QED BY <1>2, <1>3, <1>7, <1>8, <1>9, OtherOrder

(* A report takes an order nobody is at; its handler searches, increments, *)
(* writes the row and stamps, or dies.                                     *)
LEMMA CreditCreditedOnce ==
  ASSUME TypeOK, NEW h \in Handlers, Credit(h) \/ Throw(h), NEW o \in Orders \ crossed',
         CreditedOnce(o)
  PROVE  CreditedOnce(o)'
<1>1. /\ None \notin Orders /\ order \in [Orders -> Order] /\ job \in [Handlers -> Job]
      /\ credits \in [Orders -> Nat]
  BY LedgerAssumption DEF TypeOK
<1>2. ASSUME NEW p \in Orders, Report(h, p) PROVE CreditedOnce(o)'
  <2>1. /\ job[h].step = "idle" /\ job'[h].step = "find" /\ job'[h].row = p
        /\ \A g \in Handlers \ {h} : job'[g] = job[g]
        /\ UNCHANGED <<order, credits>>
    BY <1>1, <1>2 DEF Report, Start, At, shop
  <2>2. job[h].row # o
    BY <2>1, StepsDiffer DEF CreditedOnce, CreditFits
  <2>3. CASE p # o
    BY <2>1, <2>2, <2>3, OtherOrder DEF CreditedOnce
  <2>4. CASE p = o
    <3>1. \A g \in Handlers : job[g].row # o
      BY <1>2, <2>4 DEF Report
    <3>2. ~order[o].credited
      BY <1>2, <2>4 DEF Report
    <3>3. CreditFits("find", credits[o])
      BY DEF CreditFits, CreditSteps
    <3> QED BY <2>1, <2>4, <3>1, <3>2, <3>3, AloneAtOrder DEF CreditedOnce
  <2> QED BY <2>3, <2>4
<1> DEFINE p == job[h].row
<1>3. ASSUME job' = [job EXCEPT ![h] = Idle]
      PROVE  job'[h].row # o /\ \A g \in Handlers \ {h} : job'[g] = job[g]
  BY <1>1, <1>3 DEF Idle
<1>4. ASSUME NEW from, NEW to, Goto(h, from, to)
      PROVE  /\ job'[h].row = p /\ job'[h].step = to /\ job[h].step = from
             /\ \A g \in Handlers \ {h} : job'[g] = job[g]
  BY <1>1, <1>4 DEF Goto, At, Job
<1>5. CASE Throw(h) \/ (Find(h) /\ Stop(h, "find"))
  <2>1. job' = [job EXCEPT ![h] = Idle] /\ UNCHANGED <<order, credits>>
    BY <1>5 DEF Throw, Find, Stop, shop
  <2>2. CASE p = o
    <3>1. \A g \in Handlers \ {h} : job[g].row # o
      BY <2>2 DEF CreditedOnce
    <3> QED BY <1>3, <2>1, <3>1, AloneAtOrder DEF CreditedOnce
  <2>3. CASE p # o
    BY <1>3, <2>1, <2>3, OtherOrder DEF CreditedOnce
  <2> QED BY <2>2, <2>3
<1>6. CASE (Find(h) /\ Goto(h, "find", "increment")) \/ Increment(h) \/ WriteRow(h)
  <2>1. PICK from \in CreditSteps, to \in CreditSteps : Goto(h, from, to)
    BY <1>6 DEF Increment, WriteRow, CreditSteps
  <2>2. order' = order
    BY <1>6 DEF Find, Increment, WriteRow, shop
  <2>3. CASE p # o
    <3>1. credits'[o] = credits[o]
      BY <1>1, <1>6, <2>3 DEF Find, Increment, WriteRow, shop
    <3> QED BY <1>4, <2>1, <2>2, <2>3, <3>1, OtherOrder DEF CreditedOnce
  <2>4. CASE p = o
    <3>1. /\ \A g \in Handlers \ {h} : job[g].row # o
          /\ ~order[o].credited /\ CreditFits(job[h].step, credits[o])
          /\ credits[o] <= 1 /\ credits[o] \in Nat
      BY <1>1, <2>4 DEF CreditedOnce
    <3>2. CreditFits(job'[h].step, credits'[o]) /\ credits'[o] <= 1
      <4>1. CASE Find(h) /\ Goto(h, "find", "increment")
        <5>1. credits' = credits /\ job[h].step = "find" /\ job'[h].step = "increment"
          BY <1>4, <4>1 DEF Find, shop
        <5>2. credits[o] = 0
          <6>1. ~AlreadyCredited(p)
            <7>1. "find" # "idle" /\ job'[h] # Idle
              BY <5>1 DEF Idle
            <7>2. ~Stop(h, "find")
              BY <1>1, <7>1 DEF Stop
            <7> QED BY <4>1, <7>2 DEF Find
          <6> QED BY <2>4, <3>1, <6>1 DEF AlreadyCredited
        <5> QED BY <3>1, <5>1, <5>2 DEF CreditFits, CreditSteps
      <4>2. CASE Increment(h)
        <5>1. credits' = credits /\ job[h].step = "increment" /\ job'[h].step = "row"
          BY <1>4, <4>2 DEF Increment, shop
        <5> QED BY <3>1, <5>1 DEF CreditFits, CreditSteps
      <4>3. CASE WriteRow(h)
        <5>1. job[h].step = "row" /\ job'[h].step = "stamp"
          BY <1>4, <4>3 DEF WriteRow
        <5>2. credits'[o] = credits[o] + 1 /\ credits[o] = 0
          BY <1>1, <2>4, <3>1, <4>3, <5>1 DEF WriteRow, CreditFits
        <5> QED BY <5>1, <5>2 DEF CreditFits, CreditSteps
      <4> QED BY <1>6, <4>1, <4>2, <4>3
    <3> QED BY <1>4, <2>1, <2>2, <3>1, <3>2, AloneAtOrder DEF CreditedOnce
  <2> QED BY <2>3, <2>4
<1>7. CASE Stamp(h)
  <2>1. job' = [job EXCEPT ![h] = Idle] /\ job[h].step = "stamp" /\ credits' = credits
    BY <1>7 DEF Stamp, Stop, At, money
  <2>2. CASE p # o
    <3>1. order'[o] = order[o]
      BY <1>1, <1>7, <2>2 DEF Stamp
    <3> QED BY <1>3, <2>1, <2>2, <3>1, OtherOrder DEF CreditedOnce
  <2>3. CASE p = o
    <3>1. order'[o].credited = TRUE /\ order'[o].disbursed = FALSE
      BY <1>1, <1>7, <2>3 DEF Stamp, Order
    <3>2. credits[o] = 1 /\ \A g \in Handlers \ {h} : job[g].row # o
      BY <2>1, <2>3 DEF CreditedOnce, CreditFits
    <3> QED BY <1>3, <2>1, <3>1, <3>2, AloneAtOrder
  <2> QED BY <2>2, <2>3
<1> QED BY <1>2, <1>5, <1>6, <1>7 DEF Credit, Find

(* A row two handlers were at is not forgotten.                            *)
LEMMA CrossedGrows == TypeOK /\ [Next]_vars => crossed \subseteq crossed'
BY DEF Next, Checkout, Place, Link, Credit, Report, Find, Increment, WriteRow, Stamp,
       Payout, Request, Confirm, Create, Offer, Withdraw, CheckBalance, Transferred, Misread, Refused,
       AnswerLost, Persist, Commit, Mark, Throw, Expire, pays, vars

(* Every step keeps an order reported to one handler at a time exact.      *)
LEMMA CreditStep == TypeOK /\ CreditInv /\ [Next]_vars => CreditInv'
<1> SUFFICES ASSUME TypeOK, CreditInv, [Next]_vars, NEW o \in Orders \ crossed'
             PROVE  CreditedOnce(o)'
    BY DEF CreditInv
<1>1. CreditedOnce(o)
  BY CrossedGrows DEF CreditInv
<1>2. CASE (\E p \in Orders : Checkout(p)) \/ (\E d \in Disbs : Expire(d)) \/ UNCHANGED vars
  <2>1. UNCHANGED <<job, credits>>
    BY <1>2 DEF Checkout, Place, Link, Expire, vars, money, shop
  <2>2. order'[o].credited = order[o].credited /\ order'[o].disbursed = order[o].disbursed
    BY <1>2 DEF Checkout, Place, Link, Expire, vars, shop, TypeOK, Order
  <2> QED BY <1>1, <2>1, <2>2 DEF CreditedOnce
<1>3. ASSUME NEW h \in Handlers, Credit(h) \/ Payout(h) \/ Throw(h) PROVE CreditedOnce(o)'
  BY <1>1, <1>3, CreditCreditedOnce, PayoutCreditedOnce
<1> QED BY <1>2, <1>3 DEF Next

(* A payment that is reported to one handler at a time, however often and  *)
(* wherever handlers die, is credited by one row, and its order counts as  *)
(* credited only with it (creditMerchantLedger).                           *)
THEOREM SerialCreditIsExactHolds == Spec => []SerialCreditIsExact
<1>1. Init => CreditInv
  BY LedgerAssumption DEF Init, CreditInv, CreditedOnce, Idle
<1>2. TypeOK /\ CreditInv => SerialCreditIsExact
  BY DEF CreditInv, CreditedOnce, SerialCreditIsExact
<1> QED BY <1>1, <1>2, CreditStep, TypeCorrect, PTL DEF Spec

-----------------------------------------------------------------------------
(* What a payout's handler knows of its row, as long as no other handler   *)
(* is at it.                                                               *)
StepFits(step, status) ==
  /\ step \in PayoutSteps
  /\ step = "create" => status = "none"
  /\ step \in {"sms", "balance", "transfer", "persist"} => status = "pending_otp"
  /\ step = "commit" => status = "transfer_sent"

Taken(status) == IF status = "paid" THEN 1 ELSE 0

(* A transfer beyond the unheard ones is recorded, or about to be.         *)
Heard(done, lost, status, persisting) ==
  /\ done <= lost + 1
  /\ done > lost => status \in {"transfer_sent", "paid"} \/ persisting

Persisting(d) == \E g \in Handlers : job[g].row = d /\ job[g].step = "persist"

Serial(d) ==
  /\ \A g, h \in Handlers : job[g].row = d /\ job[h].row = d => g = h
  /\ \A g \in Handlers : job[g].row = d => StepFits(job[g].step, disb[d].status)
  /\ debits[d] = Taken(disb[d].status)
  /\ Heard(sent[d], unheard[d], disb[d].status, Persisting(d))

SerialInv == \A d \in Disbs \ crossed : Serial(d)

(* A handler at another row leaves this one alone.                         *)
LEMMA Elsewhere ==
  ASSUME NEW d \in Disbs, Serial(d), NEW h \in Handlers,
         job[h].row # d, job'[h].row # d, \A g \in Handlers \ {h} : job'[g] = job[g],
         disb'[d].status = disb[d].status, debits'[d] = debits[d],
         sent'[d] = sent[d], unheard'[d] = unheard[d]
  PROVE  Serial(d)'
<1>1. \A g \in Handlers : job'[g].row = d => job'[g] = job[g]
  OBVIOUS
<1>2. Persisting(d)' <=> Persisting(d)
  BY DEF Persisting
<1> QED BY <1>1, <1>2 DEF Serial, Heard

(* The only handler at a row, and what it has to leave behind.             *)
LEMMA Alone ==
  ASSUME NEW d \in Disbs, NEW h \in Handlers,
         \A g \in Handlers \ {h} : job[g].row # d /\ job'[g] = job[g],
         job'[h].row = d => StepFits(job'[h].step, disb'[d].status),
         debits'[d] = Taken(disb'[d].status),
         Heard(sent'[d], unheard'[d], disb'[d].status, job'[h].row = d /\ job'[h].step = "persist")
  PROVE  Serial(d)'
<1>1. \A g \in Handlers : job'[g].row = d => g = h
  OBVIOUS
<1>2. Persisting(d)' <=> job'[h].row = d /\ job'[h].step = "persist"
  BY <1>1 DEF Persisting
<1> QED BY <1>1, <1>2 DEF Serial, Heard

(* A handler that is idle, or credits an order, is at no disbursement.     *)
LEMMA NotAtPayout ==
  ASSUME TypeOK, NEW d \in Disbs, Serial(d), NEW h \in Handlers, job[h].step \notin PayoutSteps
  PROVE  job[h].row # d
BY DEF Serial, StepFits

(* Reports of a payment touch no disbursement.                             *)
LEMMA CreditSerial ==
  ASSUME TypeOK, NEW h \in Handlers, Credit(h), NEW d \in Disbs, Serial(d)
  PROVE  Serial(d)'
<1>1. UNCHANGED <<debits, disb, sent, unheard>>
  BY DEF Credit, Report, Find, Increment, WriteRow, Stamp, pays, money
<1>2. CASE \E o \in Orders : Report(h, o)
  <2>1. PICK o \in Orders : Start(h, "find", o, Net[o])
    BY <1>2 DEF Report
  <2>2. Net[o] \in Int /\ "find" \in CreditSteps /\ o # d
    BY LedgerAssumption DEF CreditSteps
  <2>3. job'[h].row = o /\ \A g \in Handlers \ {h} : job'[g] = job[g]
    BY <2>1, <2>2, StartType
  <2>4. job[h].row # d
    BY <2>1, NotAtPayout, StepsDiffer DEF Start, At
  <2> QED BY <1>1, <2>2, <2>3, <2>4, Elsewhere
<1>3. CASE Stop(h, "find") \/ Stamp(h)
  <2>1. job[h].step \in CreditSteps /\ job' = [job EXCEPT ![h] = Idle]
    BY <1>3 DEF Stop, Stamp, At, CreditSteps
  <2>2. job[h].row # d
    BY <2>1, NotAtPayout, StepsDiffer
  <2>3. job'[h].row # d /\ \A g \in Handlers \ {h} : job'[g] = job[g]
    BY <2>1, StopType, LedgerAssumption DEF Idle
  <2> QED BY <1>1, <2>2, <2>3, Elsewhere
<1>4. ASSUME NEW from \in CreditSteps, NEW to \in CreditSteps, Goto(h, from, to) PROVE Serial(d)'
  <2>1. job[h].row # d
    BY <1>4, GotoType, NotAtPayout, StepsDiffer
  <2>2. job'[h].row = job[h].row /\ \A g \in Handlers \ {h} : job'[g] = job[g]
    BY <1>4, GotoType
  <2> QED BY <1>1, <2>1, <2>2, Elsewhere
<1>5. {"find", "increment", "row", "stamp"} \subseteq CreditSteps
  BY DEF CreditSteps
<1> QED BY <1>2, <1>3, <1>4, <1>5 DEF Credit, Find, Increment, WriteRow

(* A request, and a confirmation nobody else is at, take the row.          *)
LEMMA EnterSerial ==
  ASSUME TypeOK, NEW h \in Handlers, NEW e \in Disbs, NEW d \in Disbs \ crossed', Serial(d),
         Confirm(h, e) \/ \E n \in Amounts : Request(h, e, n)
  PROVE  Serial(d)'
<1>1. UNCHANGED <<debits, disb, sent, unheard>>
  BY DEF Confirm, Request, pays
<1>2. PICK step \in {"create", "balance", "commit"}, n \in Int :
        Start(h, step, e, n) /\ StepFits(step, disb[e].status)
  BY LedgerAssumption DEF Confirm, Request, StepFits, PayoutSteps, TypeOK, Disb
<1>3. /\ job'[h].row = e /\ job'[h].step = step
      /\ \A g \in Handlers \ {h} : job'[g] = job[g]
  BY <1>2, StartType DEF StepFits
<1>4. job[h].row # d
  BY <1>2, NotAtPayout, StepsDiffer DEF Start, At
<1>5. CASE d # e
  BY <1>1, <1>3, <1>4, <1>5, Elsewhere
<1>6. CASE d = e
  <2>1. \A g \in Handlers : job[g].row # d
    BY <1>6 DEF Confirm, Request
  <2>2. Heard(sent[d], unheard[d], disb[d].status, FALSE) /\ debits[d] = Taken(disb[d].status)
    BY <2>1 DEF Serial, Persisting
  <2>3. job'[h].step # "persist"
    BY <1>3
  <2> QED BY <1>1, <1>2, <1>3, <1>6, <2>1, <2>2, <2>3, Alone
<1> QED BY <1>5, <1>6

(* The later steps of a payout, at its own row and at every other.         *)
LEMMA PayoutSerial ==
  ASSUME TypeOK, NEW h \in Handlers, NEW d \in Disbs, Serial(d),
         \/ Create(h) \/ Offer(h) \/ Withdraw(h) \/ CheckBalance(h) \/ Transferred(h) \/ Misread(h)
         \/ Refused(h) \/ AnswerLost(h) \/ Persist(h) \/ Commit(h) \/ Mark(h)
         \/ Throw(h)
  PROVE  Serial(d)'
<1> DEFINE r == job[h].row
<1>0. /\ disb \in [Disbs -> Disb] /\ sent \in [Disbs -> Nat] /\ unheard \in [Disbs -> Nat]
      /\ debits \in [Disbs -> Nat] /\ job \in [Handlers -> Job]
  BY DEF TypeOK
<1>1. /\ job'[h].row \in {r, None} /\ None # d
      /\ \A g \in Handlers \ {h} : job'[g] = job[g]
  <2>1. None # d BY LedgerAssumption
  <2>2. ASSUME job' = [job EXCEPT ![h] = Idle]
        PROVE  job'[h].row = None /\ \A g \in Handlers \ {h} : job'[g] = job[g]
    BY <2>2, <1>0 DEF Idle
  <2>3. ASSUME NEW from, NEW to, Goto(h, from, to)
        PROVE  job'[h].row = r /\ \A g \in Handlers \ {h} : job'[g] = job[g]
    BY <2>3, <1>0 DEF Goto, Job
  <2> QED BY <2>1, <2>2, <2>3
    DEF Create, Offer, Withdraw, CheckBalance, Transferred, Misread, Refused, GiveUp, AnswerLost, Persist,
        Commit, Mark, Throw, Stop
<1>2. CASE r # d
  <2>1. disb'[d].status = disb[d].status
    BY <1>0, <1>2 DEF Create, Offer, Withdraw, CheckBalance, Transferred, Misread, Refused, AnswerLost,
       Persist, Commit, Mark, Throw, pays
  <2>2. debits'[d] = debits[d] /\ sent'[d] = sent[d] /\ unheard'[d] = unheard[d]
    BY <1>0, <1>2 DEF Create, Offer, Withdraw, CheckBalance, Transferred, Misread, Refused, AnswerLost,
       Persist, Commit, Mark, Throw, pays, money
  <2> QED BY <1>1, <1>2, <2>1, <2>2, Elsewhere
<1>3. CASE r = d
  <2>1. \A g \in Handlers \ {h} : job[g].row # d /\ job'[g] = job[g]
    BY <1>1, <1>3 DEF Serial
  <2>2. /\ StepFits(job[h].step, disb[d].status) /\ debits[d] = Taken(disb[d].status)
        /\ Heard(sent[d], unheard[d], disb[d].status, job[h].step = "persist")
    <3>1. Persisting(d) <=> job[h].step = "persist"
      BY <1>3, <2>1 DEF Persisting
    <3> QED BY <1>3, <3>1 DEF Serial, Heard
  <2>3. sent[d] \in Nat /\ unheard[d] \in Nat /\ disb[d] \in Disb
    BY <1>0
  <2>4. ASSUME job' = [job EXCEPT ![h] = Idle], job[h].step # "persist",
               disb'[d].status = disb[d].status, debits'[d] = debits[d],
               sent'[d] - sent[d] = unheard'[d] - unheard[d],
               sent'[d] \in Nat, unheard'[d] \in Nat
        PROVE  Serial(d)'
    <3>1. job'[h].row # d BY <1>0, <1>1, <2>4 DEF Idle
    <3>2. Heard(sent'[d], unheard'[d], disb'[d].status, FALSE)
      BY <2>2, <2>3, <2>4 DEF Heard
    <3> QED BY <2>1, <2>2, <2>4, <3>1, <3>2, Alone DEF Heard
  <2>5. ASSUME NEW from \in PayoutSteps, NEW to \in PayoutSteps, Goto(h, from, to),
               from # "persist", to # "persist", StepFits(to, disb'[d].status),
               debits'[d] = Taken(disb'[d].status), UNCHANGED <<sent, unheard>>,
               disb[d].status \in {"transfer_sent", "paid"} =>
                 disb'[d].status \in {"transfer_sent", "paid"}
        PROVE  Serial(d)'
    <3>1. job[h].step = from /\ job'[h].step = to /\ job'[h].row = d
      BY <1>3, <2>5, GotoType
    <3>2. Heard(sent'[d], unheard'[d], disb'[d].status, FALSE)
      BY <2>2, <2>3, <2>5, <3>1 DEF Heard
    <3> QED BY <2>1, <2>5, <3>1, <3>2, Alone DEF Heard
  <2>6. CASE Create(h)
    <3>1. Goto(h, "create", "sms") /\ UNCHANGED <<debits, sent, unheard>>
      BY <2>6 DEF Create
    <3>2. disb'[d].status = "pending_otp" /\ disb[d].status = "none"
      BY <1>0, <1>3, <2>2, <2>6 DEF Create, Goto, At, StepFits, Disb
    <3> QED BY <2>2, <2>5, <3>1, <3>2 DEF StepFits, PayoutSteps, Taken
  <2>7. CASE Offer(h) \/ Withdraw(h)
    <3>1. /\ job' = [job EXCEPT ![h] = Idle] /\ UNCHANGED <<debits, sent, unheard>>
          /\ job[h].step = "sms"
      BY <2>7 DEF Offer, Withdraw, Stop, At
    <3>2. disb[d].status = "pending_otp" /\ disb'[d].status \in {"pending_otp", "gone"}
      BY <1>0, <1>3, <2>2, <2>7, <3>1 DEF Offer, Withdraw, StepFits, Disb
    <3>3. job'[h].row # d BY <1>0, <1>1, <3>1 DEF Idle
    <3>4. sent'[d] <= unheard'[d] /\ debits'[d] = 0
      BY <2>2, <2>3, <3>1, <3>2 DEF Heard, Taken
    <3> QED BY <2>1, <2>3, <3>1, <3>2, <3>3, <3>4, Alone DEF Heard, Taken
  <2>8. CASE CheckBalance(h)
    <3>1. UNCHANGED <<debits, disb, sent, unheard>> BY <2>8 DEF CheckBalance, pays
    <3>2. CASE Stop(h, "balance")
      BY <2>3, <2>4, <3>1, <3>2 DEF Stop, At
    <3>3. CASE Goto(h, "balance", "transfer")
      BY <2>2, <2>5, <3>1, <3>3 DEF Goto, At, StepFits, PayoutSteps
    <3> QED BY <2>8, <3>2, <3>3 DEF CheckBalance
  <2>9. CASE Transferred(h)
    <3>1. /\ Goto(h, "transfer", "persist") /\ UNCHANGED <<debits, disb, unheard>>
          /\ sent'[d] = sent[d] + 1
      BY <1>0, <1>3, <2>9 DEF Transferred
    <3>2. /\ job[h].step = "transfer" /\ job'[h].step = "persist" /\ job'[h].row = d
          /\ {"transfer", "persist"} \subseteq PayoutSteps
      BY <1>3, <3>1, GotoType DEF PayoutSteps
    <3>3. disb[d].status = "pending_otp" BY <2>2, <3>2 DEF StepFits
    <3>4. StepFits("persist", disb'[d].status) BY <3>1, <3>2, <3>3 DEF StepFits
    <3>5. Heard(sent'[d], unheard'[d], disb'[d].status, TRUE)
      BY <2>2, <2>3, <3>1, <3>2, <3>3 DEF Heard
    <3> QED BY <2>1, <2>2, <3>1, <3>2, <3>4, <3>5, Alone DEF Heard
  <2>16. CASE Misread(h)
    <3>1. Goto(h, "transfer", "persist") /\ UNCHANGED <<debits, disb, sent, unheard>>
      BY <2>16 DEF Misread
    <3>2. /\ job[h].step = "transfer" /\ job'[h].step = "persist" /\ job'[h].row = d
          /\ {"transfer", "persist"} \subseteq PayoutSteps
      BY <1>3, <3>1, GotoType DEF PayoutSteps
    <3>3. disb[d].status = "pending_otp" BY <2>2, <3>2 DEF StepFits
    <3>4. StepFits("persist", disb'[d].status) BY <3>1, <3>2, <3>3 DEF StepFits
    <3>5. Heard(sent'[d], unheard'[d], disb'[d].status, TRUE)
      BY <2>2, <2>3, <3>1, <3>2, <3>3 DEF Heard
    <3> QED BY <2>1, <2>2, <3>1, <3>2, <3>4, <3>5, Alone DEF Heard
  <2>10. CASE Refused(h) \/ AnswerLost(h)
    <3>1. /\ job' = [job EXCEPT ![h] = Idle] /\ job[h].step = "transfer"
          /\ UNCHANGED <<debits, disb>>
      BY <2>10 DEF Refused, GiveUp, AnswerLost, Stop, At, pays
    <3>2. \/ sent' = sent /\ unheard' = unheard
          \/ sent'[d] = sent[d] + 1 /\ unheard'[d] = unheard[d] + 1
      BY <1>0, <1>3, <2>10 DEF Refused, AnswerLost, pays
    <3> QED BY <2>3, <2>4, <3>1, <3>2
  <2>11. CASE Persist(h)
    <3>1. Goto(h, "persist", "commit") /\ UNCHANGED <<debits, sent, unheard>>
      BY <2>11 DEF Persist
    <3>2. disb'[d].status = "transfer_sent"
      BY <1>0, <1>3, <2>11 DEF Persist, SentStatus, Disb
    <3>3. /\ job[h].step = "persist" /\ job'[h].step = "commit" /\ job'[h].row = d
      BY <1>3, <3>1, GotoType DEF PayoutSteps
    <3>4. StepFits("commit", "transfer_sent") BY DEF StepFits, PayoutSteps
    <3>5. debits'[d] = 0 /\ sent'[d] <= unheard'[d] + 1
      BY <2>2, <2>3, <3>1, <3>3 DEF StepFits, Taken, Heard
    <3> QED BY <2>1, <3>2, <3>3, <3>4, <3>5, Alone DEF Heard, Taken
  <2>12. CASE Commit(h)
    <3>1. Goto(h, "commit", "mark") /\ UNCHANGED <<sent, unheard>>
      BY <2>12 DEF Commit
    <3>2. disb'[d].status = "paid" /\ debits'[d] = debits[d] + 1
      BY <1>0, <1>3, <2>12 DEF Commit, Disb
    <3>3. disb[d].status = "transfer_sent"
      BY <2>2, <3>1 DEF Goto, At, StepFits
    <3> QED BY <2>2, <2>5, <3>1, <3>2, <3>3 DEF StepFits, PayoutSteps, Taken
  <2>13. CASE Mark(h)
    BY <2>3, <2>4, <2>13 DEF Mark, Stop, At, money
  <2>14. CASE Throw(h) /\ job[h].step # "persist"
    BY <2>3, <2>4, <2>14 DEF Throw, At
  <2>15. CASE Throw(h) /\ job[h].step = "persist"
    <3>1. /\ job' = [job EXCEPT ![h] = Idle] /\ UNCHANGED <<debits, disb, sent>>
          /\ unheard'[d] = unheard[d] + 1
      BY <1>0, <1>3, <2>15 DEF Throw, At
    <3>2. job'[h].row # d BY <1>0, <1>1, <3>1 DEF Idle
    <3>3. sent'[d] <= unheard'[d] BY <2>2, <2>3, <3>1 DEF Heard
    <3>4. Heard(sent'[d], unheard'[d], disb'[d].status, FALSE)
      BY <2>3, <3>1, <3>3 DEF Heard
    <3> QED BY <2>1, <2>2, <3>1, <3>2, <3>4, Alone DEF Heard
  <2> QED BY <2>6, <2>7, <2>8, <2>9, <2>10, <2>11, <2>12, <2>13, <2>14, <2>15, <2>16
<1> QED BY <1>2, <1>3

(* Every step keeps a row that one handler at a time confirms exact.       *)
LEMMA SerialStep == TypeOK /\ SerialInv /\ [Next]_vars => SerialInv'
<1> SUFFICES ASSUME TypeOK, SerialInv, [Next]_vars, NEW d \in Disbs \ crossed' PROVE Serial(d)'
    BY DEF SerialInv
<1>1. crossed \subseteq crossed'
  BY CrossedGrows
<1>2. Serial(d)
  BY <1>1 DEF SerialInv
<1>3. ASSUME UNCHANGED <<job, debits, sent, unheard>>, disb'[d].status = disb[d].status
      PROVE  Serial(d)'
  BY <1>2, <1>3 DEF Serial, Persisting
<1>4. CASE (\E o \in Orders : Checkout(o)) \/ UNCHANGED vars
  BY <1>3, <1>4 DEF Checkout, Place, Link, money, vars
<1>5. ASSUME NEW e \in Disbs, Expire(e) PROVE Serial(d)'
  <2>1. disb'[d].status = disb[d].status BY <1>5 DEF Expire, TypeOK, Disb
  <2> QED BY <1>3, <1>5, <2>1 DEF Expire
<1>6. ASSUME NEW h \in Handlers, Credit(h) PROVE Serial(d)'
  BY <1>2, <1>6, CreditSerial
<1>7. ASSUME NEW h \in Handlers, Payout(h) \/ Throw(h) PROVE Serial(d)'
  BY <1>2, <1>7, EnterSerial, PayoutSerial DEF Payout
<1> QED BY <1>4, <1>5, <1>6, <1>7 DEF Next

(* A disbursement that one handler at a time confirms is taken off exactly *)
(* when it is paid, and transferred again only after an outcome that was   *)
(* never stored (confirmDisbursement).                                     *)
THEOREM SerialConfirmIsExactHolds == Spec => []SerialConfirmIsExact
<1>1. Init => SerialInv
  <2> SUFFICES ASSUME Init, NEW d \in Disbs PROVE Serial(d)
      BY DEF SerialInv
  <2>1. \A g \in Handlers : job[g].row # d
    BY LedgerAssumption DEF Init, Idle
  <2> QED BY <2>1 DEF Init, Serial, Taken, Heard
<1>2. TypeOK /\ SerialInv => SerialConfirmIsExact
  BY DEF TypeOK, SerialInv, Serial, Taken, Heard, SerialConfirmIsExact
<1> QED BY <1>1, <1>2, SerialStep, TypeCorrect, PTL DEF Spec
-----------------------------------------------------------------------------
(* Sums over finite sets. The prover takes no induction rule, so each of   *)
(* these facts is shown by looking at a smallest counterexample.           *)

(* A set of numbers or of subsets of a finite set that has an element has  *)
(* a least one.                                                            *)
LEMMA LeastNumber ==
  ASSUME NEW Bad \in SUBSET Nat, Bad # {}
  PROVE  \E n \in Bad : \A m \in Bad : m >= n
<1>1. PICK n \in Bad : \A m \in Bad : <<m, n>> \notin OpToRel(<, Nat)
  BY NatLessThanWellFounded, WFMin
<1>2. ASSUME NEW m \in Bad, m < n PROVE <<m, n>> \in OpToRel(<, Nat)
  <2>1. <<m, n>> \in Nat \X Nat /\ <<m, n>>[1] < <<m, n>>[2]
    BY <1>2
  <2> QED BY <2>1, Zenon DEF OpToRel
<1>3. \A m \in Bad : ~(m < n)
  BY <1>1, <1>2
<1> QED BY <1>3

LEMMA LeastSubset ==
  ASSUME NEW D, IsFiniteSet(D), NEW Bad \in SUBSET (SUBSET D), Bad # {}
  PROVE  \E s \in Bad : \A t \in Bad : t \subseteq s => t = s
<1>1. IsWellFoundedOn(StrictSubsetOrdering(D), SUBSET D)
  BY FS_StrictSubsetOrderingWellFounded, FS_FiniteSubsetsOfFinite
<1>2. PICK s \in Bad : \A t \in Bad : <<t, s>> \notin StrictSubsetOrdering(D)
  BY <1>1, WFMin
<1> QED BY <1>2 DEF StrictSubsetOrdering

Some(s) == CHOOSE x \in s : TRUE

\* One element and what is left, as SumFunction adds them up.
Rest(f, g, s) == IF s = {} THEN 0 ELSE f[Some(s)] + g[s \ {Some(s)}]

IsSum(f, g, D) == g \in [SUBSET D -> Int] /\ \A s \in SUBSET D : g[s] = Rest(f, g, s)

LEMMA SumExists ==
  ASSUME NEW D, IsFiniteSet(D), NEW f \in [D -> Int]
  PROVE  \E g : IsSum(f, g, D)
<1> DEFINE Upto(n) == {s \in SUBSET D : Cardinality(s) <= n}
           Partly(n) == \E g \in [SUBSET D -> Int] : \A s \in Upto(n) : g[s] = Rest(f, g, s)
<1>0. \A s \in SUBSET D : IsFiniteSet(s) /\ Cardinality(s) \in Nat
  BY FS_Subset, FS_CardinalityType
<1>1. \A s \in SUBSET D : s # {} =>
        /\ Some(s) \in D /\ s \ {Some(s)} \in SUBSET D
        /\ Cardinality(s \ {Some(s)}) = Cardinality(s) - 1
  BY <1>0, FS_RemoveElement DEF Some
<1>2. \A g \in [SUBSET D -> Int], s \in SUBSET D : Rest(f, g, s) \in Int
  <2> SUFFICES ASSUME NEW g \in [SUBSET D -> Int], NEW s \in SUBSET D, s # {}
               PROVE  f[Some(s)] + g[s \ {Some(s)}] \in Int
      BY DEF Rest
  <2>1. f[Some(s)] \in Int
    BY <1>1
  <2>2. g[s \ {Some(s)}] \in Int
    BY <1>1
  <2> QED BY <2>1, <2>2
<1>3. \A n \in Nat : Partly(n)
  <2> SUFFICES ASSUME {n \in Nat : ~Partly(n)} # {} PROVE FALSE
      OBVIOUS
  <2>1. PICK n \in Nat : ~Partly(n) /\ \A m \in Nat : ~Partly(m) => m >= n
    <3> HIDE DEF Partly
    <3> DEFINE Bad == {n \in Nat : ~Partly(n)}
    <3>1. Bad \in SUBSET Nat /\ Bad # {}
      OBVIOUS
    <3>2. PICK n \in Bad : \A m \in Bad : m >= n
      <4> HIDE DEF Bad
      <4> QED BY <3>1, LeastNumber
    <3> QED BY <3>2
  <2>2. CASE n = 0
    <3>1. \A s \in Upto(0) : s = {}
      BY <1>0, FS_EmptySet
    <3>2. [s \in SUBSET D |-> 0] \in [SUBSET D -> Int]
      OBVIOUS
    <3> QED BY <2>1, <2>2, <3>1, <3>2 DEF Rest
  <2>3. CASE n # 0
    <3>1. n - 1 \in Nat /\ Partly(n - 1)
      <4>1. n - 1 \in Nat /\ ~(n - 1 >= n)
        BY <2>3
      <4> HIDE DEF Partly
      <4> QED BY <2>1, <4>1
    <3>2. PICK g \in [SUBSET D -> Int] : \A s \in Upto(n - 1) : g[s] = Rest(f, g, s)
      BY <3>1
    <3>3. PICK h : h = [s \in SUBSET D |-> Rest(f, g, s)]
      OBVIOUS
    <3>4. h \in [SUBSET D -> Int]
      BY <1>2, <3>3
    <3>5. ASSUME NEW s \in Upto(n), s # {} PROVE h[s \ {Some(s)}] = g[s \ {Some(s)}]
      BY <1>0, <1>1, <3>2, <3>3, <3>5
    <3>6. \A s \in Upto(n) : h[s] = Rest(f, h, s)
      BY <3>3, <3>5 DEF Rest
    <3> QED BY <2>1, <3>4, <3>6
  <2> QED BY <2>2, <2>3
<1>4. PICK g \in [SUBSET D -> Int] : \A s \in Upto(Cardinality(D)) : g[s] = Rest(f, g, s)
  BY <1>0, <1>3
<1>5. \A s \in SUBSET D : Cardinality(s) <= Cardinality(D)
  BY FS_Subset
<1> QED BY <1>4, <1>5 DEF IsSum

LEMMA SumIs ==
  ASSUME NEW D, IsFiniteSet(D), NEW f \in [D -> Int]
  PROVE  \E g : IsSum(f, g, D) /\ SumFunction(f) = g[D]
<1> DEFINE Is(g) == g = [s \in SUBSET D |-> IF s = {} THEN 0 ELSE f[Some(s)] + g[s \ {Some(s)}]]
<1>1. SumFunction(f) = (CHOOSE g : Is(g))[D]
  BY DEF SumFunction, SumFunctionOnSet, FoldFunctionOnSet, MapThenFoldSet, Some
<1>2. PICK h : IsSum(f, h, D)
  BY SumExists
<1>3. Is(h)
  BY <1>2 DEF IsSum, Rest
<1>4. PICK g : g = CHOOSE x : Is(x)
  OBVIOUS
<1>5. Is(g)
  <2> HIDE DEF Is
  <2> QED BY <1>3, <1>4
<1>6. g \in [SUBSET D -> Int]
  <2> SUFFICES \A s \in SUBSET D : g[s] = h[s]
      BY <1>2, <1>5 DEF IsSum
  <2> DEFINE Bad == {s \in SUBSET D : g[s] # h[s]}
  <2> SUFFICES ASSUME Bad # {} PROVE FALSE
      OBVIOUS
  <2>1. PICK s \in Bad : \A t \in Bad : t \subseteq s => t = s
    <3>1. Bad \in SUBSET (SUBSET D)
      OBVIOUS
    <3> HIDE DEF Bad
    <3> QED BY <3>1, LeastSubset
  <2>2. CASE s = {}
    BY <1>3, <1>5, <2>1, <2>2
  <2>3. CASE s # {}
    <3>1. Some(s) \in s BY <2>3 DEF Some
    <3>2. g[s \ {Some(s)}] = h[s \ {Some(s)}] BY <2>1, <3>1
    <3> QED BY <1>3, <1>5, <2>1, <2>3, <3>2
  <2> QED BY <2>2, <2>3
<1>7. IsSum(f, g, D)
  BY <1>5, <1>6 DEF IsSum, Rest
<1> QED BY <1>1, <1>4, <1>7

(* Whatever element is taken out first, the sum is the same.               *)
LEMMA SumWithout ==
  ASSUME NEW D, IsFiniteSet(D), NEW f \in [D -> Int], NEW g, IsSum(f, g, D)
  PROVE  \A s \in SUBSET D : \A x \in s : g[s] = f[x] + g[s \ {x}]
<1> DEFINE Bad == {s \in SUBSET D : \E x \in s : g[s] # f[x] + g[s \ {x}]}
<1> SUFFICES ASSUME Bad # {} PROVE FALSE
    OBVIOUS
<1>1. PICK s \in Bad : \A t \in Bad : t \subseteq s => t = s
  <2>1. Bad \in SUBSET (SUBSET D)
    OBVIOUS
  <2> HIDE DEF Bad
  <2> QED BY <2>1, LeastSubset
<1>2. PICK x \in s : g[s] # f[x] + g[s \ {x}]
  OBVIOUS
<1> DEFINE y == Some(s)
<1>3. y \in s
  BY DEF Some
<1>4. g[s] = f[y] + g[s \ {y}]
  BY DEF IsSum, Rest
<1>5. x # y
  BY <1>2, <1>4
<1> HIDE DEF y
<1>6. g[s \ {y}] = f[x] + g[(s \ {y}) \ {x}] /\ g[s \ {x}] = f[y] + g[(s \ {x}) \ {y}]
  <2>1. \A t \in SUBSET D : t \subseteq s /\ t # s => \A z \in t : g[t] = f[z] + g[t \ {z}]
    BY <1>1
  <2>2. s \ {x} # s /\ s \ {y} # s /\ x \in s \ {y} /\ y \in s \ {x}
    BY <1>3, <1>5
  <2>3. s \in SUBSET D
    OBVIOUS
  <2> HIDE DEF Bad
  <2> QED BY <1>3, <2>1, <2>2, <2>3
<1>7. (s \ {y}) \ {x} = (s \ {x}) \ {y} /\ (s \ {x}) \ {y} \in SUBSET D
  OBVIOUS
<1>8. f[x] \in Int /\ f[y] \in Int /\ g[(s \ {x}) \ {y}] \in Int
  BY <1>3, <1>7 DEF IsSum
<1>9. g[s] = f[y] + (f[x] + g[(s \ {x}) \ {y}]) /\ g[s] # f[x] + (f[y] + g[(s \ {x}) \ {y}])
  BY <1>2, <1>4, <1>6, <1>7
<1> QED BY <1>8, <1>9

(* Functions that agree on a set have the same sum over it.                *)
LEMMA SumAgrees ==
  ASSUME NEW D, IsFiniteSet(D), NEW f, NEW g, IsSum(f, g, D), NEW f1, NEW g1, IsSum(f1, g1, D),
         NEW S \in SUBSET D, \A x \in S : f1[x] = f[x]
  PROVE  g1[S] = g[S]
<1> DEFINE Bad == {s \in SUBSET D : s \subseteq S /\ g1[s] # g[s]}
<1> SUFFICES ASSUME Bad # {} PROVE FALSE
    OBVIOUS
<1>1. PICK s \in Bad : \A t \in Bad : t \subseteq s => t = s
  <2>1. Bad \in SUBSET (SUBSET D)
    OBVIOUS
  <2> HIDE DEF Bad
  <2> QED BY <2>1, LeastSubset
<1>2. CASE s = {}
  BY <1>1, <1>2 DEF IsSum, Rest
<1>3. CASE s # {}
  <2>1. Some(s) \in s BY <1>3 DEF Some
  <2>2. g1[s \ {Some(s)}] = g[s \ {Some(s)}] /\ f1[Some(s)] = f[Some(s)]
    BY <1>1, <2>1
  <2> QED BY <1>1, <1>3, <2>2 DEF IsSum, Rest
<1> QED BY <1>2, <1>3

(* A sum is a number; changing one value changes it by the difference.     *)
LEMMA SumType ==
  ASSUME NEW D, IsFiniteSet(D), NEW f \in [D -> Int]
  PROVE  SumFunction(f) \in Int
<1>1. PICK g : IsSum(f, g, D) /\ SumFunction(f) = g[D]
  BY SumIs
<1> QED BY <1>1 DEF IsSum

LEMMA SumChanged ==
  ASSUME NEW D, IsFiniteSet(D), NEW f \in [D -> Int], NEW f1 \in [D -> Int], NEW x \in D,
         \A y \in D \ {x} : f1[y] = f[y]
  PROVE  SumFunction(f1) = SumFunction(f) + (f1[x] - f[x])
<1>1. PICK g : IsSum(f, g, D) /\ SumFunction(f) = g[D]
  BY SumIs
<1>2. PICK g1 : IsSum(f1, g1, D) /\ SumFunction(f1) = g1[D]
  BY SumIs
<1>3. g[D] = f[x] + g[D \ {x}]
  BY <1>1, SumWithout
<1>4. g1[D] = f1[x] + g1[D \ {x}]
  BY <1>2, SumWithout
<1>5. g1[D \ {x}] = g[D \ {x}]
  BY <1>1, <1>2, SumAgrees
<1>6. f[x] \in Int /\ f1[x] \in Int /\ g[D \ {x}] \in Int
  BY <1>1 DEF IsSum
<1> QED BY <1>1, <1>2, <1>3, <1>4, <1>5, <1>6

LEMMA SumZero ==
  ASSUME NEW D, IsFiniteSet(D), NEW f \in [D -> Int], \A x \in D : f[x] = 0
  PROVE  SumFunction(f) = 0
<1>1. PICK g : IsSum(f, g, D) /\ SumFunction(f) = g[D]
  BY SumIs
<1> DEFINE z == [s \in SUBSET D |-> 0]
<1>2. IsSum(f, z, D)
  <2>1. \A s \in SUBSET D : s # {} => Some(s) \in D
    BY DEF Some
  <2> QED BY <2>1 DEF IsSum, Rest
<1>3. g[D] = z[D]
  <2> HIDE DEF z
  <2> QED BY <1>1, <1>2, SumAgrees
<1> QED BY <1>1, <1>3

LEMMA SumNotNegative ==
  ASSUME NEW D, IsFiniteSet(D), NEW f \in [D -> Nat]
  PROVE  SumFunction(f) >= 0
<1>1. f \in [D -> Int]
  OBVIOUS
<1>2. PICK g : IsSum(f, g, D) /\ SumFunction(f) = g[D]
  BY <1>1, SumIs
<1> DEFINE Bad == {s \in SUBSET D : ~(g[s] >= 0)}
<1>3. Bad = {}
  <2> SUFFICES ASSUME Bad # {} PROVE FALSE
      OBVIOUS
  <2>1. PICK s \in Bad : \A t \in Bad : t \subseteq s => t = s
    <3>1. Bad \in SUBSET (SUBSET D)
      OBVIOUS
    <3> HIDE DEF Bad
    <3> QED BY <3>1, LeastSubset
  <2>2. s # {} /\ Some(s) \in s
    BY <1>2, <2>1 DEF IsSum, Rest, Some
  <2>3. g[s \ {Some(s)}] >= 0 /\ f[Some(s)] \in Nat /\ g[s \ {Some(s)}] \in Int
    BY <1>2, <2>1, <2>2 DEF IsSum
  <2>4. g[s] = f[Some(s)] + g[s \ {Some(s)}]
    BY <1>2, <2>1, <2>2 DEF IsSum, Rest
  <2> QED BY <2>1, <2>3, <2>4
<1> QED BY <1>2, <1>3

-----------------------------------------------------------------------------
\* What a handler has put on the balance and not yet written down.
Waiting(h) == IF job[h].step = "row" THEN Net[job[h].row] ELSE 0
InHand     == SumFunction([h \in Handlers |-> Waiting(h)])

(* A handler credits what the order brings and debits what the row says; a *)
(* handler that is about to create a row is alone with it.                 *)
JobFits(h) ==
  /\ job[h].step \in {"find", "increment"} => job[h].amount = Net[job[h].row]
  /\ job[h].step \in {"balance", "transfer", "persist", "commit"} =>
       job[h].amount = disb[job[h].row].amount
  /\ job[h].step = "create" =>
       /\ disb[job[h].row].status = "none"
       /\ \A g \in Handlers \ {h} : job[g].row # job[h].row
  /\ job[h].step \in PayoutSteps \ {"create"} => disb[job[h].row].status # "none"

\* A row that does not exist yet has no debit and nobody knows its id.
RowFresh(d) == disb[d].status = "none" => debits[d] = 0 /\ ~disb[d].offered

FitInv == (\A h \in Handlers : JobFits(h)) /\ (\A d \in Disbs : RowFresh(d))

(* The balance covers the rows and what is on its way to one, and is no    *)
(* more than that before the first fault.                                  *)
Balanced ==
  /\ balance >= Booked + InHand - PaidOut
  /\ faults = 0 => balance = Booked + InHand - PaidOut

(* A step of one handler that leaves the amounts and creates no row.       *)
LEMMA FitKept ==
  ASSUME TypeOK, FitInv, NEW h \in Handlers, \A g \in Handlers \ {h} : job'[g] = job[g],
         \A d \in Disbs : /\ disb'[d].amount = disb[d].amount
                          /\ disb'[d].status = "none" <=> disb[d].status = "none"
                          /\ disb[d].status = "none" => /\ disb'[d].offered = disb[d].offered
                                                        /\ debits'[d] = debits[d],
         \A g \in Handlers \ {h} : job[g].step = "create" => job'[h].row # job[g].row,
         JobFits(h)'
  PROVE  FitInv'
<1>1. ASSUME NEW d \in Disbs PROVE RowFresh(d)'
  BY DEF FitInv, RowFresh
<1>2. ASSUME NEW g \in Handlers \ {h} PROVE JobFits(g)'
  <2>1. job'[g] = job[g] /\ JobFits(g)
    BY DEF FitInv
  <2>2. job[g].step \in PayoutSteps => job[g].row \in Disbs
    BY DEF TypeOK
  <2>3. {"create", "balance", "transfer", "persist", "commit"} \subseteq PayoutSteps
    BY DEF PayoutSteps
  <2>4. job[g].step = "create" => \A e \in Handlers \ {g} : job'[e].row # job[g].row
    BY <2>1 DEF JobFits
  <2> QED BY <2>1, <2>2, <2>3, <2>4 DEF JobFits
<1> QED BY <1>1, <1>2 DEF FitInv

(* Every step keeps jobs and rows together.                                *)
LEMMA FitStep == TypeOK /\ FitInv /\ [Next]_vars => FitInv'
<1> SUFFICES ASSUME TypeOK, FitInv, [Next]_vars PROVE FitInv'
    OBVIOUS
<1>0. /\ disb \in [Disbs -> Disb] /\ debits \in [Disbs -> Nat] /\ job \in [Handlers -> Job]
      /\ Orders \cap Disbs = {} /\ None \notin Orders \cup Disbs
      /\ \A h \in Handlers : /\ job[h].step \in CreditSteps => job[h].row \in Orders
                             /\ job[h].step \in PayoutSteps => job[h].row \in Disbs
  BY LedgerAssumption DEF TypeOK
<1>1. \A h \in Handlers : job[h].step = "create" => job[h].row \in Disbs
  BY <1>0 DEF PayoutSteps
<1>2. CASE (\E o \in Orders : Checkout(o)) \/ UNCHANGED vars
  BY <1>2 DEF Checkout, Place, Link, money, vars, FitInv, JobFits, RowFresh
<1>3. ASSUME NEW d \in Disbs, Expire(d) PROVE FitInv'
  <2>1. job' = job /\ debits' = debits
    BY <1>3 DEF Expire
  <2>2. \A e \in Disbs : /\ disb'[e].amount = disb[e].amount /\ disb'[e].status = disb[e].status
                         /\ disb'[e].offered = disb[e].offered
    BY <1>0, <1>3 DEF Expire, Disb
  <2>3. \A h \in Handlers : JobFits(h)'
    BY <1>0, <2>1, <2>2 DEF FitInv, JobFits, PayoutSteps
  <2> QED BY <2>1, <2>2, <2>3 DEF FitInv, RowFresh
<1>4. ASSUME NEW h \in Handlers, job' = [job EXCEPT ![h] = Idle],
             \A d \in Disbs : /\ disb'[d].amount = disb[d].amount
                              /\ disb'[d].status = "none" <=> disb[d].status = "none"
                              /\ disb[d].status = "none" => /\ disb'[d].offered = disb[d].offered
                                                            /\ debits'[d] = debits[d]
      PROVE  FitInv'
  <2>1. job'[h] = Idle /\ \A g \in Handlers \ {h} : job'[g] = job[g]
    BY <1>0, <1>4
  <2>2. JobFits(h)'
    BY <2>1 DEF JobFits, Idle, PayoutSteps
  <2>3. \A g \in Handlers \ {h} : job[g].step = "create" => job'[h].row # job[g].row
    BY <1>0, <1>1, <2>1 DEF Idle
  <2> QED BY <1>4, <2>1, <2>2, <2>3, FitKept
<1>5. ASSUME NEW h \in Handlers, NEW from, NEW to, Goto(h, from, to),
             \/ from \in CreditSteps /\ to \in CreditSteps
             \/ from \in PayoutSteps \ {"create"} /\ to \in PayoutSteps \ {"create"},
             \A d \in Disbs : /\ disb'[d].amount = disb[d].amount
                              /\ disb'[d].status = "none" <=> disb[d].status = "none"
                              /\ disb[d].status = "none" => /\ disb'[d].offered = disb[d].offered
                                                            /\ debits'[d] = debits[d],
             to = "increment" => from = "find",
             to \in {"transfer", "persist", "commit"} => from \in {"balance", "transfer", "persist"},
             to \notin {"find", "balance"}
      PROVE  FitInv'
  <2>1. /\ job[h].step = from /\ job'[h].step = to /\ job'[h].row = job[h].row
        /\ \A g \in Handlers \ {h} : job'[g] = job[g]
    BY <1>5, GotoType
  <2>2. job'[h].amount = job[h].amount
    BY <1>0, <1>5 DEF Goto, Job
  <2>3. from # "create" /\ to # "create"
    BY <1>5 DEF CreditSteps
  <2>4. \A g \in Handlers \ {h} : job[g].step = "create" => job'[h].row # job[g].row
    BY <2>1 DEF FitInv, JobFits
  <2>5. JobFits(h)
    BY DEF FitInv
  <2>6. JobFits(h)'
    <3>1. CASE from \in CreditSteps
      BY <1>5, <2>1, <2>2, <2>5, <3>1 DEF JobFits, CreditSteps, PayoutSteps
    <3>2. CASE from \in PayoutSteps \ {"create"}
      <4>1. job[h].row \in Disbs /\ to \in PayoutSteps \ {"create"}
        BY <1>0, <1>5, <2>1, <3>2, StepsDiffer
      <4>2. to \notin {"find", "increment"}
        BY <4>1 DEF PayoutSteps
      <4> QED BY <1>5, <2>1, <2>2, <2>3, <2>5, <3>2, <4>1, <4>2 DEF JobFits
    <3> QED BY <1>5, <3>1, <3>2
  <2> QED BY <1>5, <2>1, <2>4, <2>6, FitKept
<1>6. ASSUME NEW h \in Handlers, Credit(h) PROVE FitInv'
  <2>1. UNCHANGED <<disb, debits>>
    BY <1>6 DEF Credit, Report, Find, Increment, WriteRow, Stamp, pays, money
  <2>2. ASSUME NEW o \in Orders, Report(h, o) PROVE FitInv'
    <3>1. /\ job'[h] = [step |-> "find", row |-> o, amount |-> Net[o]]
          /\ \A g \in Handlers \ {h} : job'[g] = job[g]
      BY <1>0, <2>2 DEF Report, Start
    <3>2. JobFits(h)'
      BY <3>1 DEF JobFits, PayoutSteps
    <3>3. \A g \in Handlers \ {h} : job[g].step = "create" => job'[h].row # job[g].row
      BY <1>0, <1>1, <3>1
    <3> QED BY <2>1, <3>1, <3>2, <3>3, FitKept
  <2>3. CASE Find(h)
    <3>1. CASE Stop(h, "find")
      BY <1>4, <2>1, <3>1 DEF Stop
    <3>2. CASE Goto(h, "find", "increment")
      BY <1>5, <2>1, <3>2 DEF CreditSteps
    <3> QED BY <2>3, <3>1, <3>2 DEF Find
  <2>4. CASE Increment(h)
    BY <1>5, <2>1, <2>4 DEF Increment, CreditSteps
  <2>5. CASE WriteRow(h)
    BY <1>5, <2>1, <2>5 DEF WriteRow, CreditSteps
  <2>6. CASE Stamp(h)
    BY <1>4, <2>1, <2>6 DEF Stamp, Stop
  <2> QED BY <1>6, <2>2, <2>3, <2>4, <2>5, <2>6 DEF Credit
<1>7. ASSUME NEW h \in Handlers, NEW d \in Disbs, NEW n \in Amounts, Request(h, d, n)
      PROVE  FitInv'
  <2>1. /\ job'[h] = [step |-> "create", row |-> d, amount |-> n]
        /\ \A g \in Handlers \ {h} : job'[g] = job[g]
        /\ UNCHANGED <<disb, debits>>
    BY <1>0, <1>7 DEF Request, Start, pays
  <2>2. disb[d].status = "none" /\ \A g \in Handlers : job[g].row # d
    BY <1>7 DEF Request
  <2>3. JobFits(h)'
    BY <2>1, <2>2 DEF JobFits
  <2> QED BY <2>1, <2>2, <2>3, FitKept
<1>8. ASSUME NEW h \in Handlers, NEW d \in Disbs, Confirm(h, d) PROVE FitInv'
  <2>1. PICK s \in {"balance", "commit"} : Start(h, s, d, disb[d].amount)
    BY <1>8 DEF Confirm
  <2>2. /\ job'[h] = [step |-> s, row |-> d, amount |-> disb[d].amount]
        /\ \A g \in Handlers \ {h} : job'[g] = job[g]
        /\ UNCHANGED <<disb, debits>> /\ disb[d].status # "none"
    BY <1>0, <1>8, <2>1 DEF Confirm, Start
  <2>3. JobFits(h)'
    BY <2>2 DEF JobFits
  <2>4. \A g \in Handlers \ {h} : job[g].step = "create" => job'[h].row # job[g].row
    BY <2>2 DEF FitInv, JobFits
  <2> QED BY <2>2, <2>3, <2>4, FitKept
<1>9. ASSUME NEW h \in Handlers, Create(h) PROVE FitInv'
  <2> DEFINE d == job[h].row
  <2>1. /\ job[h].step = "create" /\ d \in Disbs /\ job'[h].step = "sms" /\ job'[h].row = d
        /\ \A g \in Handlers \ {h} : job'[g] = job[g]
    BY <1>1, <1>9, GotoType DEF Create, PayoutSteps
  <2>2. /\ disb'[d].status = "pending_otp"
        /\ \A e \in Disbs \ {d} : disb'[e] = disb[e]
        /\ debits' = debits
    BY <1>0, <1>9, <2>1 DEF Create, Disb
  <2>3. \A g \in Handlers \ {h} : job[g].row # d
    BY <2>1 DEF FitInv, JobFits
  <2>4. JobFits(h)'
    BY <2>1, <2>2 DEF JobFits, PayoutSteps
  <2>5. \A g \in Handlers \ {h} : JobFits(g)'
    BY <1>0, <2>1, <2>2, <2>3 DEF FitInv, JobFits, PayoutSteps
  <2> QED BY <2>2, <2>4, <2>5 DEF FitInv, RowFresh
<1>10. ASSUME NEW h \in Handlers, Offer(h) \/ Withdraw(h) \/ Persist(h) \/ Commit(h)
       PROVE  FitInv'
  <2> DEFINE d == job[h].row
  <2>1. d \in Disbs /\ disb[d].status # "none"
    <3>1. job[h].step \in {"sms", "persist", "commit"}
      BY <1>10 DEF Offer, Withdraw, Persist, Commit, Stop, Goto, At
    <3> QED BY <1>0, <3>1 DEF FitInv, JobFits, PayoutSteps
  <2>2. /\ disb'[d].amount = disb[d].amount /\ disb'[d].status # "none"
        /\ \A e \in Disbs \ {d} : disb'[e] = disb[e] /\ debits'[e] = debits[e]
    BY <1>0, <1>10, <2>1 DEF Offer, Withdraw, Persist, Commit, SentStatus, Disb
  <2>3. \A e \in Disbs : /\ disb'[e].amount = disb[e].amount
                         /\ disb'[e].status = "none" <=> disb[e].status = "none"
                         /\ disb[e].status = "none" => /\ disb'[e].offered = disb[e].offered
                                                       /\ debits'[e] = debits[e]
    BY <2>1, <2>2
  <2>4. CASE Offer(h) \/ Withdraw(h)
    BY <1>4, <2>3, <2>4 DEF Offer, Withdraw, Stop
  <2>5. CASE Persist(h)
    BY <1>5, <2>3, <2>5 DEF Persist, PayoutSteps
  <2>6. CASE Commit(h)
    BY <1>5, <2>3, <2>6 DEF Commit, PayoutSteps
  <2> QED BY <1>10, <2>4, <2>5, <2>6
<1>11. ASSUME NEW h \in Handlers,
              CheckBalance(h) \/ Transferred(h) \/ Misread(h) \/ Refused(h) \/ AnswerLost(h) \/ Mark(h) \/ Throw(h)
       PROVE  FitInv'
  <2>1. UNCHANGED <<disb, debits>>
    BY <1>11 DEF CheckBalance, Transferred, Misread, Refused, AnswerLost, Mark, Throw, pays, money
  <2>2. CASE Transferred(h) \/ Misread(h)
    BY <1>5, <2>1, <2>2 DEF Transferred, Misread, PayoutSteps
  <2>3. CASE Goto(h, "balance", "transfer")
    BY <1>5, <2>1, <2>3 DEF PayoutSteps
  <2> QED BY <1>4, <1>11, <2>1, <2>2, <2>3
    DEF CheckBalance, Refused, GiveUp, AnswerLost, Mark, Throw, Stop
<1> QED BY <1>2, <1>3, <1>6, <1>7, <1>8, <1>9, <1>10, <1>11 DEF Next, Payout

(* The sums are numbers, whatever the tables hold.                         *)
LEMMA Products == \A a, b \in Int : a * b \in Int /\ (a + 1) * b - a * b = b /\ 0 * b = 0
OBVIOUS

LEMMA BookedType ==
  ASSUME NEW c \in [Orders -> Nat]
  PROVE  [o \in Orders |-> c[o] * Net[o]] \in [Orders -> Int]
<1>1. \A o \in Orders : c[o] \in Int /\ Net[o] \in Int
  BY LedgerAssumption
<1> QED BY <1>1, Products

LEMMA PaidType ==
  ASSUME NEW n \in [Disbs -> Nat], NEW r \in [Disbs -> Disb]
  PROVE  [d \in Disbs |-> n[d] * r[d].amount] \in [Disbs -> Int]
<1>1. \A d \in Disbs : n[d] \in Int /\ r[d].amount \in Int
  BY DEF Disb
<1> QED BY <1>1, Products

LEMMA HandType ==
  ASSUME NEW j \in [Handlers -> Job],
         \A h \in Handlers : j[h].step \in CreditSteps => j[h].row \in Orders
  PROVE  [h \in Handlers |-> IF j[h].step = "row" THEN Net[j[h].row] ELSE 0] \in [Handlers -> Nat]
<1>1. ASSUME NEW h \in Handlers
      PROVE  (IF j[h].step = "row" THEN Net[j[h].row] ELSE 0) \in Nat
  BY LedgerAssumption DEF CreditSteps
<1> QED BY <1>1

LEMMA SumsAreNumbers ==
  ASSUME TypeOK
  PROVE  Booked \in Int /\ PaidOut \in Int /\ InHand \in Int /\ InHand >= 0
<1>0. IsFiniteSet(Orders) /\ IsFiniteSet(Disbs) /\ IsFiniteSet(Handlers)
  BY LedgerAssumption
<1>1. Booked \in Int
  <2>1. [o \in Orders |-> credits[o] * Net[o]] \in [Orders -> Int]
    BY BookedType DEF TypeOK
  <2> QED BY <1>0, <2>1, SumType DEF Booked
<1>2. PaidOut \in Int
  <2>1. [d \in Disbs |-> debits[d] * disb[d].amount] \in [Disbs -> Int]
    BY PaidType DEF TypeOK
  <2> QED BY <1>0, <2>1, SumType DEF PaidOut
<1>3. InHand \in Int /\ InHand >= 0
  <2>1. [h \in Handlers |-> Waiting(h)] \in [Handlers -> Nat]
    BY HandType DEF TypeOK, Waiting
  <2>2. [h \in Handlers |-> Waiting(h)] \in [Handlers -> Int]
    BY <2>1
  <2> QED BY <1>0, <2>1, <2>2, SumType, SumNotNegative DEF InHand
<1> QED BY <1>1, <1>2, <1>3

\* A row that is written down.
LEMMA BookedMore ==
  ASSUME TypeOK, TypeOK', NEW o \in Orders, credits' = [credits EXCEPT ![o] = @ + 1]
  PROVE  Booked' = Booked + Net[o]
<1> DEFINE f  == [p \in Orders |-> credits[p] * Net[p]]
           f1 == [p \in Orders |-> credits'[p] * Net[p]]
<1>0. credits \in [Orders -> Nat] /\ credits' \in [Orders -> Nat]
  BY DEF TypeOK
<1>1. f \in [Orders -> Int] /\ f1 \in [Orders -> Int]
  BY <1>0, BookedType
<1>2. credits \in [Orders -> Nat] /\ Net[o] \in Int /\ IsFiniteSet(Orders)
  <2> HIDE DEF f, f1
  <2> QED BY <1>0, LedgerAssumption
<1>3. \A p \in Orders \ {o} : f1[p] = f[p]
  BY <1>2
<1>4. f1[o] - f[o] = Net[o]
  <2>1. f1[o] = (credits[o] + 1) * Net[o] /\ f[o] = credits[o] * Net[o] /\ credits[o] \in Int
    BY <1>2
  <2> HIDE DEF f, f1
  <2> QED BY <1>2, <2>1, Products
<1>5. SumFunction(f1) = SumFunction(f) + (f1[o] - f[o])
  <2> HIDE DEF f, f1
  <2> QED BY <1>1, <1>2, <1>3, SumChanged
<1> QED BY <1>4, <1>5 DEF Booked

\* A disbursement that is taken off.
LEMMA PaidMore ==
  ASSUME TypeOK, TypeOK', NEW d \in Disbs, debits' = [debits EXCEPT ![d] = @ + 1],
         \A e \in Disbs : disb'[e].amount = disb[e].amount
  PROVE  PaidOut' = PaidOut + disb[d].amount
<1> DEFINE f  == [e \in Disbs |-> debits[e] * disb[e].amount]
           f1 == [e \in Disbs |-> debits'[e] * disb'[e].amount]
<1>0. /\ debits \in [Disbs -> Nat] /\ debits' \in [Disbs -> Nat]
      /\ disb \in [Disbs -> Disb] /\ disb' \in [Disbs -> Disb]
  BY DEF TypeOK
<1>1. f \in [Disbs -> Int] /\ f1 \in [Disbs -> Int]
  BY <1>0, PaidType
<1>2. debits \in [Disbs -> Nat] /\ disb[d].amount \in Int /\ IsFiniteSet(Disbs)
  BY LedgerAssumption DEF TypeOK, Disb
<1>3. \A e \in Disbs \ {d} : f1[e] = f[e]
  BY <1>2
<1>4. f1[d] - f[d] = disb[d].amount
  <2>1. /\ f1[d] = (debits[d] + 1) * disb[d].amount /\ f[d] = debits[d] * disb[d].amount
        /\ debits[d] \in Int
    BY <1>2
  <2> HIDE DEF f, f1
  <2> QED BY <1>2, <2>1, Products
<1>5. SumFunction(f1) = SumFunction(f) + (f1[d] - f[d])
  <2> HIDE DEF f, f1
  <2> QED BY <1>1, <1>2, <1>3, SumChanged
<1> QED BY <1>4, <1>5 DEF PaidOut

\* Neither sum moves while there is no new row.
LEMMA RowsSame ==
  ASSUME TypeOK, UNCHANGED <<credits, debits>>,
         \A d \in Disbs : disb'[d].amount = disb[d].amount \/ debits[d] = 0,
         TypeOK'
  PROVE  Booked' = Booked /\ PaidOut' = PaidOut
<1>1. Booked' = Booked
  BY DEF Booked
<1>2. ASSUME NEW d \in Disbs PROVE debits'[d] * disb'[d].amount = debits[d] * disb[d].amount
  <2>1. disb[d].amount \in Int /\ disb'[d].amount \in Int
    BY DEF TypeOK, Disb
  <2>3. CASE debits[d] = 0 BY <2>1, <2>3, Products
  <2>4. CASE disb'[d].amount = disb[d].amount BY <2>4
  <2> QED BY <2>3, <2>4
<1>3. [d \in Disbs |-> debits'[d] * disb'[d].amount] = [d \in Disbs |-> debits[d] * disb[d].amount]
  BY <1>2
<1> QED BY <1>1, <1>3 DEF PaidOut

\* What is in hand changes with the handler that takes a step.
LEMMA HandMoves ==
  ASSUME TypeOK, TypeOK', NEW h \in Handlers,
         \A g \in Handlers \ {h} : job'[g] = job[g]
  PROVE  InHand' = InHand + (Waiting(h)' - Waiting(h))
<1> DEFINE f  == [g \in Handlers |-> Waiting(g)]
           f1 == [g \in Handlers |-> Waiting(g)']
<1>0. /\ job \in [Handlers -> Job] /\ job' \in [Handlers -> Job]
      /\ \A g \in Handlers : /\ job[g].step \in CreditSteps => job[g].row \in Orders
                             /\ job'[g].step \in CreditSteps => job'[g].row \in Orders
  BY DEF TypeOK
<1>1. f \in [Handlers -> Int] /\ f1 \in [Handlers -> Int] /\ IsFiniteSet(Handlers)
  <2>1. f \in [Handlers -> Nat] /\ f1 \in [Handlers -> Nat]
    BY <1>0, HandType DEF Waiting
  <2> QED BY <2>1, LedgerAssumption
<1>2. \A g \in Handlers \ {h} : f1[g] = f[g]
  BY DEF Waiting
<1>3. SumFunction(f1) = SumFunction(f) + (f1[h] - f[h])
  <2> HIDE DEF f, f1
  <2> QED BY <1>1, <1>2, SumChanged
<1>4. InHand' = SumFunction(f1)
  BY DEF InHand
<1> QED BY <1>3, <1>4 DEF InHand

(* A fault is not forgotten.                                               *)
LEMMA FaultsStay == ASSUME TypeOK, [Next]_vars PROVE faults' = 0 => faults = 0
<1>1. faults \in Nat
  BY DEF TypeOK
<1>2. CASE (\E o \in Orders : Checkout(o)) \/ (\E d \in Disbs : Expire(d)) \/ UNCHANGED vars
  BY <1>2 DEF Checkout, Place, Link, Expire, vars
<1>3. ASSUME NEW h \in Handlers, Credit(h) PROVE faults' = faults
  BY <1>3 DEF Credit, Report, Find, Increment, WriteRow, Stamp
<1>4. ASSUME NEW h \in Handlers, Payout(h) PROVE faults' = faults \/ faults' = faults + 1
  BY <1>4 DEF Payout, Confirm, Request, Create, Offer, Withdraw, CheckBalance, Transferred, Misread, Refused,
              AnswerLost, Persist, Commit, Mark
<1>5. ASSUME NEW h \in Handlers, Throw(h) PROVE faults' = faults + 1
  BY <1>5 DEF Throw
<1> QED BY <1>1, <1>2, <1>3, <1>4, <1>5 DEF Next

(* Every step keeps the balance above the rows and what is in hand.        *)
LEMMA BalancedStep ==
  ASSUME TypeOK, TypeOK', FitInv, Balanced, [Next]_vars
  PROVE  Balanced'
<1>0. /\ disb \in [Disbs -> Disb] /\ debits \in [Disbs -> Nat] /\ job \in [Handlers -> Job]
      /\ balance \in Int /\ Booked \in Int /\ PaidOut \in Int /\ InHand \in Int
      /\ \A h \in Handlers : job[h].step \in PayoutSteps => job[h].row \in Disbs
  BY SumsAreNumbers DEF TypeOK
<1>1. \A h \in Handlers : Waiting(h) \in Nat /\ Waiting(h)' \in Nat
  BY LedgerAssumption DEF Waiting, TypeOK, CreditSteps
<1>a. faults' = 0 => faults = 0
  BY FaultsStay
<1>2. ASSUME NEW h \in Handlers, \A g \in Handlers \ {h} : job'[g] = job[g], Waiting(h)' = 0,
             faults' = 0 => Waiting(h) = 0,
             UNCHANGED <<credits, debits>>, balance' = balance,
             \A d \in Disbs : disb'[d].amount = disb[d].amount \/ debits[d] = 0
      PROVE  Balanced'
  <2>1. Booked' = Booked /\ PaidOut' = PaidOut
    BY <1>2, RowsSame
  <2>2. InHand' = InHand + (Waiting(h)' - Waiting(h))
    BY <1>2, HandMoves
  <2> QED BY <1>0, <1>1, <1>2, <1>a, <2>1, <2>2 DEF Balanced
<1>3. ASSUME NEW h \in Handlers, job' = [job EXCEPT ![h] = Idle]
      PROVE  Waiting(h)' = 0 /\ \A g \in Handlers \ {h} : job'[g] = job[g]
  BY <1>0, <1>3 DEF Waiting, Idle
<1>4. ASSUME NEW h \in Handlers, NEW from, NEW to, Goto(h, from, to), to # "row"
      PROVE  Waiting(h)' = 0 /\ \A g \in Handlers \ {h} : job'[g] = job[g]
  BY <1>0, <1>4 DEF Waiting, Goto, Job
<1>5. ASSUME NEW h \in Handlers, NEW s, NEW r, NEW n, Start(h, s, r, n), s # "row"
      PROVE  Waiting(h)' = 0 /\ \A g \in Handlers \ {h} : job'[g] = job[g]
  BY <1>0, <1>5 DEF Waiting, Start
<1>6. CASE UNCHANGED <<job, credits, debits, balance>> /\
             \A d \in Disbs : disb'[d].amount = disb[d].amount
  <2>1. Booked' = Booked /\ PaidOut' = PaidOut
    BY <1>6, RowsSame
  <2>2. InHand' = InHand
    BY <1>6 DEF InHand, Waiting
  <2> QED BY <1>6, <1>a, <2>1, <2>2 DEF Balanced
<1>7. CASE (\E o \in Orders : Checkout(o)) \/ (\E d \in Disbs : Expire(d)) \/ UNCHANGED vars
  <2>1. UNCHANGED <<job, credits, debits, balance>>
    BY <1>7 DEF Checkout, Place, Link, Expire, money, shop, vars
  <2>2. \A d \in Disbs : disb'[d].amount = disb[d].amount
    BY <1>0, <1>7 DEF Checkout, Place, Link, Expire, vars, Disb
  <2> QED BY <1>6, <2>1, <2>2
<1>8. ASSUME NEW h \in Handlers,
             (\E o \in Orders : Report(h, o)) \/ Find(h) \/ Stamp(h)
               \/ (\E d \in Disbs : Confirm(h, d) \/ \E n \in Amounts : Request(h, d, n))
               \/ CheckBalance(h) \/ Transferred(h) \/ Misread(h) \/ Refused(h) \/ AnswerLost(h) \/ Mark(h)
               \/ Throw(h)
      PROVE  Balanced'
  <2>1. UNCHANGED <<credits, debits>> /\ balance' = balance /\ disb' = disb
    BY <1>8 DEF Report, Find, Stamp, Confirm, Request, CheckBalance, Transferred, Misread, Refused,
                AnswerLost, Mark, Throw, shop, pays, money
  <2>2. Waiting(h)' = 0 /\ \A g \in Handlers \ {h} : job'[g] = job[g]
    BY <1>3, <1>4, <1>5, <1>8 DEF Report, Find, Stamp, Confirm, Request, CheckBalance, Transferred, Misread,
       Refused, GiveUp, AnswerLost, Mark, Throw, Stop
  <2>3. faults' = 0 => Waiting(h) = 0
    <3>1. CASE Throw(h)
      BY <3>1 DEF Throw, TypeOK
    <3>2. CASE ~Throw(h)
      BY <1>8, <3>2 DEF Report, Find, Stamp, Confirm, Request, CheckBalance, Transferred, Misread, Refused,
         GiveUp, AnswerLost, Mark, Start, Stop, Goto, At, Waiting
    <3> QED BY <3>1, <3>2
  <2> QED BY <1>2, <2>1, <2>2, <2>3
<1>9. ASSUME NEW h \in Handlers, Create(h) \/ Offer(h) \/ Withdraw(h) \/ Persist(h)
      PROVE  Balanced'
  <2> DEFINE d == job[h].row
  <2>1. UNCHANGED <<credits, debits>> /\ balance' = balance
    BY <1>9 DEF Create, Offer, Withdraw, Persist, shop
  <2>2. Waiting(h)' = 0 /\ \A g \in Handlers \ {h} : job'[g] = job[g]
    BY <1>3, <1>4, <1>9 DEF Create, Offer, Withdraw, Persist, Stop
  <2>6. Waiting(h) = 0
    BY <1>9 DEF Create, Offer, Withdraw, Persist, Goto, Stop, At, Waiting
  <2>3. d \in Disbs
    BY <1>0, <1>9 DEF Create, Offer, Withdraw, Persist, Goto, Stop, At, PayoutSteps
  <2>4. \A e \in Disbs \ {d} : disb'[e] = disb[e]
    BY <1>0, <1>9 DEF Create, Offer, Withdraw, Persist
  <2>5. disb'[d].amount = disb[d].amount \/ debits[d] = 0
    <3>1. CASE Create(h)
      BY <2>3, <3>1 DEF Create, Goto, At, FitInv, JobFits, RowFresh
    <3>2. CASE Offer(h) \/ Withdraw(h) \/ Persist(h)
      BY <1>0, <2>3, <3>2 DEF Offer, Withdraw, Persist, Disb
    <3> QED BY <1>9, <3>1, <3>2
  <2> QED BY <1>2, <2>1, <2>2, <2>4, <2>5, <2>6
<1>10. ASSUME NEW h \in Handlers, Increment(h) PROVE Balanced'
  <2>1. /\ job[h].step = "increment" /\ job'[h].step = "row" /\ job'[h].row = job[h].row
        /\ \A g \in Handlers \ {h} : job'[g] = job[g]
        /\ UNCHANGED <<credits, debits, disb>> /\ balance' = balance + job[h].amount
    BY <1>0, <1>10 DEF Increment, Incremented, Goto, At, Job, shop, pays
  <2>2. Waiting(h) = 0 /\ Waiting(h)' = Net[job[h].row]
    BY <2>1 DEF Waiting
  <2>3. job[h].amount = Net[job[h].row]
    BY <2>1 DEF FitInv, JobFits
  <2>4. Booked' = Booked /\ PaidOut' = PaidOut
    BY <2>1, RowsSame
  <2>5. InHand' = InHand + (Waiting(h)' - Waiting(h))
    BY <2>1, HandMoves
  <2> QED BY <1>0, <1>1, <1>a, <2>1, <2>2, <2>3, <2>4, <2>5 DEF Balanced
<1>11. ASSUME NEW h \in Handlers, WriteRow(h) PROVE Balanced'
  <2>1. /\ job[h].step = "row" /\ job'[h].step = "stamp" /\ job[h].row \in Orders
        /\ \A g \in Handlers \ {h} : job'[g] = job[g]
        /\ credits' = [credits EXCEPT ![job[h].row] = @ + 1]
        /\ UNCHANGED <<debits, disb>> /\ balance' = balance
    BY <1>0, <1>11 DEF WriteRow, Goto, At, Job, pays, TypeOK, CreditSteps
  <2>2. Waiting(h) = Net[job[h].row] /\ Waiting(h)' = 0
    BY <2>1 DEF Waiting
  <2>3. Booked' = Booked + Net[job[h].row]
    BY <2>1, BookedMore
  <2>4. PaidOut' = PaidOut
    BY <2>1 DEF PaidOut
  <2>5. InHand' = InHand + (Waiting(h)' - Waiting(h))
    BY <2>1, HandMoves
  <2> QED BY <1>0, <1>1, <1>a, <2>1, <2>2, <2>3, <2>4, <2>5 DEF Balanced
<1>12. ASSUME NEW h \in Handlers, Commit(h) PROVE Balanced'
  <2> DEFINE d == job[h].row
  <2>1. /\ job[h].step = "commit" /\ job'[h].step = "mark" /\ d \in Disbs
        /\ \A g \in Handlers \ {h} : job'[g] = job[g]
        /\ debits' = [debits EXCEPT ![d] = @ + 1]
        /\ credits' = credits /\ balance' = balance - job[h].amount
    BY <1>0, <1>12 DEF Commit, Goto, At, Job, shop, PayoutSteps
  <2>2. \A e \in Disbs : disb'[e].amount = disb[e].amount
    BY <1>0, <1>12, <2>1 DEF Commit, Disb
  <2>3. job[h].amount = disb[d].amount /\ disb[d].amount \in Int
    BY <1>0, <2>1 DEF FitInv, JobFits, Disb
  <2>4. Booked' = Booked
    BY <2>1 DEF Booked
  <2>5. PaidOut' = PaidOut + disb[d].amount
    BY <2>1, <2>2, PaidMore
  <2>6. InHand' = InHand + (Waiting(h)' - Waiting(h)) /\ Waiting(h) = 0 /\ Waiting(h)' = 0
    BY <2>1, HandMoves DEF Waiting
  <2> QED BY <1>0, <1>a, <2>1, <2>3, <2>4, <2>5, <2>6 DEF Balanced
<1> QED BY <1>7, <1>8, <1>9, <1>10, <1>11, <1>12 DEF Next, Credit, Payout

(* The balance covers the rows of the ledger, for any number of orders,    *)
(* disbursements and handlers, and equals them when nothing has failed and *)
(* no credit is half written (creditMerchantLedger, confirmDisbursement).  *)
THEOREM LedgerCoversHolds == Spec => []LedgerCovers
<1>1. Init => FitInv /\ Balanced
  <2> SUFFICES ASSUME Init PROVE FitInv /\ Balanced
      OBVIOUS
  <2>1. FitInv
    BY DEF Init, FitInv, JobFits, RowFresh, Idle, PayoutSteps
  <2>2. TypeOK
    BY StepsDiffer DEF Init, TypeOK, Order, Disb, Status, Job, Idle
  <2>3. Booked = 0
    <3>1. [o \in Orders |-> credits[o] * Net[o]] \in [Orders -> Int]
      BY <2>2, BookedType DEF TypeOK
    <3>2. \A o \in Orders : credits[o] * Net[o] = 0
      <4>1. \A o \in Orders : credits[o] = 0 /\ Net[o] \in Int
        BY LedgerAssumption DEF Init
      <4> QED BY <4>1, Products
    <3> QED BY <3>1, <3>2, SumZero, LedgerAssumption DEF Booked
  <2>4. PaidOut = 0
    <3>1. [d \in Disbs |-> debits[d] * disb[d].amount] \in [Disbs -> Int]
      BY <2>2, PaidType DEF TypeOK
    <3>2. \A d \in Disbs : debits[d] * disb[d].amount = 0
      <4>1. \A d \in Disbs : debits[d] = 0 /\ disb[d].amount \in Int
        BY <2>2 DEF Init, TypeOK, Disb
      <4> QED BY <4>1, Products
    <3> QED BY <3>1, <3>2, SumZero, LedgerAssumption DEF PaidOut
  <2>5. InHand = 0
    <3>1. \A h \in Handlers : Waiting(h) = 0
      BY DEF Init, Waiting, Idle
    <3> QED BY <3>1, SumZero, LedgerAssumption DEF InHand
  <2> QED BY <2>1, <2>3, <2>4, <2>5 DEF Init, Balanced
<1>2. TypeOK /\ TypeOK' /\ FitInv /\ Balanced /\ [Next]_vars => FitInv' /\ Balanced'
  BY FitStep, BalancedStep
<1>3. TypeOK /\ Balanced => LedgerCovers
  <2> SUFFICES ASSUME TypeOK, Balanced PROVE LedgerCovers
      OBVIOUS
  <2>1. balance \in Int /\ Booked \in Int /\ PaidOut \in Int /\ InHand \in Int /\ InHand >= 0
    BY SumsAreNumbers DEF TypeOK
  <2>2. (\A h \in Handlers : ~At(h, "row")) => InHand = 0
    <3> SUFFICES ASSUME \A h \in Handlers : ~At(h, "row") PROVE InHand = 0
        OBVIOUS
    <3>1. \A h \in Handlers : Waiting(h) = 0
      BY DEF At, Waiting
    <3> QED BY <3>1, SumZero, LedgerAssumption DEF InHand
  <2> QED BY <2>1, <2>2 DEF Balanced, LedgerCovers
<1> QED BY <1>1, <1>2, <1>3, TypeCorrect, PTL DEF Spec
=============================================================================
