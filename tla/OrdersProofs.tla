---------------------------- MODULE OrdersProofs ----------------------------
(***************************************************************************)
(* Proofs about Orders, for any number of concurrent requests, experts,    *)
(* files and amounts.  What a request decides was true of the row it read; *)
(* the invariant says which of it is still true of the row it writes: a    *)
(* report stays and a payment stays, a status and an assignee do not.      *)
(***************************************************************************)
EXTENDS Orders, TLAPS

(* What the guards of a request said of the row it has read.               *)
Asked(q, r) ==
  /\ q.op = "status" => /\ q.target \in Transitions[r.status]
                        /\ q.target = "delivered" => r.report # None
  /\ q.op = "received" => "paid" \in Transitions[r.status]
  /\ q.op = "refunded" => /\ "refunded" \in Transitions[r.status]
                          /\ q.amount # None /\ r.amount # None => q.amount <= r.amount
  /\ q.op = "not_received" => r.status \in {"pending_payment", "payment_failed"}
  /\ q.op = "assign" => r.status \in {"paid", "in_progress"}
  /\ q.op = "report" => /\ r.status \in {"in_progress", "delivered"}
                        /\ q.by = None \/ r.assignee = q.by

Worked == {"paid", "in_progress", "delivered", "refunded"}

(* The two row invariants hold of a row that was read as well.             *)
RowRight(r) == /\ r.status = "delivered" => r.report # None
               /\ r.status \in Worked => r.paid

ReadRight(s) == /\ RowRight(read[s])
                /\ read[s].report # None => row.report # None
                /\ read[s].paid => row.paid

WritersRight == \A s \in Staff : pc[s] = "writing" => Asked(request[s], read[s]) /\ ReadRight(s)
TellersRight == \A s \in Staff : pc[s] = "telling" => Writable(Template(request[s].op))

OrdersInv ==
  /\ TypeOK
  /\ RowRight(row)
  /\ WritersRight /\ TellersRight
  /\ MailsCanBeWritten
  /\ AuditTellsStatus
  /\ row.status # "refunded" => refund = None \/ overtaken

-----------------------------------------------------------------------------
(* The transition table, entry by entry                                    *)
LEMMA Table ==
  /\ Statuses = {"pending_payment", "payment_failed", "paid", "in_progress", "delivered", "refunded"}
  /\ Transitions["pending_payment"] = {"paid", "payment_failed"}
  /\ Transitions["payment_failed"] = {"paid"}
  /\ Transitions["paid"] = {"in_progress", "refunded"}
  /\ Transitions["in_progress"] = {"delivered", "refunded"}
  /\ Transitions["delivered"] = {"refunded"}
  /\ Transitions["refunded"] = {}
BY DEF Statuses, Transitions

(* What SET_STATUS_SQL leaves on the row                                   *)
LEMMA StatusSet ==
  ASSUME row \in Rows, NEW t \in Statuses
  PROVE  /\ WithStatus(t) \in Rows
         /\ WithStatus(t).status = t
         /\ WithStatus(t).paid = (IF t = "paid" THEN TRUE ELSE row.paid)
         /\ WithStatus(t).refunded = (IF t = "refunded" THEN TRUE ELSE row.refunded)
         /\ WithStatus(t).amount = row.amount
         /\ WithStatus(t).report = row.report
         /\ WithStatus(t).assignee = row.assignee
BY DEF WithStatus, Rows
-----------------------------------------------------------------------------
(* Type correctness of the steps *)

LEMMA InitType == Init => TypeOK
<1>. SUFFICES ASSUME Init PROVE TypeOK
  OBVIOUS
<1>1. row \in Rows
  <2>1. row = [status |-> "pending_payment", paid |-> FALSE, refunded |-> FALSE,
               amount |-> None, report |-> None, assignee |-> None]
    BY DEF Init
  <2>. QED
    BY <2>1, Table DEF Rows
<1>2. audited \in Statuses /\ refund \in Amounts \cup {None} /\ mails \subseteq Templates
  BY Table DEF Init
<1>. QED
  BY <1>1, <1>2 DEF Init, TypeOK

LEMMA BeginType ==
  ASSUME TypeOK, NEW s \in Staff, NEW q \in Requests, Begin(s, q)
  PROVE  TypeOK'
BY DEF TypeOK, Begin

(* Whatever a request asks, it has a type the schemas admit.               *)
LEMMA Asks ==
  ASSUME NEW s \in Staff
  PROVE  /\ \A t \in Statuses : AskStatus(s, t) =>
              \E q \in Requests : Begin(s, q) /\ q.op = "status" /\ q.target = t
         /\ \A a \in Amounts : AskReceived(s, a) =>
              \E q \in Requests : Begin(s, q) /\ q.op = "received"
         /\ \A a \in Amounts \cup {None} : AskRefunded(s, a) =>
              \E q \in Requests : Begin(s, q) /\ q.op = "refunded" /\ q.amount = a
         /\ AskNotReceived(s) => \E q \in Requests : Begin(s, q) /\ q.op = "not_received"
         /\ \A x \in Experts : AskAssign(s, x) =>
              \E q \in Requests : Begin(s, q) /\ q.op = "assign"
         /\ \A f \in Files, by \in Experts \cup {None} : AskReport(s, f, by) =>
              \E q \in Requests : Begin(s, q) /\ q.op = "report" /\ q.by = by
<1>1. ASSUME NEW t \in Statuses
      PROVE  [op |-> "status", target |-> t] \in Requests
  BY DEF Requests
<1>2. ASSUME NEW a \in Amounts
      PROVE  [op |-> "received", amount |-> a] \in Requests
  BY DEF Requests
<1>3. ASSUME NEW a \in Amounts \cup {None}
      PROVE  [op |-> "refunded", amount |-> a] \in Requests
  BY DEF Requests
<1>4. [op |-> "not_received"] \in Requests
  BY DEF Requests
<1>5. ASSUME NEW x \in Experts
      PROVE  [op |-> "assign", expert |-> x] \in Requests
  BY DEF Requests
<1>6. ASSUME NEW f \in Files, NEW by \in Experts \cup {None}
      PROVE  [op |-> "report", file |-> f, by |-> by] \in Requests
  BY DEF Requests
<1>. QED
  BY <1>1, <1>2, <1>3, <1>4, <1>5, <1>6
     DEF AskStatus, AskReceived, AskRefunded, AskNotReceived, AskAssign, AskReport
-----------------------------------------------------------------------------
(* Steps *)

(* No transaction takes a report, a payment or a refund off the row.       *)
Grows == /\ row' \in Rows
         /\ row.report # None => row'.report # None
         /\ row.amount # None => row'.amount # None
         /\ row.paid => row'.paid
         /\ row.refunded => row'.refunded

(* What a commit leaves to the other requests and to the e-mails           *)
LEMMA OthersKeep ==
  ASSUME OrdersInv, Grows, NEW s \in Staff, UNCHANGED mails,
         \/ Ends(s)
         \/ GoesOnToTell(s) /\ Writable(Template(request[s].op))'
  PROVE  WritersRight' /\ TellersRight' /\ MailsCanBeWritten'
<1>. USE DEF OrdersInv, TypeOK, Grows, Ends, GoesOnToTell
<1>1. ASSUME NEW t PROVE Writable(t) => Writable(t)'
  BY DEF Writable
<1>2. WritersRight'
  BY DEF WritersRight, ReadRight
<1>3. TellersRight'
  BY <1>1 DEF TellersRight
<1>4. MailsCanBeWritten'
  BY <1>1 DEF MailsCanBeWritten
<1>. QED
  BY <1>2, <1>3, <1>4

LEMMA BeginStep ==
  ASSUME OrdersInv, NEW s \in Staff, NEW q \in Requests, Begin(s, q), Asked(q, row)
  PROVE  OrdersInv'
<1>. USE DEF OrdersInv, Begin
<1>1. TypeOK'
  BY BeginType
<1>2. RowRight(row)' /\ MailsCanBeWritten' /\ AuditTellsStatus'
  BY DEF RowRight, MailsCanBeWritten, Writable, AuditTellsStatus
<1>3. WritersRight'
  BY DEF WritersRight, ReadRight, TypeOK
<1>4. TellersRight'
  BY DEF TellersRight, TypeOK, Writable
<1>. QED
  BY <1>1, <1>2, <1>3, <1>4

(* What a request that writes can rely on                                  *)
LEMMA WriterKnows ==
  ASSUME OrdersInv, NEW s \in Staff, NEW op, Writes(s, op)
  PROVE  /\ request[s] \in Requests /\ read[s] \in Rows /\ row \in Rows
         /\ Asked(request[s], read[s]) /\ ReadRight(s) /\ request[s].op = op
         /\ overtaken' \in BOOLEAN
         /\ ~overtaken' => ~overtaken /\ read[s] = row
BY DEF OrdersInv, TypeOK, Writes, WritersRight

(* The bookkeeping of a request keeps its type.                            *)
LEMMA RequestsType ==
  ASSUME TypeOK, NEW s \in Staff, Ends(s) \/ (pc[s] = "writing" /\ GoesOnToTell(s))
  PROVE  /\ pc' \in [Staff -> {"idle", "writing", "telling"}]
         /\ request' \in [Staff -> Requests \cup {None}]
         /\ read' \in [Staff -> Rows \cup {None}]
         /\ \A t \in Staff : pc'[t] # "idle" => request'[t] \in Requests /\ read'[t] \in Rows
BY DEF TypeOK, Ends, GoesOnToTell

LEMMA SetStatusStep ==
  ASSUME OrdersInv, NEW s \in Staff, SetStatus(s)
  PROVE  OrdersInv'
<1>. DEFINE t == request[s].target
<1>1. /\ t \in Statuses /\ request[s].op = "status"
      /\ t \in Transitions[read[s].status] /\ (t = "delivered" => read[s].report # None)
  BY WriterKnows DEF SetStatus, Asked, Requests
<1>a. row' = WithStatus(t) /\ row \in Rows
  BY WriterKnows DEF SetStatus
<1>2. /\ Grows
      /\ row'.status = t /\ row'.report = row.report
      /\ t = "paid" \/ row.paid => row'.paid
  BY <1>1, <1>a, StatusSet DEF Grows
<1>3. RowRight(row)'
  BY <1>1, <1>2, WriterKnows, Table DEF SetStatus, RowRight, ReadRight, Worked, Rows
<1>4. AuditTellsStatus'
  BY <1>2 DEF SetStatus, AuditTellsStatus
<1>5. TypeOK'
  BY <1>1, <1>2, RequestsType, WriterKnows DEF SetStatus, OrdersInv, TypeOK, Grows
<1>6. WritersRight' /\ TellersRight' /\ MailsCanBeWritten'
  BY <1>2, OthersKeep DEF SetStatus
<1>7. row'.status # "refunded" => refund' = None \/ overtaken'
  BY <1>1, <1>2, WriterKnows, Table DEF SetStatus, OrdersInv
<1>. QED
  BY <1>3, <1>4, <1>5, <1>6, <1>7 DEF OrdersInv

LEMMA ReceiveStep ==
  ASSUME OrdersInv, NEW s \in Staff, Receive(s)
  PROVE  OrdersInv'
<1>1. /\ request[s].op = "received" /\ request[s].amount \in Amounts
      /\ "paid" \in Transitions[read[s].status] /\ read[s] \in Rows /\ row \in Rows
  BY WriterKnows DEF Receive, Asked, Requests
<1>2. row' \in Rows
  BY <1>1, Table DEF Receive, Rows
<1>3. /\ row'.status = "paid" /\ row'.paid = TRUE /\ row'.amount = request[s].amount
      /\ row'.report = row.report /\ row'.refunded = row.refunded
  BY <1>1 DEF Receive, Rows
<1>4. Grows /\ row'.amount # None
  BY <1>1, <1>2, <1>3, NoneAssumption DEF Grows
<1>5. RowRight(row)' /\ AuditTellsStatus'
  BY <1>3 DEF Receive, RowRight, AuditTellsStatus
<1>6. TypeOK'
  BY <1>2, Table, RequestsType, WriterKnows DEF Receive, Writes, OrdersInv, TypeOK
<1>7. WritersRight' /\ TellersRight' /\ MailsCanBeWritten'
  <2>1. Writable(Template(request[s].op))'
    BY <1>1, <1>4 DEF Receive, GoesOnToTell, Template, Writable
  <2>. QED
    BY <1>4, <2>1, OthersKeep DEF Receive
<1>8. row'.status # "refunded" => refund' = None \/ overtaken'
  BY <1>1, WriterKnows, Table DEF Receive, OrdersInv
<1>. QED
  BY <1>5, <1>6, <1>7, <1>8 DEF OrdersInv

LEMMA RefundStep ==
  ASSUME OrdersInv, NEW s \in Staff, Refund(s)
  PROVE  OrdersInv'
<1>1. /\ request[s].op = "refunded" /\ request[s].amount \in Amounts \cup {None}
      /\ "refunded" \in Transitions[read[s].status] /\ read[s] \in Rows /\ row \in Rows
  BY WriterKnows DEF Refund, Asked, Requests
<1>2. /\ Grows
      /\ row'.status = "refunded" /\ row'.refunded /\ row'.report = row.report
      /\ row.paid => row'.paid
  BY <1>1, StatusSet, Table DEF Refund, Grows
<1>3. RowRight(row)'
  BY <1>1, <1>2, WriterKnows, Table DEF Refund, RowRight, ReadRight, Worked, Rows
<1>4. AuditTellsStatus'
  BY <1>2 DEF Refund, AuditTellsStatus
<1>5. TypeOK'
  BY <1>1, <1>2, Table, RequestsType, WriterKnows DEF Refund, Writes, OrdersInv, TypeOK, Grows
<1>6. WritersRight' /\ TellersRight' /\ MailsCanBeWritten'
  <2>1. Writable(Template(request[s].op))'
    BY <1>1, <1>2 DEF Refund, GoesOnToTell, Template, Writable
  <2>. QED
    BY <1>2, <2>1, OthersKeep DEF Refund
<1>7. row'.status # "refunded" => refund' = None \/ overtaken'
  BY <1>2
<1>. QED
  BY <1>3, <1>4, <1>5, <1>6, <1>7 DEF OrdersInv

LEMMA NotReceivedStep ==
  ASSUME OrdersInv, NEW s \in Staff, NotReceived(s)
  PROVE  OrdersInv'
<1>1. /\ read[s].status \in {"pending_payment", "payment_failed"} /\ row \in Rows
      /\ ~overtaken' => ~overtaken /\ read[s] = row
  BY WriterKnows DEF NotReceived, Asked
<1>2. /\ Grows /\ row'.report = row.report
      /\ row'.status \in {"payment_failed", row.status}
      /\ ~overtaken' => row'.status = "payment_failed"
  <2>1. CASE read[s].status = "payment_failed"
    BY <1>1, <2>1 DEF NotReceived, Grows
  <2>2. CASE read[s].status # "payment_failed"
    <3>1. row' = WithStatus("payment_failed")
      BY <2>2 DEF NotReceived
    <3>. QED
      BY <1>1, <3>1, StatusSet, Table DEF Grows
  <2>. QED
    BY <2>1, <2>2
<1>3. RowRight(row)'
  BY <1>2 DEF RowRight, OrdersInv, Worked, Grows
<1>4. AuditTellsStatus'
  BY <1>2 DEF NotReceived, AuditTellsStatus
<1>5. TypeOK'
  BY <1>1, <1>2, Table, RequestsType, WriterKnows DEF NotReceived, Writes, OrdersInv, TypeOK, Grows
<1>6. WritersRight' /\ TellersRight' /\ MailsCanBeWritten'
  BY <1>2, OthersKeep DEF NotReceived
<1>7. row'.status # "refunded" => refund' = None \/ overtaken'
  BY <1>1, WriterKnows DEF NotReceived, OrdersInv
<1>. QED
  BY <1>3, <1>4, <1>5, <1>6, <1>7 DEF OrdersInv

(* An assignment starts the work of an order it read as paid.              *)
LEMMA AssignStep ==
  ASSUME OrdersInv, NEW s \in Staff, Assign(s)
  PROVE  OrdersInv'
<1>. DEFINE starts == read[s].status = "paid"
            base == IF starts THEN WithStatus("in_progress") ELSE row
<1>1. /\ read[s].status \in {"paid", "in_progress"} /\ read[s] \in Rows /\ row \in Rows
      /\ request[s].expert \in Experts
  BY WriterKnows DEF Assign, Asked, Requests
<1>2. /\ base \in Rows /\ base.report = row.report /\ base.amount = row.amount
      /\ base.paid = row.paid /\ base.refunded = row.refunded
      /\ base.status = IF starts THEN "in_progress" ELSE row.status
  BY <1>1, StatusSet, Table
<1>3. row' = [base EXCEPT !.assignee = request[s].expert]
  BY DEF Assign
<1>. HIDE DEF base
<1>4. /\ row' \in Rows /\ row'.report = row.report /\ row'.amount = row.amount
      /\ row'.paid = row.paid /\ row'.refunded = row.refunded
      /\ row'.status = base.status
  BY <1>1, <1>2, <1>3 DEF Rows
<1>5. Grows
  BY <1>4 DEF Grows
<1>6. RowRight(row)'
  <2>1. starts => row.paid
    BY WriterKnows DEF ReadRight, RowRight, Worked, Assign
  <2>. QED
    BY <1>2, <1>4, <2>1 DEF RowRight, OrdersInv, Worked
<1>7. AuditTellsStatus'
  BY <1>2, <1>4, WriterKnows DEF Assign, AuditTellsStatus, OrdersInv
<1>8. TypeOK'
  BY <1>4, Table, RequestsType, WriterKnows DEF Assign, Writes, OrdersInv, TypeOK
<1>9. WritersRight' /\ TellersRight' /\ MailsCanBeWritten'
  BY <1>5, OthersKeep DEF Assign
<1>10. row'.status # "refunded" => refund' = None \/ overtaken'
  BY <1>1, WriterKnows DEF Assign, OrdersInv
<1>. QED
  BY <1>6, <1>7, <1>8, <1>9, <1>10 DEF OrdersInv

LEMMA ReportStep ==
  ASSUME OrdersInv, NEW s \in Staff, Report(s)
  PROVE  OrdersInv'
<1>1. /\ request[s].op = "report" /\ request[s].file \in Files
      /\ read[s].status \in {"in_progress", "delivered"}
      /\ read[s] \in Rows /\ row \in Rows
  BY WriterKnows DEF Report, Asked, Requests
<1>2. /\ row' \in Rows
      /\ row'.status = "delivered" /\ row'.report = request[s].file
      /\ row'.paid = row.paid /\ row'.amount = row.amount /\ row'.refunded = row.refunded
  BY <1>1, Table DEF Report, Rows
<1>3. Grows /\ row'.report # None
  BY <1>1, <1>2, NoneAssumption DEF Grows
<1>4. row.paid
  BY <1>1, WriterKnows DEF ReadRight, RowRight, Worked, Report
<1>5. RowRight(row)'
  BY <1>2, <1>3, <1>4 DEF RowRight
<1>6. AuditTellsStatus'
  BY <1>2, WriterKnows DEF Report, AuditTellsStatus, OrdersInv
<1>7. TypeOK'
  BY <1>2, Table, RequestsType, WriterKnows DEF Report, Writes, OrdersInv, TypeOK
<1>8. WritersRight' /\ TellersRight' /\ MailsCanBeWritten'
  <2>1. Writable(Template(request[s].op))'
    BY <1>1, <1>3 DEF Report, GoesOnToTell, Template, Writable
  <2>. QED
    BY <1>3, <2>1, OthersKeep DEF Report
<1>9. row'.status # "refunded" => refund' = None \/ overtaken'
  BY <1>1, WriterKnows DEF Report, OrdersInv
<1>. QED
  BY <1>5, <1>6, <1>7, <1>8, <1>9 DEF OrdersInv

(* An e-mail is queued about something that is on the order by then.       *)
LEMMA TellStep ==
  ASSUME OrdersInv, NEW s \in Staff, Tell(s)
  PROVE  OrdersInv'
<1>1. /\ UNCHANGED <<row, audited, refund, overtaken>>
      /\ Writable(Template(request[s].op)) /\ Template(request[s].op) \in Templates
  BY DEF Tell, OrdersInv, TellersRight, Template, Templates
<1>2. TypeOK'
  BY <1>1, RequestsType DEF Tell, OrdersInv, TypeOK
<1>3. ASSUME NEW t PROVE Writable(t)' = Writable(t)
  BY <1>1 DEF Writable
<1>4. MailsCanBeWritten'
  BY <1>1, <1>3 DEF Tell, OrdersInv, MailsCanBeWritten
<1>5. WritersRight' /\ TellersRight'
  BY <1>1, <1>3 DEF Tell, Ends, OrdersInv, TypeOK, WritersRight, ReadRight, TellersRight
<1>. QED
  BY <1>1, <1>2, <1>4, <1>5 DEF OrdersInv, RowRight, AuditTellsStatus

LEMMA GiveUpStep ==
  ASSUME OrdersInv, NEW s \in Staff, GiveUp(s)
  PROVE  OrdersInv'
<1>1. UNCHANGED <<row, audited, refund, mails, overtaken>> /\ Ends(s) /\ row \in Rows
  BY DEF GiveUp, OrdersInv, TypeOK
<1>2. TypeOK'
  BY <1>1, RequestsType DEF OrdersInv, TypeOK
<1>3. WritersRight' /\ TellersRight' /\ MailsCanBeWritten'
  BY <1>1, OthersKeep DEF Grows
<1>. QED
  BY <1>1, <1>2, <1>3 DEF OrdersInv, RowRight, AuditTellsStatus

LEMMA AskStep ==
  ASSUME OrdersInv, NEW s \in Staff,
         \/ \E t \in Statuses : AskStatus(s, t)
         \/ \E a \in Amounts : AskReceived(s, a)
         \/ \E a \in Amounts \cup {None} : AskRefunded(s, a)
         \/ AskNotReceived(s)
         \/ \E x \in Experts : AskAssign(s, x)
         \/ \E f \in Files, by \in Experts \cup {None} : AskReport(s, f, by)
  PROVE  OrdersInv'
<1>. row \in Rows
  BY DEF OrdersInv, TypeOK
<1>. SUFFICES \E q \in Requests : Begin(s, q) /\ Asked(q, row)
  BY BeginStep
<1>1. CASE \E t \in Statuses : AskStatus(s, t)
  BY <1>1, Asks DEF AskStatus, StatusAllowed, CanTransition, Asked
<1>2. CASE \E a \in Amounts : AskReceived(s, a)
  BY <1>2, Asks DEF AskReceived, CanTransition, Asked
<1>3. CASE \E a \in Amounts \cup {None} : AskRefunded(s, a)
  BY <1>3, Asks DEF AskRefunded, RefundAllowed, CanTransition, Asked
<1>4. CASE AskNotReceived(s)
  <2>1. row.status \in {"pending_payment", "payment_failed"}
    BY <1>4, Table DEF AskNotReceived, NotReceivedAllowed, CanTransition, Rows
  <2>. QED
    BY <1>4, <2>1, Asks DEF Asked
<1>5. CASE \E x \in Experts : AskAssign(s, x)
  BY <1>5, Asks DEF AskAssign, Assignable, Asked
<1>6. CASE \E f \in Files, by \in Experts \cup {None} : AskReport(s, f, by)
  BY <1>6, Asks DEF AskReport, ReportAllowed, Asked
<1>. QED
  BY <1>1, <1>2, <1>3, <1>4, <1>5, <1>6

LEMMA InvStep == OrdersInv /\ [Next]_vars => OrdersInv'
<1>. SUFFICES ASSUME OrdersInv, [Next]_vars PROVE OrdersInv'
  OBVIOUS
<1>1. CASE UNCHANGED vars
  BY <1>1 DEF vars, OrdersInv, TypeOK, RowRight, WritersRight, ReadRight, TellersRight,
              MailsCanBeWritten, Writable, AuditTellsStatus
<1>2. CASE Next
  BY <1>2, AskStep, SetStatusStep, ReceiveStep, RefundStep, NotReceivedStep, AssignStep,
     ReportStep, TellStep, GiveUpStep DEF Next
<1>. QED
  BY <1>1, <1>2

LEMMA InitInv == Init => OrdersInv
<1>. SUFFICES ASSUME Init PROVE OrdersInv
  OBVIOUS
<1>1. TypeOK
  BY InitType
<1>2. RowRight(row) /\ WritersRight /\ TellersRight /\ MailsCanBeWritten /\ AuditTellsStatus
  BY DEF Init, RowRight, Worked, WritersRight, TellersRight, MailsCanBeWritten, AuditTellsStatus
<1>. QED
  BY <1>1, <1>2 DEF OrdersInv, Init

LEMMA AlwaysInv == Spec => []OrdersInv
BY InitInv, InvStep, PTL DEF Spec
-----------------------------------------------------------------------------
(* The row fits the schema and a request that waits to write has read it,  *)
(* for any number of requests (orders.py:801, _row).                       *)
THEOREM TypeCorrect == Spec => []TypeOK
<1>1. OrdersInv => TypeOK
  BY DEF OrdersInv
<1>. QED
  BY <1>1, AlwaysInv, PTL

(* A delivered order has a report, an order that is worked on, delivered   *)
(* or refunded was paid, and a queued e-mail finds what it is about,       *)
(* whatever requests interleave: what a request relies on when it writes   *)
(* was on the row it read, and no request takes it off                     *)
(* (orders.py:892-896, 338; jobs/tasks/email.py:130-155).                  *)
THEOREM ClaimsBacked == Spec => []RowBacksClaims
<1>1. OrdersInv => DeliveredHasReport /\ WorkIsPaid
  BY DEF OrdersInv, RowRight, Worked, DeliveredHasReport, WorkIsPaid
<1>2. OrdersInv => RowBacksClaims
  BY <1>1 DEF OrdersInv, RowBacksClaims
<1>. QED
  BY <1>2, AlwaysInv, PTL

(* The newest audit row with a status names the status of the order, as    *)
(* long as no request wrote over a row that had changed since it was read  *)
(* (orders.py:17-18, 1224).                                                *)
THEOREM AuditTells == Spec => []AuditTellsStatus
<1>1. OrdersInv => AuditTellsStatus
  BY DEF OrdersInv
<1>. QED
  BY <1>1, AlwaysInv, PTL

(* An expert delivers only orders assigned to them, as long as the order   *)
(* did not change while the report was uploading (orders.py:19-20, 818).   *)
THEOREM AssigneeDelivers == Spec => DeliveredByAssignee
<1>1. ASSUME OrdersInv, NEW s \in Staff, Report(s), ~overtaken'
      PROVE  request[s].by \in {None, row.assignee}
  BY <1>1, WriterKnows DEF Report, Asked
<1>2. OrdersInv /\ [Next]_vars =>
        [\A s \in Staff : Report(s) /\ ~overtaken' => request[s].by \in {None, row.assignee}]_vars
  BY <1>1
<1>. QED
  BY <1>2, AlwaysInv, PTL DEF Spec, DeliveredByAssignee
-----------------------------------------------------------------------------
(* The requests implement the lifecycle: a commit that nobody overtook is  *)
(* one step of it or leaves the order alone.                               *)

promised == <<row.status, row.amount, row.report, refund>>

LEMMA FlowTable == Promise!Flow = Transitions
BY DEF Promise!Flow, Transitions

(* A change of status alone                                                *)
LEMMA Moves ==
  ASSUME NEW t \in Statuses, t \in Transitions[row.status], t = "delivered" => row.report # None,
         row'.status = t, UNCHANGED <<row.amount, row.report, refund>>
  PROVE  Promise!Next
<1>1. Promise!Move(t)
  BY FlowTable DEF Promise!Move
<1>. QED
  BY <1>1, FlowTable DEF Promise!Next, Statuses

LEMMA PromisedStep ==
  ASSUME OrdersInv, NEW s \in Staff, ~overtaken',
         \/ SetStatus(s) \/ Receive(s) \/ Refund(s)
         \/ NotReceived(s) \/ Assign(s) \/ Report(s)
  PROVE  Promise!Next \/ UNCHANGED promised
<1>1. /\ read[s] = row /\ row \in Rows /\ request[s] \in Requests /\ Asked(request[s], row)
      /\ row.status # "refunded" => refund = None
  BY WriterKnows
     DEF SetStatus, Receive, Refund, NotReceived, Assign, Report, OrdersInv
<1>2. row.status # "refunded" \/ Transitions[row.status] = {}
  BY Table
<1>3. CASE SetStatus(s)
  <2>. DEFINE t == request[s].target
  <2>1. /\ t \in Statuses /\ t \in Transitions[row.status]
        /\ t = "delivered" => row.report # None
    BY <1>1, <1>3, WriterKnows DEF SetStatus, Asked, Requests
  <2>2. row' = WithStatus(t) /\ refund' = refund
    BY <1>1, <1>2, <1>3, <2>1 DEF SetStatus
  <2>. QED
    BY <1>1, <2>1, <2>2, StatusSet, Moves
<1>4. CASE Receive(s)
  <2>1. request[s].amount \in Amounts /\ "paid" \in Transitions[row.status]
    BY <1>1, <1>4, WriterKnows DEF Receive, Asked, Requests
  <2>2. /\ row'.status = "paid" /\ row'.amount = request[s].amount
        /\ row'.report = row.report /\ refund' = refund
    BY <1>1, <1>4 DEF Receive, Rows
  <2>3. Promise!Receive(request[s].amount)
    BY <2>1, <2>2, FlowTable DEF Promise!Receive
  <2>. QED
    BY <2>1, <2>3 DEF Promise!Next
<1>5. CASE Refund(s)
  <2>. DEFINE a == request[s].amount
  <2>1. /\ a \in Amounts \cup {None} /\ "refunded" \in Transitions[row.status]
        /\ a # None /\ row.amount # None => a <= row.amount
    BY <1>1, <1>5, WriterKnows DEF Refund, Asked, Requests
  <2>2. /\ row'.status = "refunded" /\ row'.amount = row.amount
        /\ row'.report = row.report /\ refund' = a
    BY <1>1, <1>5, StatusSet, Table DEF Refund
  <2>3. CASE a = None
    BY <1>1, <1>2, <2>1, <2>2, <2>3, Moves, Table
  <2>4. CASE a # None
    <3>1. Promise!Refund(a)
      BY <2>1, <2>2, <2>4, FlowTable DEF Promise!Refund
    <3>. QED
      BY <2>1, <2>4, <3>1 DEF Promise!Next
  <2>. QED
    BY <2>3, <2>4
<1>6. CASE NotReceived(s)
  <2>1. CASE row.status = "payment_failed"
    BY <1>1, <1>6, <2>1 DEF NotReceived, promised
  <2>2. CASE row.status # "payment_failed"
    <3>1. row.status = "pending_payment"
      BY <1>1, <1>6, <2>2, WriterKnows DEF NotReceived, Asked
    <3>2. row' = WithStatus("payment_failed") /\ refund' = refund
      BY <1>1, <1>6, <2>2 DEF NotReceived
    <3>. QED
      BY <1>1, <3>1, <3>2, StatusSet, Moves, Table
  <2>. QED
    BY <2>1, <2>2
<1>7. CASE Assign(s)
  <2>1. CASE row.status = "paid"
    <3>1. /\ row' = [WithStatus("in_progress") EXCEPT !.assignee = request[s].expert]
          /\ refund' = refund
      BY <1>1, <1>7, <2>1 DEF Assign
    <3>2. /\ row'.status = "in_progress"
          /\ row'.amount = row.amount /\ row'.report = row.report
      BY <1>1, <3>1, StatusSet, Table DEF Rows
    <3>. QED
      BY <1>1, <2>1, <3>1, <3>2, Moves, Table
  <2>2. CASE row.status # "paid"
    <3>1. row' = [row EXCEPT !.assignee = request[s].expert] /\ refund' = refund
      BY <1>1, <1>7, <2>2 DEF Assign
    <3>. QED
      BY <1>1, <3>1 DEF promised, Rows
  <2>. QED
    BY <2>1, <2>2
<1>8. CASE Report(s)
  <2>1. request[s].file \in Files /\ row.status \in {"in_progress", "delivered"}
    BY <1>1, <1>8, WriterKnows DEF Report, Asked, Requests
  <2>2. /\ row'.status = "delivered" /\ row'.report = request[s].file
        /\ row'.amount = row.amount /\ refund' = refund
    BY <1>1, <1>8 DEF Report, Rows
  <2>3. Promise!Deliver(request[s].file)
    BY <2>1, <2>2 DEF Promise!Deliver
  <2>. QED
    BY <2>1, <2>3 DEF Promise!Next
<1>. QED
  BY <1>3, <1>4, <1>5, <1>6, <1>7, <1>8

(* Staff requests that read, decide and write without a lock behave as the *)
(* promised lifecycle does, each one step, as long as none writes over a   *)
(* change it has not seen (orders.py:90-101 and the docstring).            *)
THEOREM Lifecycle == Spec => LifecycleKept
<1>1. Init => Promise!Init
  BY DEF Init, Promise!Init
<1>2. OrdersInv /\ [Next]_vars => [overtaken' \/ Promise!Next]_<<row.status, row.amount, row.report, refund>>
  <2>. SUFFICES ASSUME OrdersInv, Next, ~overtaken'
       PROVE  Promise!Next \/ UNCHANGED promised
    BY DEF vars, promised
  <2>1. PICK s \in Staff :
          \/ \E t \in Statuses : AskStatus(s, t)
          \/ \E a \in Amounts : AskReceived(s, a)
          \/ \E a \in Amounts \cup {None} : AskRefunded(s, a)
          \/ AskNotReceived(s)
          \/ \E x \in Experts : AskAssign(s, x)
          \/ \E f \in Files, by \in Experts \cup {None} : AskReport(s, f, by)
          \/ SetStatus(s) \/ Receive(s) \/ Refund(s) \/ NotReceived(s) \/ Assign(s) \/ Report(s)
          \/ Tell(s) \/ GiveUp(s)
    BY DEF Next
  <2>2. CASE SetStatus(s) \/ Receive(s) \/ Refund(s) \/ NotReceived(s) \/ Assign(s) \/ Report(s)
    BY <2>2, PromisedStep
  <2>3. CASE Tell(s) \/ GiveUp(s)
    BY <2>3 DEF Tell, GiveUp, promised
  <2>4. ASSUME NEW q, Begin(s, q) PROVE UNCHANGED promised
    BY <2>4 DEF Begin, promised
  <2>. QED
    BY <2>1, <2>2, <2>3, <2>4
       DEF AskStatus, AskReceived, AskRefunded, AskNotReceived, AskAssign, AskReport
<1>. QED
  BY <1>1, <1>2, AlwaysInv, PTL DEF Spec, LifecycleKept
=============================================================================
