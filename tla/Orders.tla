------------------------------- MODULE Orders -------------------------------
(***************************************************************************)
(* One expert-analysis order and the staff requests that drive it          *)
(* (api/services/orders.py): set_status, record_payment, assign and        *)
(* upload_report.                                                          *)
(*                                                                         *)
(* Each of them reads the row without a lock, decides on what it has read  *)
(* and later updates the row whatever it is by then, so reading and        *)
(* writing are two actions.  An UPDATE takes the row lock until the commit,*)
(* and nothing is read after it: the writes of a request and its audit row *)
(* are one step.  The e-mail of a request is queued after its commit.      *)
(*                                                                         *)
(* Not here: notes, timestamps beyond "set", bank references, the guest's  *)
(* form, and what the send_email job does with a queued e-mail.            *)
(***************************************************************************)
EXTENDS Naturals

CONSTANTS Staff,    \* requests in flight, each of one staff member
          Experts,  \* staff users with the expert role
          Files,    \* report files, told apart by their content (sha256)
          Amounts,  \* sums of money
          None      \* "no value"; as `by` of an upload: an administrator

ASSUME NoneAssumption == None \notin Experts \cup Files \cup Amounts
ASSUME AmountsAssumption == Amounts \subseteq Nat

Templates == {"payment_received", "order_refunded", "order_delivered"}

(* TRANSITIONS: status -> the statuses it may change to                    *)
Transitions == [pending_payment |-> {"paid", "payment_failed"},
                payment_failed  |-> {"paid"},
                paid            |-> {"in_progress", "refunded"},
                in_progress     |-> {"delivered", "refunded"},
                delivered       |-> {"refunded"},
                refunded        |-> {}]

Statuses == DOMAIN Transitions

(* The columns of orders that decide something; paid and refunded: the     *)
(* timestamps paid_at and refunded_at are set                              *)
Rows == [status : Statuses, paid : BOOLEAN, refunded : BOOLEAN,
         amount : Amounts \cup {None}, report : Files \cup {None},
         assignee : Experts \cup {None}]

Requests ==
       [op : {"status"}, target : Statuses]
  \cup [op : {"received"}, amount : Amounts]
  \cup [op : {"refunded"}, amount : Amounts \cup {None}]
  \cup [op : {"not_received"}]
  \cup [op : {"assign"}, expert : Experts]
  \cup [op : {"report"}, file : Files, by : Experts \cup {None}]

VARIABLES row,      \* the order
          audited,  \* the status the newest audit row with a status names
          refund,   \* the amount of the newest refund on record
          mails,    \* templates an email_log row was queued for
          pc,       \* request -> "idle", "writing" or "telling"
          request,  \* request -> what it asks
          read,     \* request -> the row as it read it
          overtaken \* a request wrote over a row that had changed since

vars == <<row, audited, refund, mails, pc, request, read, overtaken>>

Init ==
  /\ row = [status |-> "pending_payment", paid |-> FALSE, refunded |-> FALSE,
            amount |-> None, report |-> None, assignee |-> None]
  /\ audited = "pending_payment" /\ refund = None /\ mails = {}
  /\ pc = [s \in Staff |-> "idle"]
  /\ request = [s \in Staff |-> None]
  /\ read = [s \in Staff |-> None]
  /\ overtaken = FALSE

-----------------------------------------------------------------------------
(* What a request checks on the row it reads *)

CanTransition(target) == target \in Transitions[row.status]

(* Mutant: the status alone decides.                                       *)
StatusAllowedByTable(target) == CanTransition(target)

StatusAllowed(target) ==
  CanTransition(target) /\ (target = "delivered" => row.report # None)

(* Mutant: the refund is compared with nothing.                            *)
RefundAllowedAny(amount) == CanTransition("refunded")

(* A refund is compared with the payment when both amounts are known.      *)
RefundAllowed(amount) ==
  /\ CanTransition("refunded")
  /\ amount # None /\ row.amount # None => amount <= row.amount

(* not_received on a payment that failed before only adds a note.          *)
NotReceivedAllowed == row.status = "payment_failed" \/ CanTransition("payment_failed")

Assignable == row.status \in {"paid", "in_progress"}

(* Mutant: the owner is not asked when a delivered report is replaced.     *)
ReportAllowedToAnyone(by) ==
  /\ row.status \in {"in_progress", "delivered"}
  /\ by = None \/ row.assignee = by \/ row.status = "delivered"

(* _scope: an expert uploads for orders assigned to them.                  *)
ReportAllowed(by) ==
  /\ row.status \in {"in_progress", "delivered"}
  /\ by = None \/ row.assignee = by

Begin(s, q) ==
  /\ pc[s] = "idle"
  /\ pc' = [pc EXCEPT ![s] = "writing"]
  /\ request' = [request EXCEPT ![s] = q]
  /\ read' = [read EXCEPT ![s] = row]
  /\ UNCHANGED <<row, audited, refund, mails, overtaken>>

AskStatus(s, target) ==
  StatusAllowed(target) /\ Begin(s, [op |-> "status", target |-> target])

AskReceived(s, amount) ==
  CanTransition("paid") /\ Begin(s, [op |-> "received", amount |-> amount])

AskRefunded(s, amount) ==
  RefundAllowed(amount) /\ Begin(s, [op |-> "refunded", amount |-> amount])

AskNotReceived(s) == NotReceivedAllowed /\ Begin(s, [op |-> "not_received"])

AskAssign(s, expert) == Assignable /\ Begin(s, [op |-> "assign", expert |-> expert])

AskReport(s, file, by) ==
  ReportAllowed(by) /\ Begin(s, [op |-> "report", file |-> file, by |-> by])

-----------------------------------------------------------------------------
(* What it writes: one transaction *)

Ends(s) == /\ pc' = [pc EXCEPT ![s] = "idle"]
           /\ request' = [request EXCEPT ![s] = None]
           /\ read' = [read EXCEPT ![s] = None]

Writes(s, op) == /\ pc[s] = "writing" /\ request[s].op = op
                 /\ overtaken' = (overtaken \/ read[s] # row)

(* The customer is told after the commit, with the request's principal.    *)
GoesOnToTell(s) == pc' = [pc EXCEPT ![s] = "telling"] /\ UNCHANGED <<request, read>>

(* Mutant: paid_at is left to SET_PAID_SQL.                                *)
WithStatusUnstamped(target) ==
  [row EXCEPT !.status = target, !.refunded = IF target = "refunded" THEN TRUE ELSE @]

(* SET_STATUS_SQL: the status and the timestamp that belongs to it         *)
WithStatus(target) ==
  [row EXCEPT !.status = target,
              !.paid = IF target = "paid" THEN TRUE ELSE @,
              !.refunded = IF target = "refunded" THEN TRUE ELSE @]

SetStatus(s) ==
  /\ Writes(s, "status")
  /\ row' = WithStatus(request[s].target)
  /\ audited' = request[s].target
  /\ refund' = IF request[s].target = "refunded" THEN None ELSE refund
  /\ Ends(s)
  /\ UNCHANGED mails

(* Mutant: the e-mail is queued before the payment is committed.           *)
ReceiveTellsFirst(s) ==
  /\ Writes(s, "received")
  /\ mails' = mails \cup {"payment_received"}
  /\ UNCHANGED <<row, audited, refund>>
  /\ Ends(s)

(* SET_PAID_SQL *)
Receive(s) ==
  /\ Writes(s, "received")
  /\ row' = [row EXCEPT !.status = "paid", !.paid = TRUE, !.amount = request[s].amount]
  /\ audited' = "paid"
  /\ GoesOnToTell(s)
  /\ UNCHANGED <<refund, mails>>

Refund(s) ==
  /\ Writes(s, "refunded")
  /\ row' = WithStatus("refunded")
  /\ audited' = "refunded" /\ refund' = request[s].amount
  /\ GoesOnToTell(s)
  /\ UNCHANGED mails

(* The status is set unless the row it read had it; the audit row is       *)
(* written in any case.                                                    *)
NotReceived(s) ==
  /\ Writes(s, "not_received")
  /\ row' = IF read[s].status = "payment_failed" THEN row ELSE WithStatus("payment_failed")
  /\ audited' = "payment_failed"
  /\ Ends(s)
  /\ UNCHANGED <<refund, mails>>

(* Mutant: work starts without an audit row of the status.                 *)
AssignUnaudited(s) ==
  /\ Writes(s, "assign")
  /\ row' = [(IF read[s].status = "paid" THEN WithStatus("in_progress") ELSE row)
               EXCEPT !.assignee = request[s].expert]
  /\ Ends(s)
  /\ UNCHANGED <<audited, refund, mails>>

(* SET_ASSIGNEE_SQL, and SET_STATUS_SQL if the row it read was paid        *)
Assign(s) ==
  /\ Writes(s, "assign")
  /\ LET starts == read[s].status = "paid"
     IN /\ row' = [(IF starts THEN WithStatus("in_progress") ELSE row)
                     EXCEPT !.assignee = request[s].expert]
        /\ audited' = IF starts THEN "in_progress" ELSE audited
  /\ Ends(s)
  /\ UNCHANGED <<refund, mails>>

(* SET_REPORT_SQL delivers the order; its status change is audited unless  *)
(* the row it read was delivered already.                                  *)
Report(s) ==
  /\ Writes(s, "report")
  /\ row' = [row EXCEPT !.status = "delivered", !.report = request[s].file]
  /\ audited' = IF read[s].status = "delivered" THEN audited ELSE "delivered"
  /\ GoesOnToTell(s)
  /\ UNCHANGED <<refund, mails>>

(* emails.queue: one e-mail per recorded payment, refund and report        *)
Template(op) == CASE op = "received" -> "payment_received"
                  [] op = "refunded" -> "order_refunded"
                  [] OTHER -> "order_delivered"

Tell(s) ==
  /\ pc[s] = "telling"
  /\ mails' = mails \cup {Template(request[s].op)}
  /\ Ends(s)
  /\ UNCHANGED <<row, audited, refund, overtaken>>

(* The file is refused, the object store or the database is away, or the   *)
(* API process dies: before the commit nothing is kept, after it the       *)
(* e-mail is not queued (or its row is marked failed).                     *)
GiveUp(s) ==
  /\ pc[s] # "idle"
  /\ Ends(s)
  /\ UNCHANGED <<row, audited, refund, mails, overtaken>>

-----------------------------------------------------------------------------
Next ==
  \E s \in Staff :
    \/ \E t \in Statuses : AskStatus(s, t)
    \/ \E a \in Amounts : AskReceived(s, a)
    \/ \E a \in Amounts \cup {None} : AskRefunded(s, a)
    \/ AskNotReceived(s)
    \/ \E x \in Experts : AskAssign(s, x)
    \/ \E f \in Files, by \in Experts \cup {None} : AskReport(s, f, by)
    \/ SetStatus(s) \/ Receive(s) \/ Refund(s) \/ NotReceived(s) \/ Assign(s) \/ Report(s)
    \/ Tell(s) \/ GiveUp(s)

Spec == Init /\ [][Next]_vars

-----------------------------------------------------------------------------
(* Properties *)

(* The row fits the schema and a request that waits to write has read it.  *)
TypeOK ==
  /\ row \in Rows
  /\ audited \in Statuses
  /\ refund \in Amounts \cup {None}
  /\ mails \subseteq Templates
  /\ pc \in [Staff -> {"idle", "writing", "telling"}]
  /\ request \in [Staff -> Requests \cup {None}]
  /\ read \in [Staff -> Rows \cup {None}]
  /\ overtaken \in BOOLEAN
  /\ \A s \in Staff : pc[s] # "idle" => request[s] \in Requests /\ read[s] \in Rows

(* A delivered order has a report to download, however the requests of     *)
(* several staff members interleave (orders.py:892-896).                   *)
DeliveredHasReport == row.status = "delivered" => row.report # None

(* No work without money: whatever interleaves, an order that is in        *)
(* progress, delivered or refunded was paid once (paid_at).                *)
WorkIsPaid == row.status \in {"paid", "in_progress", "delivered", "refunded"} => row.paid

(* The worker that writes an e-mail long after it was queued finds what    *)
(* the e-mail is about on the order: it never fails it for good for a      *)
(* missing payment, refund or report (jobs/tasks/email.py:130-155).        *)
Writable(template) == CASE template = "payment_received" -> row.amount # None
                        [] template = "order_refunded" -> row.refunded
                        [] OTHER -> row.report # None
MailsCanBeWritten == \A t \in mails : Writable(t)

(* All three: what the status and the queued e-mails say of an order is on *)
(* its row, although no request locks the row it has checked.              *)
RowBacksClaims == DeliveredHasReport /\ WorkIsPaid /\ MailsCanBeWritten

(* orders.py:17-18, every change is an audit_log row: the newest one names *)
(* the status the order has, unless a request wrote over another's change. *)
AuditTellsStatus == overtaken \/ audited = row.status

(* orders.py:19-20: an expert delivers only orders assigned to them, as    *)
(* long as nobody reassigns the order while the report uploads.            *)
DeliveredByAssignee ==
  [][\A s \in Staff : Report(s) /\ ~overtaken' =>
       request[s].by \in {None, row.assignee}]_vars

(* The requests behave as if each were one step of the promised lifecycle, *)
(* until one writes over a change it has not seen.                         *)
Promise == INSTANCE OrderLifecycle WITH status <- row.status, amount <- row.amount,
                                        report <- row.report
LifecycleKept ==
  Promise!Init /\ [][overtaken' \/ Promise!Next]_<<row.status, row.amount, row.report, refund>>
=============================================================================
