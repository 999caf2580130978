--------------------------- MODULE OrderLifecycle ---------------------------
(***************************************************************************)
(* What api/services/orders.py promises about an order (its docstring and  *)
(* its transition table), each staff request being one step: the guarded   *)
(* status flow, a report before a delivery, no refund above what came in.  *)
(***************************************************************************)
EXTENDS Naturals

CONSTANTS Amounts, Files, None

VARIABLES status, amount, report, refund  \* the order, and what was sent back

vars == <<status, amount, report, refund>>

(* TRANSITIONS: status -> the statuses it may change to                    *)
Flow == [pending_payment |-> {"paid", "payment_failed"},
         payment_failed  |-> {"paid"},
         paid            |-> {"in_progress", "refunded"},
         in_progress     |-> {"delivered", "refunded"},
         delivered       |-> {"refunded"},
         refunded        |-> {}]

Init == status = "pending_payment" /\ amount = None /\ report = None /\ refund = None

(* Only an order with a report is delivered. *)
Move(t) ==
  /\ t \in Flow[status]
  /\ t = "delivered" => report # None
  /\ status' = t
  /\ UNCHANGED <<amount, report, refund>>

Receive(a) ==
  /\ "paid" \in Flow[status]
  /\ status' = "paid" /\ amount' = a
  /\ UNCHANGED <<report, refund>>

(* Money back never exceeds the money that came in. *)
Refund(a) ==
  /\ "refunded" \in Flow[status]
  /\ amount = None \/ a <= amount
  /\ status' = "refunded" /\ refund' = a
  /\ UNCHANGED <<amount, report>>

(* The report delivers an order in progress, or replaces a delivered one.  *)
Deliver(f) ==
  /\ status \in {"in_progress", "delivered"}
  /\ status' = "delivered" /\ report' = f
  /\ UNCHANGED <<amount, refund>>

Next == \/ \E t \in DOMAIN Flow : Move(t)
        \/ \E a \in Amounts : Receive(a) \/ Refund(a)
        \/ \E f \in Files : Deliver(f)

Spec == Init /\ [][Next]_vars
=============================================================================
