----------------------------- MODULE ReviewProofs -----------------------------
(* Theorems about Review for every number of workers, runs, items and      *)
(* decisions, duplicate deliveries included.                               *)
EXTENDS Review, FiniteSetTheorems, TLAPS

(* A bounded event only moves its own counter.                             *)
LEMMA Counted ==
  ASSUME TypeOK, NEW e \in Events, Spend(e)
  PROVE  spent' \in [Events -> Nat]
BY DEF TypeOK, Spend

(* Decisions are numbered upwards; an item without one is undecided, one   *)
(* with one is approved or rejected; and what a publish has chosen has one.*)
Numbering ==
  /\ \A i \in Items : reviewed[i] <= decisions
  /\ \A i \in Items : reviewed[i] = 0 <=> state[i] \in {"absent", "pending"}
  /\ chosen # 0 => reviewed[chosen] # 0

(* Rows keep their shape; an item replaces an item staged before it, and   *)
(* only decided items are published.                                       *)
THEOREM TypeCorrect == Spec => [](TypeOK /\ Numbering)
<1>. USE ReviewBounds DEF Runs, Items
<1>1. Init => TypeOK /\ Numbering
  BY DEF Init, TypeOK, Numbering
<1>2. TypeOK /\ Numbering /\ [Next]_vars => (TypeOK /\ Numbering)'
  <2>. SUFFICES ASSUME TypeOK, Numbering, [Next]_vars PROVE (TypeOK /\ Numbering)'
    OBVIOUS
  <2>. USE DEF TypeOK, Numbering, runVars, itemVars, publishVars
  <2>1. ASSUME NEW r \in Runs, QueueRun(r) PROVE (TypeOK /\ Numbering)'
    BY <2>1 DEF QueueRun
  <2>2. ASSUME NEW r \in Runs, RetryRun(r) PROVE (TypeOK /\ Numbering)'
    BY <2>2 DEF RetryRun
  <2>3. ASSUME NEW r \in Runs, NEW e \in Executions, LoadRun(e, r) PROVE (TypeOK /\ Numbering)'
    <3>1. deliverable' \subseteq Runs
      BY <2>3 DEF LoadRun
    <3>2. /\ pc' \in [Executions -> {"idle", "loaded", "reading", "written"}]
          /\ doing' \in [Executions -> Runs \cup {0}]
          /\ \A x \in Executions : pc'[x] # "idle" => doing'[x] \in Runs
      <4>1. CASE UNCHANGED <<pc, doing>>
        BY <4>1
      <4>2. CASE /\ pc' = [pc EXCEPT ![e] = "loaded"]
                 /\ doing' = [doing EXCEPT ![e] = r]
        BY <4>2
      <4>. QED
        BY <4>1, <4>2, <2>3 DEF LoadRun
    <3>3. UNCHANGED <<status, itemVars, publishVars, spent>>
      BY <2>3 DEF LoadRun
    <3>. QED
      BY <3>1, <3>2, <3>3
  <2>4. ASSUME NEW e \in Executions, StartRun(e) PROVE (TypeOK /\ Numbering)'
    BY <2>4 DEF StartRun
  <2>5. ASSUME NEW e \in Executions, WriteItems(e) PROVE (TypeOK /\ Numbering)'
    <3>. PICK n \in 0..MaxReadings, p \in Items \cup {0} :
           /\ nextItem + n <= MaxItems + 1
           /\ Previous(doing[e], p)
           /\ LET r == doing[e]
                  new == {i \in Items : nextItem <= i /\ i < nextItem + n}
              IN /\ state' = [i \in Items |-> IF i \in new THEN "pending" ELSE state[i]]
                 /\ run' = [i \in Items |-> IF i \in new THEN r ELSE run[i]]
                 /\ prior' = [i \in Items |-> IF i \in new THEN p ELSE prior[i]]
                 /\ superseded' = superseded \cup Replaced(r)
                 /\ status' = [status EXCEPT ![r] = "ready_for_review"]
           /\ nextItem' = nextItem + n
      BY <2>5 DEF WriteItems
    <3>1. p < nextItem
      BY DEF Previous, Earlier
    <3>2. doing[e] \in Runs /\ Replaced(doing[e]) \subseteq Items
      BY <2>5 DEF WriteItems, Replaced
    <3>3. UNCHANGED <<deliverable, doing, reviewed, decisions, publishVars, spent>>
          /\ pc' = [pc EXCEPT ![e] = "written"]
      BY <2>5 DEF WriteItems
    <3>4. state' \in [Items -> {"absent", "pending", "approved", "rejected"}]
          /\ \A i \in Items : nextItem' <= i => state'[i] = "absent"
      OBVIOUS
    <3>5. nextItem' \in 1..(MaxItems + 1)
      OBVIOUS
    <3>6. prior' \in [Items -> Items \cup {0}] /\ \A i \in Items : prior'[i] < i
      BY <3>1
    <3>7. run' \in [Items -> Runs \cup {0}] /\ superseded' \subseteq Items
          /\ status' \in [Runs -> {"none", "queued", "extracting", "ready_for_review", "failed"}]
      BY <3>2
    <3>8. /\ pc' \in [Executions -> {"idle", "loaded", "reading", "written"}]
          /\ \A x \in Executions : pc'[x] # "idle" => doing'[x] \in Runs
      BY <3>2, <3>3
    <3>9. TypeOK'
      BY <3>3, <3>4, <3>5, <3>6, <3>7, <3>8, Zenon
    <3>10. Numbering'
      BY <3>3
    <3>. QED
      BY <3>9, <3>10
  <2>6. ASSUME NEW e \in Executions, AckRun(e) PROVE (TypeOK /\ Numbering)'
    BY <2>6 DEF AckRun, Leave
  <2>7. ASSUME NEW e \in Executions, ExecutionFails(e) PROVE (TypeOK /\ Numbering)'
    <3>1. spent' \in [Events -> Nat]
      BY <2>7, Counted DEF ExecutionFails, Events
    <3>. QED
      BY ZenonT(60), <3>1, <2>7 DEF ExecutionFails, Leave
  <2>8. ASSUME NEW e \in Executions, WorkerDies(e) PROVE (TypeOK /\ Numbering)'
    <3>1. spent' \in [Events -> Nat]
      BY <2>8, Counted DEF WorkerDies, Events
    <3>2. deliverable' \subseteq Runs
      <4>1. deliverable' = deliverable \cup {doing[e]} /\ doing[e] \in Runs
        BY <2>8 DEF WorkerDies
      <4>. QED
        BY <4>1, Zenon
    <3>3. UNCHANGED <<status, itemVars, publishVars>>
      BY <2>8 DEF WorkerDies
    <3>4. /\ pc' \in [Executions -> {"idle", "loaded", "reading", "written"}]
          /\ doing' \in [Executions -> Runs \cup {0}]
          /\ \A x \in Executions : pc'[x] # "idle" => doing'[x] \in Runs
      BY <2>8 DEF WorkerDies, Leave
    <3>. QED
      BY <3>1, <3>2, <3>3, <3>4
  <2>9. ASSUME NEW e \in Executions, Redeliver(e) PROVE (TypeOK /\ Numbering)'
    <3>1. spent' \in [Events -> Nat]
      BY <2>9, Counted DEF Redeliver, Events
    <3>2. deliverable' \subseteq Runs
      <4>1. deliverable' = deliverable \cup {doing[e]} /\ doing[e] \in Runs
        BY <2>9 DEF Redeliver
      <4>. QED
        BY <4>1, Zenon
    <3>3. UNCHANGED <<status, pc, doing, itemVars, publishVars>>
      BY <2>9 DEF Redeliver
    <3>. QED
      BY <3>1, <3>2, <3>3
  <2>10. ASSUME NEW i \in Items, Approve(i) PROVE (TypeOK /\ Numbering)'
    <3>1. superseded' \subseteq Items
      BY <2>10 DEF Approve
    <3>2. /\ state' = [state EXCEPT ![i] = "approved"] /\ state[i] # "absent"
          /\ reviewed' = [reviewed EXCEPT ![i] = decisions + 1]
          /\ decisions' = decisions + 1 /\ decisions < MaxDecisions
          /\ UNCHANGED <<runVars, run, prior, nextItem, publishVars, spent>>
      BY <2>10 DEF Approve, Decided, Decidable
    <3>3. /\ state' \in [Items -> {"absent", "pending", "approved", "rejected"}]
          /\ \A j \in Items : nextItem <= j => state'[j] = "absent"
      BY <3>2
    <3>4. /\ reviewed' \in [Items -> 0..MaxDecisions]
          /\ decisions' \in 0..MaxDecisions
          /\ \A j \in Items : j \in published => reviewed'[j] # 0
      BY <3>2
    <3>5. TypeOK'
      BY <3>1, <3>2, <3>3, <3>4, Zenon
    <3>6. Numbering'
      BY <3>2
    <3>. QED
      BY <3>5, <3>6
  <2>11. ASSUME NEW i \in Items, Reject(i) PROVE (TypeOK /\ Numbering)'
    <3>1. /\ state' = [state EXCEPT ![i] = "rejected"] /\ state[i] # "absent"
          /\ reviewed' = [reviewed EXCEPT ![i] = decisions + 1]
          /\ decisions' = decisions + 1 /\ decisions < MaxDecisions
          /\ UNCHANGED <<runVars, run, prior, superseded, nextItem, publishVars, spent>>
      BY <2>11 DEF Reject, Decided, Decidable
    <3>2. /\ state' \in [Items -> {"absent", "pending", "approved", "rejected"}]
          /\ \A j \in Items : nextItem <= j => state'[j] = "absent"
      BY <3>1
    <3>3. /\ reviewed' \in [Items -> 0..MaxDecisions]
          /\ decisions' \in 0..MaxDecisions
          /\ \A j \in Items : j \in published => reviewed'[j] # 0
      BY <3>1
    <3>4. TypeOK'
      BY <3>1, <3>2, <3>3, Zenon
    <3>5. Numbering'
      BY <3>1
    <3>. QED
      BY <3>4, <3>5
  <2>12. CASE StartPublish
    BY <2>12 DEF StartPublish
  <2>13. CASE CarryForward
    BY <2>13 DEF CarryForward, Carried
  <2>14. CASE SelectEligible
    BY <2>14 DEF SelectEligible, Latest, Eligible
  <2>15. CASE CloseItem
    BY <2>15 DEF CloseItem
  <2>16. CASE CommitPublish
    <3>1. published' \subseteq Items /\ \A i \in Items : i \in published' => reviewed[i] # 0
      <4>1. published' = published \cup {i \in Items : i = chosen}
        BY <2>16 DEF CommitPublish
      <4>2. \A i \in Items : i = chosen => reviewed[i] # 0
        OBVIOUS
      <4>. QED
        BY <4>1, <4>2
    <3>2. served' \in Items \cup {0}
      BY <2>16 DEF CommitPublish
    <3>3. /\ UNCHANGED <<runVars, itemVars, spent>>
          /\ publish' = "idle" /\ carried' = 0 /\ chosen' = 0
      BY <2>16 DEF CommitPublish, PublishEnds
    <3>4. TypeOK'
      BY <3>1, <3>2, <3>3, Zenon
    <3>5. Numbering'
      BY <3>3
    <3>. QED
      BY <3>4, <3>5
  <2>17. CASE PublishFails
    BY <2>17 DEF PublishFails, PublishEnds
  <2>18. CASE UNCHANGED vars
    BY <2>18 DEF vars
  <2>. HIDE DEF TypeOK, Numbering
  <2>. QED
    BY <2>1, <2>2, <2>3, <2>4, <2>5, <2>6, <2>7, <2>8, <2>9, <2>10, <2>11,
       <2>12, <2>13, <2>14, <2>15, <2>16, <2>17, <2>18
    DEF Next
<1>. QED
  BY <1>1, <1>2, PTL DEF Spec

(* What changes items, and what a publish serves.                          *)
LEMMA Movers ==
  ASSUME [Next]_vars
  PROVE  \/ UNCHANGED <<state, prior, superseded, reviewed, published, served>>
         \/ \E e \in Executions : WriteItems(e)
         \/ \E i \in Items : Approve(i) \/ Reject(i)
         \/ CommitPublish
<1>. USE DEF runVars, itemVars, publishVars
<1>1. ASSUME NEW r \in Runs, QueueRun(r) \/ RetryRun(r) \/ \E e \in Executions : LoadRun(e, r)
      PROVE  UNCHANGED <<state, prior, superseded, reviewed, published, served>>
  BY <1>1 DEF QueueRun, RetryRun, LoadRun
<1>2. ASSUME NEW e \in Executions,
             StartRun(e) \/ AckRun(e) \/ ExecutionFails(e) \/ WorkerDies(e) \/ Redeliver(e)
      PROVE  UNCHANGED <<state, prior, superseded, reviewed, published, served>>
  BY <1>2 DEF StartRun, AckRun, ExecutionFails, WorkerDies, Redeliver
<1>3. ASSUME StartPublish \/ CarryForward \/ SelectEligible \/ CloseItem \/ PublishFails
      PROVE  UNCHANGED <<state, prior, superseded, reviewed, published, served>>
  BY <1>3 DEF StartPublish, CarryForward, SelectEligible, CloseItem, PublishFails
<1>4. UNCHANGED vars => UNCHANGED <<state, prior, superseded, reviewed, published, served>>
  BY DEF vars
<1>. QED
  BY <1>1, <1>2, <1>3, <1>4, Zenon DEF Next

(* Only CarryForward sets what a publish carries forward.                  *)
LEMMA Carries ==
  ASSUME [Next]_vars
  PROVE  CommitPublish \/ CarryForward \/ UNCHANGED <<published, served, carried>>
           \/ (carried' = 0 /\ UNCHANGED <<published, served>>)
<1>. USE DEF runVars, itemVars, publishVars
<1>1. ASSUME NEW r \in Runs, QueueRun(r) \/ RetryRun(r) \/ \E e \in Executions : LoadRun(e, r)
      PROVE  UNCHANGED <<published, served, carried>>
  BY <1>1 DEF QueueRun, RetryRun, LoadRun
<1>2. ASSUME NEW e \in Executions, \/ StartRun(e) \/ WriteItems(e) \/ AckRun(e)
                                   \/ ExecutionFails(e) \/ WorkerDies(e) \/ Redeliver(e)
      PROVE  UNCHANGED <<published, served, carried>>
  BY <1>2 DEF StartRun, WriteItems, AckRun, ExecutionFails, WorkerDies, Redeliver
<1>3. ASSUME NEW i \in Items, Approve(i) \/ Reject(i)
      PROVE  UNCHANGED <<published, served, carried>>
  BY <1>3 DEF Approve, Reject, Decided
<1>4. ASSUME StartPublish \/ SelectEligible \/ CloseItem
      PROVE  UNCHANGED <<published, served, carried>>
  BY <1>4 DEF StartPublish, SelectEligible, CloseItem
<1>5. PublishFails => carried' = 0 /\ UNCHANGED <<published, served>>
  BY DEF PublishFails, PublishEnds
<1>6. UNCHANGED vars => UNCHANGED <<published, served, carried>>
  BY DEF vars
<1>. QED
  BY <1>1, <1>2, <1>3, <1>4, <1>5, <1>6, Zenon DEF Next

(* Only SelectEligible sets what it chooses.                               *)
LEMMA Chooses ==
  ASSUME [Next]_vars
  PROVE  \/ SelectEligible \/ chosen' = 0
         \/ chosen' = chosen /\ UNCHANGED <<state, prior, superseded, reviewed, published, served>>
         \/ \E e \in Executions : WriteItems(e)
         \/ \E i \in Items : Approve(i) \/ Reject(i)
<1>. USE DEF runVars, itemVars, publishVars
<1>1. ASSUME NEW r \in Runs, QueueRun(r) \/ RetryRun(r) \/ \E e \in Executions : LoadRun(e, r)
      PROVE  chosen' = chosen
  BY <1>1 DEF QueueRun, RetryRun, LoadRun
<1>2. ASSUME NEW e \in Executions,
             StartRun(e) \/ AckRun(e) \/ ExecutionFails(e) \/ WorkerDies(e) \/ Redeliver(e)
      PROVE  chosen' = chosen
  BY <1>2 DEF StartRun, AckRun, ExecutionFails, WorkerDies, Redeliver
<1>3. StartPublish \/ CarryForward \/ CloseItem \/ UNCHANGED vars => chosen' = chosen
  BY DEF StartPublish, CarryForward, CloseItem, vars
<1>4. CommitPublish \/ PublishFails => chosen' = 0
  BY DEF CommitPublish, PublishFails, PublishEnds
<1>5. \/ SelectEligible \/ chosen' = 0 \/ chosen' = chosen
      \/ \E e \in Executions : WriteItems(e)
      \/ \E i \in Items : Approve(i) \/ Reject(i)
  BY <1>1, <1>2, <1>3, <1>4, Zenon DEF Next
<1>. QED
  BY <1>4, <1>5, Movers

(* A run stages new items only, as pending ones.                           *)
LEMMA Staged ==
  ASSUME TypeOK, NEW e \in Executions, WriteItems(e)
  PROVE  /\ \A i \in Items : \/ state[i] = "absent" /\ state'[i] \in {"absent", "pending"}
                             \/ state'[i] = state[i] /\ prior'[i] = prior[i]
         /\ superseded \subseteq superseded'
         /\ UNCHANGED <<reviewed, publishVars>>
<1>. PICK n \in 0..MaxReadings, p \in Items \cup {0} :
       LET r == doing[e]
           new == {i \in Items : nextItem <= i /\ i < nextItem + n}
       IN /\ state' = [i \in Items |-> IF i \in new THEN "pending" ELSE state[i]]
          /\ prior' = [i \in Items |-> IF i \in new THEN p ELSE prior[i]]
          /\ superseded' = superseded \cup Replaced(r)
  BY DEF WriteItems
<1>1. \A i \in Items : nextItem <= i => state[i] = "absent"
  BY DEF TypeOK
<1>2. \A i \in Items : \/ nextItem <= i /\ state'[i] = "pending"
                       \/ state'[i] = state[i] /\ prior'[i] = prior[i]
  OBVIOUS
<1>. QED
  BY <1>1, <1>2 DEF WriteItems

(* A decision gives its item the highest number and touches no other.      *)
LEMMA DecidedOne ==
  ASSUME TypeOK, Numbering, NEW i \in Items, Approve(i) \/ Reject(i)
  PROVE  /\ Open(i) /\ reviewed'[i] > decisions
         /\ state'[i] \in {"approved", "rejected"}
         /\ \A j \in Items : j # i => state'[j] = state[j] /\ reviewed'[j] = reviewed[j]
         /\ superseded \subseteq superseded'
         /\ UNCHANGED <<prior, publishVars>>
<1>1. /\ Decidable(i) /\ superseded \subseteq superseded'
      /\ Decided(i, "approved") \/ Decided(i, "rejected")
  BY DEF Approve, Reject
<1>2. reviewed' = [reviewed EXCEPT ![i] = decisions + 1] /\ decisions \in Nat
  BY <1>1, ReviewBounds DEF Decided, TypeOK
<1>3. reviewed'[i] > decisions
  BY <1>2 DEF TypeOK
<1>4. \A j \in Items : j # i => state'[j] = state[j] /\ reviewed'[j] = reviewed[j]
  BY <1>1, <1>2 DEF Decided, TypeOK
<1>. QED
  BY <1>1, <1>3, <1>4 DEF Decided, Decidable, TypeOK

(* What is served was published, and what is carried forward is served.    *)
Serving ==
  /\ served # 0 => served \in published
  /\ carried # 0 => carried = served

(* An approved item whose approved replacement it survived, still open, was*)
(* decided on after that replacement.                                      *)
ReplacedOpen ==
  \A k, j \in Items :
    prior[k] = j /\ state[k] = "approved" /\ state[j] = "approved" /\ Open(j)
      => reviewed[j] > reviewed[k]

(* What a publish has chosen over the served value that replaced it was    *)
(* decided on after it, or the served value was turned down.               *)
ChosenLater ==
  chosen # 0 /\ served # 0 /\ prior[served] = chosen
    => reviewed[chosen] > reviewed[served] \/ state[served] = "rejected"

ReviewInv == TypeOK /\ Numbering /\ Serving /\ ReplacedOpen /\ ChosenLater

(* A replaced item is not served over its replacement again, unless it was *)
(* approved after it or the replacement was turned down.                   *)
THEOREM ReplacedOut == Spec => ReplacedStaysOut
<1>. USE ReviewBounds DEF Items
<1>1. Init => ReviewInv
  <2>1. Init => TypeOK /\ Numbering
    BY DEF Init, TypeOK, Numbering, Runs
  <2>2. Init => Serving /\ ReplacedOpen /\ ChosenLater
    BY DEF Init, Serving, ReplacedOpen, ChosenLater
  <2>. QED
    BY <2>1, <2>2 DEF ReviewInv
<1>2. ReviewInv /\ (TypeOK /\ Numbering)' /\ [Next]_vars => ReviewInv'
  <2>. SUFFICES ASSUME ReviewInv, (TypeOK /\ Numbering)', [Next]_vars PROVE ReviewInv'
    OBVIOUS
  <2>. USE DEF ReviewInv
  <2>1. Serving'
    <3>1. CASE CommitPublish
      BY <3>1 DEF Serving, CommitPublish, PublishEnds, TypeOK
    <3>2. CASE CarryForward
      BY <3>2 DEF Serving, CarryForward, Carried
    <3>3. ASSUME \/ UNCHANGED <<published, served, carried>>
                 \/ carried' = 0 /\ UNCHANGED <<published, served>>
          PROVE  Serving'
      BY <3>3 DEF Serving
    <3>. QED
      BY <3>1, <3>2, <3>3, Carries
  <2>2. ReplacedOpen'
    <3>. SUFFICES ASSUME NEW k \in Items, NEW j \in Items,
                         prior'[k] = j, state'[k] = "approved", state'[j] = "approved", Open(j)'
                  PROVE  reviewed'[j] > reviewed'[k]
      BY DEF ReplacedOpen
    <3>. USE DEF ReplacedOpen
    <3>1. ASSUME UNCHANGED <<state, prior, superseded, reviewed, published, served>>
          PROVE  reviewed'[j] > reviewed'[k]
      BY <3>1 DEF Open
    <3>2. ASSUME NEW e \in Executions, WriteItems(e) PROVE reviewed'[j] > reviewed'[k]
      BY <3>2, Staged DEF Open, publishVars
    <3>3. ASSUME NEW i \in Items, Approve(i) \/ Reject(i) PROVE reviewed'[j] > reviewed'[k]
      <4>1. /\ Open(i) /\ reviewed'[i] > decisions
            /\ \A x \in Items : x # i => state'[x] = state[x] /\ reviewed'[x] = reviewed[x]
            /\ superseded \subseteq superseded'
            /\ UNCHANGED <<prior, publishVars>>
        BY <3>3, DecidedOne
      <4>2. CASE k # i /\ j # i
        BY <4>1, <4>2 DEF Open, publishVars
      <4>3. CASE j = i
        <5>1. k # i
          BY <4>1, <4>3 DEF TypeOK
        <5>2. reviewed[k] <= decisions /\ reviewed'[k] = reviewed[k]
          BY <4>1, <5>1 DEF Numbering
        <5>. QED
          BY <4>1, <4>3, <5>2 DEF TypeOK
      <4>4. CASE k = i /\ j # i
        <5>1. Approve(i)
          BY <3>3, <4>4 DEF Reject, Decided, TypeOK
        <5>2. state[j] = "approved" /\ Open(j) /\ prior[i] = j
          BY <4>1, <4>4 DEF Open, publishVars
        <5>3. j \in superseded'
          BY <5>1, <5>2 DEF Approve
        <5>. QED
          BY <5>3 DEF Open
      <4>. QED
        BY <4>2, <4>3, <4>4
    <3>4. CASE CommitPublish
      BY <3>4 DEF CommitPublish, Open, itemVars
    <3>. QED
      BY <3>1, <3>2, <3>3, <3>4, Movers
  <2>3. ChosenLater'
    <3>. SUFFICES ASSUME chosen' # 0, served' # 0, prior'[served'] = chosen'
                  PROVE  reviewed'[chosen'] > reviewed'[served'] \/ state'[served'] = "rejected"
      BY DEF ChosenLater
    <3>. USE DEF ChosenLater
    <3>1. CASE SelectEligible
      <4>1. UNCHANGED <<state, prior, reviewed, served>> /\ Latest(chosen')
        BY <3>1 DEF SelectEligible, itemVars
      <4>2. state[served] \in {"approved", "rejected"} /\ served \in Items /\ chosen' \in Items
        BY <4>1 DEF Serving, TypeOK, Numbering, Latest, Eligible
      <4>3. state[chosen'] = "approved" /\ Open(chosen')
        BY <4>1 DEF Latest, Eligible
      <4>. QED
        BY <4>1, <4>2, <4>3 DEF ReplacedOpen
    <3>2. CASE chosen' = chosen /\ UNCHANGED <<state, prior, superseded, reviewed, published, served>>
      BY <3>2
    <3>3. ASSUME NEW e \in Executions, WriteItems(e)
          PROVE  reviewed'[chosen'] > reviewed'[served'] \/ state'[served'] = "rejected"
      <4>1. UNCHANGED <<reviewed, chosen, served>>
        BY <3>3, Staged DEF publishVars
      <4>2. state[served] # "absent" /\ served \in Items
        BY <4>1 DEF Serving, TypeOK, Numbering
      <4>3. state'[served] = state[served] /\ prior'[served] = prior[served]
        BY <3>3, <4>2, Staged
      <4>. QED
        BY <4>1, <4>3
    <3>4. ASSUME NEW i \in Items, Approve(i) \/ Reject(i)
          PROVE  reviewed'[chosen'] > reviewed'[served'] \/ state'[served'] = "rejected"
      <4>1. /\ Open(i) /\ reviewed'[i] > decisions
            /\ \A x \in Items : x # i => state'[x] = state[x] /\ reviewed'[x] = reviewed[x]
            /\ UNCHANGED <<prior, chosen, served>>
        BY <3>4, DecidedOne DEF publishVars
      <4>2. served \in Items /\ served # i /\ chosen \in Items
        BY <4>1 DEF Serving, Open, TypeOK
      <4>3. state'[served] = state[served] /\ reviewed'[served] = reviewed[served]
        BY <4>1, <4>2
      <4>4. chosen = i => reviewed'[chosen] > reviewed[served]
        BY <4>1, <4>2 DEF Numbering, TypeOK
      <4>. QED
        BY <4>1, <4>2, <4>3, <4>4
    <3>. QED
      BY <3>1, <3>2, <3>3, <3>4, Chooses
  <2>. QED
    BY <2>1, <2>2, <2>3
<1>3. ReviewInv /\ [Next]_vars =>
        (served' # served /\ served # 0 /\ served' # 0 /\ prior[served] = served'
          => reviewed[served'] > reviewed[served] \/ state[served] = "rejected")
  <2>. SUFFICES ASSUME ReviewInv, [Next]_vars, served' # served, served # 0, served' # 0,
                       prior[served] = served'
                PROVE  reviewed[served'] > reviewed[served] \/ state[served] = "rejected"
    OBVIOUS
  <2>1. CommitPublish
    <3>1. \A e \in Executions : WriteItems(e) => served' = served
      BY Staged DEF ReviewInv, publishVars
    <3>2. \A i \in Items : Approve(i) \/ Reject(i) => served' = served
      BY DecidedOne DEF ReviewInv, publishVars
    <3>. QED
      BY <3>1, <3>2, Movers
  <2>2. served' = chosen /\ chosen # 0
    BY <2>1 DEF CommitPublish, ReviewInv, Serving
  <2>. QED
    BY <2>2 DEF ReviewInv, ChosenLater
<1>. QED
  <2>1. Spec => [](TypeOK /\ Numbering)
    BY TypeCorrect
  <2>2. Spec => []ReviewInv
    BY <1>1, <1>2, <2>1, PTL DEF Spec
  <2>. QED
    BY <1>3, <2>2, PTL DEF Spec, ReplacedStaysOut

(* While a publish runs: what it serves is settled by what it carried and  *)
(* chose, or an item it relied on has been rejected since.                 *)
Settled ==
  /\ publish \in {"idle", "started", "carried"} => chosen = 0
  /\ chosen # 0 => state[chosen] = "approved" \/ <<chosen, "selected">> \in revoked
  /\ carried # 0 => carried = served
  /\ publish = "carried" =>
       served = 0 \/ carried = served \/ Eligible # {} \/ \E i \in Items : <<i, "carried">> \in revoked
  /\ publish \in {"selected", "closed"} =>
       served = 0 \/ carried = served \/ chosen # 0 \/ \E i \in Items : <<i, "carried">> \in revoked

(* A run stages pending items and supersedes pending ones: what is         *)
(* approved and open stays so.                                             *)
LEMMA EligibleStays ==
  ASSUME TypeOK, NEW e \in Executions, WriteItems(e)
  PROVE  Eligible' = Eligible
<1>1. \A i \in Items : state[i] = "approved" <=> state'[i] = "approved"
  BY Staged
<1>2. superseded' = superseded \cup Replaced(doing[e]) /\ published' = published
  BY DEF WriteItems, publishVars
<1>3. \A i \in Items : state[i] = "approved" => (i \in superseded' <=> i \in superseded)
  BY <1>2 DEF Replaced
<1>. QED
  BY <1>1, <1>2, <1>3 DEF Eligible, Open

(* Only decisions and a publish's own steps move what Settled speaks of.   *)
LEMMA SettledMoves ==
  ASSUME TypeOK, [Next]_vars
  PROVE  \/ /\ UNCHANGED <<publish, chosen, carried, served, revoked>> /\ Eligible' = Eligible
            /\ \A i \in Items : state[i] = "approved" => state'[i] = "approved"
         \/ \E i \in Items : Approve(i) \/ Reject(i)
         \/ StartPublish \/ CarryForward \/ SelectEligible \/ CloseItem \/ CommitPublish \/ PublishFails
<1>. USE DEF runVars, itemVars, publishVars
<1>. DEFINE Still == /\ UNCHANGED <<publish, chosen, carried, served, revoked>> /\ Eligible' = Eligible
                     /\ \A i \in Items : state[i] = "approved" => state'[i] = "approved"
<1>1. ASSUME NEW r \in Runs, QueueRun(r) \/ RetryRun(r) \/ \E e \in Executions : LoadRun(e, r)
      PROVE  Still
  BY <1>1 DEF QueueRun, RetryRun, LoadRun, Eligible, Open
<1>2. ASSUME NEW e \in Executions,
             StartRun(e) \/ AckRun(e) \/ ExecutionFails(e) \/ WorkerDies(e) \/ Redeliver(e)
      PROVE  Still
  BY <1>2 DEF StartRun, AckRun, ExecutionFails, WorkerDies, Redeliver, Eligible, Open
<1>3. ASSUME NEW e \in Executions, WriteItems(e)
      PROVE  Still
  <2>1. UNCHANGED publishVars /\ \A i \in Items : state[i] = "approved" => state'[i] = "approved"
    BY <1>3, Staged
  <2>2. UNCHANGED revoked
    BY <1>3 DEF WriteItems
  <2>. QED
    BY <1>3, <2>1, <2>2, EligibleStays
<1>4. UNCHANGED vars => Still
  BY DEF vars, Eligible, Open
<1>. QED
  BY <1>1, <1>2, <1>3, <1>4, Zenon DEF Next

(* An approval while a publish runs gives it an eligible item and takes no *)
(* decision away from the one it has chosen.                               *)
LEMMA ApprovalSettles ==
  ASSUME TypeOK, Settled, NEW i \in Items, Approve(i)
  PROVE  Settled'
<1>1. /\ UNCHANGED <<publish, chosen, carried, served, published, revoked>>
      /\ state' = [state EXCEPT ![i] = "approved"]
      /\ superseded' = superseded \cup
           {j \in Items : j = prior[i] /\ state[j] = "approved" /\ Open(j)}
      /\ Open(i)
  BY DEF Approve, Decided, Decidable, publishVars
<1>2. i \in Eligible'
  <2>1. prior[i] # i
    BY DEF TypeOK, Items
  <2>2. state'[i] = "approved"
    BY <1>1 DEF TypeOK
  <2>. QED
    BY <1>1, <2>1, <2>2 DEF Eligible, Open
<1>3. chosen # 0 => state'[chosen] = "approved" \/ <<chosen, "selected">> \in revoked
  BY <1>1 DEF Settled, TypeOK
<1>. QED
  BY <1>1, <1>2, <1>3 DEF Settled

(* A rejection either leaves what the publish relies on alone, or is kept  *)
(* in revoked.                                                             *)
LEMMA RejectionSettles ==
  ASSUME TypeOK, Settled, NEW i \in Items, Reject(i)
  PROVE  Settled'
<1>1. /\ UNCHANGED <<publish, chosen, carried, served, published, superseded>>
      /\ state' = [state EXCEPT ![i] = "rejected"]
      /\ revoked' = IF ReliedOn(i) THEN revoked \cup {<<i, publish>>} ELSE revoked
      /\ ~Locked(i)
  BY DEF Reject, Decided, Decidable, publishVars
<1>2. \A j \in Items : j # i => state'[j] = state[j]
  BY <1>1 DEF TypeOK
<1>3. chosen # 0 => state'[chosen] = "approved" \/ <<chosen, "selected">> \in revoked'
  <2>. SUFFICES ASSUME chosen # 0, state'[chosen] # "approved", <<chosen, "selected">> \notin revoked'
                PROVE  FALSE
    OBVIOUS
  <2>1. chosen \in Items /\ revoked \subseteq revoked'
    BY <1>1 DEF TypeOK
  <2>2. state[chosen] = "approved"
    BY <2>1 DEF Settled
  <2>3. chosen = i
    BY <1>2, <2>1, <2>2
  <2>4. i # 0 /\ publish \in {"selected", "closed"}
    BY <2>3 DEF Settled, TypeOK
  <2>5. publish = "selected"
    BY <1>1, <2>3, <2>4 DEF Locked
  <2>. QED
    BY <1>1, <2>2, <2>3, <2>5 DEF ReliedOn
<1>4. ASSUME publish = "carried", Eligible # {}
      PROVE  Eligible' # {} \/ \E j \in Items : <<j, "carried">> \in revoked'
  <2>. PICK j \in Items : j \in Eligible
    BY <1>4 DEF Eligible
  <2>1. CASE j = i
    <3>1. state[i] = "approved"
      BY <2>1 DEF Eligible
    <3>. QED
      BY <1>1, <1>4, <3>1 DEF ReliedOn
  <2>2. CASE j # i
    <3>1. j \in Eligible'
      BY <1>1, <1>2, <2>2 DEF Eligible, Open
    <3>. QED
      BY <3>1
  <2>. QED
    BY <2>1, <2>2
<1>5. revoked \subseteq revoked'
  BY <1>1
<1>. QED
  BY <1>1, <1>3, <1>4, <1>5 DEF Settled

LEMMA SettledStep ==
  ASSUME TypeOK, Settled, [Next]_vars
  PROVE  Settled'
<1>. USE DEF itemVars, publishVars
<1>1. ASSUME UNCHANGED <<publish, chosen, carried, served, revoked>>, Eligible' = Eligible,
             \A i \in Items : state[i] = "approved" => state'[i] = "approved"
      PROVE  Settled'
  <2>1. chosen # 0 => chosen \in Items
    BY DEF TypeOK
  <2>. QED
    BY <1>1, <2>1 DEF Settled
<1>2. ASSUME NEW i \in Items, Approve(i) \/ Reject(i) PROVE Settled'
  BY <1>2, ApprovalSettles, RejectionSettles
<1>3. CASE StartPublish
  BY <1>3 DEF StartPublish, Settled
<1>4. CASE CarryForward
  <2>1. Eligible' = Eligible
    BY <1>4 DEF CarryForward, Eligible, Open
  <2>. QED
    BY <1>4, <2>1 DEF CarryForward, Carried, Settled
<1>5. CASE SelectEligible
  <2>1. chosen' # 0 => chosen' \in Eligible
    BY <1>5 DEF SelectEligible, Latest
  <2>2. chosen' = 0 => Eligible = {}
    BY <1>5, ReviewBounds DEF SelectEligible, Latest, Items
  <2>. QED
    BY <1>5, <2>1, <2>2 DEF SelectEligible, Settled, Eligible
<1>6. CASE CloseItem
  BY <1>6 DEF CloseItem, Settled
<1>7. CASE CommitPublish \/ PublishFails
  BY <1>7 DEF CommitPublish, PublishFails, PublishEnds, Settled
<1>. QED
  BY <1>1, <1>2, <1>3, <1>4, <1>5, <1>6, <1>7, SettledMoves

LEMMA AlwaysSettled == Spec => [](TypeOK /\ Settled)
<1>1. Init => Settled
  BY DEF Init, Settled
<1>2. TypeOK /\ Settled /\ [Next]_vars => Settled'
  BY SettledStep
<1>3. Spec => []TypeOK
  BY TypeCorrect, PTL
<1>. QED
  BY <1>1, <1>2, <1>3, PTL DEF Spec

(* Only CommitPublish changes what is served.                              *)
LEMMA Serves ==
  ASSUME TypeOK, Numbering, [Next]_vars, served' # served
  PROVE  CommitPublish
<1>1. \A e \in Executions : WriteItems(e) => served' = served
  BY Staged DEF publishVars
<1>2. \A i \in Items : Approve(i) \/ Reject(i) => served' = served
  BY DecidedOne DEF publishVars
<1>. QED
  BY <1>1, <1>2, Movers

(* ValueKept: with reviewers deciding at any step of it, a publish carries *)
(* a served value forward or overrides it (publish_pipeline.py:14).  It    *)
(* drops the value in one case only: an approved item was rejected between *)
(* the statement that carries and the one that selects.                    *)
THEOREM ValueNotDropped == Spec => ValueKept
<1>1. TypeOK /\ Numbering /\ Settled /\ [Next]_vars =>
        (served # 0 => served' # 0 \/ \E i \in Items : <<i, "carried">> \in revoked)
  <2>. SUFFICES ASSUME TypeOK, Numbering, Settled, [Next]_vars, served # 0, served' # served
                PROVE  served' # 0 \/ \E i \in Items : <<i, "carried">> \in revoked
    OBVIOUS
  <2>1. CommitPublish
    BY Serves
  <2>. QED
    BY <2>1 DEF CommitPublish, Settled
<1>2. Spec => [](TypeOK /\ Settled)
  BY AlwaysSettled
<1>3. Spec => [](TypeOK /\ Numbering)
  BY TypeCorrect
<1>4. (served # 0 => served' # 0 \/ \E i \in Items : <<i, "carried">> \in revoked)
        => [served # 0 => served' # 0 \/ \E i \in Items : <<i, "carried">> \in revoked]_vars
  OBVIOUS
<1>. QED
  BY <1>1, <1>2, <1>3, <1>4, PTL DEF Spec, ValueKept

(* RejectedKeptOut: what a publish starts to serve is an approved item     *)
(* (review.py:7), with reviewers deciding at any step of it.  A rejected   *)
(* one is served in one case only: it was rejected after it was selected   *)
(* and before CLOSE_ITEM locked its row.                                   *)
THEOREM OnlyApprovedServed == Spec => RejectedKeptOut
<1>1. TypeOK /\ Numbering /\ Settled /\ [Next]_vars =>
        (served' # served /\ served' # 0
          => state[served'] = "approved" \/ <<served', "selected">> \in revoked)
  <2>. SUFFICES ASSUME TypeOK, Numbering, Settled, [Next]_vars, served' # 0, served' # served
                PROVE  state[served'] = "approved" \/ <<served', "selected">> \in revoked
    OBVIOUS
  <2>1. CommitPublish
    BY Serves
  <2>. QED
    BY <2>1 DEF CommitPublish, Settled
<1>2. Spec => [](TypeOK /\ Settled)
  BY AlwaysSettled
<1>3. Spec => [](TypeOK /\ Numbering)
  BY TypeCorrect
<1>. QED
  BY <1>1, <1>2, <1>3, PTL DEF Spec, RejectedKeptOut
-----------------------------------------------------------------------------
(* Until a message is delivered while its worker still works, a run is in  *)
(* one hand: the queue's or one worker's.                                  *)
OneHand ==
  /\ \A e \in Executions : pc[e] = "idle" <=> doing[e] = 0
  /\ \A e, f \in Executions : doing[e] # 0 /\ doing[e] = doing[f] => e = f
  /\ \A e \in Executions : doing[e] \notin deliverable
  /\ \A r \in Runs : status[r] = "none" => r \notin deliverable /\ \A e \in Executions : doing[e] # r
  /\ \A e \in Executions : pc[e] \in {"loaded", "reading"} => status[doing[e]] # "ready_for_review"

(* What a run has staged it has staged at its end.                         *)
StagedOnce ==
  \A r \in Runs :
    /\ status[r] # "ready_for_review" => \A i \in Items : run[i] # r
    /\ Cardinality({i \in Items : run[i] = r}) <= MaxReadings

Once == spent["overlap"] > 0 \/ (OneHand /\ StagedOnce)

(* Duplicate deliveries are counted, and the count never goes down.        *)
LEMMA OverlapCounted ==
  ASSUME TypeOK, [Next]_vars
  PROVE  /\ spent["overlap"] > 0 => spent'["overlap"] > 0
         /\ \A e \in Executions : Redeliver(e) => spent'["overlap"] > 0
<1>0. spent["overlap"] \in Nat /\ "overlap" \in Events
  BY DEF TypeOK, Events
<1>. USE DEF runVars, itemVars, publishVars
<1>1. \A e \in Events : Spend(e) => spent'["overlap"] \in {spent["overlap"], spent["overlap"] + 1}
                                     /\ (e = "overlap" => spent'["overlap"] = spent["overlap"] + 1)
  BY <1>0 DEF Spend, TypeOK
<1>2. \A e \in Executions : Redeliver(e) => spent'["overlap"] > 0
  BY <1>0, <1>1 DEF Redeliver, Events
<1>3. ASSUME NEW r \in Runs, QueueRun(r) \/ RetryRun(r) \/ \E e \in Executions : LoadRun(e, r)
      PROVE  spent' = spent
  BY <1>3 DEF QueueRun, RetryRun, LoadRun
<1>4. ASSUME NEW e \in Executions, StartRun(e) \/ AckRun(e) \/ WriteItems(e)
      PROVE  spent' = spent
  BY <1>4 DEF StartRun, AckRun, WriteItems
<1>5. ASSUME NEW e \in Executions, ExecutionFails(e) \/ WorkerDies(e)
      PROVE  spent'["overlap"] \in {spent["overlap"], spent["overlap"] + 1}
  BY <1>1, <1>5 DEF ExecutionFails, WorkerDies, Events
<1>6. ASSUME NEW i \in Items, Approve(i) \/ Reject(i)
      PROVE  spent' = spent
  BY <1>6 DEF Approve, Reject, Decided
<1>7. ASSUME StartPublish \/ CarryForward \/ SelectEligible \/ CloseItem \/ CommitPublish \/ PublishFails
             \/ UNCHANGED vars
      PROVE  spent' = spent
  BY <1>7 DEF StartPublish, CarryForward, SelectEligible, CloseItem, CommitPublish, PublishFails, vars
<1>8. \/ spent'["overlap"] \in {spent["overlap"], spent["overlap"] + 1}
      \/ \E e \in Executions : Redeliver(e)
  BY <1>3, <1>4, <1>5, <1>6, <1>7 DEF Next
<1>. QED
  BY <1>0, <1>2, <1>8

(* A write stages at most MaxReadings items of its run and takes none of   *)
(* another's away.                                                         *)
LEMMA WriteCounted ==
  ASSUME TypeOK, NEW e \in Executions, WriteItems(e), StagedOnce, doing[e] \in Runs,
         \A i \in Items : run[i] # doing[e]
  PROVE  \A r \in Runs : Cardinality({i \in Items : run'[i] = r}) <= MaxReadings
<1>. PICK n \in 0..MaxReadings :
       /\ nextItem + n <= MaxItems + 1
       /\ run' = [i \in Items |-> IF i \in {j \in Items : nextItem <= j /\ j < nextItem + n}
                                  THEN doing[e] ELSE run[i]]
  BY DEF WriteItems
<1>0. /\ MaxReadings \in Nat /\ MaxItems \in Nat /\ nextItem \in Nat /\ n \in Nat /\ n <= MaxReadings
      /\ IsFiniteSet(Items)
  BY ReviewBounds, FS_Interval DEF TypeOK, Items
<1>1. ASSUME NEW r \in Runs, r # doing[e]
      PROVE  Cardinality({i \in Items : run'[i] = r}) <= MaxReadings
  <2>1. {i \in Items : run'[i] = r} \subseteq {i \in Items : run[i] = r}
    BY <1>1
  <2>2. IsFiniteSet({i \in Items : run[i] = r})
    BY <1>0, FS_Subset
  <2>3. /\ Cardinality({i \in Items : run'[i] = r}) <= Cardinality({i \in Items : run[i] = r})
        /\ Cardinality({i \in Items : run[i] = r}) \in Nat
        /\ Cardinality({i \in Items : run'[i] = r}) \in Nat
    BY <2>1, <2>2, FS_Subset, FS_CardinalityType
  <2>4. Cardinality({i \in Items : run[i] = r}) <= MaxReadings
    BY DEF StagedOnce
  <2>. QED
    BY <1>0, <2>3, <2>4
<1>2. Cardinality({i \in Items : run'[i] = doing[e]}) <= MaxReadings
  <2>. DEFINE new == nextItem..(nextItem + n - 1)
  <2>1. IsFiniteSet(new) /\ Cardinality(new) = n
    <3>1. n = 0 => nextItem > nextItem + n - 1
      BY <1>0
    <3>2. nextItem \in Int /\ nextItem + n - 1 \in Int
      BY <1>0
    <3>3. Cardinality(new) = IF nextItem > nextItem + n - 1 THEN 0 ELSE (nextItem + n - 1) - nextItem + 1
      BY <3>2, FS_Interval
    <3>. QED
      BY <1>0, <3>2, <3>3, FS_Interval
  <2>2. {i \in Items : run'[i] = doing[e]} \subseteq new
    BY <1>0 DEF Items
  <2>. HIDE DEF new
  <2>3. Cardinality({i \in Items : run'[i] = doing[e]}) <= n
        /\ Cardinality({i \in Items : run'[i] = doing[e]}) \in Nat
    BY <2>1, <2>2, FS_Subset, FS_CardinalityType
  <2>. QED
    BY <1>0, <2>3
<1>. QED
  BY <1>1, <1>2

(* Who holds a run and what it has staged moves with the worker's steps.   *)
LEMMA OnceStep ==
  ASSUME TypeOK, TypeOK', Once, [Next]_vars
  PROVE  Once'
<1>. SUFFICES ASSUME OneHand, StagedOnce, \A e \in Executions : ~Redeliver(e)
              PROVE  OneHand' /\ StagedOnce'
  BY OverlapCounted DEF Once
<1>. USE DEF runVars, itemVars, publishVars
<1>0. 0 \notin Runs
  BY DEF Runs
<1>01. ASSUME run' = run, \A r \in Runs : status'[r] # "ready_for_review" => status[r] # "ready_for_review"
       PROVE  StagedOnce'
  BY <1>01 DEF StagedOnce
<1>02. status \in [Runs -> {"none", "queued", "extracting", "ready_for_review", "failed"}]
  BY DEF TypeOK
<1>1. ASSUME NEW r \in Runs, QueueRun(r) PROVE OneHand' /\ StagedOnce'
  <2>1. OneHand'
    BY <1>0, <1>1 DEF QueueRun, OneHand, TypeOK
  <2>2. StagedOnce'
    BY <1>01, <1>02, <1>1 DEF QueueRun
  <2>. QED
    BY <2>1, <2>2
<1>2. ASSUME NEW r \in Runs, RetryRun(r) PROVE OneHand' /\ StagedOnce'
  <2>1. OneHand'
    BY <1>0, <1>2 DEF RetryRun, Active, OneHand, TypeOK
  <2>. QED
    BY <1>01, <1>2, <2>1 DEF RetryRun
<1>3. ASSUME NEW r \in Runs, NEW e \in Executions, LoadRun(e, r) PROVE OneHand' /\ StagedOnce'
  <2>1. OneHand'
    BY <1>0, <1>3 DEF LoadRun, OneHand, TypeOK
  <2>. QED
    BY <1>01, <1>3, <2>1 DEF LoadRun
<1>4. ASSUME NEW e \in Executions, StartRun(e) PROVE OneHand' /\ StagedOnce'
  <2>1. doing[e] \in Runs
    BY <1>4 DEF StartRun, TypeOK
  <2>2. OneHand'
    BY <1>0, <1>4, <2>1 DEF StartRun, OneHand, TypeOK
  <2>3. StagedOnce'
    BY <1>01, <1>02, <1>4, <2>1 DEF StartRun, OneHand
  <2>. QED
    BY <2>2, <2>3
<1>5. ASSUME NEW e \in Executions, WriteItems(e) PROVE OneHand' /\ StagedOnce'
  <2>0. /\ doing[e] \in Runs /\ status[doing[e]] # "ready_for_review" /\ pc[e] = "reading"
        /\ pc' = [pc EXCEPT ![e] = "written"] /\ UNCHANGED <<deliverable, doing>>
        /\ status' = [status EXCEPT ![doing[e]] = "ready_for_review"]
        /\ \A i \in Items : run'[i] \in {run[i], doing[e]}
    BY <1>5 DEF WriteItems, TypeOK, OneHand
  <2>1. OneHand'
    BY <1>0, <2>0 DEF OneHand, TypeOK
  <2>2. \A i \in Items : run[i] # doing[e]
    BY <2>0 DEF StagedOnce
  <2>3. \A r \in Runs : Cardinality({i \in Items : run'[i] = r}) <= MaxReadings
    BY <1>5, <2>0, <2>2, WriteCounted
  <2>4. \A r \in Runs : status'[r] # "ready_for_review" => \A i \in Items : run'[i] # r
    BY <1>02, <2>0 DEF StagedOnce
  <2>5. StagedOnce'
    BY <2>3, <2>4 DEF StagedOnce
  <2>. QED
    BY <2>1, <2>5
<1>6. ASSUME NEW e \in Executions, AckRun(e) PROVE OneHand' /\ StagedOnce'
  <2>1. OneHand'
    BY <1>0, <1>6 DEF AckRun, Leave, OneHand, TypeOK
  <2>. QED
    BY <1>01, <1>6, <2>1 DEF AckRun
<1>7. ASSUME NEW e \in Executions, ExecutionFails(e) PROVE OneHand' /\ StagedOnce'
  <2>0. doing[e] \in Runs /\ status[doing[e]] # "ready_for_review"
    BY <1>7 DEF ExecutionFails, TypeOK, OneHand
  <2>1. OneHand'
    <3>1. CASE deliverable' = deliverable \cup {doing[e]} /\ UNCHANGED status
      BY <1>0, <1>7, <2>0, <3>1 DEF ExecutionFails, Leave, OneHand, TypeOK
    <3>2. CASE UNCHANGED deliverable /\ status' = [status EXCEPT ![doing[e]] = "failed"]
      BY <1>0, <1>7, <2>0, <3>2 DEF ExecutionFails, Leave, OneHand, TypeOK
    <3>. QED
      BY <1>7, <2>0, <3>1, <3>2 DEF ExecutionFails, TypeOK
  <2>2. StagedOnce'
    BY <1>01, <1>02, <1>7, <2>0 DEF ExecutionFails
  <2>. QED
    BY <2>1, <2>2
<1>8. ASSUME NEW e \in Executions, WorkerDies(e) PROVE OneHand' /\ StagedOnce'
  <2>1. OneHand'
    BY <1>0, <1>8 DEF WorkerDies, Leave, OneHand, TypeOK
  <2>. QED
    BY <1>01, <1>8, <2>1 DEF WorkerDies
<1>9. ASSUME UNCHANGED <<runVars, run>> PROVE OneHand' /\ StagedOnce'
  BY <1>01, <1>9 DEF OneHand
<1>10. ASSUME NEW i \in Items, Approve(i) \/ Reject(i) PROVE UNCHANGED <<runVars, run>>
  BY <1>10 DEF Approve, Reject, Decided
<1>11. ASSUME StartPublish \/ CarryForward \/ SelectEligible \/ CloseItem \/ CommitPublish \/ PublishFails
              \/ UNCHANGED vars
       PROVE  UNCHANGED <<runVars, run>>
  BY <1>11 DEF StartPublish, CarryForward, SelectEligible, CloseItem, CommitPublish, PublishFails, vars
<1>. QED
  BY <1>1, <1>2, <1>3, <1>4, <1>5, <1>6, <1>7, <1>8, <1>9, <1>10, <1>11 DEF Next

(* RunReadsOnce: a run stages its readings once, through failures, retries *)
(* and dying workers, until a message is delivered while the first         *)
(* delivery's worker still works (extraction_runner.py:5).                 *)
THEOREM ReadsOnce == Spec => []RunReadsOnce
<1>1. Init => Once
  <2>1. {i \in Items : FALSE} = {} /\ Cardinality({}) = 0
    BY FS_EmptySet
  <2>2. Init => \A r \in Runs : {i \in Items : run[i] = r} = {}
    BY DEF Init, Runs
  <2>3. Init => StagedOnce
    BY <2>1, <2>2, ReviewBounds DEF Init, StagedOnce
  <2>4. Init => OneHand
    BY DEF Init, OneHand, Runs
  <2>. QED
    BY <2>3, <2>4 DEF Once
<1>2. TypeOK /\ TypeOK' /\ Once /\ [Next]_vars => Once'
  BY OnceStep
<1>3. Once => RunReadsOnce
  BY DEF Once, StagedOnce, RunReadsOnce
<1>4. Spec => []TypeOK
  BY TypeCorrect, PTL
<1>. QED
  BY <1>1, <1>2, <1>3, <1>4, PTL DEF Spec
==============================================================================
