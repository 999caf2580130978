------------------------------- MODULE Review -------------------------------
(***************************************************************************)
(* One planning value on its way to the map: extraction runs over a        *)
(* document's file read it (jobs/extraction_runner.py), reviewers decide   *)
(* on the items the runs staged (api/services/review.py), publishes serve  *)
(* one of them (the values step of jobs/publish_pipeline.py).              *)
(*                                                                         *)
(* All items here are of one slot: one target and field of one version of  *)
(* one document.  An amended item is an approved one.  Item 0 stands for   *)
(* "none"; reviewed_at is the number of the decision.  The publish         *)
(* transaction is READ COMMITTED: each of its statements sees what is      *)
(* committed by then.  Bounded events are counted in `spent`:              *)
(*   crash    a worker dies; its message is delivered again                *)
(*   overlap  a message is delivered again while its worker still works    *)
(*   failure  an execution of a run fails                                  *)
(***************************************************************************)
EXTENDS Naturals, FiniteSets

CONSTANTS Executions,    \* worker processes
          MaxRuns,       \* bound: extraction runs
          MaxItems,      \* bound: items the runs stage
          MaxReadings,   \* how often one run may read the slot
          MaxDecisions,  \* bound: decisions of reviewers
          Budget         \* bound: how often each event may happen

Events == {"crash", "overlap", "failure"}
Runs == 1..MaxRuns
Items == 1..MaxItems

ASSUME ReviewBounds == /\ MaxRuns \in Nat /\ MaxItems \in Nat
                       /\ MaxReadings \in Nat /\ MaxDecisions \in Nat
                       /\ Budget \in [Events -> Nat]

VARIABLES status,       \* run -> extraction_runs.status, "none" before it is queued
          deliverable,  \* runs whose job message waits for a worker
          pc, doing,    \* execution -> its next step, its run
          state,        \* item -> review_state, "absent" before it is staged
          run, prior,   \* item -> run_id, previous_item_id
          superseded,   \* items with superseded_at
          published,    \* items with published_value_id
          reviewed,     \* item -> reviewed_at, 0 before a decision
          nextItem, decisions,
          publish,      \* next step of the publish job
          carried,      \* value its version carries forward
          chosen,       \* item it publishes
          served,       \* value the current version serves
          revoked,      \* history: items rejected when the publish relied on
                        \* them, each with its next step then
          spent

runVars == <<status, deliverable, pc, doing>>
itemVars == <<state, run, prior, superseded, reviewed, nextItem, decisions>>
publishVars == <<published, publish, carried, chosen, served>>
vars == <<runVars, itemVars, publishVars, revoked, spent>>

Init ==
  /\ status = [r \in Runs |-> "none"]
  /\ deliverable = {}
  /\ pc = [e \in Executions |-> "idle"]
  /\ doing = [e \in Executions |-> 0]
  /\ state = [i \in Items |-> "absent"]
  /\ run = [i \in Items |-> 0]
  /\ prior = [i \in Items |-> 0]
  /\ superseded = {} /\ published = {}
  /\ reviewed = [i \in Items |-> 0]
  /\ nextItem = 1 /\ decisions = 0
  /\ publish = "idle" /\ carried = 0 /\ chosen = 0 /\ served = 0 /\ revoked = {}
  /\ spent = [e \in Events |-> 0]

Spend(e) == /\ spent[e] < Budget[e]
            /\ spent' = [spent EXCEPT ![e] = @ + 1]

Open(i) == i \notin superseded /\ i \notin published

-----------------------------------------------------------------------------
(* Extraction runs *)

(* The run's job is queued, running or retrying.                           *)
Active(r) == \/ status[r] \in {"queued", "extracting"}
             \/ /\ status[r] = "failed"
                /\ r \in deliverable \/ \E e \in Executions : doing[e] = r

(* enqueue_extract: the dedupe key admits one active run over a file; a    *)
(* finished one is read again only when forced or with a newer prompt.     *)
QueueRun(r) ==
  /\ status[r] = "none"
  /\ \A q \in Runs : q < r => status[q] # "none"
  /\ \A q \in Runs : ~Active(q)
  /\ status' = [status EXCEPT ![r] = "queued"]
  /\ deliverable' = deliverable \cup {r}
  /\ UNCHANGED <<pc, doing, itemVars, publishVars, revoked, spent>>

(* A failed job is retried by an administrator.                            *)
RetryRun(r) ==
  /\ status[r] = "failed"
  /\ \A q \in Runs : ~Active(q)
  /\ deliverable' = deliverable \cup {r}
  /\ UNCHANGED <<status, pc, doing, itemVars, publishVars, revoked, spent>>

(* Mutant: a finished run is not recognised.                               *)
LoadRunAnyStatus(e, r) ==
  /\ pc[e] = "idle" /\ r \in deliverable
  /\ deliverable' = deliverable \ {r}
  /\ pc' = [pc EXCEPT ![e] = "loaded"] /\ doing' = [doing EXCEPT ![e] = r]
  /\ UNCHANGED <<status, itemVars, publishVars, revoked, spent>>

(* run: the status of the run is read, without a lock; a re-delivered      *)
(* message of a finished run is done.                                      *)
LoadRun(e, r) ==
  /\ pc[e] = "idle" /\ r \in deliverable
  /\ deliverable' = deliverable \ {r}
  /\ \/ status[r] = "ready_for_review" /\ UNCHANGED <<pc, doing>>
     \/ /\ status[r] # "ready_for_review"
        /\ pc' = [pc EXCEPT ![e] = "loaded"] /\ doing' = [doing EXCEPT ![e] = r]
  /\ UNCHANGED <<status, itemVars, publishVars, revoked, spent>>

(* _start: the status is set whatever it is by now.                        *)
StartRun(e) ==
  /\ pc[e] = "loaded"
  /\ status' = [status EXCEPT ![doing[e]] = "extracting"]
  /\ pc' = [pc EXCEPT ![e] = "reading"]
  /\ UNCHANGED <<deliverable, doing, itemVars, publishVars, revoked, spent>>

(* PREVIOUS_SQL: the newest item of other runs that is not superseded      *)
Earlier(r) == {i \in Items : state[i] # "absent" /\ i \notin superseded /\ run[i] # r}
Previous(r, p) == \/ p = 0 /\ Earlier(r) = {}
                  \/ p \in Earlier(r) /\ \A j \in Earlier(r) : j <= p

(* SUPERSEDE_SQL for the run's own file: pending items of earlier runs     *)
Replaced(r) == {i \in Items : state[i] = "pending" /\ Open(i) /\ run[i] # r}

(* _write: one transaction at the end stages what the run read.  Its       *)
(* statements are one step: nothing it reads is changed by a decision.     *)
WriteItems(e) ==
  /\ pc[e] = "reading"
  /\ \E n \in 0..MaxReadings, p \in Items \cup {0} :
       /\ nextItem + n <= MaxItems + 1
       /\ Previous(doing[e], p)
       /\ LET r == doing[e]
              new == {i \in Items : nextItem <= i /\ i < nextItem + n}
          IN /\ state' = [i \in Items |-> IF i \in new THEN "pending" ELSE state[i]]
             /\ run' = [i \in Items |-> IF i \in new THEN r ELSE run[i]]
             /\ prior' = [i \in Items |-> IF i \in new THEN p ELSE prior[i]]
             /\ superseded' = superseded \cup Replaced(r)
             /\ status' = [status EXCEPT ![r] = "ready_for_review"]
       /\ nextItem' = nextItem + n
  /\ pc' = [pc EXCEPT ![e] = "written"]
  /\ UNCHANGED <<deliverable, doing, reviewed, decisions, publishVars, revoked, spent>>

Leave(e) == pc' = [pc EXCEPT ![e] = "idle"] /\ doing' = [doing EXCEPT ![e] = 0]

AckRun(e) ==
  /\ pc[e] = "written"
  /\ Leave(e)
  /\ UNCHANGED <<status, deliverable, itemVars, publishVars, revoked, spent>>

(* A transient error leaves the run to the job's next attempt; any other,  *)
(* or the last attempt, fails it unless it has finished (FAIL_SQL).        *)
ExecutionFails(e) ==
  /\ pc[e] = "reading"
  /\ Spend("failure")
  /\ \/ /\ deliverable' = deliverable \cup {doing[e]}
        /\ UNCHANGED status
     \/ /\ status' = [status EXCEPT ![doing[e]] =
                        IF @ = "ready_for_review" THEN @ ELSE "failed"]
        /\ UNCHANGED deliverable
  /\ Leave(e)
  /\ UNCHANGED <<itemVars, publishVars, revoked>>

(* The broker delivers a dead worker's message again, and after the        *)
(* visibility timeout a slow worker's too.                                 *)
WorkerDies(e) ==
  /\ pc[e] # "idle"
  /\ Spend("crash")
  /\ deliverable' = deliverable \cup {doing[e]}
  /\ Leave(e)
  /\ UNCHANGED <<status, itemVars, publishVars, revoked>>

Redeliver(e) ==
  /\ pc[e] # "idle"
  /\ Spend("overlap")
  /\ deliverable' = deliverable \cup {doing[e]}
  /\ UNCHANGED <<status, pc, doing, itemVars, publishVars, revoked>>

-----------------------------------------------------------------------------
(* Decisions *)

(* CLOSE_ITEM holds the item's row until the publish transaction ends.     *)
Locked(i) == publish = "closed" /\ chosen = i /\ i # 0

Decidable(i) == /\ decisions < MaxDecisions
                /\ state[i] # "absent" /\ Open(i) /\ ~Locked(i)

Decided(i, decision) ==
  /\ state' = [state EXCEPT ![i] = decision]
  /\ reviewed' = [reviewed EXCEPT ![i] = decisions + 1]
  /\ decisions' = decisions + 1
  /\ UNCHANGED <<runVars, run, prior, nextItem, publishVars, spent>>

(* Mutant: the replaced item stays open.                                   *)
ApproveOnly(i) ==
  /\ Decidable(i)
  /\ Decided(i, "approved")
  /\ UNCHANGED <<superseded, revoked>>

(* approve and amend: DECIDE_SQL, then RETIRE_PREVIOUS_SQL supersedes the  *)
(* approved item this one was read to replace.                             *)
Approve(i) ==
  /\ Decidable(i) /\ ~Locked(prior[i])
  /\ Decided(i, "approved")
  /\ superseded' = superseded \cup
       {j \in Items : j = prior[i] /\ state[j] = "approved" /\ Open(j)}
  /\ UNCHANGED revoked

(* A publish has left the served value to the approved items, or has       *)
(* selected this one.                                                      *)
ReliedOn(i) == state[i] = "approved" /\ (publish = "carried" \/ chosen = i)

Reject(i) ==
  /\ Decidable(i)
  /\ Decided(i, "rejected")
  /\ revoked' = IF ReliedOn(i) THEN revoked \cup {<<i, publish>>} ELSE revoked
  /\ UNCHANGED superseded

-----------------------------------------------------------------------------
(* The values step of a publish *)

NonePending == \A i \in Items : state[i] = "pending" => ~Open(i)

(* Mutants: any decided item, any item at all.                             *)
EligibleDecided == {i \in Items : state[i] \in {"approved", "rejected"} /\ Open(i)}
EligibleUndecided == {i \in Items : state[i] # "absent" /\ Open(i)}

Eligible == {i \in Items : state[i] = "approved" /\ Open(i)}

Latest(i) == i \in Eligible /\ \A j \in Eligible : reviewed[j] <= reviewed[i]

StartPublish ==
  /\ publish = "idle"
  /\ NonePending
  /\ publish' = "started"
  /\ UNCHANGED <<runVars, itemVars, published, carried, chosen, served, revoked, spent>>

(* Mutant: superseded decisions override the served value too.             *)
CarriedUnlessDecided ==
  IF \E i \in Items : state[i] = "approved" /\ i \notin published THEN 0 ELSE served

(* CARRY_FORWARD: the served value, unless an eligible item overrides it   *)
Carried == IF Eligible = {} THEN served ELSE 0

CarryForward ==
  /\ publish = "started"
  /\ carried' = Carried
  /\ publish' = "carried"
  /\ UNCHANGED <<runVars, itemVars, published, chosen, served, revoked, spent>>

(* ELIGIBLE_ITEMS again, in a statement of its own: the latest decision    *)
SelectEligible ==
  /\ publish = "carried"
  /\ \/ Eligible = {} /\ chosen' = 0
     \/ \E i \in Items : Latest(i) /\ chosen' = i
  /\ publish' = "selected"
  /\ UNCHANGED <<runVars, itemVars, published, carried, served, revoked, spent>>

(* INSERT_VALUE and CLOSE_ITEM; a value carried and inserted breaks the    *)
(* unique index.  CLOSE_ITEM does not look at the item again.              *)
CloseItem ==
  /\ publish = "selected"
  /\ ~(chosen # 0 /\ carried # 0)
  /\ publish' = "closed"
  /\ UNCHANGED <<runVars, itemVars, published, carried, chosen, served, revoked, spent>>

PublishEnds == publish' = "idle" /\ carried' = 0 /\ chosen' = 0 /\ revoked' = {}

CommitPublish ==
  /\ publish = "closed"
  /\ published' = published \cup {i \in Items : i = chosen}
  /\ served' = IF chosen # 0 THEN chosen ELSE carried
  /\ PublishEnds
  /\ UNCHANGED <<runVars, itemVars, spent>>

(* Any step raises, the unique index among them: everything is rolled back.*)
PublishFails ==
  /\ publish # "idle"
  /\ PublishEnds
  /\ UNCHANGED <<runVars, itemVars, published, served, spent>>

-----------------------------------------------------------------------------
Next ==
  \/ \E r \in Runs : QueueRun(r) \/ RetryRun(r) \/ \E e \in Executions : LoadRun(e, r)
  \/ \E e \in Executions : \/ StartRun(e) \/ WriteItems(e) \/ AckRun(e)
                           \/ ExecutionFails(e) \/ WorkerDies(e) \/ Redeliver(e)
  \/ \E i \in Items : Approve(i) \/ Reject(i)
  \/ StartPublish \/ CarryForward \/ SelectEligible \/ CloseItem \/ CommitPublish \/ PublishFails

Spec == Init /\ [][Next]_vars

-----------------------------------------------------------------------------
(* Properties *)

(* Rows have the shape the schema gives them; an item replaces an earlier  *)
(* one, and only an item someone decided on is published.                  *)
TypeOK ==
  /\ status \in [Runs -> {"none", "queued", "extracting", "ready_for_review", "failed"}]
  /\ deliverable \subseteq Runs
  /\ pc \in [Executions -> {"idle", "loaded", "reading", "written"}]
  /\ doing \in [Executions -> Runs \cup {0}]
  /\ \A e \in Executions : pc[e] # "idle" => doing[e] \in Runs
  /\ state \in [Items -> {"absent", "pending", "approved", "rejected"}]
  /\ run \in [Items -> Runs \cup {0}]
  /\ prior \in [Items -> Items \cup {0}]
  /\ superseded \subseteq Items /\ published \subseteq Items
  /\ reviewed \in [Items -> 0..MaxDecisions]
  /\ nextItem \in 1..(MaxItems + 1)
  /\ decisions \in 0..MaxDecisions
  /\ publish \in {"idle", "started", "carried", "selected", "closed"}
  /\ carried \in Items \cup {0} /\ chosen \in Items \cup {0} /\ served \in Items \cup {0}
  /\ spent \in [Events -> Nat]
  /\ \A i \in Items : /\ nextItem <= i => state[i] = "absent"
                      /\ prior[i] < i
                      /\ i \in published => reviewed[i] # 0

(* review.py:163-164: once a newer reading is served, the older one it     *)
(* replaced is not published over it, unless a reviewer approved the older *)
(* one later or turned the newer one down.                                 *)
ReplacedStaysOut ==
  [][served' # served /\ served # 0 /\ served' # 0 /\ prior[served] = served'
       => reviewed[served'] > reviewed[served] \/ state[served] = "rejected"]_vars

(* publish_pipeline.py:207-208: of the decisions on a slot the latest wins,*)
(* also across publishes.                                                  *)
LatestDecisionWins ==
  [][served' # served /\ served # 0 /\ served' # 0
       => reviewed[served'] > reviewed[served] \/ state[served] = "rejected"]_vars

(* extraction_runner.py:5: a re-delivered message changes nothing, so a run*)
(* has staged its readings once, through failures, retries and crashes,    *)
(* until a message is delivered while the worker of the first one works.   *)
RunReadsOnce ==
  \/ spent["overlap"] > 0
  \/ \A r \in Runs : Cardinality({i \in Items : run[i] = r}) <= MaxReadings

(* review.py:7: a rejected item is kept out of what a publish serves;       *)
(* CLOSE_ITEM does not look again, so one that is rejected when the publish *)
(* has already selected it is served all the same.                         *)
RejectedKeptOut ==
  [][served' # served /\ served' # 0
       => state[served'] = "approved" \/ <<served', "selected">> \in revoked]_vars

(* publish_pipeline.py:14: a served value is carried forward or overridden,*)
(* a publish never drops it; unless an item that was to override it is     *)
(* rejected between the two statements that look for such items.           *)
ValueKept ==
  [][served # 0 => served' # 0 \/ \E i \in Items : <<i, "carried">> \in revoked]_vars
=============================================================================
