------------------------------- MODULE Market -------------------------------
(***************************************************************************)
(* The market figures of one zone: imported items under review             *)
(* (api/services/market.py) and the zone's effective-dated assumptions     *)
(* versions (api/services/admin_config.py, core/assumptions.py).           *)
(*                                                                         *)
(* A staff request is one READ COMMITTED transaction; an action is one of  *)
(* its statements, or several between which nothing of another request     *)
(* can matter.  What a transaction has written shows at its commit; until  *)
(* then its item is in `job` and its row locks are in `holds` and `row`.   *)
(* A figure is the item it comes from or, when an administrator typed it,  *)
(* the number of the version that brought it.  Version 0 is "none".        *)
(***************************************************************************)
EXTENDS Integers, Sequences, FiniteSets, FiniteSetsExt

CONSTANTS Metrics,       \* land, build, design and sale rate
          Items,         \* imported figures of the zone
          MetricOf,      \* the metric of each item
          Clerks,        \* staff requests that can be under way at once
          MaxVersions,   \* bound: versions of the zone
          MaxDecisions,  \* bound: approvals and rejections
          MaxAdmins,     \* bound: administrators among the requests, by versions
          MaxDay         \* bound: days that pass

ASSUME MarketAssumption ==
  /\ MetricOf \in [Items -> Metrics] /\ Metrics # {}
  /\ Items \cap Nat = {}
  /\ {MaxVersions, MaxDecisions, MaxDay} \subseteq Nat
  /\ MaxAdmins \in [0..MaxVersions -> Nat]

VARIABLES
  verdict,    \* market_data.review_status (an amended item is approved)
  decided,    \* reviewed_at of an approved item, as the number of the decision
  applied,    \* market_data.applied_assumption_id
  versions,   \* the rows of financial_assumptions, in the order of their ids
  current,    \* the row with is_current, unique by index
  today, decisions,
  pc, job, holds, row,   \* per request: where it is, what it has read, its locks
  late, crossed          \* history: see Overtake

itemVars == <<verdict, decided, applied>>
zoneVars == <<versions, current>>
marketVars == <<itemVars, zoneVars, today, decisions, pc, job, holds, row, late, crossed>>

Days == 0..MaxDay
VersionIds == 1..Len(versions)
NoJob == [item |-> {}, at |-> 0, ready |-> {}, edits |-> {}, base |-> 0, saw |-> 0,
          head |-> 0, old |-> 0, from |-> 0, day |-> 0]

MarketInit ==
  /\ verdict = [i \in Items |-> "pending"]
  /\ decided = [i \in Items |-> 0]
  /\ applied = [i \in Items |-> 0]
  /\ versions = <<>> /\ current = 0
  /\ today = 0 /\ decisions = 0
  /\ pc = [c \in Clerks |-> "idle"]
  /\ job = [c \in Clerks |-> NoJob]
  /\ holds = [c \in Clerks |-> {}]
  /\ row = [c \in Clerks |-> 0]
  /\ late = {} /\ crossed = FALSE

-----------------------------------------------------------------------------
(* The timeline: core/assumptions.py *)

(* Mutant: the stated date, without the day the version was saved.         *)
AppliesFromStated(v) == versions[v].from

AppliesFrom(v) == Max({versions[v].from, versions[v].saved})

RanksBelow(v, w) ==
  \/ AppliesFrom(v) < AppliesFrom(w)
  \/ /\ AppliesFrom(v) = AppliesFrom(w)
     /\ \/ versions[v].no < versions[w].no
        \/ versions[v].no = versions[w].no /\ v < w

(* top_versions_sql: the version on top of the timeline on a day           *)
Top(day) ==
  LET due == {v \in VersionIds : AppliesFrom(v) <= day}
  IN  IF due = {} THEN 0 ELSE CHOOSE w \in due : \A v \in due \ {w} : RanksBelow(v, w)

Live(day) == IF Top(day) = 0 \/ versions[Top(day)].retired THEN 0 ELSE Top(day)

(* LATEST_ASSUMPTIONS_SQL: the newest row, by its version number           *)
Newest ==
  IF versions = <<>> THEN 0
  ELSE CHOOSE w \in VersionIds : \A v \in VersionIds \ {w} :
         versions[v].no < versions[w].no \/ (versions[v].no = versions[w].no /\ v < w)

-----------------------------------------------------------------------------
ItemFree(i, c) == \A d \in Clerks \ {c} : i \notin holds[d]
RowFree(v, c) == v = 0 \/ \A d \in Clerks \ {c} : row[d] # v

Waiting(i) == verdict[i] = "approved" /\ applied[i] = 0

Release(c) ==
  /\ pc' = [pc EXCEPT ![c] = "idle"]
  /\ job' = [job EXCEPT ![c] = NoJob]
  /\ holds' = [holds EXCEPT ![c] = {}]
  /\ row' = [row EXCEPT ![c] = 0]

(* At a commit the requests that have already read what it changes are     *)
(* late; when one of those commits, two requests have crossed.             *)
Overtake(c) ==
  /\ late' = (late \ {c}) \cup {d \in Clerks \ {c} : pc[d] \notin {"idle", "decided"}}
  /\ crossed' = (crossed \/ c \in late)

(* The bounds                                                              *)
CanDecide == decisions < MaxDecisions
CanSave == Len(versions) < MaxVersions
CanAdminister ==
  Cardinality({d \in Clerks : job[d].edits # {} \/ pc[d] = "retiring"})
    < MaxAdmins[Len(versions)]

Advance(c, at, j) == pc' = [pc EXCEPT ![c] = at] /\ job' = [job EXCEPT ![c] = j]
Undisturbed == UNCHANGED <<itemVars, zoneVars, today, decisions, late, crossed>>

-----------------------------------------------------------------------------
(* Decisions: MarketService._decide *)

(* Mutant: the item is read without FOR UPDATE.                            *)
ApproveUnlocked(c, i) ==
  /\ pc[c] = "idle" /\ CanDecide /\ CanSave
  /\ applied[i] = 0
  /\ ~\E k \in Items \ {i} : MetricOf[k] = MetricOf[i] /\ Waiting(k)
  /\ Advance(c, "decided", [NoJob EXCEPT !.item = {i}, !.at = decisions + 1, !.day = today])
  /\ decisions' = decisions + 1
  /\ UNCHANGED <<itemVars, zoneVars, today, holds, row, late, crossed>>

(* Approve or amend: LOCK_ITEM_SQL, the checks, OTHER_APPROVED_SQL,        *)
(* DECIDE_SQL.                                                             *)
Approve(c, i) ==
  /\ pc[c] = "idle" /\ CanDecide /\ CanSave
  /\ ItemFree(i, c) /\ applied[i] = 0
  /\ ~\E k \in Items \ {i} : MetricOf[k] = MetricOf[i] /\ Waiting(k)
  /\ Advance(c, "decided", [NoJob EXCEPT !.item = {i}, !.at = decisions + 1, !.day = today])
  /\ holds' = [holds EXCEPT ![c] = {i}]
  /\ decisions' = decisions + 1
  /\ UNCHANGED <<itemVars, zoneVars, today, row, late, crossed>>

(* Reject: nothing else is read, the decision is committed.                *)
Reject(i) ==
  /\ CanDecide
  /\ \A c \in Clerks : i \notin holds[c]
  /\ applied[i] = 0
  /\ verdict' = [verdict EXCEPT ![i] = "rejected"]
  /\ decisions' = decisions + 1
  /\ decided' = [decided EXCEPT ![i] = 0]
  /\ late' = late \cup {d \in Clerks : pc[d] \notin {"idle", "decided"}}
  /\ UNCHANGED <<applied, zoneVars, today, pc, job, holds, row, crossed>>

(* Mutant: READY_SQL runs before DECIDE_SQL.                               *)
SeenBefore(c) == {i \in Items : Waiting(i)}

(* READY_SQL, its snapshot: the item of this request and what others have  *)
(* committed.                                                              *)
Seen(c) == job[c].item \cup {i \in Items : Waiting(i)}

ReadReady(c) ==
  /\ pc[c] = "decided"
  /\ Advance(c, "reading", [job[c] EXCEPT !.ready = Seen(c)])
  /\ Undisturbed /\ UNCHANGED <<holds, row>>

(* READY_SQL, its FOR UPDATE: wait for the rows and look at them again.    *)
LockedReady(c) == {i \in job[c].ready : i \in job[c].item \/ Waiting(i)}
CanLockReady(c) == pc[c] = "reading" /\ \A i \in job[c].ready : ItemFree(i, c)

(* ZONE_ROW_SQL: the figures that apply today are carried over; without    *)
(* any the items wait until every metric has one.                          *)
Complete(c) ==
  \/ Live(job[c].day) # 0
  \/ {MetricOf[i] : i \in LockedReady(c)} = Metrics

(* by_metric: of several items of one metric the one decided last          *)
DecidedAt(c, i) == IF i \in job[c].item THEN job[c].at ELSE decided[i]
(* Mutant: two items of one metric are both written to the version.        *)
ChosenAll(c) == LockedReady(c)

Chosen(c) == {i \in LockedReady(c) : \A k \in LockedReady(c) :
                MetricOf[k] = MetricOf[i] => DecidedAt(c, k) <= DecidedAt(c, i)}

LockReady(c) ==
  /\ CanLockReady(c) /\ Complete(c)
  /\ Advance(c, "based", [job[c] EXCEPT !.base = Live(job[c].day), !.saw = Len(versions),
                                        !.ready = Chosen(c)])
  /\ holds' = [holds EXCEPT ![c] = @ \cup LockedReady(c)]
  /\ Undisturbed /\ UNCHANGED row

CommitDecision(c) ==
  /\ verdict' = [i \in Items |-> IF i \in job[c].item THEN "approved" ELSE verdict[i]]
  /\ decided' = [i \in Items |-> IF i \in job[c].item THEN job[c].at ELSE decided[i]]

CommitWaiting(c) ==
  /\ CanLockReady(c) /\ ~Complete(c)
  /\ CommitDecision(c)
  /\ Release(c) /\ Overtake(c)
  /\ UNCHANGED <<applied, zoneVars, today, decisions>>

-----------------------------------------------------------------------------
(* Administrators: create, update and retire a set of assumptions *)

(* create_assumptions states every rate, from today or a later day.        *)
Create(c) ==
  /\ pc[c] = "idle" /\ CanAdminister /\ CanSave
  /\ \E from \in today..MaxDay :
       Advance(c, "based", [NoJob EXCEPT !.edits = Metrics, !.from = from, !.day = today])
  /\ Undisturbed /\ UNCHANGED <<holds, row>>

(* update_assumptions: the newest row, read without a lock, with one rate  *)
(* changed.                                                                *)
Update(c) ==
  /\ pc[c] = "idle" /\ CanAdminister /\ CanSave /\ current # 0
  /\ \E from \in today..MaxDay, m \in Metrics :
       Advance(c, "based", [NoJob EXCEPT !.edits = {m}, !.base = current, !.saw = Len(versions),
                                         !.from = from, !.day = today])
  /\ Undisturbed /\ UNCHANGED <<holds, row>>

RetireRead(c) ==
  /\ pc[c] = "idle" /\ CanAdminister /\ Live(today) # 0
  /\ Advance(c, "retiring", [NoJob EXCEPT !.base = Live(today)])
  /\ Undisturbed /\ UNCHANGED <<holds, row>>

(* RETIRE_ASSUMPTIONS_SQL: by id, whatever the row is by now               *)
RetireWrite(c) ==
  /\ pc[c] = "retiring" /\ RowFree(job[c].base, c)
  /\ versions' = [versions EXCEPT ![job[c].base].retired = TRUE]
  /\ current' = IF current = job[c].base THEN 0 ELSE current
  /\ Release(c) /\ Overtake(c)
  /\ UNCHANGED <<itemVars, today, decisions>>

-----------------------------------------------------------------------------
(* insert_assumptions_version and the commit *)

(* LATEST_ASSUMPTIONS_SQL, its snapshot and its FOR UPDATE: the row that   *)
(* was the newest is waited for, a newer one committed meanwhile not seen. *)
PickLatest(c) ==
  /\ pc[c] = "based"
  /\ Advance(c, "queueing", [job[c] EXCEPT !.head = Newest])
  /\ Undisturbed /\ UNCHANGED <<holds, row>>

(* The lock is there; SUPERSEDE_ASSUMPTIONS_SQL finds the current row,     *)
(* which another request may hold.                                         *)
LockLatest(c) ==
  /\ pc[c] = "queueing" /\ RowFree(job[c].head, c)
  /\ Advance(c, "inserting", [job[c] EXCEPT !.old = current])
  /\ row' = [row EXCEPT ![c] = job[c].head]
  /\ Undisturbed /\ UNCHANGED holds

NewVersion(c) ==
  LET id == Len(versions) + 1
      from(m) == {i \in job[c].ready : MetricOf[i] = m}
  IN  [rate    |-> [m \in Metrics |-> IF m \in job[c].edits THEN id
                                      ELSE IF from(m) # {} THEN CHOOSE i \in from(m) : TRUE
                                      ELSE versions[job[c].base].rate[m]],
       changed |-> job[c].edits \cup {MetricOf[i] : i \in job[c].ready},
       no      |-> IF job[c].head = 0 THEN 1 ELSE versions[job[c].head].no + 1,
       from    |-> job[c].from,
       saved   |-> job[c].day,
       retired |-> FALSE,
       saw     |-> IF job[c].edits = Metrics THEN Len(versions) ELSE job[c].saw]

(* market_data.applied_assumption_id: MARK_APPLIED_SQL                     *)
MarkApplied(ids, v) == applied' = [i \in Items |-> IF i \in ids THEN v ELSE applied[i]]

Insert(c) ==
  /\ pc[c] = "inserting" /\ RowFree(job[c].old, c)
  /\ current = job[c].old \/ current = 0
  /\ CanSave
  /\ versions' = Append(versions, NewVersion(c))
  /\ current' = Len(versions) + 1
  /\ MarkApplied(job[c].ready, Len(versions) + 1)
  /\ CommitDecision(c)
  /\ Release(c) /\ Overtake(c)
  /\ UNCHANGED <<today, decisions>>

(* A second current row is refused by uq_financial_assumptions_current_zone*)
(* (a row that became current after the look is not in the statement's     *)
(* snapshot); a deadlock victim, a failing statement and a process that    *)
(* dies end the same way.                                                  *)
RollBack(c) ==
  /\ pc[c] # "idle"
  /\ Release(c)
  /\ late' = late \ {c}
  /\ UNCHANGED <<itemVars, zoneVars, today, decisions, crossed>>

(* Midnight passes between requests.                                       *)
NextDay ==
  /\ today < MaxDay /\ \A c \in Clerks : pc[c] = "idle"
  /\ today' = today + 1
  /\ UNCHANGED <<itemVars, zoneVars, decisions, pc, job, holds, row, late, crossed>>

Saves(c) == \/ PickLatest(c) \/ LockLatest(c) \/ Insert(c)

MarketNext ==
  \/ \E c \in Clerks : \/ \E i \in Items : Approve(c, i)
                       \/ ReadReady(c) \/ LockReady(c) \/ CommitWaiting(c)
                       \/ Create(c) \/ Update(c) \/ RetireRead(c) \/ RetireWrite(c)
                       \/ Saves(c) \/ RollBack(c)
  \/ \E i \in Items : Reject(i)
  \/ NextDay

MarketSpec == MarketInit /\ [][MarketNext]_marketVars

-----------------------------------------------------------------------------
(* Properties *)

(* Rows and requests have the shape schema and code give them.             *)
MarketTypeOK ==
  /\ verdict \in [Items -> {"pending", "approved", "rejected"}]
  /\ decided \in [Items -> 0..decisions]
  /\ applied \in [Items -> 0..MaxVersions]
  /\ \A v \in VersionIds : versions[v].rate \in [Metrics -> Items \cup VersionIds]
  /\ current \in 0..Len(versions)
  /\ current # 0 => ~versions[current].retired
  /\ today \in Days /\ decisions \in Nat
  /\ pc \in [Clerks -> {"idle", "decided", "reading", "based", "queueing", "inserting",
                        "retiring"}]
  /\ holds \in [Clerks -> SUBSET Items]
  /\ row \in [Clerks -> 0..MaxVersions]

(* market.py:16: an applied item is closed.  No decision, retry or         *)
(* concurrent approval changes it or applies it again.                     *)
AppliedIsClosed ==
  [][\A i \in Items : applied[i] # 0 =>
       applied'[i] = applied[i] /\ verdict'[i] = verdict[i] /\ decided'[i] = decided[i]]_marketVars

(* A figure stands in an assumptions version exactly if its item was       *)
(* approved and names the version that first had it: nothing unreviewed is *)
(* live, no item claims a version that took another one's figure.          *)
Provenance ==
  /\ \A i \in Items : applied[i] # 0 =>
        verdict[i] = "approved" /\ versions[applied[i]].rate[MetricOf[i]] = i
  /\ \A v \in VersionIds, m \in Metrics : versions[v].rate[m] \in Items =>
        applied[versions[v].rate[m]] \in 1..v

(* market.py:15, "the other rates are carried over": a version whose       *)
(* writer saw the one before it, in force on the day it was saved, differs *)
(* from that one only in the rates it was written for.                     *)
CarriedOver ==
  LET starts(v) == Max({versions[v].from, versions[v].saved})
  IN  \A v \in 2..Len(versions) :
        /\ versions[v].saw = v - 1
        /\ starts(v - 1) <= versions[v].saved
        /\ \A u \in 1..(v - 2) : /\ starts(u) <= starts(v - 1)
                                 /\ versions[u].no < versions[v - 1].no
        => \A m \in Metrics \ versions[v].changed : versions[v].rate[m] = versions[v - 1].rate[m]

(* market.py:15: a zone without figures gets its version when every metric *)
(* has an approved item; nobody is left waiting for nothing, until two     *)
(* requests cross.                                                         *)
FirstVersionArrives ==
  \/ crossed \/ Live(today) # 0
  \/ \E c \in Clerks : pc[c] # "idle"
  \/ \E m \in Metrics : \A i \in Items : MetricOf[i] = m => ~Waiting(i)
=============================================================================
