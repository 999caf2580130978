------------------------------ MODULE Publish -------------------------------
(***************************************************************************)
(* The publish pipeline (jobs/publish_pipeline.py): a run builds a new     *)
(* serving version in one READ COMMITTED transaction, uploads its tile     *)
(* archive to the object store, makes the version current and prunes old   *)
(* ones; a refresh rebuilds the heatmaps and the archive of the current    *)
(* version in place.  The database and the object store fail separately.   *)
(*                                                                         *)
(* Row locks decide who waits for whom.  SELECT ... FOR UPDATE on the      *)
(* current row waits for the transaction that holds it and then looks at   *)
(* that same row again: if it is no longer current the statement returns   *)
(* nothing, a newer current row is not in its snapshot.                    *)
(*                                                                         *)
(* Review items and staged batches are one set of items here: both hold a  *)
(* publish up while pending and go out once when approved.  Version 0      *)
(* stands for "no row".  Bounded events are counted in `spent`:            *)
(*   step       a statement, the tile builder, an upload or a commit fails *)
(*   lostAnswer a commit or an upload takes effect but reports an error    *)
(*   report     the job's progress cannot be written                       *)
(*   storage    the object store refuses a deletion                        *)
(*   crash      the worker process dies                                    *)
(*   operator   an operator points is_current at a kept version by hand    *)
(*   change     other assumptions versions start to apply                  *)
(***************************************************************************)
EXTENDS Naturals, FiniteSets

CONSTANTS Runs,         \* worker processes executing publish_approved
          Refreshes,    \* worker processes executing refresh_heatmaps
          Items,        \* review items and staged geometry batches
          Assumptions,  \* assumptions versions of the sale price
          MaxVersion,   \* bound: ids the sequence hands out
          KeepVersions, \* keep_versions after max(2, .)
          Budget,       \* bound: how often each event may happen
          None          \* "no value"

Events == {"step", "lostAnswer", "report", "storage", "crash", "operator", "change"}

ASSUME ProcsAssumption == /\ Runs \cap Refreshes = {}
                          /\ None \notin Runs \cup Refreshes \cup Assumptions
ASSUME KeepAssumption == KeepVersions \in Nat /\ KeepVersions >= 2
ASSUME BoundsAssumption == MaxVersion \in Nat \ {0} /\ Budget \in [Events -> Nat]

Procs == Runs \cup Refreshes
Versions == 1..MaxVersion

VARIABLES item,     \* item -> its review state
          rows,     \* ids of the committed publish_versions rows
          current,  \* the row flagged is_current
          previous, \* version -> previous_version_id
          values,   \* version -> the items its serving values come from
          archived, \* rows with an archive_key
          pruned,   \* rows with archive_pruned_at
          cells,    \* version -> assumptions its stored heatmap cells used
          bucket,   \* version -> assumptions the heatmap in its object used
          applied,  \* the assumptions version that applies today
          nextId,   \* publish_versions id sequence
          holder,   \* version -> the process whose transaction locked the row
          pc, wanted, \* process -> its next step, the row it waits for
          base,     \* process -> the row its FOR UPDATE returned
          draft,    \* process -> the row its transaction inserted
          closing,  \* process -> items its transaction closed
          heat,     \* process -> assumptions its cells were computed from
          uploaded, \* process -> archive of a version not (yet) committed
          doomed,   \* process -> versions its prune selected
          verdict,  \* process -> how its job ended
          spent

itemVars == <<item>>
rowVars == <<rows, current, previous, values, archived, pruned, cells, nextId>>
lockVars == <<holder, wanted, base>>
workVars == <<draft, closing, heat, uploaded, doomed>>
vars == <<item, rowVars, bucket, applied, lockVars, pc, workVars, verdict, spent>>

Init ==
  /\ item = [i \in Items |-> "absent"]
  /\ \/ rows = {} /\ current = 0 /\ nextId = 1
     \/ rows = {1} /\ current = 1 /\ nextId = 2  \* core/seeds.py: no archive
  /\ previous = [v \in Versions |-> 0]
  /\ values = [v \in Versions |-> {}]
  /\ archived = {} /\ pruned = {}
  /\ \E a \in Assumptions : applied = a /\ cells = [v \in Versions |-> a]
  /\ bucket = [v \in Versions |-> None]
  /\ holder = [v \in Versions |-> None]
  /\ pc = [p \in Procs |-> "idle"]
  /\ wanted = [p \in Procs |-> 0]
  /\ base = [p \in Procs |-> 0]
  /\ draft = [p \in Procs |-> 0]
  /\ closing = [p \in Procs |-> {}]
  /\ heat = [p \in Procs |-> None]
  /\ uploaded = [p \in Procs |-> 0]
  /\ doomed = [p \in Procs |-> {}]
  /\ verdict = [p \in Procs |-> "none"]
  /\ spent = [e \in Events |-> 0]

Spend(e) == /\ spent[e] < Budget[e]
            /\ spent' = [spent EXCEPT ![e] = @ + 1]

Drafting == {"inserted", "valued", "building", "flipping"}
InTransaction == {"checked", "locking", "numbering", "inserting"} \cup Drafting

(* Commit or rollback: the transaction's row lock goes, and what it read.  *)
TransactionEnds(p) ==
  /\ holder' = [v \in Versions |-> IF holder[v] = p THEN None ELSE holder[v]]
  /\ wanted' = [wanted EXCEPT ![p] = 0]
  /\ base' = [base EXCEPT ![p] = 0]
  /\ heat' = [heat EXCEPT ![p] = None]
  /\ closing' = [closing EXCEPT ![p] = {}]

-----------------------------------------------------------------------------
(* Review items and staged batches: what the review modules leave here     *)

Pending == {i \in Items : item[i] = "pending"}
Eligible == {i \in Items : item[i] = "approved"}

(* A decision on an item whose row a publish has closed waits for it.      *)
Undecided(i) == \A r \in Runs : i \notin closing[r]

Stage(i) ==
  /\ item[i] = "absent"
  /\ item' = [item EXCEPT ![i] = "pending"]
  /\ UNCHANGED <<rowVars, bucket, applied, lockVars, pc, workVars, verdict, spent>>

Decide(i, decision) ==
  /\ item[i] \in {"pending", "approved", "rejected"} \ {decision}
  /\ Undecided(i)
  /\ item' = [item EXCEPT ![i] = decision]
  /\ UNCHANGED <<rowVars, bucket, applied, lockVars, pc, workVars, verdict, spent>>

(* A saved, scheduled or retired assumptions version changes what applies. *)
Reprice(a) ==
  /\ a # applied
  /\ Spend("change")
  /\ applied' = a
  /\ UNCHANGED <<itemVars, rowVars, bucket, lockVars, pc, workVars, verdict>>

(* README.md:95: an operator can point is_current at a kept version.       *)
OperatorFlip(v) ==
  /\ v \in rows \ (pruned \cup {current})
  /\ holder[current] = None
  /\ Spend("operator")
  /\ current' = v
  /\ UNCHANGED <<itemVars, rows, previous, values, archived, pruned, cells, nextId, bucket,
                 applied, lockVars, pc, workVars, verdict>>

-----------------------------------------------------------------------------
(* FOR UPDATE on the current row, in a publish and in a refresh *)

(* Bound: a publish only starts while an id is left for it.                *)
RoomForOneMore == nextId + Cardinality({q \in Runs : pc[q] # "idle"}) <= MaxVersion

(* preflight: a pending item or batch stops the run before it locks        *)
Preflight(r) ==
  /\ pc[r] = "idle"
  /\ RoomForOneMore
  /\ pc' = [pc EXCEPT ![r] = IF Pending = {} THEN "checked" ELSE "failing"]
  /\ draft' = [draft EXCEPT ![r] = 0]
  /\ verdict' = [verdict EXCEPT ![r] = "none"]
  /\ UNCHANGED <<itemVars, rowVars, bucket, applied, lockVars, closing, heat, uploaded, doomed, spent>>

(* The statement's snapshot: the row that is current now, or none.         *)
BeginLock(p) ==
  /\ \/ p \in Runs /\ pc[p] = "checked"
     \/ p \in Refreshes /\ pc[p] = "idle" /\ current # 0
  /\ wanted' = [wanted EXCEPT ![p] = current]
  /\ base' = [base EXCEPT ![p] = 0]
  /\ pc' = [pc EXCEPT ![p] = IF current = 0 THEN "numbering" ELSE "locking"]
  /\ UNCHANGED <<itemVars, rowVars, bucket, applied, holder, workVars, verdict, spent>>

(* The lock is free and the row still current: its id is what is read.     *)
GetLock(p) ==
  /\ pc[p] = "locking"
  /\ holder[wanted[p]] = None
  /\ current = wanted[p]
  /\ holder' = [holder EXCEPT ![current] = p]
  /\ base' = [base EXCEPT ![p] = current]
  /\ pc' = [pc EXCEPT ![p] = IF p \in Runs THEN "numbering" ELSE "locked"]
  /\ UNCHANGED <<itemVars, rowVars, bucket, applied, wanted, workVars, verdict, spent>>

(* Another transaction unset the row meanwhile: the statement returns no   *)
(* row; a publish goes on as the first one would, a refresh is done.       *)
LoseLock(p) ==
  /\ pc[p] = "locking"
  /\ holder[wanted[p]] = None
  /\ current # wanted[p]
  /\ pc' = [pc EXCEPT ![p] = IF p \in Runs THEN "numbering" ELSE "idle"]
  /\ UNCHANGED <<itemVars, rowVars, bucket, applied, lockVars, workVars, verdict, spent>>

-----------------------------------------------------------------------------
(* PublishPipeline.run *)

(* INSERT_VERSION: version_no is max + 1 and unique, so a second insert    *)
(* waits for the transaction that holds the number.                        *)
Numbered == {q \in Runs : pc[q] \in Drafting}

InsertVersion(r) ==
  /\ \/ pc[r] = "numbering"
     \/ pc[r] = "inserting" /\ wanted[r] \notin rows
  /\ Numbered = {}
  /\ nextId \in Versions
  /\ draft' = [draft EXCEPT ![r] = nextId]
  /\ previous' = [previous EXCEPT ![nextId] = base[r]]
  /\ nextId' = nextId + 1
  /\ pc' = [pc EXCEPT ![r] = "inserted"]
  /\ UNCHANGED <<itemVars, rows, current, values, archived, pruned, cells, bucket, applied,
                 lockVars, closing, heat, uploaded, doomed, verdict, spent>>

InsertWaits(r) ==
  /\ pc[r] = "numbering"
  /\ \E q \in Numbered : wanted' = [wanted EXCEPT ![r] = draft[q]]
  /\ pc' = [pc EXCEPT ![r] = "inserting"]
  /\ UNCHANGED <<itemVars, rowVars, bucket, applied, holder, base, workVars, verdict, spent>>

(* Mutant: a rollback that never reaches the database.                     *)
RollbackKeepsLock(p, next) ==
  /\ pc' = [pc EXCEPT ![p] = next]
  /\ closing' = [closing EXCEPT ![p] = {}]
  /\ UNCHANGED <<itemVars, rowVars, applied, lockVars, draft, heat, uploaded, doomed, verdict>>

(* A raised exception before the commit rolls the transaction back.        *)
Rollback(p, next) ==
  /\ pc' = [pc EXCEPT ![p] = next]
  /\ TransactionEnds(p)
  /\ UNCHANGED <<itemVars, rowVars, applied, draft, uploaded, doomed, verdict>>

InsertRefused(r) ==
  /\ pc[r] = "inserting"
  /\ wanted[r] \in rows
  /\ Rollback(r, "failing")
  /\ UNCHANGED <<bucket, spent>>

(* Mutant: only the new decisions, nothing carried forward.                *)
VersionValuesFresh(r) == Eligible

(* Steps values, geometry and links: the previous version's values carried *)
(* forward, then every eligible item, which is closed.                     *)
VersionValues(r) == Eligible \cup IF base[r] = 0 THEN {} ELSE values[base[r]]

PublishValues(r) ==
  /\ pc[r] = "inserted"
  /\ values' = [values EXCEPT ![draft[r]] = VersionValues(r)]
  /\ closing' = [closing EXCEPT ![r] = Eligible]
  /\ pc' = [pc EXCEPT ![r] = "valued"]
  /\ UNCHANGED <<itemVars, rows, current, previous, archived, pruned, cells, nextId, bucket,
                 applied, lockVars, draft, heat, uploaded, doomed, verdict, spent>>

(* Step cells, in a publish and in a refresh                               *)
ComputeCells(p) ==
  /\ pc[p] = IF p \in Runs THEN "valued" ELSE "locked"
  /\ heat' = [heat EXCEPT ![p] = applied]
  /\ pc' = [pc EXCEPT ![p] = IF p \in Runs THEN "building" ELSE "rebuilding"]
  /\ UNCHANGED <<itemVars, rowVars, bucket, applied, lockVars, draft, closing, uploaded, doomed,
                 verdict, spent>>

(* Mutant: the key of the uploaded archive is not remembered.              *)
UploadForgotten(r) ==
  /\ pc[r] = "building"
  /\ bucket' = [bucket EXCEPT ![draft[r]] = heat[r]]
  /\ pc' = [pc EXCEPT ![r] = "flipping"]
  /\ UNCHANGED <<itemVars, rowVars, applied, lockVars, workVars, verdict, spent>>

(* Steps export, tiles and upload, under the version's own key             *)
Upload(r) ==
  /\ pc[r] = "building"
  /\ bucket' = [bucket EXCEPT ![draft[r]] = heat[r]]
  /\ uploaded' = [uploaded EXCEPT ![r] = draft[r]]
  /\ pc' = [pc EXCEPT ![r] = "flipping"]
  /\ UNCHANGED <<itemVars, rowVars, applied, lockVars, draft, closing, heat, doomed, verdict, spent>>

PointerMoves(r) == rows' = rows \cup {draft[r]} /\ current' = draft[r]

(* UNSET_CURRENT, FLIP and the commit.  UNSET_CURRENT updates whichever    *)
(* row is current and waits for its lock.                                  *)
CommitVersion(r) ==
  /\ pc[r] = "flipping"
  /\ current # 0 => holder[current] \in {None, r}
  /\ PointerMoves(r)
  /\ archived' = archived \cup {draft[r]}
  /\ cells' = [cells EXCEPT ![draft[r]] = heat[r]]
  /\ item' = [i \in Items |-> IF i \in closing[r] THEN "published" ELSE item[i]]
  /\ TransactionEnds(r)
  /\ UNCHANGED <<previous, values, pruned, nextId, bucket, applied, draft, doomed, verdict>>

(* Mutant: uploaded = None is forgotten after the commit.                  *)
FlipStillUploaded(r) ==
  /\ CommitVersion(r)
  /\ pc' = [pc EXCEPT ![r] = "reporting"]
  /\ UNCHANGED <<uploaded, spent>>

Flip(r) ==
  /\ CommitVersion(r)
  /\ uploaded' = [uploaded EXCEPT ![r] = 0]
  /\ pc' = [pc EXCEPT ![r] = "reporting"]
  /\ UNCHANGED spent

(* The commit reached the database, its acknowledgement did not come back. *)
FlipUnanswered(r) ==
  /\ CommitVersion(r)
  /\ Spend("lostAnswer")
  /\ pc' = [pc EXCEPT ![r] = "failing"]
  /\ UNCHANGED uploaded

(* The archive was stored, but put_file raised.                            *)
UploadUnanswered(r) ==
  /\ pc[r] = "building"
  /\ Spend("lostAnswer")
  /\ bucket' = [bucket EXCEPT ![draft[r]] = heat[r]]
  /\ Rollback(r, "failing")

(* Any step before the commit raises.                                      *)
StepFails(r) ==
  /\ pc[r] \in InTransaction
  /\ Spend("step")
  /\ Rollback(r, "failing")
  /\ UNCHANGED bucket

(* A draft's flip waits for a row lock whose holder waits for the draft's  *)
(* version number: PostgreSQL aborts one of the two.                       *)
Deadlock(r) ==
  \E p, q \in Runs : /\ r \in {p, q}
                     /\ pc[p] = "flipping" /\ pc[q] = "inserting"
                     /\ current # 0 /\ holder[current] = q
                     /\ wanted[q] = draft[p]

DeadlockVictim(r) ==
  /\ Deadlock(r)
  /\ Rollback(r, "failing")
  /\ UNCHANGED <<bucket, spent>>

End(r, how) == /\ pc' = [pc EXCEPT ![r] = "idle"]
               /\ verdict' = [verdict EXCEPT ![r] = how]
               /\ uploaded' = [uploaded EXCEPT ![r] = 0]
               /\ UNCHANGED <<itemVars, rowVars, applied, lockVars, draft, closing, heat, doomed>>

(* except: progress.fail first; if it raises the archive is not looked at. *)
RecordFailure(r) ==
  /\ pc[r] = "failing"
  /\ \/ uploaded[r] = 0 /\ End(r, "failed") /\ UNCHANGED spent
     \/ /\ uploaded[r] # 0
        /\ pc' = [pc EXCEPT ![r] = "cleaning"]
        /\ UNCHANGED <<itemVars, rowVars, applied, lockVars, workVars, verdict, spent>>
     \/ Spend("report") /\ End(r, "failed")
  /\ UNCHANGED bucket

(* The archive of the version that was rolled back is deleted.             *)
DeleteArchive(r) ==
  /\ pc[r] = "cleaning"
  /\ \/ bucket' = [bucket EXCEPT ![uploaded[r]] = None] /\ UNCHANGED spent
     \/ Spend("storage") /\ UNCHANGED bucket
  /\ End(r, "failed")

(* progress.done("flip") runs inside the same try, after the commit.       *)
ReportFlip(r) ==
  /\ pc[r] = "reporting"
  /\ \/ pc' = [pc EXCEPT ![r] = "pruning"] /\ UNCHANGED spent
     \/ pc' = [pc EXCEPT ![r] = "failing"] /\ Spend("report")
  /\ UNCHANGED <<itemVars, rowVars, bucket, applied, lockVars, workVars, verdict>>

-----------------------------------------------------------------------------
(* Retention: _prune, best effort, in a transaction of its own *)

Newer(v) == {w \in rows \ pruned : w # current /\ w > v}

(* Mutant: OFFSET keep - 2                                                 *)
PruneCandidatesOneMore == {v \in rows \ (pruned \cup {current}) : Cardinality(Newer(v)) >= KeepVersions - 2}

(* PRUNE_CANDIDATES: not current, not pruned, ORDER BY id DESC OFFSET      *)
(* keep_versions - 1                                                       *)
PruneCandidates == {v \in rows \ (pruned \cup {current}) : Cardinality(Newer(v)) >= KeepVersions - 1}

PruneSelect(r) ==
  /\ pc[r] = "pruning"
  /\ doomed' = [doomed EXCEPT ![r] = PruneCandidates]
  /\ pc' = [pc EXCEPT ![r] = "deleting"]
  /\ UNCHANGED <<itemVars, rowVars, bucket, applied, lockVars, draft, closing, heat, uploaded,
                 verdict, spent>>

(* Objects go one by one, before the transaction says so.                  *)
PruneDelete(r, v) ==
  /\ pc[r] = "deleting"
  /\ v \in doomed[r] /\ bucket[v] # None
  /\ bucket' = [bucket EXCEPT ![v] = None]
  /\ UNCHANGED <<itemVars, rowVars, applied, lockVars, pc, workVars, verdict, spent>>

PruneCommit(r) ==
  /\ pc[r] = "deleting"
  /\ \A v \in doomed[r] : bucket[v] = None
  /\ pruned' = pruned \cup doomed[r]
  /\ archived' = archived \ doomed[r]
  /\ doomed' = [doomed EXCEPT ![r] = {}]
  /\ pc' = [pc EXCEPT ![r] = "pruned"]
  /\ UNCHANGED <<itemVars, rows, current, previous, values, cells, nextId, bucket, applied,
                 lockVars, draft, closing, heat, uploaded, verdict, spent>>

(* Mutant: an error of the retention fails the job.                        *)
PruneFailsJob(r) ==
  /\ pc[r] \in {"pruning", "deleting"}
  /\ Spend("step")
  /\ pc' = [pc EXCEPT ![r] = "failing"]
  /\ doomed' = [doomed EXCEPT ![r] = {}]
  /\ UNCHANGED <<itemVars, rowVars, bucket, applied, lockVars, draft, closing, heat, uploaded, verdict>>

(* Any error of the retention is swallowed; deleted objects stay deleted.  *)
PruneFails(r) ==
  /\ pc[r] \in {"pruning", "deleting"}
  /\ Spend("step")
  /\ pc' = [pc EXCEPT ![r] = "pruned"]
  /\ doomed' = [doomed EXCEPT ![r] = {}]
  /\ UNCHANGED <<itemVars, rowVars, bucket, applied, lockVars, draft, closing, heat, uploaded, verdict>>

(* progress.done("prune") and the job's result                             *)
Succeed(r) ==
  /\ pc[r] = "pruned"
  /\ \/ End(r, "succeeded") /\ UNCHANGED spent
     \/ End(r, "failed") /\ Spend("report")
  /\ UNCHANGED bucket

-----------------------------------------------------------------------------
(* PublishPipeline.refresh *)

(* The archive under the same key is replaced before the commit; a version *)
(* without one (the seeded one) gets its cells only.                       *)
RefreshArchive(f) ==
  /\ pc[f] = "rebuilding"
  /\ bucket' = IF base[f] \in archived THEN [bucket EXCEPT ![base[f]] = heat[f]] ELSE bucket
  /\ pc' = [pc EXCEPT ![f] = "refreshing"]
  /\ UNCHANGED <<itemVars, rowVars, applied, lockVars, workVars, verdict, spent>>

(* Mutant: the cells are labelled with what applies at the commit.         *)
RefreshCommitRelabelled(f) ==
  /\ pc[f] = "refreshing"
  /\ cells' = [cells EXCEPT ![base[f]] = applied]
  /\ TransactionEnds(f)
  /\ pc' = [pc EXCEPT ![f] = "idle"]
  /\ UNCHANGED <<itemVars, rows, current, previous, values, archived, pruned, nextId, bucket,
                 applied, draft, uploaded, doomed, verdict, spent>>

RefreshCommit(f) ==
  /\ pc[f] = "refreshing"
  /\ cells' = [cells EXCEPT ![base[f]] = heat[f]]
  /\ TransactionEnds(f)
  /\ pc' = [pc EXCEPT ![f] = "idle"]
  /\ UNCHANGED <<itemVars, rows, current, previous, values, archived, pruned, nextId, bucket,
                 applied, draft, uploaded, doomed, verdict, spent>>

RefreshFails(f) ==
  /\ pc[f] \in {"locking", "locked", "rebuilding", "refreshing"}
  /\ Spend("step")
  /\ Rollback(f, "idle")
  /\ UNCHANGED bucket

(* The worker dies: the database rolls the open transaction back.          *)
Crash(p) ==
  /\ pc[p] # "idle"
  /\ Spend("crash")
  /\ pc' = [pc EXCEPT ![p] = "idle"]
  /\ uploaded' = [uploaded EXCEPT ![p] = 0]
  /\ doomed' = [doomed EXCEPT ![p] = {}]
  /\ TransactionEnds(p)
  /\ UNCHANGED <<itemVars, rowVars, bucket, applied, draft, verdict>>

-----------------------------------------------------------------------------
(* What a process that has begun does without a fault                      *)
RunStep(r) ==
  \/ (pc[r] = "checked" /\ BeginLock(r)) \/ GetLock(r) \/ LoseLock(r)
  \/ InsertVersion(r) \/ InsertWaits(r) \/ InsertRefused(r)
  \/ PublishValues(r) \/ ComputeCells(r) \/ Upload(r) \/ Flip(r)
  \/ DeadlockVictim(r) \/ RecordFailure(r) \/ DeleteArchive(r) \/ ReportFlip(r)
  \/ PruneSelect(r) \/ (\E v \in Versions : PruneDelete(r, v)) \/ PruneCommit(r) \/ Succeed(r)

RefreshStep(f) ==
  \/ GetLock(f) \/ LoseLock(f) \/ ComputeCells(f) \/ RefreshArchive(f) \/ RefreshCommit(f)

Next ==
  \/ \E i \in Items : Stage(i) \/ \E d \in {"approved", "rejected"} : Decide(i, d)
  \/ \E a \in Assumptions : Reprice(a)
  \/ \E v \in Versions : OperatorFlip(v)
  \/ \E r \in Runs : \/ Preflight(r) \/ RunStep(r) \/ StepFails(r) \/ PruneFails(r)
                     \/ FlipUnanswered(r) \/ UploadUnanswered(r)
  \/ \E f \in Refreshes : BeginLock(f) \/ RefreshStep(f) \/ RefreshFails(f)
  \/ \E p \in Procs : Crash(p)

Spec == Init /\ [][Next]_vars

(* A worker that executes a job goes on with it, and PostgreSQL serves the *)
(* transactions that wait for a row or an index entry in order, so a wait  *)
(* that ends again and again ends for this process too.                    *)
Fairness == /\ \A r \in Runs : SF_vars(RunStep(r))
            /\ \A f \in Refreshes : SF_vars(RefreshStep(f))

FairSpec == Spec /\ Fairness

-----------------------------------------------------------------------------
(* Properties *)

(* Rows, objects and processes have the shape schema and code give them; a *)
(* draft has its row and a built archive its heatmap.                      *)
TypeOK ==
  /\ item \in [Items -> {"absent", "pending", "approved", "rejected", "published"}]
  /\ rows \subseteq Versions /\ archived \subseteq rows /\ pruned \subseteq rows
  /\ current \in rows \cup {0}
  /\ previous \in [Versions -> Versions \cup {0}]
  /\ values \in [Versions -> SUBSET Items]
  /\ cells \in [Versions -> Assumptions]
  /\ bucket \in [Versions -> Assumptions \cup {None}]
  /\ applied \in Assumptions
  /\ nextId \in 1..(MaxVersion + 1)
  /\ holder \in [Versions -> Procs \cup {None}]
  /\ pc \in [Procs -> InTransaction \cup {"idle", "failing", "cleaning", "reporting", "pruning",
                       "deleting", "pruned", "locked", "rebuilding", "refreshing"}]
  /\ wanted \in [Procs -> Versions \cup {0}]
  /\ base \in [Procs -> Versions \cup {0}]
  /\ draft \in [Procs -> Versions \cup {0}]
  /\ closing \in [Procs -> SUBSET Items]
  /\ heat \in [Procs -> Assumptions \cup {None}]
  /\ uploaded \in [Procs -> Versions \cup {0}]
  /\ doomed \in [Procs -> SUBSET rows]
  /\ verdict \in [Procs -> {"none", "succeeded", "failed"}]
  /\ spent \in [Events -> Nat]
  /\ \A r \in Runs : pc[r] \in Drafting => draft[r] \in Versions
  /\ \A p \in Procs : pc[p] \in {"building", "flipping", "rebuilding", "refreshing"}
                        => heat[p] \in Assumptions

(* The archive the public map is told to read exists, whatever publishes,  *)
(* failures, retention and refreshes interleave (as long as no commit      *)
(* loses its answer and nobody moves the pointer by hand).                 *)
ServedArchiveExists == current \in archived => bucket[current] # None

(* README.md:93-95: the last keep_versions versions keep their archives,   *)
(* so an operator can point at any of them; a crash between deleting an    *)
(* object and committing the pruning may hit older versions only.          *)
Kept(v) == v = current \/ Cardinality(Newer(v)) < KeepVersions - 1
RetainedArchivesExist ==
  \A v \in archived : Kept(v) => bucket[v] # None /\ v \notin pruned

(* What was published stays served: every version carries all items that   *)
(* earlier ones published (publish_pipeline.py:14-16).                     *)
PublishedStaysServed == \A i \in Items : item[i] = "published" => i \in values[current]

(* publish_pipeline.py:3-6: a failed job leaves no version behind, and no  *)
(* archive: one already uploaded is deleted again.                         *)
FailureLeavesNothing ==
  \A r \in Runs : verdict[r] = "failed" =>
    /\ draft[r] \notin rows
    /\ draft[r] # 0 => bucket[draft[r]] = None

(* The map's heatmap is the one of the assumptions that apply, or the      *)
(* stored cells are stale (every pointer read then queues a refresh), or a *)
(* refresh is at work: it is never wrong with nothing left to correct it,  *)
(* as long as no upload or commit loses its answer.                        *)
HeatmapRight ==
  \/ spent["lostAnswer"] > 0
  \/ current \notin archived
  \/ bucket[current] = applied
  \/ cells[current] # applied
  \/ \E f \in Refreshes : pc[f] = "refreshing" /\ base[f] = current

(* Every publish and every refresh comes to an end: nobody waits for good  *)
(* for a row lock or a version number.                                     *)
RunsEnd == \A p \in Procs : pc[p] # "idle" ~> pc[p] = "idle"
=============================================================================
