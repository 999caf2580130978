------------------------------ MODULE Geometry ------------------------------
(***************************************************************************)
(* Staged geometry: a job or a command line stages a plan's layers as      *)
(* batches under one dataset row (core/gis/georef/stage.py), a reviewer    *)
(* decides on each batch (api/services/geometry_review.py), a publish      *)
(* applies the approved ones (jobs/publish_pipeline.py).                   *)
(*                                                                         *)
(* A batch of a generic layer (land use here; a plan's buildings go the    *)
(* same way) replaces the layer when it is published; so each carries what *)
(* the other plans have there.  Of the other layers, upserted plan by      *)
(* plan, one stands for all: "own".  A feature set is known by the batch   *)
(* it was first staged in: `holds` of a land-use batch are such batches.   *)
(*                                                                         *)
(* READ COMMITTED: what a transaction has not committed is in its stager's *)
(* or the publisher's record; an UPDATE waits for the rows another         *)
(* transaction has changed and looks at them again.  A wait that would     *)
(* close a circle ends with the victim's GiveUp.                           *)
(***************************************************************************)
EXTENDS Naturals, Sequences, FiniteSets

CONSTANTS Plans,         \* planning documents
          NoPlan,
          Stagers,       \* stagings that can be under way at once
          Drawings,      \* what a staging may bring: sets of layers
          MaxDatasets,   \* bound: datasets
          MaxBatches     \* bound: ids the batches' sequence hands out

ASSUME GeometryAssumption ==
  /\ Drawings \subseteq (SUBSET {"own", "landUse"}) \ {{}}
  /\ MaxDatasets \in Nat /\ MaxBatches \in Nat

VARIABLES
  batch,       \* geometry_batches by id
  dataset,     \* georef_datasets in the order of their commits
  served,      \* the land use of the current version
  nextBatch,   \* the batches' id sequence
  stager,      \* per staging: where it is and what it has not committed
  publisher,   \* the publish: where it is, what it chose, what it will close
  refused,     \* history: batches a reviewer has rejected
  hasty,       \* history: of those, rejected while somebody was using them
  overlooked,  \* history: land use of stagings that did not see each other
  parallel     \* history: pairs of runs of a plan, the second staged without
               \* seeing the first, under another label

tables == <<batch, dataset, served>>
history == <<refused, hasty, overlooked, parallel>>
geometryVars == <<tables, nextBatch, stager, publisher, history>>

BatchIds == 1..MaxBatches

NoBatch == [plan |-> NoPlan, layer |-> "own", status |-> "absent", approved |-> FALSE,
            holds |-> {}]
NotStaging == [at |-> "idle", plan |-> NoPlan, label |-> 0, brings |-> {}, unseen |-> {},
               old |-> {}, drops |-> {}, own |-> 0, landUse |-> 0, newest |-> 0, holds |-> {},
               missed |-> {}]
NotPublishing == [at |-> "idle", chosen |-> {}, closing |-> {}]

GeometryInit ==
  /\ batch = [b \in BatchIds |-> NoBatch]
  /\ dataset = << >>
  /\ served = {}
  /\ nextBatch = 1
  /\ stager = [s \in Stagers |-> NotStaging]
  /\ publisher = NotPublishing
  /\ refused = {} /\ hasty = {} /\ overlooked = {} /\ parallel = {}

Staged(b) == batch[b].status = "staged"
StagedLand == {b \in BatchIds : Staged(b) /\ batch[b].layer = "landUse"}
Highest(ids) == IF ids = {} THEN 0 ELSE CHOOSE b \in ids : \A c \in ids : c <= b

(* A row another transaction has changed and not committed is locked.      *)
BatchFree(b, others) ==
  /\ \A t \in others : b \notin stager[t].drops
  /\ publisher.at = "applied" => b \notin publisher.chosen
DatasetFree(n, s) == \A t \in Stagers \ {s} : n \notin stager[t].old

-----------------------------------------------------------------------------
(* core/gis/georef/stage.py *)

Staging(s) == stager[s].at # "idle"
RoomForDataset ==
  /\ Len(dataset) + Cardinality({s \in Stagers : Staging(s)}) < MaxDatasets
  /\ nextBatch <= MaxBatches

(* The day's count of the plan's datasets (next_label), another day's after *)
(* midnight, or the operator's choice: one that no dataset of the plan has *)
(* (LABEL_TAKEN_SQL), that of another staging under way or not.  Labels    *)
(* stand for themselves, so a new one is the first that is free.           *)
Labels == 1..MaxDatasets
LabelsTaken(p) == {dataset[n].label : n \in {m \in DOMAIN dataset : dataset[m].plan = p}}
LabelsInUse(p) == {stager[t].label : t \in {u \in Stagers : stager[u].plan = p}}

TakeLabel(s, p, brings, label) ==
  /\ ~Staging(s) /\ RoomForDataset
  /\ label \notin LabelsTaken(p)
  /\ \/ label \in LabelsInUse(p)
     \/ 1..(label - 1) \subseteq LabelsTaken(p) \cup LabelsInUse(p)
  /\ stager' = [stager EXCEPT ![s] = [NotStaging EXCEPT !.at = "labelled", !.plan = p,
                                        !.label = label, !.brings = brings]]
  /\ UNCHANGED <<tables, nextBatch, publisher, history>>

(* uq_georef_datasets_version, looked at when the dataset is inserted; a   *)
(* label that another plan has is refused like one the plan has.           *)
LabelUnindexed(s) == stager[s].label > 0
LabelFree(s) == \A n \in DOMAIN dataset :
  <<dataset[n].plan, dataset[n].label>> # <<stager[s].plan, stager[s].label>>

Row(s, status) == [plan |-> stager[s].plan, label |-> stager[s].label, status |-> status,
                   own |-> stager[s].own, landUse |-> stager[s].landUse]

(* The transform is bad: the dataset is recorded, nothing is staged.       *)
RecordInvalid(s) ==
  /\ stager[s].at = "labelled" /\ LabelFree(s)
  /\ dataset' = Append(dataset, Row(s, "invalid"))
  /\ stager' = [stager EXCEPT ![s] = NotStaging]
  /\ UNCHANGED <<batch, served, nextBatch, publisher, history>>

StagedRuns(p) == {n \in DOMAIN dataset : dataset[n].plan = p /\ dataset[n].status = "staged"}

(* SUPERSEDE_SQL waits for a run that another staging has superseded; then *)
(* it looks at that row again, and not for rows inserted meanwhile.        *)
WaitForRun(s) ==
  /\ stager[s].at = "labelled"
  /\ \E n \in StagedRuns(stager[s].plan) : ~DatasetFree(n, s)
  /\ stager' = [stager EXCEPT ![s].at = "waiting"]
  /\ UNCHANGED <<tables, nextBatch, publisher, history>>

(* SUPERSEDE_SQL and SUPERSEDE_BATCH_SQL of the plan's own layers; a staged *)
(* land-use batch of the plan calls for one without the plan.              *)
Clear(s) ==
  LET old == StagedRuns(stager[s].plan) \ stager[s].unseen
      drops == {dataset[n].own : n \in old} \cap {b \in BatchIds : Staged(b)}
      own == IF "own" \in stager[s].brings THEN nextBatch ELSE 0
      redoes == "landUse" \in stager[s].brings \/ \E n \in old : dataset[n].landUse # 0
  IN
  /\ stager[s].at \in {"labelled", "waiting"}
  /\ \A n \in old : DatasetFree(n, s)
  /\ \A b \in drops : BatchFree(b, Stagers \ {s})
  /\ own <= MaxBatches
  /\ nextBatch' = IF own = 0 THEN nextBatch ELSE nextBatch + 1
  /\ stager' = [stager EXCEPT ![s].at = IF redoes THEN "cleared" ELSE "carried",
                              ![s].old = old, ![s].drops = drops, ![s].own = own]
  /\ UNCHANGED <<tables, publisher, history>>

(* NEWEST_STAGED_SQL, then the new batch takes its id.                     *)
NewestUnpublished ==
  Highest({b \in BatchIds : batch[b].layer = "landUse" /\ batch[b].status \in {"staged", "rejected"}})
NewestStaged == Highest(StagedLand)

FindNewest(s) ==
  /\ stager[s].at = "cleared" /\ nextBatch <= MaxBatches
  /\ nextBatch' = nextBatch + 1
  /\ stager' = [stager EXCEPT ![s].at = "found", ![s].newest = NewestStaged,
                              ![s].landUse = nextBatch]
  /\ UNCHANGED <<tables, publisher, history>>

(* CARRY_STAGED_SQL, else CARRY_SERVED_SQL: without the plan itself.       *)
CarriedServed(s) == {b \in served : batch[b].plan # stager[s].plan}
CarriedForward(s) ==
  LET source == IF stager[s].newest # 0 THEN batch[stager[s].newest].holds ELSE served
  IN {b \in source : batch[b].plan # stager[s].plan}

Carry(s) ==
  LET new == stager[s].newest
      adds == IF "landUse" \in stager[s].brings THEN {stager[s].landUse} ELSE {} IN
  /\ stager[s].at = "found"
  /\ new # 0 => BatchFree(new, Stagers \ {s})
  /\ stager' = [stager EXCEPT ![s].at = "carried", ![s].holds = CarriedForward(s) \cup adds,
                              ![s].drops = @ \cup ({new} \cap {b \in BatchIds : Staged(b)})]
  /\ UNCHANGED <<tables, nextBatch, publisher, history>>

New(s, layer, holds) == [plan |-> stager[s].plan, layer |-> layer, status |-> "staged",
                         approved |-> FALSE, holds |-> holds]

(* The dataset row and the commit.  History: a land-use batch that another *)
(* staging committed meanwhile, or that stays staged beside the new one,   *)
(* lacks what only the new one holds, and the other way round.             *)
Astray(s) ==
  IF stager[s].landUse = 0 THEN {}
  ELSE UNION {(batch[b].holds \ stager[s].holds) \cup (stager[s].holds \ batch[b].holds) :
                b \in stager[s].missed \cup (StagedLand \ stager[s].drops)}

Relabelled(s) == {n \in stager[s].unseen : dataset[n].label # stager[s].label}

CommitStaging(s) ==
  LET st == stager[s]
      new == Len(dataset) + 1
      Misses(t) == st.landUse # 0 /\ stager[t].landUse # 0
      Overlooks(t) == stager[t].plan = st.plan /\ stager[t].at \notin {"idle", "labelled"} IN
  /\ st.at = "carried" /\ LabelFree(s)
  /\ dataset' = Append([n \in DOMAIN dataset |->
                         IF n \in st.old THEN [dataset[n] EXCEPT !.status = "superseded"]
                         ELSE dataset[n]], Row(s, "staged"))
  /\ batch' = [b \in BatchIds |->
                 CASE b = st.own -> New(s, "own", {})
                   [] b = st.landUse -> New(s, "landUse", st.holds)
                   [] b \in st.drops -> [batch[b] EXCEPT !.status = "superseded"]
                   [] OTHER -> batch[b]]
  /\ overlooked' = overlooked \cup Astray(s)
  /\ parallel' = parallel \cup (Relabelled(s) \X {new})
  /\ stager' = [t \in Stagers |->
                  IF t = s THEN NotStaging
                  ELSE [stager[t] EXCEPT
                          !.missed = @ \cup (IF Misses(t) THEN {st.landUse} ELSE {}),
                          !.unseen = @ \cup (IF Overlooks(t) THEN {new} ELSE {})]]
  /\ UNCHANGED <<served, nextBatch, publisher, refused, hasty>>

(* The label is taken, a deadlock's victim, an error, a dying worker: the  *)
(* transaction is rolled back, the ids it took stay unused.                *)
GiveUp(s) ==
  /\ Staging(s)
  /\ stager' = [stager EXCEPT ![s] = NotStaging]
  /\ UNCHANGED <<tables, nextBatch, publisher, history>>

-----------------------------------------------------------------------------
(* api/services/geometry_review.py: FOR UPDATE, so a decision on a row that *)
(* is locked waits; a batch that is no longer staged is refused.           *)

Open(b) == Staged(b) /\ BatchFree(b, Stagers)

ApproveBatch(b) ==
  /\ Open(b) /\ ~batch[b].approved
  /\ batch' = [batch EXCEPT ![b].approved = TRUE]
  /\ UNCHANGED <<dataset, served, nextBatch, stager, publisher, history>>

InUse(b) == b \in publisher.chosen \/ \E s \in Stagers : stager[s].newest = b

RejectBatch(b) ==
  /\ Open(b)
  /\ batch' = [batch EXCEPT ![b].status = "rejected", ![b].approved = FALSE]
  /\ refused' = refused \cup {b}
  /\ hasty' = IF InUse(b) THEN hasty \cup {b} ELSE hasty
  /\ UNCHANGED <<dataset, served, nextBatch, stager, publisher, overlooked, parallel>>

-----------------------------------------------------------------------------
(* The geometry step of a publish; one publish at a time (see Publish).    *)

GeometryPreflight ==
  /\ publisher.at = "idle"
  /\ \A b \in BatchIds : Staged(b) => batch[b].approved
  /\ publisher' = [NotPublishing EXCEPT !.at = "checked"]
  /\ UNCHANGED <<tables, nextBatch, stager, history>>

StagedBatches == {b \in BatchIds : Staged(b) /\ batch[b].approved}

ChooseBatches ==
  /\ publisher.at = "checked"
  /\ publisher' = [publisher EXCEPT !.at = "chosen", !.chosen = StagedBatches]
  /\ UNCHANGED <<tables, nextBatch, stager, history>>

(* What BATCH_PUBLISHED_SQL writes, by id; APPLIED_SQL reads it back.      *)
LandChosen == {b \in publisher.chosen : batch[b].layer = "landUse"}
Outcome(b) == IF b \notin publisher.chosen THEN batch[b].status
              ELSE IF batch[b].layer = "own" \/ b = Highest(LandChosen)
                   THEN "published" ELSE "superseded"
Applied(n) == \A b \in {dataset[n].own, dataset[n].landUse} \ {0} :
                Outcome(b) \in {"published", "superseded"}

ApplyGeometry ==
  /\ publisher.at = "chosen"
  /\ \A b \in publisher.chosen, s \in Stagers : b \notin stager[s].drops
  /\ publisher' = [publisher EXCEPT !.at = "applied",
       !.closing = {n \in DOMAIN dataset : dataset[n].status = "staged" /\ Applied(n)}]
  /\ UNCHANGED <<tables, nextBatch, stager, history>>

(* MARK_PUBLISHED_SQL by id, each after SUPERSEDE_PUBLISHED_SQL of its plan. *)
Marked(n) ==
  LET closing == publisher.closing
      Of(m) == dataset[m].plan = dataset[n].plan IN
  IF n \in closing
  THEN IF \E m \in closing : m > n /\ Of(m) THEN "superseded" ELSE "published"
  ELSE IF dataset[n].status = "published" /\ \E m \in closing : Of(m)
       THEN "superseded" ELSE dataset[n].status

CommitPublish ==
  /\ publisher.at = "applied"
  /\ \A n \in publisher.closing, s \in Stagers : n \notin stager[s].old
  /\ batch' = [b \in BatchIds |-> [batch[b] EXCEPT !.status = Outcome(b)]]
  /\ dataset' = [n \in DOMAIN dataset |-> [dataset[n] EXCEPT !.status = Marked(n)]]
  /\ served' = IF LandChosen = {} THEN served ELSE batch[Highest(LandChosen)].holds
  /\ publisher' = NotPublishing
  /\ UNCHANGED <<nextBatch, stager, history>>

PublishFails ==
  /\ publisher.at # "idle"
  /\ publisher' = NotPublishing
  /\ UNCHANGED <<tables, nextBatch, stager, history>>

GeometryNext ==
  \/ \E s \in Stagers :
       \/ \E p \in Plans, brings \in Drawings, label \in Labels :
            TakeLabel(s, p, brings, label)
       \/ RecordInvalid(s) \/ WaitForRun(s) \/ Clear(s) \/ FindNewest(s) \/ Carry(s) \/ CommitStaging(s)
       \/ GiveUp(s)
  \/ \E b \in BatchIds : ApproveBatch(b) \/ RejectBatch(b)
  \/ GeometryPreflight \/ ChooseBatches \/ ApplyGeometry \/ CommitPublish \/ PublishFails

GeometrySpec == GeometryInit /\ [][GeometryNext]_geometryVars

-----------------------------------------------------------------------------
(* Every row, lock and snapshot has the shape the code gives it.           *)
GeometryTypeOK ==
  /\ DOMAIN batch = BatchIds /\ Len(dataset) <= MaxDatasets
  /\ \A b \in BatchIds :
       /\ batch[b].status \in {"absent", "staged", "superseded", "rejected", "published"}
       /\ batch[b].holds \subseteq 1..(nextBatch - 1)
       /\ batch[b].status # "absent" => batch[b].plan \in Plans /\ b < nextBatch
  /\ \A n \in DOMAIN dataset :
       /\ dataset[n].status \in {"staged", "invalid", "superseded", "published"}
       /\ {dataset[n].own, dataset[n].landUse} \subseteq 0..(nextBatch - 1)
  /\ served \subseteq 1..(nextBatch - 1)
  /\ \A s \in Stagers : stager[s].drops \cup stager[s].missed \subseteq BatchIds
  /\ publisher.chosen \subseteq BatchIds /\ publisher.closing \subseteq DOMAIN dataset
  /\ hasty \subseteq refused /\ refused \subseteq BatchIds /\ overlooked \subseteq BatchIds

(* The land use a plan has staged or published does not vanish: it is      *)
(* served, or in a staged batch.  Other plans' stagings carry it along, in *)
(* whatever order stagings, decisions and publishes come.  Exceptions: a   *)
(* batch that held it was rejected (its own or, which the reviewer can see *)
(* but nothing tells, one that carried it); two stagings looked for the    *)
(* newest batch before the other committed; a later run of the plan        *)
(* replaced it.                                                            *)
Stands(b) == b \in served \/ \E c \in StagedLand : b \in batch[c].holds
Replaced(n) == \E m \in DOMAIN dataset :
  m > n /\ dataset[m].plan = dataset[n].plan /\ dataset[m].status # "invalid"
LandUseKept ==
  \A n \in DOMAIN dataset :
    LET b == dataset[n].landUse IN
    /\ dataset[n].status \in {"staged", "published"}
    /\ b # 0 /\ b \in batch[b].holds /\ ~Replaced(n)
    => \/ Stands(b)
       \/ b \in overlooked
       \/ \E c \in refused : b \in batch[c].holds

(* "A rejected batch never returns" (geometry_review.py:11): it is never   *)
(* published, and neither the served land use nor a staged batch holds     *)
(* it; unless it was rejected while a publish or a staging was using it.   *)
RejectedStaysOut ==
  \A b \in refused \ hasty :
    /\ batch[b].status = "rejected"
    /\ ~Stands(b)

(* "A newer run of the document supersedes its staged one" (stage.py:692): *)
(* two runs of a plan are never under review together, unless the later    *)
(* was staged under another label and looked for its predecessors before   *)
(* the earlier committed (its UPDATE may have waited since); stagings that *)
(* took one label are kept apart by the unique index.  And a superseded or *)
(* published run leaves no batch under review.                             *)
OneRunUnderReview ==
  /\ \A n, m \in DOMAIN dataset :
       /\ dataset[n].plan = dataset[m].plan /\ n < m
       /\ dataset[n].status = "staged" /\ dataset[m].status = "staged"
       => <<n, m>> \in parallel
  /\ \A n \in DOMAIN dataset : dataset[n].own # 0 /\ Staged(dataset[n].own)
       => dataset[n].status = "staged"

(* "A staged dataset whose batches were all applied (published, or carried *)
(* forward by a later generic batch) is published" (stage.py:845): the land *)
(* use of what is marked published is served or still carried forward.     *)
PublishedIsApplied ==
  [][\A n \in DOMAIN dataset :
       LET b == dataset[n].landUse IN
       dataset'[n].status = "published" /\ dataset[n].status # "published"
       /\ b # 0 /\ b \in batch[b].holds => Stands(b)']_geometryVars
=============================================================================
