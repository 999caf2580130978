--------------------------- MODULE GeometryProofs ---------------------------
(***************************************************************************)
(* Theorems about Geometry for any number of plans, stagings, batches and  *)
(* publishes.  The invariants come in four groups, each resting on those   *)
(* before it: the shape of rows and records, the runs of a plan, what a    *)
(* rejection can still reach, and where land use stands.                   *)
(***************************************************************************)
EXTENDS Geometry, FiniteSetTheorems, WellFoundedInduction, TLAPS

(* The data of every variable, in full.                                    *)
BatchRow == [plan : Plans \cup {NoPlan}, layer : {"own", "landUse"},
             status : {"absent", "staged", "superseded", "rejected", "published"},
             approved : BOOLEAN, holds : SUBSET BatchIds]
DatasetRow == [plan : Plans, label : Nat, status : {"staged", "invalid", "superseded", "published"},
               own : 0..MaxBatches, landUse : 0..MaxBatches]
StagerRecord == [at : {"idle", "labelled", "waiting", "cleared", "found", "carried"}, plan : Plans \cup {NoPlan},
                 label : Nat, brings : SUBSET {"own", "landUse"}, unseen : SUBSET Nat, old : SUBSET Nat,
                 drops : SUBSET BatchIds, own : 0..MaxBatches, landUse : 0..MaxBatches,
                 newest : 0..MaxBatches, holds : SUBSET BatchIds, missed : SUBSET BatchIds]
PublisherRecord == [at : {"idle", "checked", "chosen", "applied"}, chosen : SUBSET BatchIds,
                    closing : SUBSET Nat]
Typed ==
  /\ batch \in [BatchIds -> BatchRow]
  /\ dataset \in Seq(DatasetRow)
  /\ served \subseteq BatchIds
  /\ nextBatch \in 1..(MaxBatches + 1)
  /\ stager \in [Stagers -> StagerRecord]
  /\ publisher \in PublisherRecord
  /\ refused \subseteq BatchIds /\ hasty \subseteq refused /\ overlooked \subseteq BatchIds

(* A staging has what its steps so far have given it.                      *)
Progress(st) ==
  /\ st.at \in {"idle", "labelled", "waiting"} => st.own = 0 /\ st.old = {} /\ st.drops = {}
  /\ st.at \in {"idle", "labelled", "waiting", "cleared"} \/ st.landUse = 0 =>
       st.landUse = 0 /\ st.newest = 0 /\ st.holds = {} /\ st.missed = {}
  /\ st.at = "found" => st.landUse # 0 /\ st.holds = {}
  /\ st.at # "idle" => st.plan \in Plans
StagerSteps == \A s \in Stagers : Progress(stager[s])

(* The ids a staging has taken are its own: nothing committed has them.    *)
Taken(s) == {stager[s].own, stager[s].landUse} \ {0}
IdsApart ==
  /\ \A b \in BatchIds : b >= nextBatch => batch[b].status = "absent"
  /\ \A s \in Stagers : \A b \in Taken(s) : b < nextBatch /\ batch[b].status = "absent"
  /\ \A s, t \in Stagers : s # t => Taken(s) \cap Taken(t) = {}
  /\ \A s \in Stagers : stager[s].own # 0 => stager[s].own # stager[s].landUse

(* A dataset's batches are there, of its plan and of their layer, and a    *)
(* land-use batch belongs to one dataset only.                             *)
DatasetBatches ==
  /\ \A n \in DOMAIN dataset :
       /\ dataset[n].own # 0 =>
            batch[dataset[n].own].status # "absent" /\ batch[dataset[n].own].layer = "own"
       /\ dataset[n].landUse # 0 =>
            /\ batch[dataset[n].landUse].status # "absent"
            /\ batch[dataset[n].landUse].layer = "landUse"
            /\ batch[dataset[n].landUse].plan = dataset[n].plan
  /\ \A n, m \in DOMAIN dataset :
       n # m /\ dataset[n].landUse = dataset[m].landUse => dataset[n].landUse = 0

(* What a land-use batch, a staging or the map holds has been committed    *)
(* with a dataset.                                                         *)
Origin(b) == \E n \in DOMAIN dataset : dataset[n].landUse = b
HoldsKnown ==
  /\ \A c \in BatchIds : \A b \in batch[c].holds : Origin(b)
  /\ \A b \in served : Origin(b)
  /\ \A s \in Stagers : \A b \in stager[s].holds : b = stager[s].landUse \/ Origin(b)
  /\ \A c \in BatchIds : batch[c].status = "absent" => batch[c].holds = {}
  /\ \A b \in refused : batch[b].status \notin {"absent", "staged"}

(* What a transaction will supersede is staged and locked by it alone.     *)
DropsLocked ==
  /\ \A s \in Stagers : \A b \in stager[s].drops :
       Staged(b) /\ (batch[b].layer = "landUse" => b = stager[s].newest)
  /\ \A s, t \in Stagers : s # t => stager[s].drops \cap stager[t].drops = {}
  /\ publisher.at = "applied" => \A s \in Stagers : publisher.chosen \cap stager[s].drops = {}
  /\ \A s \in Stagers : stager[s].newest # 0 =>
       batch[stager[s].newest].status # "absent" /\ batch[stager[s].newest].layer = "landUse"
  /\ \A b \in publisher.chosen : batch[b].status # "absent"
  /\ publisher.at \in {"idle", "checked"} => publisher.chosen = {}


(* A non-empty set of batches has a newest one.                            *)
LEMMA HighestIsIn ==
  ASSUME NEW S \in SUBSET BatchIds, S # {}
  PROVE  Highest(S) \in S /\ \A b \in S : b <= Highest(S)
<1>. DEFINE Bound == {n \in Nat : \A b \in S : b <= n}
<1>1. PICK R : IsWellFoundedOn(R, Nat) /\ \A m, n \in Nat : m < n => <<m, n>> \in R
  <2>. DEFINE Less == OpToRel(<, Nat)
  <2>1. IsWellFoundedOn(Less, Nat)
    BY NatLessThanWellFounded
  <2>2. \A m, n \in Nat : m < n => <<m, n>> \in Less
    BY DEF OpToRel
  <2>. HIDE DEF Less
  <2>. QED
    BY <2>1, <2>2
<1>2. Bound \subseteq Nat /\ Bound # {}
  <2>1. MaxBatches \in Bound
    BY GeometryAssumption DEF BatchIds
  <2>. QED
    BY <2>1
<1>3. PICK n \in Bound : \A m \in Bound : ~ (<<m, n>> \in R)
  <2>1. IsWellFoundedOn(R, Nat)
    BY <1>1
  <2>. HIDE <1>1 DEF Bound
  <2>. QED
    BY <2>1, <1>2, WFMin
<1>4. n \in Nat /\ \A b \in S : b <= n
  BY <1>3
<1>5. n \in S
  <2>. SUFFICES ASSUME n \notin S PROVE FALSE
    OBVIOUS
  <2>1. PICK b \in S : TRUE
    OBVIOUS
  <2>2. n > 0
    BY <2>1, <1>4, GeometryAssumption DEF BatchIds
  <2>3. n - 1 \in Bound
    BY <2>2, <1>4, GeometryAssumption DEF BatchIds
  <2>4. <<n - 1, n>> \in R
    BY <1>1, <1>4, <2>2
  <2>. QED
    BY <1>3, <2>3, <2>4
<1>6. \E b \in S : \A c \in S : c <= b
  BY <1>4, <1>5
<1>. QED
  BY <1>6 DEF Highest

LEMMA HighestOfStaged ==
  ASSUME Typed
  PROVE  /\ NewestStaged \in 0..MaxBatches
         /\ StagedLand = {} <=> NewestStaged = 0
         /\ NewestStaged # 0 => NewestStaged \in StagedLand
<1>1. StagedLand \in SUBSET BatchIds
  BY DEF StagedLand
<1>2. CASE StagedLand = {}
  BY <1>2, GeometryAssumption DEF NewestStaged, Highest
<1>3. CASE StagedLand # {}
  <2>1. NewestStaged \in StagedLand
    BY <1>1, <1>3, HighestIsIn DEF NewestStaged
  <2>2. NewestStaged \in 1..MaxBatches
    BY <1>1, <2>1 DEF BatchIds
  <2>. QED
    BY <1>3, <2>1, <2>2, GeometryAssumption
<1>. QED
  BY <1>2, <1>3

LEMMA NothingTyped == NotStaging \in StagerRecord /\ NoBatch \in BatchRow
BY GeometryAssumption DEF NotStaging, StagerRecord, NoBatch, BatchRow

(* What an action writes into a record has the record's shape.             *)
LEMMA StagerRecordChanged ==
  ASSUME NEW r \in StagerRecord
  PROVE  /\ \A p \in Plans, k \in Nat, brings \in SUBSET {"own", "landUse"} :
              [r EXCEPT !.at = "labelled", !.plan = p, !.label = k, !.brings = brings] \in StagerRecord
         /\ \A at \in {"cleared", "carried"}, old \in SUBSET Nat, drops \in SUBSET BatchIds, own \in 0..MaxBatches :
              [r EXCEPT !.at = at, !.old = old, !.drops = drops, !.own = own] \in StagerRecord
         /\ \A new, id \in 0..MaxBatches :
              [r EXCEPT !.at = "found", !.newest = new, !.landUse = id] \in StagerRecord
         /\ \A holds, drops \in SUBSET BatchIds :
              [r EXCEPT !.at = "carried", !.holds = holds, !.drops = drops] \in StagerRecord
         /\ [r EXCEPT !.at = "waiting"] \in StagerRecord
         /\ \A missed \in SUBSET BatchIds, unseen \in SUBSET Nat :
              [r EXCEPT !.missed = missed, !.unseen = unseen] \in StagerRecord
<1>1. \A p \in Plans, k \in Nat, brings \in SUBSET {"own", "landUse"} :
        [r EXCEPT !.at = "labelled", !.plan = p, !.label = k, !.brings = brings] \in StagerRecord
  BY DEF StagerRecord
<1>2. \A at \in {"cleared", "carried"}, old \in SUBSET Nat, drops \in SUBSET BatchIds, own \in 0..MaxBatches :
        [r EXCEPT !.at = at, !.old = old, !.drops = drops, !.own = own] \in StagerRecord
  BY DEF StagerRecord
<1>3. \A new, id \in 0..MaxBatches :
        [r EXCEPT !.at = "found", !.newest = new, !.landUse = id] \in StagerRecord
  BY DEF StagerRecord
<1>4. \A holds, drops \in SUBSET BatchIds :
        [r EXCEPT !.at = "carried", !.holds = holds, !.drops = drops] \in StagerRecord
  BY DEF StagerRecord
<1>5. [r EXCEPT !.at = "waiting"] \in StagerRecord
  BY DEF StagerRecord
<1>6. \A missed \in SUBSET BatchIds, unseen \in SUBSET Nat :
        [r EXCEPT !.missed = missed, !.unseen = unseen] \in StagerRecord
  BY DEF StagerRecord
<1>. QED
  BY <1>1, <1>2, <1>3, <1>4, <1>5, <1>6

LEMMA BatchRowChanged ==
  ASSUME NEW r \in BatchRow
  PROVE  /\ [r EXCEPT !.approved = TRUE] \in BatchRow
         /\ [r EXCEPT !.status = "rejected", !.approved = FALSE] \in BatchRow
         /\ \A status \in {"absent", "staged", "superseded", "rejected", "published"} :
              [r EXCEPT !.status = status] \in BatchRow
BY DEF BatchRow

LEMMA DatasetRowChanged ==
  ASSUME NEW r \in DatasetRow, NEW status \in {"staged", "invalid", "superseded", "published"}
  PROVE  [r EXCEPT !.status = status] \in DatasetRow
BY DEF DatasetRow

LEMMA DatasetRows ==
  ASSUME Typed
  PROVE  DOMAIN dataset = 1..Len(dataset) /\ Len(dataset) \in Nat /\ \A n \in DOMAIN dataset : dataset[n] \in DatasetRow
BY DEF Typed

LEMMA NextRow ==
  ASSUME Typed
  PROVE  Len(dataset) + 1 \notin DOMAIN dataset /\ \A n \in DOMAIN dataset : n < Len(dataset) + 1
BY DatasetRows

LEMMA RowTyped ==
  ASSUME stager \in [Stagers -> StagerRecord], StagerSteps, NEW s \in Stagers, Staging(s),
         NEW status \in {"staged", "invalid"}
  PROVE  Row(s, status) \in DatasetRow
<1>1. stager[s].plan \in Plans
  BY DEF StagerSteps, Progress, Staging
<1>2. stager[s].label \in Nat /\ stager[s].own \in 0..MaxBatches /\ stager[s].landUse \in 0..MaxBatches
  BY DEF StagerRecord
<1>. QED
  BY <1>1, <1>2 DEF Row, DatasetRow

(* The data keeps its shape.                                               *)
LEMMA TypedStep ==
  ASSUME Typed, StagerSteps, [GeometryNext]_geometryVars
  PROVE  Typed'
<1>. USE GeometryAssumption DEF tables, history
<1>0. /\ batch \in [BatchIds -> BatchRow] /\ dataset \in Seq(DatasetRow)
      /\ stager \in [Stagers -> StagerRecord] /\ nextBatch \in Nat
      /\ nextBatch \in 1..(MaxBatches + 1)
  BY DEF Typed
<1>1. ASSUME NEW s \in Stagers, NEW p \in Plans, NEW brings \in Drawings, NEW label \in Labels,
             TakeLabel(s, p, brings, label) PROVE Typed'
  <2>1. label \in Nat
    BY DEF Labels
  <2>2. brings \in SUBSET {"own", "landUse"}
    OBVIOUS
  <2>3. [NotStaging EXCEPT !.at = "labelled", !.plan = p, !.label = label, !.brings = brings] \in StagerRecord
    BY <2>1, <2>2, NothingTyped, StagerRecordChanged
  <2>. QED
    BY <1>0, <1>1, <2>3 DEF TakeLabel, Typed
<1>2. ASSUME NEW s \in Stagers, RecordInvalid(s) PROVE Typed'
  <2>1. Row(s, "invalid") \in DatasetRow
    BY <1>0, <1>2, RowTyped DEF RecordInvalid, Staging
  <2>2. dataset' \in Seq(DatasetRow)
    BY <1>0, <1>2, <2>1 DEF RecordInvalid
  <2>. QED
    BY <1>0, <1>2, <2>2, NothingTyped DEF RecordInvalid, Typed
<1>3. ASSUME NEW s \in Stagers, Clear(s) PROVE Typed'
  <2>. DEFINE old == StagedRuns(stager[s].plan) \ stager[s].unseen
              drops == {dataset[n].own : n \in old} \cap {b \in BatchIds : Staged(b)}
              own == IF "own" \in stager[s].brings THEN nextBatch ELSE 0
              redoes == "landUse" \in stager[s].brings \/ \E n \in old : dataset[n].landUse # 0
              at == IF redoes THEN "cleared" ELSE "carried"
  <2>1. /\ own <= MaxBatches
        /\ nextBatch' = IF own = 0 THEN nextBatch ELSE nextBatch + 1
        /\ stager' = [stager EXCEPT ![s] = [@ EXCEPT !.at = at, !.old = old, !.drops = drops, !.own = own]]
    BY <1>3, <1>0 DEF Clear
  <2>2. old \subseteq Nat
    BY <1>0 DEF StagedRuns
  <2>3. drops \in SUBSET BatchIds /\ own \in {0, nextBatch} /\ at \in {"cleared", "carried"}
    OBVIOUS
  <2>. HIDE DEF old, drops, own, redoes, at
  <2>4. own \in 0..MaxBatches
    BY <1>0, <2>1, <2>3
  <2>5. [stager[s] EXCEPT !.at = at, !.old = old, !.drops = drops, !.own = own] \in StagerRecord
    BY <1>0, <2>2, <2>3, <2>4, StagerRecordChanged
  <2>6. nextBatch' \in 1..(MaxBatches + 1)
    BY <1>0, <2>1, <2>3
  <2>7. stager' \in [Stagers -> StagerRecord]
    BY <1>0, <2>1, <2>5
  <2>. QED
    BY <1>3, <2>6, <2>7 DEF Clear, Typed
<1>4. ASSUME NEW s \in Stagers, FindNewest(s) PROVE Typed'
  <2>1. NewestStaged \in 0..MaxBatches
    BY HighestOfStaged
  <2>2. nextBatch \in 0..MaxBatches
    BY <1>0, <1>4 DEF FindNewest
  <2>3. [stager[s] EXCEPT !.at = "found", !.newest = NewestStaged, !.landUse = nextBatch] \in StagerRecord
    BY <1>0, <2>1, <2>2, StagerRecordChanged
  <2>4. stager' = [stager EXCEPT ![s] = [@ EXCEPT !.at = "found", !.newest = NewestStaged, !.landUse = nextBatch]]
    BY <1>4, <1>0 DEF FindNewest
  <2>5. nextBatch' \in 1..(MaxBatches + 1)
    BY <1>0, <1>4 DEF FindNewest
  <2>6. stager' \in [Stagers -> StagerRecord]
    BY <1>0, <2>3, <2>4
  <2>. QED
    BY <1>4, <2>5, <2>6 DEF FindNewest, Typed
<1>5. ASSUME NEW s \in Stagers, Carry(s) PROVE Typed'
  <2>. DEFINE new == stager[s].newest
              adds == IF "landUse" \in stager[s].brings THEN {stager[s].landUse} ELSE {}
              holds == CarriedForward(s) \cup adds
              drops == stager[s].drops \cup ({new} \cap {b \in BatchIds : Staged(b)})
  <2>1. stager' = [stager EXCEPT ![s] = [@ EXCEPT !.at = "carried", !.holds = holds, !.drops = drops]]
    BY <1>5, <1>0 DEF Carry
  <2>2. drops \in SUBSET BatchIds
    BY <1>0 DEF StagerRecord
  <2>3. CarriedForward(s) \in SUBSET BatchIds
    <3>1. CASE new = 0
      BY <3>1 DEF CarriedForward, Typed
    <3>2. CASE new # 0
      <4>1. new \in BatchIds
        BY <1>0, <3>2 DEF BatchIds, StagerRecord
      <4>2. batch[new].holds \in SUBSET BatchIds
        BY <1>0, <4>1 DEF BatchRow
      <4>. QED
        BY <3>2, <4>2 DEF CarriedForward
    <3>. QED
      BY <3>1, <3>2
  <2>4. stager[s].landUse \in BatchIds
    BY <1>0, <1>5 DEF Carry, StagerSteps, Progress, StagerRecord, BatchIds
  <2>5. holds \in SUBSET BatchIds
    BY <2>3, <2>4
  <2>. HIDE DEF holds, drops
  <2>6. [stager[s] EXCEPT !.at = "carried", !.holds = holds, !.drops = drops] \in StagerRecord
    BY <1>0, <2>2, <2>5, StagerRecordChanged
  <2>7. stager' \in [Stagers -> StagerRecord]
    BY <1>0, <2>1, <2>6
  <2>. QED
    BY <1>5, <2>7 DEF Carry, Typed
<1>6. ASSUME NEW s \in Stagers, CommitStaging(s) PROVE Typed'
  <2>. DEFINE st == stager[s]
  <2>1. dataset' \in Seq(DatasetRow)
    <3>1. Row(s, "staged") \in DatasetRow
      BY <1>0, <1>6, RowTyped DEF CommitStaging, Staging
    <3>. DEFINE older == [n \in DOMAIN dataset |->
                   IF n \in st.old THEN [dataset[n] EXCEPT !.status = "superseded"] ELSE dataset[n]]
    <3>2. \A n \in DOMAIN dataset : [dataset[n] EXCEPT !.status = "superseded"] \in DatasetRow
      BY DatasetRows, DatasetRowChanged
    <3>3. \A n \in DOMAIN dataset : older[n] \in DatasetRow
      BY <1>0, <3>2
    <3>4. older \in Seq(DatasetRow)
      <4>1. Len(dataset) \in Nat /\ DOMAIN dataset = 1..Len(dataset)
        BY <1>0
      <4>. QED
        BY <4>1, <3>3
    <3>5. dataset' = Append(older, Row(s, "staged"))
      BY <1>6 DEF CommitStaging
    <3>. HIDE DEF older
    <3>. QED
      BY <3>1, <3>4, <3>5
  <2>2. batch' \in [BatchIds -> BatchRow]
    <3>1. New(s, "own", {}) \in BatchRow
      BY <1>0 DEF New, StagerRecord, BatchRow
    <3>2. New(s, "landUse", st.holds) \in BatchRow
      BY <1>0 DEF New, StagerRecord, BatchRow
    <3>3. \A b \in BatchIds : [batch[b] EXCEPT !.status = "superseded"] \in BatchRow
      BY <1>0, BatchRowChanged
    <3>. QED
      BY <1>0, <1>6, <3>1, <3>2, <3>3 DEF CommitStaging
  <2>3. stager' \in [Stagers -> StagerRecord]
    <3>. DEFINE missed(t) == stager[t].missed \cup
                  (IF st.landUse # 0 /\ stager[t].landUse # 0 THEN {st.landUse} ELSE {})
                unseen(t) == stager[t].unseen \cup
                  (IF stager[t].plan = st.plan /\ stager[t].at \notin {"idle", "labelled"}
                   THEN {Len(dataset) + 1} ELSE {})
    <3>1. \A t \in Stagers : missed(t) \in SUBSET BatchIds
      <4>1. st.landUse # 0 => st.landUse \in BatchIds
        BY <1>0 DEF StagerRecord, BatchIds
      <4>2. \A t \in Stagers : stager[t].missed \in SUBSET BatchIds
        BY <1>0 DEF StagerRecord
      <4>. HIDE DEF st
      <4>. QED
        BY <4>1, <4>2
    <3>2. \A t \in Stagers : unseen(t) \in SUBSET Nat
      <4>1. \A t \in Stagers : stager[t].unseen \in SUBSET Nat
        BY <1>0 DEF StagerRecord
      <4>2. Len(dataset) + 1 \in Nat
        BY DatasetRows
      <4>. QED
        BY <4>1, <4>2
    <3>3. stager' = [t \in Stagers |-> IF t = s THEN NotStaging
                     ELSE [stager[t] EXCEPT !.missed = missed(t), !.unseen = unseen(t)]]
      BY <1>0, <1>6 DEF CommitStaging
    <3>. HIDE DEF missed, unseen, st
    <3>4. \A t \in Stagers : [stager[t] EXCEPT !.missed = missed(t), !.unseen = unseen(t)] \in StagerRecord
      BY <1>0, <3>1, <3>2, StagerRecordChanged
    <3>. QED
      BY <3>3, <3>4, NothingTyped
  <2>4. Astray(s) \subseteq BatchIds
    <3>1. \A b \in BatchIds : batch[b].holds \in SUBSET BatchIds
      BY <1>0 DEF BatchRow
    <3>2. stager[s].holds \in SUBSET BatchIds /\ stager[s].missed \in SUBSET BatchIds
      BY <1>0 DEF StagerRecord
    <3>. QED
      BY <3>1, <3>2 DEF Astray, StagedLand
  <2>. QED
    BY <1>6, <2>1, <2>2, <2>3, <2>4 DEF CommitStaging, Typed
<1>7. ASSUME NEW s \in Stagers, GiveUp(s) PROVE Typed'
  BY <1>0, <1>7, NothingTyped DEF GiveUp, Typed
<1>16. ASSUME NEW s \in Stagers, WaitForRun(s) PROVE Typed'
  <2>1. stager' = [stager EXCEPT ![s] = [@ EXCEPT !.at = "waiting"]]
    BY <1>16 DEF WaitForRun
  <2>2. stager' \in [Stagers -> StagerRecord]
    BY <1>0, <2>1, StagerRecordChanged
  <2>. QED
    BY <1>16, <2>2 DEF WaitForRun, Typed
<1>8. ASSUME NEW b \in BatchIds, ApproveBatch(b) PROVE Typed'
  <2>1. [batch[b] EXCEPT !.approved = TRUE] \in BatchRow
    BY <1>0, BatchRowChanged
  <2>2. batch' = [batch EXCEPT ![b] = [@ EXCEPT !.approved = TRUE]]
    BY <1>8 DEF ApproveBatch
  <2>. QED
    BY <1>0, <1>8, <2>1, <2>2 DEF ApproveBatch, Typed
<1>9. ASSUME NEW b \in BatchIds, RejectBatch(b) PROVE Typed'
  <2>1. [batch[b] EXCEPT !.status = "rejected", !.approved = FALSE] \in BatchRow
    BY <1>0, BatchRowChanged
  <2>2. batch' = [batch EXCEPT ![b] = [@ EXCEPT !.status = "rejected", !.approved = FALSE]]
    BY <1>0, <1>9 DEF RejectBatch
  <2>3. batch' \in [BatchIds -> BatchRow]
    BY <1>0, <2>1, <2>2
  <2>. QED
    BY <1>9, <2>3 DEF RejectBatch, Typed
<1>10. CASE GeometryPreflight
  BY <1>10 DEF GeometryPreflight, NotPublishing, PublisherRecord, Typed
<1>11. CASE ChooseBatches
  <2>1. StagedBatches \in SUBSET BatchIds
    BY DEF StagedBatches
  <2>. QED
    BY <1>11, <2>1 DEF ChooseBatches, PublisherRecord, Typed
<1>12. CASE ApplyGeometry
  <2>. DEFINE closing == {n \in DOMAIN dataset : dataset[n].status = "staged" /\ Applied(n)}
  <2>1. closing \in SUBSET Nat
    BY <1>0
  <2>2. publisher' = [publisher EXCEPT !.at = "applied", !.closing = closing]
    BY <1>12 DEF ApplyGeometry
  <2>. HIDE DEF closing
  <2>3. publisher' \in PublisherRecord
    BY <2>1, <2>2 DEF Typed, PublisherRecord
  <2>. QED
    BY <1>12, <2>3 DEF ApplyGeometry, Typed
<1>13. CASE CommitPublish
  <2>1. batch' \in [BatchIds -> BatchRow]
    <3>1. \A b \in BatchIds : Outcome(b) \in {"absent", "staged", "superseded", "rejected", "published"}
      BY <1>0 DEF Outcome, BatchRow
    <3>2. \A b \in BatchIds : [batch[b] EXCEPT !.status = Outcome(b)] \in BatchRow
      BY <1>0, <3>1, BatchRowChanged
    <3>. QED
      BY <1>13, <3>2 DEF CommitPublish
  <2>2. dataset' \in Seq(DatasetRow)
    <3>1. \A n \in DOMAIN dataset : Marked(n) \in {"staged", "invalid", "superseded", "published"}
      <4>1. \A n \in DOMAIN dataset : dataset[n].status \in {"staged", "invalid", "superseded", "published"}
        BY DatasetRows DEF DatasetRow
      <4>. QED
        BY <4>1 DEF Marked
    <3>2. \A n \in DOMAIN dataset : [dataset[n] EXCEPT !.status = Marked(n)] \in DatasetRow
      BY DatasetRows, <3>1, DatasetRowChanged
    <3>3. Len(dataset) \in Nat /\ DOMAIN dataset = 1..Len(dataset)
      BY <1>0
    <3>. QED
      <4>. DEFINE marked == [n \in DOMAIN dataset |-> [dataset[n] EXCEPT !.status = Marked(n)]]
      <4>1. \A n \in DOMAIN dataset : marked[n] \in DatasetRow
        BY <3>2
      <4>2. dataset' = marked
        BY <1>13 DEF CommitPublish
      <4>3. marked = [n \in DOMAIN dataset |-> marked[n]]
        OBVIOUS
      <4>. HIDE DEF marked
      <4>4. marked \in [1..Len(dataset) -> DatasetRow]
        BY <4>1, <4>3, <3>3
      <4>. QED
        BY <4>2, <4>4, <3>3
  <2>3. served' \subseteq BatchIds
    <3>1. CASE LandChosen = {}
      BY <1>13, <3>1 DEF CommitPublish, Typed
    <3>2. CASE LandChosen # {}
      <4>1. Highest(LandChosen) \in BatchIds
        <5>1. LandChosen \in SUBSET BatchIds
          BY DEF LandChosen, PublisherRecord, Typed
        <5>. QED
          BY <3>2, <5>1, HighestIsIn
      <4>. QED
        BY <1>0, <1>13, <3>2, <4>1 DEF CommitPublish, BatchRow
    <3>. QED
      BY <3>1, <3>2
  <2>. QED
    BY <1>13, <2>1, <2>2, <2>3 DEF CommitPublish, NotPublishing, PublisherRecord, Typed
<1>14. CASE PublishFails
  BY <1>14 DEF PublishFails, NotPublishing, PublisherRecord, Typed
<1>15. CASE UNCHANGED geometryVars
  BY <1>15 DEF geometryVars, Typed
<1>. QED
  BY <1>1, <1>2, <1>3, <1>4, <1>5, <1>6, <1>7, <1>8, <1>9, <1>10, <1>11, <1>12, <1>13, <1>14, <1>15,
     <1>16 DEF GeometryNext

(* What each action writes, field by field.                                *)
LEMMA TakeLabelWrites ==
  ASSUME Typed, NEW s \in Stagers, NEW p \in Plans, NEW brings \in Drawings, NEW label \in Labels,
             TakeLabel(s, p, brings, label)
  PROVE  /\ \A t \in Stagers \ {s} : stager'[t] = stager[t]
         /\ LET new == stager'[s] IN
            /\ new.at = "labelled" /\ new.plan = p /\ new.label = label /\ new.brings = brings
            /\ new.old = {} /\ new.drops = {} /\ new.own = 0 /\ new.landUse = 0 /\ new.newest = 0
            /\ new.holds = {} /\ new.missed = {} /\ new.unseen = {}
         /\ stager[s].at = "idle"
         /\ UNCHANGED <<batch, dataset, served, nextBatch, publisher, refused, hasty, overlooked, parallel>>
<1>1. stager'[s] = [NotStaging EXCEPT !.at = "labelled", !.plan = p, !.label = label, !.brings = brings]
  BY DEF TakeLabel, Typed
<1>2. LET r == NotStaging IN
      r.old = {} /\ r.drops = {} /\ r.own = 0 /\ r.landUse = 0 /\ r.newest = 0 /\ r.holds = {} /\ r.missed = {}
      /\ r.unseen = {}
  BY DEF NotStaging
<1>3. NotStaging \in StagerRecord
  BY NothingTyped
<1>4. LET new == stager'[s] r == NotStaging IN
      /\ new.at = "labelled" /\ new.plan = p /\ new.label = label /\ new.brings = brings
      /\ new.old = r.old /\ new.drops = r.drops /\ new.own = r.own /\ new.landUse = r.landUse
      /\ new.newest = r.newest /\ new.holds = r.holds /\ new.missed = r.missed
      /\ new.unseen = r.unseen
  BY <1>1, <1>3 DEF StagerRecord
<1>. QED
  BY <1>2, <1>4 DEF TakeLabel, Typed, Staging, tables, history

LEMMA RecordInvalidWrites ==
  ASSUME Typed, NEW s \in Stagers, RecordInvalid(s)
  PROVE  /\ DOMAIN dataset' = DOMAIN dataset \cup {Len(dataset) + 1}
         /\ \A n \in DOMAIN dataset : dataset'[n] = dataset[n]
         /\ dataset'[Len(dataset) + 1] = Row(s, "invalid")
         /\ LabelFree(s) /\ stager[s].at = "labelled"
         /\ \A t \in Stagers \ {s} : stager'[t] = stager[t]
         /\ stager'[s] = NotStaging
         /\ UNCHANGED <<batch, served, nextBatch, publisher, refused, hasty, overlooked, parallel>>
<1>1. dataset' = Append(dataset, Row(s, "invalid"))
  BY DEF RecordInvalid
<1>2. DOMAIN dataset' = 1..(Len(dataset) + 1) /\ DOMAIN dataset = 1..Len(dataset) /\ Len(dataset) \in Nat
  BY <1>1, DatasetRows DEF Typed
<1>3. DOMAIN dataset' = DOMAIN dataset \cup {Len(dataset) + 1}
  BY <1>2
<1>. QED
  BY <1>1, <1>3, DatasetRows DEF RecordInvalid, Typed, history

LEMMA WaitForRunWrites ==
  ASSUME Typed, NEW s \in Stagers, WaitForRun(s)
  PROVE  LET st == stager[s] new == stager'[s] IN
         /\ \A t \in Stagers \ {s} : stager'[t] = stager[t]
         /\ st.at = "labelled" /\ new.at = "waiting"
         /\ new.plan = st.plan /\ new.label = st.label /\ new.brings = st.brings
         /\ new.old = st.old /\ new.drops = st.drops /\ new.own = st.own
         /\ new.landUse = st.landUse /\ new.newest = st.newest
         /\ new.holds = st.holds /\ new.missed = st.missed /\ new.unseen = st.unseen
         /\ UNCHANGED <<batch, dataset, served, nextBatch, publisher, refused, hasty, overlooked, parallel>>
<1>1. stager'[s] = [stager[s] EXCEPT !.at = "waiting"] /\ stager[s] \in StagerRecord
      /\ \A t \in Stagers \ {s} : stager'[t] = stager[t]
  BY DEF WaitForRun, Typed
<1>. QED
  BY <1>1 DEF WaitForRun, StagerRecord, tables, history

LEMMA ClearWrites ==
  ASSUME Typed, NEW s \in Stagers, Clear(s)
  PROVE  LET st == stager[s] new == stager'[s] IN
         /\ \A t \in Stagers \ {s} : stager'[t] = stager[t]
         /\ st.at \in {"labelled", "waiting"} /\ new.at \in {"cleared", "carried"}
         /\ new.at = "carried" =>
              "landUse" \notin st.brings /\ \A n \in new.old : dataset[n].landUse = 0
         /\ new.plan = st.plan /\ new.label = st.label /\ new.brings = st.brings
         /\ new.landUse = st.landUse /\ new.newest = st.newest
         /\ new.holds = st.holds /\ new.missed = st.missed /\ new.unseen = st.unseen
         /\ new.old = StagedRuns(st.plan) \ st.unseen
         /\ new.drops = {dataset[n].own : n \in new.old} \cap {b \in BatchIds : Staged(b)}
         /\ new.own \in {0, nextBatch} /\ new.own <= MaxBatches
         /\ nextBatch' = IF new.own = 0 THEN nextBatch ELSE nextBatch + 1
         /\ UNCHANGED <<batch, dataset, served, publisher, refused, hasty, overlooked, parallel>>
<1>. DEFINE old == StagedRuns(stager[s].plan) \ stager[s].unseen
            drops == {dataset[n].own : n \in old} \cap {b \in BatchIds : Staged(b)}
            own == IF "own" \in stager[s].brings THEN nextBatch ELSE 0
            redoes == "landUse" \in stager[s].brings \/ \E n \in old : dataset[n].landUse # 0
            at == IF redoes THEN "cleared" ELSE "carried"
<1>1. /\ own <= MaxBatches /\ stager[s].at \in {"labelled", "waiting"}
      /\ nextBatch' = IF own = 0 THEN nextBatch ELSE nextBatch + 1
      /\ stager' = [stager EXCEPT ![s] = [@ EXCEPT !.at = at, !.old = old, !.drops = drops, !.own = own]]
      /\ UNCHANGED <<batch, dataset, served, publisher, refused, hasty, overlooked, parallel>>
  BY DEF Clear, Typed, tables, history
<1>2. own \in {0, nextBatch} /\ at \in {"cleared", "carried"} /\ (at = "carried" => ~ redoes)
  OBVIOUS
<1>. HIDE DEF drops, own, at, old
<1>3. stager'[s] = [stager[s] EXCEPT !.at = at, !.old = old, !.drops = drops, !.own = own]
      /\ \A t \in Stagers \ {s} : stager'[t] = stager[t]
  BY <1>1 DEF Typed
<1>4. stager[s] \in StagerRecord
  BY DEF Typed
<1>5. LET st == stager[s] new == stager'[s] IN
         /\ new.at = at /\ new.old = old /\ new.drops = drops /\ new.own = own
         /\ new.plan = st.plan /\ new.label = st.label /\ new.brings = st.brings
         /\ new.landUse = st.landUse /\ new.newest = st.newest
         /\ new.holds = st.holds /\ new.missed = st.missed /\ new.unseen = st.unseen
  BY <1>3, <1>4 DEF StagerRecord
<1>6. old = StagedRuns(stager[s].plan) \ stager[s].unseen
  BY DEF old
<1>7. drops = {dataset[n].own : n \in old} \cap {b \in BatchIds : Staged(b)}
  BY DEF drops
<1>. QED
  BY <1>1, <1>2, <1>3, <1>5, <1>6, <1>7

LEMMA ClearWaits ==
  ASSUME Typed, NEW s \in Stagers, Clear(s)
  PROVE  /\ \A n \in stager'[s].old : \A t \in Stagers \ {s} : n \notin stager[t].old
         /\ \A b \in stager'[s].drops : /\ \A t \in Stagers \ {s} : b \notin stager[t].drops
                                        /\ publisher.at = "applied" => b \notin publisher.chosen
<1>. DEFINE old == StagedRuns(stager[s].plan) \ stager[s].unseen
            drops == {dataset[n].own : n \in old} \cap {b \in BatchIds : Staged(b)}
<1>1. /\ \A n \in old : DatasetFree(n, s)
      /\ \A b \in drops : BatchFree(b, Stagers \ {s})
  BY DEF Clear
<1>2. stager'[s].old = old /\ stager'[s].drops = drops
  BY ClearWrites
<1>. HIDE DEF old, drops
<1>. QED
  BY <1>1, <1>2 DEF DatasetFree, BatchFree

LEMMA FindNewestWrites ==
  ASSUME Typed, NEW s \in Stagers, FindNewest(s)
  PROVE  LET st == stager[s] new == stager'[s] IN
         /\ \A t \in Stagers \ {s} : stager'[t] = stager[t]
         /\ st.at = "cleared" /\ new.at = "found"
         /\ new.plan = st.plan /\ new.label = st.label /\ new.brings = st.brings
         /\ new.old = st.old /\ new.drops = st.drops /\ new.own = st.own
         /\ new.holds = st.holds /\ new.missed = st.missed /\ new.unseen = st.unseen
         /\ new.newest = NewestStaged /\ new.landUse = nextBatch
         /\ nextBatch \in BatchIds /\ nextBatch' = nextBatch + 1
         /\ UNCHANGED <<batch, dataset, served, publisher, refused, hasty, overlooked, parallel>>
<1>1. stager' = [stager EXCEPT ![s] = [@ EXCEPT !.at = "found", !.newest = NewestStaged, !.landUse = nextBatch]]
      /\ stager[s].at = "cleared" /\ nextBatch \in BatchIds /\ nextBatch' = nextBatch + 1
      /\ UNCHANGED <<batch, dataset, served, publisher, refused, hasty, overlooked, parallel>>
  <2>1. nextBatch \in 1..(MaxBatches + 1) /\ nextBatch <= MaxBatches
    BY DEF FindNewest, Typed
  <2>2. nextBatch \in BatchIds
    BY <2>1, GeometryAssumption DEF BatchIds
  <2>3. stager' = [stager EXCEPT ![s] = [@ EXCEPT !.at = "found", !.newest = NewestStaged, !.landUse = nextBatch]]
    BY DEF FindNewest, Typed
  <2>. QED
    BY <2>2, <2>3 DEF FindNewest, tables, history
<1>2. stager'[s] = [stager[s] EXCEPT !.at = "found", !.newest = NewestStaged, !.landUse = nextBatch]
      /\ \A t \in Stagers \ {s} : stager'[t] = stager[t]
  BY <1>1 DEF Typed
<1>3. stager[s] \in StagerRecord
  BY DEF Typed
<1>4. LET st == stager[s] new == stager'[s] IN
         /\ new.at = "found"
         /\ new.plan = st.plan /\ new.label = st.label /\ new.brings = st.brings
         /\ new.old = st.old /\ new.drops = st.drops /\ new.own = st.own
         /\ new.holds = st.holds /\ new.missed = st.missed /\ new.unseen = st.unseen
         /\ new.newest = NewestStaged /\ new.landUse = nextBatch
  BY <1>2, <1>3 DEF StagerRecord
<1>. QED
  BY <1>1, <1>2, <1>4

LEMMA CarryWrites ==
  ASSUME Typed, NEW s \in Stagers, Carry(s)
  PROVE  LET st == stager[s] new == stager'[s] IN
         /\ \A t \in Stagers \ {s} : stager'[t] = stager[t]
         /\ st.at = "found" /\ new.at = "carried"
         /\ new.plan = st.plan /\ new.label = st.label /\ new.brings = st.brings
         /\ new.old = st.old /\ new.own = st.own
         /\ new.newest = st.newest /\ new.landUse = st.landUse /\ new.missed = st.missed /\ new.unseen = st.unseen
         /\ st.newest # 0 => /\ \A t \in Stagers \ {s} : st.newest \notin stager[t].drops
                             /\ publisher.at = "applied" => st.newest \notin publisher.chosen
         /\ new.holds = CarriedForward(s) \cup (IF "landUse" \in st.brings THEN {st.landUse} ELSE {})
         /\ new.drops = st.drops \cup ({st.newest} \cap {b \in BatchIds : Staged(b)})
         /\ UNCHANGED <<batch, dataset, served, nextBatch, publisher, refused, hasty, overlooked, parallel>>
<1>. DEFINE holds == CarriedForward(s) \cup (IF "landUse" \in stager[s].brings THEN {stager[s].landUse} ELSE {})
            drops == stager[s].drops \cup ({stager[s].newest} \cap {b \in BatchIds : Staged(b)})
<1>1. stager' = [stager EXCEPT ![s] = [@ EXCEPT !.at = "carried", !.holds = holds, !.drops = drops]]
  BY DEF Carry, Typed
<1>2. /\ stager[s].at = "found"
      /\ stager[s].newest # 0 => /\ \A t \in Stagers \ {s} : stager[s].newest \notin stager[t].drops
                                 /\ publisher.at = "applied" => stager[s].newest \notin publisher.chosen
      /\ UNCHANGED <<batch, dataset, served, nextBatch, publisher, refused, hasty, overlooked, parallel>>
  BY DEF Carry, tables, history, BatchFree
<1>3. holds = CarriedForward(s) \cup (IF "landUse" \in stager[s].brings THEN {stager[s].landUse} ELSE {})
      /\ drops = stager[s].drops \cup ({stager[s].newest} \cap {b \in BatchIds : Staged(b)})
  OBVIOUS
<1>. HIDE DEF holds, drops
<1>4. stager'[s] = [stager[s] EXCEPT !.at = "carried", !.holds = holds, !.drops = drops]
      /\ \A t \in Stagers \ {s} : stager'[t] = stager[t]
  BY <1>1 DEF Typed
<1>5. stager[s] \in StagerRecord
  BY DEF Typed
<1>6. LET st == stager[s] new == stager'[s] IN
         /\ new.at = "carried" /\ new.holds = holds /\ new.drops = drops
         /\ new.plan = st.plan /\ new.label = st.label /\ new.brings = st.brings
         /\ new.old = st.old /\ new.own = st.own
         /\ new.newest = st.newest /\ new.landUse = st.landUse /\ new.missed = st.missed /\ new.unseen = st.unseen
  BY <1>4, <1>5 DEF StagerRecord
<1>. QED
  BY <1>2, <1>3, <1>4, <1>6

LEMMA CommitStagingBatches ==
  ASSUME Typed, IdsApart, DropsLocked, NEW s \in Stagers, CommitStaging(s)
  PROVE  LET st == stager[s] IN
         /\ st.own # 0 => LET new == batch'[st.own] IN
              new.plan = st.plan /\ new.layer = "own" /\ new.status = "staged" /\ new.holds = {}
         /\ st.landUse # 0 => LET new == batch'[st.landUse] IN
              new.plan = st.plan /\ new.layer = "landUse" /\ new.status = "staged" /\ new.holds = st.holds
         /\ \A b \in BatchIds \ {st.own, st.landUse} :
              /\ batch'[b].plan = batch[b].plan /\ batch'[b].layer = batch[b].layer
              /\ batch'[b].holds = batch[b].holds
              /\ batch'[b].status = IF b \in st.drops THEN "superseded" ELSE batch[b].status
<1>. DEFINE st == stager[s]
<1>1. \A b \in BatchIds :
        batch'[b] = CASE b = st.own -> New(s, "own", {})
                      [] b = st.landUse -> New(s, "landUse", st.holds)
                      [] b \in st.drops -> [batch[b] EXCEPT !.status = "superseded"]
                      [] OTHER -> batch[b]
  BY DEF CommitStaging
<1>2. \A b \in {st.own, st.landUse} \ {0} : b \in BatchIds /\ b \notin st.drops
  <2>1. \A b \in {st.own, st.landUse} \ {0} : b \in BatchIds /\ batch[b].status = "absent"
    BY DEF Typed, StagerRecord, BatchIds, IdsApart, Taken
  <2>2. \A b \in st.drops : batch[b].status = "staged"
    BY DEF DropsLocked, Staged
  <2>. QED
    BY <2>1, <2>2
<1>3. st.own # 0 => st.own # st.landUse
  BY DEF IdsApart
<1>4. st.own # 0 => batch'[st.own] = New(s, "own", {})
  <2>. HIDE DEF st
  <2>1. SUFFICES ASSUME st.own # 0 PROVE batch'[st.own] = New(s, "own", {})
    OBVIOUS
  <2>2. st.own \in BatchIds /\ st.own # st.landUse /\ st.own \notin st.drops
    BY <1>2, <1>3, <2>1
  <2>. QED
    BY <2>2, <1>1
<1>5. st.landUse # 0 => batch'[st.landUse] = New(s, "landUse", st.holds)
  <2>. HIDE DEF st
  <2>1. SUFFICES ASSUME st.landUse # 0 PROVE batch'[st.landUse] = New(s, "landUse", st.holds)
    OBVIOUS
  <2>2. st.landUse \in BatchIds /\ st.own # st.landUse /\ st.landUse \notin st.drops
    BY <1>2, <1>3, <2>1
  <2>. QED
    BY <2>2, <1>1
<1>6. \A b \in BatchIds \ {st.own, st.landUse} :
        /\ batch'[b].plan = batch[b].plan /\ batch'[b].layer = batch[b].layer
        /\ batch'[b].holds = batch[b].holds
        /\ batch'[b].status = IF b \in st.drops THEN "superseded" ELSE batch[b].status
  <2>1. \A b \in BatchIds : batch[b] \in BatchRow
    BY DEF Typed
  <2>2. \A b \in BatchIds \ {st.own, st.landUse} :
          batch'[b] = IF b \in st.drops THEN [batch[b] EXCEPT !.status = "superseded"] ELSE batch[b]
    BY <1>1
  <2>. QED
    BY <2>1, <2>2 DEF BatchRow
<1>7. st.own # 0 => LET new == batch'[st.own] IN
        new.plan = st.plan /\ new.layer = "own" /\ new.status = "staged" /\ new.holds = {}
  BY <1>4 DEF New
<1>8. st.landUse # 0 => LET new == batch'[st.landUse] IN
        new.plan = st.plan /\ new.layer = "landUse" /\ new.status = "staged" /\ new.holds = st.holds
  BY <1>5 DEF New
<1>. QED
  BY <1>6, <1>7, <1>8

(* What a commit leaves of another staging's record.                       *)
LEMMA CommitStagingOthers ==
  ASSUME Typed, NEW s \in Stagers, CommitStaging(s), NEW t \in Stagers \ {s}
  PROVE  LET old == stager[t] new == stager'[t] IN
         /\ new.at = old.at /\ new.plan = old.plan /\ new.label = old.label
         /\ new.brings = old.brings /\ new.old = old.old /\ new.drops = old.drops
         /\ new.own = old.own /\ new.landUse = old.landUse /\ new.newest = old.newest
         /\ new.holds = old.holds
         /\ new.missed = IF stager[s].landUse # 0 /\ old.landUse # 0
                         THEN old.missed \cup {stager[s].landUse} ELSE old.missed
         /\ new.unseen = IF old.plan = stager[s].plan /\ old.at \notin {"idle", "labelled"}
                         THEN old.unseen \cup {Len(dataset) + 1} ELSE old.unseen
<1>. DEFINE st == stager[s]
<1>1. stager'[t] = [stager[t] EXCEPT
        !.missed = stager[t].missed \cup
          (IF st.landUse # 0 /\ stager[t].landUse # 0 THEN {st.landUse} ELSE {}),
        !.unseen = stager[t].unseen \cup
          (IF stager[t].plan = st.plan /\ stager[t].at \notin {"idle", "labelled"}
           THEN {Len(dataset) + 1} ELSE {})]
  BY DEF CommitStaging, Typed
<1>2. stager[t] \in StagerRecord
  BY DEF Typed
<1>. HIDE DEF st
<1>. QED
  BY <1>1, <1>2 DEF StagerRecord, st

LEMMA CommitStagingWrites ==
  ASSUME Typed, NEW s \in Stagers, CommitStaging(s)
  PROVE  LET st == stager[s] IN
         /\ st.at = "carried" /\ LabelFree(s)
         /\ DOMAIN dataset' = DOMAIN dataset \cup {Len(dataset) + 1}
         /\ \A n \in DOMAIN dataset :
              /\ dataset'[n].plan = dataset[n].plan /\ dataset'[n].label = dataset[n].label
              /\ dataset'[n].own = dataset[n].own /\ dataset'[n].landUse = dataset[n].landUse
              /\ dataset'[n].status = IF n \in st.old THEN "superseded" ELSE dataset[n].status
         /\ dataset'[Len(dataset) + 1] = Row(s, "staged")
         /\ stager'[s] = NotStaging
         /\ \A t \in Stagers \ {s} : LET old == stager[t] new == stager'[t] IN
              /\ new.at = old.at /\ new.plan = old.plan /\ new.label = old.label
              /\ new.brings = old.brings /\ new.old = old.old /\ new.drops = old.drops
              /\ new.own = old.own /\ new.landUse = old.landUse /\ new.newest = old.newest
              /\ new.holds = old.holds
              /\ new.missed = IF st.landUse # 0 /\ old.landUse # 0
                              THEN old.missed \cup {st.landUse} ELSE old.missed
              /\ new.unseen = IF old.plan = st.plan /\ old.at \notin {"idle", "labelled"}
                              THEN old.unseen \cup {Len(dataset) + 1} ELSE old.unseen
         /\ overlooked' = overlooked \cup Astray(s)
         /\ parallel' = parallel \cup (Relabelled(s) \X {Len(dataset) + 1})
         /\ UNCHANGED <<served, nextBatch, publisher, refused, hasty>>
<1>. DEFINE st == stager[s]
            older == [n \in DOMAIN dataset |->
              IF n \in st.old THEN [dataset[n] EXCEPT !.status = "superseded"] ELSE dataset[n]]
<1>1. st.at = "carried" /\ LabelFree(s) /\ overlooked' = overlooked \cup Astray(s)
      /\ parallel' = parallel \cup (Relabelled(s) \X {Len(dataset) + 1})
      /\ UNCHANGED <<served, nextBatch, publisher, refused, hasty>>
  BY DEF CommitStaging
<1>2. dataset' = Append(older, Row(s, "staged"))
  BY DEF CommitStaging
<1>3. \A n \in DOMAIN dataset :
        /\ older[n].plan = dataset[n].plan /\ older[n].label = dataset[n].label
        /\ older[n].own = dataset[n].own /\ older[n].landUse = dataset[n].landUse
        /\ older[n].status = IF n \in st.old THEN "superseded" ELSE dataset[n].status
  BY DatasetRows DEF DatasetRow
<1>4. DOMAIN older = 1..Len(dataset) /\ Len(dataset) \in Nat /\ older \in Seq(DatasetRow) /\ Len(older) = Len(dataset)
  <2>1. \A n \in DOMAIN dataset : older[n] \in DatasetRow
    BY DatasetRows, DatasetRowChanged
  <2>2. DOMAIN older = 1..Len(dataset) /\ Len(dataset) \in Nat
    BY DatasetRows
  <2>. HIDE DEF older
  <2>3. older \in [1..Len(dataset) -> DatasetRow]
    <3>1. older = [n \in DOMAIN dataset |-> older[n]]
      BY DEF older
    <3>. QED
      BY <2>1, <2>2, <3>1
  <2>. QED
    BY <2>2, <2>3
<1>5. /\ DOMAIN dataset' = 1..(Len(dataset) + 1)
      /\ \A n \in DOMAIN dataset : dataset'[n] = older[n]
      /\ dataset'[Len(dataset) + 1] = Row(s, "staged")
  <2>. HIDE DEF older
  <2>. QED
    BY <1>2, <1>4, DatasetRows
<1>6. stager'[s] = NotStaging
  BY DEF CommitStaging
<1>7. ASSUME NEW t \in Stagers \ {s}
      PROVE  LET old == stager[t] new == stager'[t] IN
              /\ new.at = old.at /\ new.plan = old.plan /\ new.label = old.label
              /\ new.brings = old.brings /\ new.old = old.old /\ new.drops = old.drops
              /\ new.own = old.own /\ new.landUse = old.landUse /\ new.newest = old.newest
              /\ new.holds = old.holds
              /\ new.missed = IF st.landUse # 0 /\ old.landUse # 0
                              THEN old.missed \cup {st.landUse} ELSE old.missed
              /\ new.unseen = IF old.plan = st.plan /\ old.at \notin {"idle", "labelled"}
                              THEN old.unseen \cup {Len(dataset) + 1} ELSE old.unseen
  BY <1>7, CommitStagingOthers
<1>. HIDE DEF older
<1>8. \A n \in DOMAIN dataset :
        /\ dataset'[n].plan = dataset[n].plan /\ dataset'[n].label = dataset[n].label
        /\ dataset'[n].own = dataset[n].own /\ dataset'[n].landUse = dataset[n].landUse
        /\ dataset'[n].status = IF n \in st.old THEN "superseded" ELSE dataset[n].status
  <2>. HIDE DEF st
  <2>. QED
    BY <1>3, <1>5
<1>9. DOMAIN dataset' = DOMAIN dataset \cup {Len(dataset) + 1}
  <2>1. DOMAIN dataset = 1..Len(dataset) /\ Len(dataset) \in Nat
    BY DatasetRows
  <2>. QED
    BY <2>1, <1>5
<1>. QED
  BY <1>1, <1>5, <1>6, <1>7, <1>8, <1>9

LEMMA GiveUpWrites ==
  ASSUME Typed, NEW s \in Stagers, GiveUp(s)
  PROVE  /\ \A t \in Stagers \ {s} : stager'[t] = stager[t]
         /\ stager'[s] = NotStaging
         /\ UNCHANGED <<batch, dataset, served, nextBatch, publisher, refused, hasty, overlooked, parallel>>
BY DEF GiveUp, Typed, tables, history

LEMMA DecisionWrites ==
  ASSUME Typed, NEW b \in BatchIds, ApproveBatch(b) \/ RejectBatch(b)
  PROVE  /\ Open(b)
         /\ \A c \in BatchIds : /\ batch'[c].plan = batch[c].plan /\ batch'[c].layer = batch[c].layer
                                /\ batch'[c].holds = batch[c].holds
         /\ \A c \in BatchIds \ {b} : batch'[c].status = batch[c].status
         /\ \/ batch'[b].status = "staged" /\ UNCHANGED <<refused, hasty>>
            \/ /\ batch'[b].status = "rejected" /\ refused' = refused \cup {b}
               /\ hasty' = IF InUse(b) THEN hasty \cup {b} ELSE hasty
         /\ UNCHANGED <<dataset, served, nextBatch, stager, publisher, overlooked, parallel>>
<1>1. \A c \in BatchIds : batch[c] \in BatchRow
  BY DEF Typed
<1>2. CASE ApproveBatch(b)
  <2>1. batch'[b] = [batch[b] EXCEPT !.approved = TRUE] /\ \A c \in BatchIds \ {b} : batch'[c] = batch[c]
    BY <1>2 DEF ApproveBatch, Typed
  <2>2. batch'[b].plan = batch[b].plan /\ batch'[b].layer = batch[b].layer /\ batch'[b].holds = batch[b].holds
        /\ batch'[b].status = batch[b].status
    BY <1>1, <2>1 DEF BatchRow
  <2>. QED
    BY <1>2, <2>1, <2>2 DEF ApproveBatch, Open, Staged, history
<1>3. CASE RejectBatch(b)
  <2>1. batch'[b] = [batch[b] EXCEPT !.status = "rejected", !.approved = FALSE] /\ \A c \in BatchIds \ {b} : batch'[c] = batch[c]
    BY <1>3 DEF RejectBatch, Typed
  <2>2. batch'[b].plan = batch[b].plan /\ batch'[b].layer = batch[b].layer /\ batch'[b].holds = batch[b].holds
        /\ batch'[b].status = "rejected"
    BY <1>1, <2>1 DEF BatchRow
  <2>. QED
    BY <1>3, <2>1, <2>2 DEF RejectBatch
<1>. QED
  BY <1>2, <1>3

LEMMA PublisherWrites ==
  ASSUME Typed, GeometryPreflight \/ ChooseBatches \/ ApplyGeometry \/ PublishFails
  PROVE  /\ UNCHANGED <<batch, dataset, served, nextBatch, stager, refused, hasty, overlooked, parallel>>
         /\ \/ publisher'.at \in {"idle", "checked"} /\ publisher'.chosen = {} /\ publisher'.closing = {}
            \/ /\ publisher.at = "checked" /\ publisher'.at = "chosen"
               /\ publisher'.chosen = StagedBatches /\ publisher'.closing = publisher.closing
            \/ /\ publisher.at = "chosen" /\ publisher'.at = "applied" /\ publisher'.chosen = publisher.chosen
               /\ \A b \in publisher.chosen, s \in Stagers : b \notin stager[s].drops
               /\ publisher'.closing = {n \in DOMAIN dataset : dataset[n].status = "staged" /\ Applied(n)}
<1>1. publisher \in PublisherRecord
  BY DEF Typed
<1>2. CASE GeometryPreflight
  BY <1>2 DEF GeometryPreflight, NotPublishing, tables, history
<1>3. CASE ChooseBatches
  BY <1>1, <1>3 DEF ChooseBatches, PublisherRecord, tables, history
<1>4. CASE ApplyGeometry
  BY <1>1, <1>4 DEF ApplyGeometry, PublisherRecord, tables, history
<1>5. CASE PublishFails
  BY <1>5 DEF PublishFails, NotPublishing, tables, history
<1>. QED
  BY <1>2, <1>3, <1>4, <1>5

LEMMA CommitPublishWrites ==
  ASSUME Typed, CommitPublish
  PROVE  /\ publisher.at = "applied"
         /\ \A n \in publisher.closing, s \in Stagers : n \notin stager[s].old
         /\ \A b \in BatchIds :
              /\ batch'[b].plan = batch[b].plan /\ batch'[b].layer = batch[b].layer
              /\ batch'[b].holds = batch[b].holds /\ batch'[b].status = Outcome(b)
         /\ DOMAIN dataset' = DOMAIN dataset
         /\ \A n \in DOMAIN dataset :
              /\ dataset'[n].plan = dataset[n].plan /\ dataset'[n].label = dataset[n].label
              /\ dataset'[n].own = dataset[n].own /\ dataset'[n].landUse = dataset[n].landUse
              /\ dataset'[n].status = Marked(n)
         /\ served' = IF LandChosen = {} THEN served ELSE batch[Highest(LandChosen)].holds
         /\ publisher'.at = "idle" /\ publisher'.chosen = {} /\ publisher'.closing = {}
         /\ UNCHANGED <<nextBatch, stager, refused, hasty, overlooked, parallel>>
<1>1. \A b \in BatchIds : batch[b] \in BatchRow
  BY DEF Typed
<1>2. \A b \in BatchIds :
              /\ batch'[b].plan = batch[b].plan /\ batch'[b].layer = batch[b].layer
              /\ batch'[b].holds = batch[b].holds /\ batch'[b].status = Outcome(b)
  <2>1. \A b \in BatchIds : batch'[b] = [batch[b] EXCEPT !.status = Outcome(b)]
    BY DEF CommitPublish
  <2>. QED
    BY <1>1, <2>1 DEF BatchRow
<1>3. DOMAIN dataset' = DOMAIN dataset
  BY DEF CommitPublish
<1>4. \A n \in DOMAIN dataset :
              /\ dataset'[n].plan = dataset[n].plan /\ dataset'[n].label = dataset[n].label
              /\ dataset'[n].own = dataset[n].own /\ dataset'[n].landUse = dataset[n].landUse
              /\ dataset'[n].status = Marked(n)
  <2>1. \A n \in DOMAIN dataset : dataset'[n] = [dataset[n] EXCEPT !.status = Marked(n)]
    BY DEF CommitPublish
  <2>. QED
    BY DatasetRows, <2>1 DEF DatasetRow
<1>. QED
  BY <1>2, <1>3, <1>4 DEF CommitPublish, NotPublishing, history

Shape == Typed /\ StagerSteps /\ IdsApart /\ DatasetBatches /\ HoldsKnown /\ DropsLocked

(* A row, once written, keeps its plan, its label, its layer and what it   *)
(* holds.                                                                  *)
RowsKept ==
  /\ DOMAIN dataset \subseteq DOMAIN dataset'
  /\ \A n \in DOMAIN dataset :
       /\ dataset'[n].plan = dataset[n].plan /\ dataset'[n].label = dataset[n].label
       /\ dataset'[n].own = dataset[n].own /\ dataset'[n].landUse = dataset[n].landUse
  /\ \A b \in BatchIds : batch[b].status # "absent" =>
       /\ batch'[b].plan = batch[b].plan /\ batch'[b].layer = batch[b].layer
       /\ batch'[b].holds = batch[b].holds /\ batch'[b].status # "absent"

LEMMA RowsStay ==
  ASSUME Typed, StagerSteps, IdsApart, DropsLocked, [GeometryNext]_geometryVars
  PROVE  RowsKept
<1>1. ASSUME NEW s \in Stagers, NEW p \in Plans, NEW brings \in Drawings, NEW label \in Labels,
             TakeLabel(s, p, brings, label)
      PROVE  RowsKept
  BY <1>1, TakeLabelWrites DEF RowsKept
<1>2. ASSUME NEW s \in Stagers, RecordInvalid(s)
      PROVE  RowsKept
  BY <1>2, RecordInvalidWrites, DatasetRows DEF RowsKept
<1>3. ASSUME NEW s \in Stagers, Clear(s)
      PROVE  RowsKept
  BY <1>3, ClearWrites DEF RowsKept
<1>4. ASSUME NEW s \in Stagers, FindNewest(s)
      PROVE  RowsKept
  BY <1>4, FindNewestWrites DEF RowsKept
<1>5. ASSUME NEW s \in Stagers, Carry(s)
      PROVE  RowsKept
  BY <1>5, CarryWrites DEF RowsKept
<1>6. ASSUME NEW s \in Stagers, CommitStaging(s)
      PROVE  RowsKept
  <2>1. DOMAIN dataset \subseteq DOMAIN dataset'
    BY <1>6, DatasetRows, CommitStagingWrites
  <2>2. \A b \in BatchIds : batch[b].status # "absent" => b \notin {stager[s].own, stager[s].landUse}
    BY GeometryAssumption DEF IdsApart, Taken, BatchIds
  <2>. QED
    BY <1>6, <2>1, <2>2, CommitStagingWrites, CommitStagingBatches DEF RowsKept
<1>7. ASSUME NEW s \in Stagers, GiveUp(s) \/ WaitForRun(s)
      PROVE  RowsKept
  BY <1>7, GiveUpWrites, WaitForRunWrites DEF RowsKept
<1>8. ASSUME NEW b \in BatchIds, ApproveBatch(b) \/ RejectBatch(b)
      PROVE  RowsKept
  BY <1>8, DecisionWrites DEF RowsKept
<1>9. CASE GeometryPreflight \/ ChooseBatches \/ ApplyGeometry \/ PublishFails
  BY <1>9, PublisherWrites DEF RowsKept
<1>10. CASE CommitPublish
  <2>1. \A b \in BatchIds : batch[b].status # "absent" => Outcome(b) # "absent"
    BY DEF Outcome
  <2>. QED
    BY <1>10, <2>1, CommitPublishWrites DEF RowsKept
<1>11. CASE UNCHANGED geometryVars
  BY <1>11 DEF geometryVars, tables, history, RowsKept
<1>. QED
  BY <1>1, <1>2, <1>3, <1>4, <1>5, <1>6, <1>7, <1>8, <1>9, <1>10, <1>11 DEF GeometryNext

LEMMA StagerStepsStep ==
  ASSUME Typed, StagerSteps, [GeometryNext]_geometryVars
  PROVE  StagerSteps'
<1>1. ASSUME NEW s \in Stagers, NEW p \in Plans, NEW brings \in Drawings, NEW label \in Labels,
             TakeLabel(s, p, brings, label)
      PROVE  StagerSteps'
  <2>1. Progress(stager'[s])
    BY <1>1, TakeLabelWrites DEF Progress
  <2>. QED
    BY <1>1, <2>1, TakeLabelWrites DEF StagerSteps
<1>2. ASSUME NEW s \in Stagers, RecordInvalid(s)
      PROVE  StagerSteps'
  BY <1>2, RecordInvalidWrites DEF StagerSteps, NotStaging, Progress
<1>3. ASSUME NEW s \in Stagers, Clear(s)
      PROVE  StagerSteps'
  <2>1. Progress(stager'[s])
    BY <1>3, ClearWrites DEF StagerSteps, Progress
  <2>. QED
    BY <1>3, <2>1, ClearWrites DEF StagerSteps
<1>4. ASSUME NEW s \in Stagers, FindNewest(s)
      PROVE  StagerSteps'
  <2>1. nextBatch # 0
    BY <1>4, FindNewestWrites, GeometryAssumption DEF BatchIds
  <2>2. Progress(stager'[s])
    BY <1>4, <2>1, FindNewestWrites DEF StagerSteps, Progress
  <2>. QED
    BY <1>4, <2>2, FindNewestWrites DEF StagerSteps
<1>5. ASSUME NEW s \in Stagers, Carry(s)
      PROVE  StagerSteps'
  <2>1. Progress(stager'[s])
    BY <1>5, CarryWrites DEF StagerSteps, Progress
  <2>. QED
    BY <1>5, <2>1, CarryWrites DEF StagerSteps
<1>6. ASSUME NEW s \in Stagers, CommitStaging(s)
      PROVE  StagerSteps'
  <2>1. ASSUME NEW t \in Stagers \ {s} PROVE Progress(stager'[t])
    <3>1. Progress(stager[t])
      BY DEF StagerSteps
    <3>2. LET old == stager[t] new == stager'[t] IN
          /\ new.at = old.at /\ new.plan = old.plan
          /\ new.old = old.old /\ new.drops = old.drops
          /\ new.own = old.own /\ new.landUse = old.landUse /\ new.newest = old.newest
          /\ new.holds = old.holds
          /\ old.landUse = 0 => new.missed = old.missed
      BY <1>6, CommitStagingOthers
    <3>. QED
      BY <3>1, <3>2 DEF Progress
  <2>2. Progress(stager'[s])
    BY <1>6, CommitStagingWrites DEF NotStaging, Progress
  <2>. QED
    BY <2>1, <2>2 DEF StagerSteps
<1>7. ASSUME NEW s \in Stagers, GiveUp(s) \/ WaitForRun(s)
      PROVE  StagerSteps'
  BY <1>7, GiveUpWrites, WaitForRunWrites DEF StagerSteps, NotStaging, Progress
<1>8. ASSUME NEW b \in BatchIds, ApproveBatch(b) \/ RejectBatch(b)
      PROVE  StagerSteps'
  BY <1>8, DecisionWrites DEF StagerSteps
<1>9. CASE GeometryPreflight \/ ChooseBatches \/ ApplyGeometry \/ PublishFails
  BY <1>9, PublisherWrites DEF StagerSteps
<1>10. CASE CommitPublish
  BY <1>10, CommitPublishWrites DEF StagerSteps
<1>11. CASE UNCHANGED geometryVars
  BY <1>11 DEF geometryVars, tables, history, StagerSteps
<1>. QED
  BY <1>1, <1>2, <1>3, <1>4, <1>5, <1>6, <1>7, <1>8, <1>9, <1>10, <1>11 DEF GeometryNext

LEMMA HighestOfChosen ==
  ASSUME Typed, LandChosen # {}
  PROVE  Highest(LandChosen) \in LandChosen /\ Highest(LandChosen) \in BatchIds
<1>1. LandChosen \in SUBSET BatchIds
  BY DEF LandChosen, Typed, PublisherRecord
<1>. QED
  BY <1>1, HighestIsIn

LEMMA IdsApartKept ==
  ASSUME Typed, IdsApart, nextBatch' = nextBatch,
         \A s \in Stagers : /\ stager'[s].own \in {0, stager[s].own}
                            /\ stager'[s].landUse \in {0, stager[s].landUse},
         \A b \in BatchIds : batch[b].status = "absent" /\ batch'[b].status # "absent" =>
           b < nextBatch /\ \A s \in Stagers : b \notin Taken(s)'
  PROVE  IdsApart'
<1>1. \A s \in Stagers : Taken(s)' \subseteq Taken(s) /\ Taken(s) \subseteq BatchIds
  BY GeometryAssumption DEF Taken, Typed, StagerRecord, BatchIds
<1>2. \A b \in BatchIds : b >= nextBatch' => batch'[b].status = "absent"
  BY GeometryAssumption DEF IdsApart, BatchIds, Typed
<1>3. \A s \in Stagers : \A b \in Taken(s)' : b < nextBatch' /\ batch'[b].status = "absent"
  BY <1>1 DEF IdsApart
<1>4. \A s, t \in Stagers : s # t => Taken(s)' \cap Taken(t)' = {}
  BY <1>1 DEF IdsApart
<1>5. \A s \in Stagers : stager'[s].own # 0 => stager'[s].own # stager'[s].landUse
  BY DEF IdsApart
<1>. QED
  BY <1>2, <1>3, <1>4, <1>5 DEF IdsApart

LEMMA IdsApartStep ==
  ASSUME Typed, StagerSteps, IdsApart, DropsLocked, [GeometryNext]_geometryVars
  PROVE  IdsApart'
<1>. USE GeometryAssumption DEF BatchIds
<1>0. /\ nextBatch \in Nat /\ nextBatch # 0
      /\ \A s \in Stagers : Taken(s) \subseteq BatchIds
  BY DEF Typed, StagerRecord, Taken
<1>1. ASSUME NEW s \in Stagers, NEW p \in Plans, NEW brings \in Drawings, NEW label \in Labels,
             TakeLabel(s, p, brings, label)
      PROVE  IdsApart'
  <2>1. \A t \in Stagers : stager'[t].own \in {0, stager[t].own} /\ stager'[t].landUse \in {0, stager[t].landUse}
    BY <1>1, TakeLabelWrites
  <2>2. nextBatch' = nextBatch /\ batch' = batch
    BY <1>1, TakeLabelWrites
  <2>. QED
    BY <2>1, <2>2, IdsApartKept
<1>2. ASSUME NEW s \in Stagers, RecordInvalid(s)
      PROVE  IdsApart'
  <2>1. \A t \in Stagers : stager'[t].own \in {0, stager[t].own} /\ stager'[t].landUse \in {0, stager[t].landUse}
    BY <1>2, RecordInvalidWrites DEF NotStaging
  <2>2. nextBatch' = nextBatch /\ batch' = batch
    BY <1>2, RecordInvalidWrites
  <2>. QED
    BY <2>1, <2>2, IdsApartKept
<1>3. ASSUME NEW s \in Stagers, Clear(s)
      PROVE  IdsApart'
  <2>1. Taken(s)' \subseteq {nextBatch} /\ (nextBatch \in Taken(s)' => nextBatch' = nextBatch + 1)
    <3>1. stager[s].landUse = 0
      BY <1>3, ClearWrites DEF StagerSteps, Progress
    <3>2. stager'[s].landUse = 0
      BY <3>1, <1>3, ClearWrites
    <3>3. stager'[s].own \in {0, nextBatch} /\ nextBatch' = IF stager'[s].own = 0 THEN nextBatch ELSE nextBatch + 1
      BY <1>3, ClearWrites
    <3>. QED
      BY <3>2, <3>3, <1>0 DEF Taken
  <2>2. \A t \in Stagers \ {s} : Taken(t)' = Taken(t) /\ stager'[t] = stager[t]
    BY <1>3, ClearWrites DEF Taken
  <2>3. nextBatch' \in {nextBatch, nextBatch + 1} /\ batch' = batch
    BY <1>3, ClearWrites
  <2>4. \A b \in BatchIds : b >= nextBatch' => batch'[b].status = "absent"
    BY <1>0, <2>3 DEF IdsApart
  <2>5. \A t \in Stagers : \A b \in Taken(t)' : b < nextBatch' /\ batch'[b].status = "absent"
    <3>1. ASSUME NEW t \in Stagers \ {s}, NEW b \in Taken(t) PROVE b < nextBatch' /\ batch'[b].status = "absent"
      <4>1. b < nextBatch /\ batch[b].status = "absent" /\ b \in BatchIds
        BY <1>0 DEF IdsApart
      <4>. QED
        BY <1>0, <4>1, <2>3
    <3>2. nextBatch \in Taken(s)' => nextBatch \in BatchIds /\ batch'[nextBatch].status = "absent"
      <4>1. nextBatch \in Taken(s)' => nextBatch <= MaxBatches
        BY <1>3, ClearWrites, <1>0 DEF Taken, StagerSteps, Progress
      <4>2. nextBatch \in Taken(s)' => nextBatch \in BatchIds
        BY <4>1, <1>0
      <4>. QED
        BY <4>2, <2>3, <1>0 DEF IdsApart
    <3>. QED
      BY <3>1, <3>2, <2>1, <2>2, <1>0
  <2>6. \A u, t \in Stagers : u # t => Taken(u)' \cap Taken(t)' = {}
    <3>1. \A t \in Stagers \ {s} : nextBatch \notin Taken(t)'
      BY <1>0, <2>2 DEF IdsApart
    <3>2. \A u, t \in Stagers \ {s} : u # t => Taken(u)' \cap Taken(t)' = {}
      BY <2>2 DEF IdsApart
    <3>. QED
      BY <2>1, <3>1, <3>2
  <2>7. \A t \in Stagers : stager'[t].own # 0 => stager'[t].own # stager'[t].landUse
    <3>1. stager'[s].landUse = 0
      BY <1>3, ClearWrites DEF StagerSteps, Progress
    <3>. QED
      BY <3>1, <2>2 DEF IdsApart
  <2>. QED
    BY <2>4, <2>5, <2>6, <2>7 DEF IdsApart
<1>4. ASSUME NEW s \in Stagers, FindNewest(s)
      PROVE  IdsApart'
  <2>1. Taken(s)' \subseteq Taken(s) \cup {nextBatch} /\ nextBatch' = nextBatch + 1 /\ batch' = batch
        /\ nextBatch \in BatchIds
    BY <1>4, FindNewestWrites DEF Taken
  <2>2. \A t \in Stagers \ {s} : Taken(t)' = Taken(t) /\ stager'[t] = stager[t]
    BY <1>4, FindNewestWrites DEF Taken
  <2>3. \A t \in Stagers : nextBatch \notin Taken(t)
    BY <1>0 DEF IdsApart
  <2>4. \A b \in BatchIds : b >= nextBatch' => batch'[b].status = "absent"
    BY <1>0, <2>1 DEF IdsApart
  <2>5. \A t \in Stagers : \A b \in Taken(t)' : b < nextBatch' /\ batch'[b].status = "absent"
    <3>1. batch[nextBatch].status = "absent"
      BY <1>0, <2>1 DEF IdsApart
    <3>2. ASSUME NEW t \in Stagers, NEW b \in Taken(t) PROVE b < nextBatch' /\ batch'[b].status = "absent"
      <4>1. b < nextBatch /\ batch[b].status = "absent" /\ b \in BatchIds
        BY <1>0 DEF IdsApart
      <4>. QED
        BY <1>0, <4>1, <2>1
    <3>. QED
      BY <3>1, <3>2, <2>1, <2>2, <1>0
  <2>6. \A u, t \in Stagers : u # t => Taken(u)' \cap Taken(t)' = {}
    <3>1. \A u, t \in Stagers : u # t => Taken(u) \cap Taken(t) = {}
      BY DEF IdsApart
    <3>. QED
      BY <2>1, <2>2, <2>3, <3>1
  <2>7. \A t \in Stagers : stager'[t].own # 0 => stager'[t].own # stager'[t].landUse
    <3>1. stager'[s].landUse = nextBatch /\ stager'[s].own = stager[s].own
      BY <1>4, FindNewestWrites
    <3>2. stager[s].own # 0 => stager[s].own # nextBatch
      BY <2>3 DEF Taken
    <3>. QED
      BY <3>1, <3>2, <2>2 DEF IdsApart
  <2>. QED
    BY <2>4, <2>5, <2>6, <2>7 DEF IdsApart
<1>5. ASSUME NEW s \in Stagers, Carry(s)
      PROVE  IdsApart'
  <2>1. \A t \in Stagers : stager'[t].own \in {0, stager[t].own} /\ stager'[t].landUse \in {0, stager[t].landUse}
    BY <1>5, CarryWrites
  <2>2. nextBatch' = nextBatch /\ batch' = batch
    BY <1>5, CarryWrites
  <2>. QED
    BY <2>1, <2>2, IdsApartKept
<1>6. ASSUME NEW s \in Stagers, CommitStaging(s)
      PROVE  IdsApart'
  <2>. DEFINE st == stager[s]
  <2>1. \A t \in Stagers \ {s} : stager'[t].own = stager[t].own /\ stager'[t].landUse = stager[t].landUse
    BY ZenonT(60), <1>6, CommitStagingOthers
  <2>2. stager'[s].own = 0 /\ stager'[s].landUse = 0
    BY <1>6, CommitStagingWrites DEF NotStaging
  <2>3. \A b \in BatchIds \ Taken(s) : batch[b].status = "absent" => batch'[b].status = "absent"
    <3>1. \A b \in st.drops : batch[b].status # "absent"
      BY DEF DropsLocked, Staged
    <3>2. \A b \in BatchIds \ Taken(s) : b \in BatchIds \ {st.own, st.landUse}
      BY <1>0 DEF Taken
    <3>3. \A b \in BatchIds \ {st.own, st.landUse} :
            batch'[b].status = IF b \in st.drops THEN "superseded" ELSE batch[b].status
      BY <1>6, CommitStagingBatches
    <3>. QED
      BY <3>1, <3>2, <3>3
  <2>4. \A b \in Taken(s) : b < nextBatch /\ \A t \in Stagers : b \notin Taken(t)'
    <3>1. \A t \in Stagers \ {s} : Taken(t)' = Taken(t)
      BY <2>1 DEF Taken
    <3>2. Taken(s)' = {}
      BY <2>2 DEF Taken
    <3>3. \A t \in Stagers \ {s} : Taken(t) \cap Taken(s) = {}
      BY DEF IdsApart
    <3>4. \A b \in Taken(s) : b < nextBatch
      BY DEF IdsApart
    <3>. QED
      BY <3>1, <3>2, <3>3, <3>4
  <2>5. nextBatch' = nextBatch
    BY <1>6, CommitStagingWrites
  <2>. QED
    BY <2>1, <2>2, <2>3, <2>4, <2>5, IdsApartKept
<1>7. ASSUME NEW s \in Stagers, GiveUp(s) \/ WaitForRun(s)
      PROVE  IdsApart'
  <2>1. \A t \in Stagers : stager'[t].own \in {0, stager[t].own} /\ stager'[t].landUse \in {0, stager[t].landUse}
    BY <1>7, GiveUpWrites, WaitForRunWrites DEF NotStaging
  <2>2. nextBatch' = nextBatch /\ batch' = batch
    BY <1>7, GiveUpWrites, WaitForRunWrites
  <2>. QED
    BY <2>1, <2>2, IdsApartKept
<1>8. ASSUME NEW b \in BatchIds, ApproveBatch(b) \/ RejectBatch(b)
      PROVE  IdsApart'
  <2>1. \A c \in BatchIds : batch[c].status = "absent" => batch'[c].status = "absent"
    BY <1>8, DecisionWrites DEF Open, Staged
  <2>2. nextBatch' = nextBatch /\ stager' = stager
    BY <1>8, DecisionWrites
  <2>. QED
    BY <2>1, <2>2, IdsApartKept
<1>9. CASE GeometryPreflight \/ ChooseBatches \/ ApplyGeometry \/ PublishFails
  <2>1. \A t \in Stagers : stager'[t].own \in {0, stager[t].own} /\ stager'[t].landUse \in {0, stager[t].landUse}
    BY <1>9, PublisherWrites
  <2>2. nextBatch' = nextBatch /\ batch' = batch
    BY <1>9, PublisherWrites
  <2>. QED
    BY <2>1, <2>2, IdsApartKept
<1>10. CASE CommitPublish
  <2>1. \A b \in BatchIds : batch[b].status = "absent" => batch'[b].status = "absent"
    <3>1. \A b \in BatchIds : batch[b].status = "absent" => Outcome(b) = "absent"
      BY DEF Outcome, DropsLocked
    <3>. QED
      BY <1>10, <3>1, CommitPublishWrites
  <2>2. nextBatch' = nextBatch /\ stager' = stager
    BY <1>10, CommitPublishWrites
  <2>. QED
    BY <2>1, <2>2, IdsApartKept
<1>11. CASE UNCHANGED geometryVars
  <2>1. \A t \in Stagers : stager'[t].own \in {0, stager[t].own} /\ stager'[t].landUse \in {0, stager[t].landUse}
    BY <1>11 DEF geometryVars, tables
  <2>2. nextBatch' = nextBatch /\ batch' = batch
    BY <1>11 DEF geometryVars, tables
  <2>. QED
    BY <2>1, <2>2, IdsApartKept
<1>. QED
  BY <1>1, <1>2, <1>3, <1>4, <1>5, <1>6, <1>7, <1>8, <1>9, <1>10, <1>11 DEF GeometryNext

LEMMA DatasetBatchesStep ==
  ASSUME Typed, StagerSteps, IdsApart, DatasetBatches, DropsLocked, Typed', [GeometryNext]_geometryVars
  PROVE  DatasetBatches'
<1>0. RowsKept
  BY RowsStay
<1>1. \A n \in DOMAIN dataset : dataset[n].own \in 0..MaxBatches /\ dataset[n].landUse \in 0..MaxBatches
  BY DatasetRows DEF DatasetRow
<1>2. \A n \in DOMAIN dataset :
       /\ dataset'[n].own # 0 =>
            batch'[dataset'[n].own].status # "absent" /\ batch'[dataset'[n].own].layer = "own"
       /\ dataset'[n].landUse # 0 =>
            /\ batch'[dataset'[n].landUse].status # "absent"
            /\ batch'[dataset'[n].landUse].layer = "landUse"
            /\ batch'[dataset'[n].landUse].plan = dataset'[n].plan
  <2>1. \A n \in DOMAIN dataset : (dataset[n].own # 0 => dataset[n].own \in BatchIds)
                               /\ (dataset[n].landUse # 0 => dataset[n].landUse \in BatchIds)
    BY <1>1, GeometryAssumption DEF BatchIds
  <2>. QED
    BY <1>0, <2>1 DEF RowsKept, DatasetBatches
<1>3. \A n, m \in DOMAIN dataset :
        n # m /\ dataset'[n].landUse = dataset'[m].landUse => dataset'[n].landUse = 0
  BY <1>0 DEF RowsKept, DatasetBatches
<1>4. CASE DOMAIN dataset' = DOMAIN dataset
  BY <1>2, <1>3, <1>4 DEF DatasetBatches
<1>5. ASSUME NEW s \in Stagers, RecordInvalid(s)
      PROVE  DatasetBatches'
  <2>. DEFINE N == Len(dataset) + 1
  <2>1. DOMAIN dataset' = DOMAIN dataset \cup {N}
    BY <1>5, RecordInvalidWrites
  <2>2. dataset'[N].own = 0 /\ dataset'[N].landUse = 0
    <3>1. stager[s].own = 0 /\ stager[s].landUse = 0
      BY <1>5, RecordInvalidWrites DEF StagerSteps, Progress
    <3>2. dataset'[N] = Row(s, "invalid")
      BY <1>5, RecordInvalidWrites
    <3>. QED
      BY <3>1, <3>2 DEF Row
  <2>. HIDE DEF N
  <2>. QED
    BY <1>2, <1>3, <2>1, <2>2 DEF DatasetBatches
<1>6. ASSUME NEW s \in Stagers, CommitStaging(s)
      PROVE  DatasetBatches'
  <2>. DEFINE N == Len(dataset) + 1 st == stager[s]
  <2>1. DOMAIN dataset' = DOMAIN dataset \cup {N}
    BY <1>6, CommitStagingWrites
  <2>2. dataset'[N].own = st.own /\ dataset'[N].landUse = st.landUse /\ dataset'[N].plan = st.plan
    <3>1. dataset'[N] = Row(s, "staged")
      BY <1>6, CommitStagingWrites
    <3>. QED
      BY <3>1 DEF Row
  <2>3. /\ st.own # 0 => batch'[st.own].status = "staged" /\ batch'[st.own].layer = "own"
        /\ st.landUse # 0 => /\ batch'[st.landUse].status = "staged" /\ batch'[st.landUse].layer = "landUse"
                             /\ batch'[st.landUse].plan = st.plan
    BY <1>6, CommitStagingBatches
  <2>4. \A n \in DOMAIN dataset : dataset'[n].landUse = st.landUse => st.landUse = 0
    <3>1. st.landUse # 0 => batch[st.landUse].status = "absent"
      BY DEF IdsApart, Taken
    <3>. QED
      BY <1>0, <3>1 DEF RowsKept, DatasetBatches
  <2>. HIDE DEF N, st
  <2>. QED
    BY <1>2, <1>3, <2>1, <2>2, <2>3, <2>4 DEF DatasetBatches
<1>7. \/ DOMAIN dataset' = DOMAIN dataset
      \/ \E s \in Stagers : RecordInvalid(s) \/ CommitStaging(s)
  BY TakeLabelWrites, WaitForRunWrites, ClearWrites, FindNewestWrites, CarryWrites, GiveUpWrites, DecisionWrites,
     PublisherWrites,
     CommitPublishWrites DEF GeometryNext, geometryVars, tables
<1>. QED
  BY <1>4, <1>5, <1>6, <1>7

LEMMA OriginStays ==
  ASSUME RowsKept, NEW b, Origin(b)
  PROVE  Origin(b)'
BY DEF RowsKept, Origin

LEMMA HoldsKnownKept ==
  ASSUME HoldsKnown, RowsKept, served' = served,
         \A c \in BatchIds : /\ batch'[c].holds = batch[c].holds
                             /\ batch'[c].status = "absent" => batch[c].status = "absent",
         \A s \in Stagers : \/ stager'[s].holds = {}
                            \/ stager'[s].holds = stager[s].holds /\ stager'[s].landUse = stager[s].landUse,
         \A b \in refused' : batch'[b].status \notin {"absent", "staged"}
  PROVE  HoldsKnown'
<1>1. \A b : Origin(b) => Origin(b)'
  BY OriginStays
<1>. HIDE DEF Origin
<1>2. \A c \in BatchIds : \A b \in batch'[c].holds : Origin(b)'
  BY <1>1 DEF HoldsKnown
<1>3. \A b \in served' : Origin(b)'
  BY <1>1 DEF HoldsKnown
<1>4. \A s \in Stagers : \A b \in stager'[s].holds : b = stager'[s].landUse \/ Origin(b)'
  BY <1>1 DEF HoldsKnown
<1>. QED
  BY <1>2, <1>3, <1>4 DEF HoldsKnown

LEMMA HoldsKnownStep ==
  ASSUME Typed, StagerSteps, IdsApart, HoldsKnown, DropsLocked, RowsKept, [GeometryNext]_geometryVars
  PROVE  HoldsKnown'
<1>0. \A b : Origin(b) => Origin(b)'
  BY OriginStays
<1>1. ASSUME NEW s \in Stagers, NEW p \in Plans, NEW brings \in Drawings, NEW label \in Labels,
             TakeLabel(s, p, brings, label)
      PROVE  HoldsKnown'
  <2>1. \A t \in Stagers : \/ stager'[t].holds = {}
                           \/ stager'[t].holds = stager[t].holds /\ stager'[t].landUse = stager[t].landUse
    BY <1>1, TakeLabelWrites
  <2>2. batch' = batch /\ served' = served /\ refused' = refused
    BY <1>1, TakeLabelWrites
  <2>. QED
    BY <2>1, <2>2, HoldsKnownKept DEF HoldsKnown
<1>2. ASSUME NEW s \in Stagers, RecordInvalid(s)
      PROVE  HoldsKnown'
  <2>1. \A t \in Stagers : \/ stager'[t].holds = {}
                           \/ stager'[t].holds = stager[t].holds /\ stager'[t].landUse = stager[t].landUse
    BY <1>2, RecordInvalidWrites DEF NotStaging
  <2>2. batch' = batch /\ served' = served /\ refused' = refused
    BY <1>2, RecordInvalidWrites
  <2>. QED
    BY <2>1, <2>2, HoldsKnownKept DEF HoldsKnown
<1>3. ASSUME NEW s \in Stagers, Clear(s)
      PROVE  HoldsKnown'
  <2>1. \A t \in Stagers : \/ stager'[t].holds = {}
                           \/ stager'[t].holds = stager[t].holds /\ stager'[t].landUse = stager[t].landUse
    BY <1>3, ClearWrites
  <2>2. batch' = batch /\ served' = served /\ refused' = refused
    BY <1>3, ClearWrites
  <2>. QED
    BY <2>1, <2>2, HoldsKnownKept DEF HoldsKnown
<1>4. ASSUME NEW s \in Stagers, FindNewest(s)
      PROVE  HoldsKnown'
  <2>1. stager'[s].holds = {}
    BY <1>4, FindNewestWrites DEF StagerSteps, Progress
  <2>2. \A t \in Stagers : \/ stager'[t].holds = {}
                           \/ stager'[t].holds = stager[t].holds /\ stager'[t].landUse = stager[t].landUse
    BY <1>4, <2>1, FindNewestWrites
  <2>3. batch' = batch /\ served' = served /\ refused' = refused
    BY <1>4, <2>1, FindNewestWrites
  <2>. QED
    BY <2>2, <2>3, HoldsKnownKept DEF HoldsKnown
<1>5. ASSUME NEW s \in Stagers, Carry(s)
      PROVE  HoldsKnown'
  <2>1. \A b \in CarriedForward(s) : Origin(b)
    <3>1. stager[s].newest # 0 => stager[s].newest \in BatchIds
      BY GeometryAssumption DEF Typed, StagerRecord, BatchIds
    <3>2. CASE stager[s].newest # 0
      BY <3>1, <3>2 DEF CarriedForward, HoldsKnown
    <3>3. CASE stager[s].newest = 0
      BY <3>3 DEF CarriedForward, HoldsKnown
    <3>. QED
      BY <3>2, <3>3
  <2>2. \A b \in stager'[s].holds : b = stager'[s].landUse \/ Origin(b)
    BY <1>5, <2>1, CarryWrites
  <2>3. \A t \in Stagers \ {s} : stager'[t] = stager[t]
    BY <1>5, CarryWrites
  <2>4. batch' = batch /\ served' = served /\ refused' = refused
    BY <1>5, CarryWrites
  <2>5. \A t \in Stagers : \A b \in stager'[t].holds : b = stager'[t].landUse \/ Origin(b)'
    BY <1>0, <2>2, <2>3 DEF HoldsKnown
  <2>. QED
    BY <1>0, <2>4, <2>5 DEF HoldsKnown
<1>6. ASSUME NEW s \in Stagers, CommitStaging(s)
      PROVE  HoldsKnown'
  <2>. DEFINE st == stager[s]
  <2>1. \A b \in st.holds : Origin(b)'
    <3>1. \E n \in DOMAIN dataset' : dataset'[n].landUse = stager[s].landUse
      <4>1. Len(dataset) + 1 \in DOMAIN dataset' /\ dataset'[Len(dataset) + 1] = Row(s, "staged")
        BY <1>6, CommitStagingWrites
      <4>. QED
        BY <4>1 DEF Row
    <3>3. ASSUME NEW b \in st.holds PROVE Origin(b)'
      <4>1. CASE b = stager[s].landUse
        BY <3>1, <4>1 DEF Origin
      <4>2. CASE Origin(b)
        BY <4>2, <1>0
      <4>. QED
        BY <4>1, <4>2 DEF HoldsKnown
    <3>. QED
      BY <3>3
  <2>2. \A c \in BatchIds : /\ \A b \in batch'[c].holds : Origin(b)'
                            /\ batch'[c].status = "absent" => batch'[c].holds = {}
    <3>1. \A c \in BatchIds \ {st.own, st.landUse} :
            /\ batch'[c].holds = batch[c].holds
            /\ batch'[c].status = "absent" => batch[c].status = "absent"
      BY <1>6, CommitStagingBatches
    <3>2. \A c \in BatchIds \cap {st.own, st.landUse} :
            batch'[c].holds \in {{}, st.holds} /\ batch'[c].status = "staged"
      <4>1. 0 \notin BatchIds
        BY GeometryAssumption DEF BatchIds
      <4>. QED
        BY <4>1, <1>6, CommitStagingBatches
    <3>3. ASSUME NEW c \in BatchIds \ {st.own, st.landUse}
          PROVE  /\ \A b \in batch'[c].holds : Origin(b)'
                 /\ batch'[c].status = "absent" => batch'[c].holds = {}
      BY <1>0, <3>1 DEF HoldsKnown
    <3>4. ASSUME NEW c \in BatchIds \cap {st.own, st.landUse}
          PROVE  /\ \A b \in batch'[c].holds : Origin(b)'
                 /\ batch'[c].status = "absent" => batch'[c].holds = {}
      BY <2>1, <3>2
    <3>. QED
      BY <3>3, <3>4
  <2>3. \A b \in served' : Origin(b)'
    BY <1>0, <1>6, CommitStagingWrites DEF HoldsKnown
  <2>4. \A t \in Stagers : \A b \in stager'[t].holds : b = stager'[t].landUse \/ Origin(b)'
    <3>1. \A t \in Stagers \ {s} : stager'[t].holds = stager[t].holds /\ stager'[t].landUse = stager[t].landUse
      BY <1>6, CommitStagingOthers
    <3>2. stager'[s].holds = {}
      BY <1>6, CommitStagingWrites DEF NotStaging
    <3>. QED
      BY <1>0, <3>1, <3>2 DEF HoldsKnown
  <2>5. \A b \in refused' : batch'[b].status \notin {"absent", "staged"}
    <3>1. refused' = refused /\ refused \subseteq BatchIds
      BY <1>6, CommitStagingWrites DEF Typed
    <3>2. \A b \in refused : batch[b].status \notin {"absent", "staged"}
      BY DEF HoldsKnown
    <3>3. \A b \in refused : b \in BatchIds \ {st.own, st.landUse}
      <4>1. 0 \notin BatchIds
        BY GeometryAssumption DEF BatchIds
      <4>2. \A b \in Taken(s) : batch[b].status = "absent"
        BY DEF IdsApart
      <4>. QED
        BY <3>1, <3>2, <4>1, <4>2 DEF Taken
    <3>4. \A b \in BatchIds \ {st.own, st.landUse} :
            batch'[b].status = IF b \in st.drops THEN "superseded" ELSE batch[b].status
      BY <1>6, CommitStagingBatches
    <3>. QED
      BY <3>1, <3>2, <3>3, <3>4
  <2>. QED
    BY <2>2, <2>3, <2>4, <2>5 DEF HoldsKnown
<1>7. ASSUME NEW s \in Stagers, GiveUp(s) \/ WaitForRun(s)
      PROVE  HoldsKnown'
  <2>1. \A t \in Stagers : \/ stager'[t].holds = {}
                           \/ stager'[t].holds = stager[t].holds /\ stager'[t].landUse = stager[t].landUse
    BY <1>7, GiveUpWrites, WaitForRunWrites DEF NotStaging
  <2>2. batch' = batch /\ served' = served /\ refused' = refused
    BY <1>7, GiveUpWrites, WaitForRunWrites
  <2>. QED
    BY <2>1, <2>2, HoldsKnownKept DEF HoldsKnown
<1>8. ASSUME NEW b \in BatchIds, ApproveBatch(b) \/ RejectBatch(b)
      PROVE  HoldsKnown'
  <2>1. stager' = stager /\ served' = served
    BY <1>8, DecisionWrites
  <2>2. \A c \in BatchIds : /\ batch'[c].holds = batch[c].holds
                            /\ batch'[c].status = "absent" => batch[c].status = "absent"
    BY <1>8, DecisionWrites
  <2>3. \A c \in refused' : batch'[c].status \notin {"absent", "staged"}
    <3>1. \A c \in refused : c \in BatchIds \ {b} /\ batch[c].status \notin {"absent", "staged"}
      BY <1>8, DecisionWrites DEF HoldsKnown, Open, Staged, Typed
    <3>2. \A c \in refused : batch'[c].status \notin {"absent", "staged"}
      BY <1>8, <3>1, DecisionWrites
    <3>3. refused' = refused \/ (refused' = refused \cup {b} /\ batch'[b].status = "rejected")
      BY <1>8, DecisionWrites
    <3>. QED
      BY <3>2, <3>3
  <2>. QED
    BY <2>1, <2>2, <2>3, HoldsKnownKept
<1>9. CASE GeometryPreflight \/ ChooseBatches \/ ApplyGeometry \/ PublishFails
  <2>1. \A t \in Stagers : \/ stager'[t].holds = {}
                           \/ stager'[t].holds = stager[t].holds /\ stager'[t].landUse = stager[t].landUse
    BY <1>9, PublisherWrites
  <2>2. batch' = batch /\ served' = served /\ refused' = refused
    BY <1>9, PublisherWrites
  <2>. QED
    BY <2>1, <2>2, HoldsKnownKept DEF HoldsKnown
<1>10. CASE CommitPublish
  <2>1. \A c \in BatchIds : /\ batch'[c].holds = batch[c].holds
                            /\ batch'[c].status = "absent" => batch[c].status = "absent"
    <3>1. \A b \in BatchIds : Outcome(b) = "absent" => batch[b].status = "absent"
      BY DEF Outcome
    <3>. QED
      BY <1>10, <3>1, CommitPublishWrites
  <2>2. \A b \in served' : Origin(b)
    <3>1. CASE LandChosen = {}
      BY <1>10, <3>1, CommitPublishWrites DEF HoldsKnown
    <3>2. CASE LandChosen # {}
      <4>1. Highest(LandChosen) \in BatchIds
        BY <3>2, HighestOfChosen
      <4>2. served' = batch[Highest(LandChosen)].holds
        BY <1>10, <3>2, CommitPublishWrites
      <4>. QED
        BY <4>1, <4>2 DEF HoldsKnown
    <3>. QED
      BY <3>1, <3>2
  <2>3. \A b \in refused' : batch'[b].status \notin {"absent", "staged"}
    <3>1. refused' = refused /\ refused \subseteq BatchIds
      BY <1>10, CommitPublishWrites DEF Typed
    <3>2. \A b \in refused : Outcome(b) \notin {"absent", "staged"}
      BY DEF Outcome, HoldsKnown
    <3>. QED
      BY <1>10, <3>1, <3>2, CommitPublishWrites
  <2>4. stager' = stager
    BY <1>10, CommitPublishWrites
  <2>. QED
    BY <1>0, <2>1, <2>2, <2>3, <2>4 DEF HoldsKnown
<1>11. CASE UNCHANGED geometryVars
  <2>1. \A t \in Stagers : \/ stager'[t].holds = {}
                           \/ stager'[t].holds = stager[t].holds /\ stager'[t].landUse = stager[t].landUse
    BY <1>11 DEF geometryVars, tables, history
  <2>2. batch' = batch /\ served' = served /\ refused' = refused
    BY <1>11 DEF geometryVars, tables, history
  <2>. QED
    BY <2>1, <2>2, HoldsKnownKept DEF HoldsKnown
<1>. QED
  BY <1>1, <1>2, <1>3, <1>4, <1>5, <1>6, <1>7, <1>8, <1>9, <1>10, <1>11 DEF GeometryNext

LEMMA DropsLockedKept ==
  ASSUME DropsLocked,
         \A s \in Stagers : \/ stager'[s] = stager[s]
                            \/ stager'[s].drops = {} /\ stager'[s].newest = 0,
         batch' = batch, publisher' = publisher
  PROVE  DropsLocked'
BY DEF DropsLocked, Staged

LEMMA DropsLockedStep ==
  ASSUME Typed, Typed', StagerSteps, IdsApart, DatasetBatches, HoldsKnown, DropsLocked, RowsKept,
         [GeometryNext]_geometryVars
  PROVE  DropsLocked'
<1>0. /\ \A s \in Stagers : stager[s].newest # 0 => stager[s].newest \in BatchIds
      /\ \A s \in Stagers : stager[s].drops \subseteq BatchIds /\ 0 \notin BatchIds
      /\ publisher.chosen \subseteq BatchIds
  BY GeometryAssumption DEF Typed, StagerRecord, PublisherRecord, BatchIds
<1>1. ASSUME NEW s \in Stagers, NEW p \in Plans, NEW brings \in Drawings, NEW label \in Labels,
             TakeLabel(s, p, brings, label)
      PROVE  DropsLocked'
  <2>1. \A t \in Stagers : \/ stager'[t] = stager[t]
                           \/ stager'[t].drops = {} /\ stager'[t].newest = 0
    BY <1>1, TakeLabelWrites
  <2>2. batch' = batch /\ publisher' = publisher
    BY <1>1, TakeLabelWrites
  <2>. QED
    BY <2>1, <2>2, DropsLockedKept
<1>2. ASSUME NEW s \in Stagers, RecordInvalid(s)
      PROVE  DropsLocked'
  <2>1. \A t \in Stagers : \/ stager'[t] = stager[t]
                           \/ stager'[t].drops = {} /\ stager'[t].newest = 0
    BY <1>2, RecordInvalidWrites DEF NotStaging
  <2>2. batch' = batch /\ publisher' = publisher
    BY <1>2, RecordInvalidWrites
  <2>. QED
    BY <2>1, <2>2, DropsLockedKept
<1>3. ASSUME NEW s \in Stagers, Clear(s)
      PROVE  DropsLocked'
  <2>1. \A t \in Stagers \ {s} : stager'[t] = stager[t]
    BY <1>3, ClearWrites
  <2>2. batch' = batch /\ publisher' = publisher /\ stager'[s].newest = 0
    BY <1>3, ClearWrites DEF StagerSteps, Progress
  <2>3. \A b \in stager'[s].drops : Staged(b) /\ batch[b].layer = "own"
    <3>1. \A b \in stager'[s].drops : b \in BatchIds /\ Staged(b) /\ \E n \in StagedRuns(stager[s].plan) : b = dataset[n].own
      BY <1>3, ClearWrites
    <3>. QED
      BY <1>0, <3>1 DEF DatasetBatches, StagedRuns
  <2>4. \A b \in stager'[s].drops : /\ \A t \in Stagers \ {s} : b \notin stager[t].drops
                                    /\ publisher.at = "applied" => b \notin publisher.chosen
    BY <1>3, ClearWaits
  <2>5. \A t \in Stagers : \A b \in stager'[t].drops :
          batch'[b].status = "staged" /\ (batch'[b].layer = "landUse" => b = stager'[t].newest)
    BY <2>1, <2>2, <2>3 DEF DropsLocked, Staged
  <2>6. \A t, u \in Stagers : t # u => stager'[t].drops \cap stager'[u].drops = {}
    BY <2>1, <2>4 DEF DropsLocked
  <2>7. publisher'.at = "applied" => \A t \in Stagers : publisher'.chosen \cap stager'[t].drops = {}
    BY <2>1, <2>2, <2>4 DEF DropsLocked
  <2>8. \A t \in Stagers : stager'[t].newest # 0 =>
          batch'[stager'[t].newest].status # "absent" /\ batch'[stager'[t].newest].layer = "landUse"
    BY <2>1, <2>2 DEF DropsLocked
  <2>. QED
    BY <2>2, <2>5, <2>6, <2>7, <2>8 DEF DropsLocked, Staged
<1>4. ASSUME NEW s \in Stagers, FindNewest(s)
      PROVE  DropsLocked'
  <2>1. \A t \in Stagers \ {s} : stager'[t] = stager[t]
    BY <1>4, FindNewestWrites
  <2>2. batch' = batch /\ publisher' = publisher /\ stager'[s].newest = NewestStaged /\ stager'[s].drops = stager[s].drops
    BY <1>4, FindNewestWrites
  <2>3. stager[s].newest = 0
    BY <1>4, FindNewestWrites DEF StagerSteps, Progress
  <2>4. \A t \in Stagers : \A b \in stager'[t].drops :
          batch'[b].status = "staged" /\ (batch'[b].layer = "landUse" => b = stager'[t].newest)
    BY <1>0, <2>1, <2>2, <2>3 DEF DropsLocked, Staged
  <2>5. \A t \in Stagers : stager'[t].newest # 0 =>
          batch'[stager'[t].newest].status # "absent" /\ batch'[stager'[t].newest].layer = "landUse"
    BY <2>1, <2>2, HighestOfStaged DEF DropsLocked, StagedLand, Staged
  <2>6. \A t \in Stagers : stager'[t].drops = stager[t].drops
    BY <2>1, <2>2
  <2>. QED
    BY <2>2, <2>4, <2>5, <2>6 DEF DropsLocked, Staged
<1>5. ASSUME NEW s \in Stagers, Carry(s)
      PROVE  DropsLocked'
  <2>. DEFINE new == stager[s].newest
  <2>1. \A t \in Stagers \ {s} : stager'[t] = stager[t]
    BY <1>5, CarryWrites
  <2>2. batch' = batch /\ publisher' = publisher /\ stager'[s].newest = new
        /\ stager'[s].drops = stager[s].drops \cup ({new} \cap {b \in BatchIds : Staged(b)})
    BY <1>5, CarryWrites
  <2>3. new # 0 => /\ \A t \in Stagers \ {s} : new \notin stager[t].drops
                   /\ publisher.at = "applied" => new \notin publisher.chosen
    BY <1>5, CarryWrites
  <2>4. \A b \in stager'[s].drops : b \in stager[s].drops \/ (b = new /\ new # 0 /\ Staged(b))
    BY <1>0, <2>2
  <2>. HIDE DEF new
  <2>5. \A t \in Stagers : \A b \in stager'[t].drops :
          batch'[b].status = "staged" /\ (batch'[b].layer = "landUse" => b = stager'[t].newest)
    BY <2>1, <2>2, <2>4 DEF DropsLocked, Staged, new
  <2>6. \A t, u \in Stagers : t # u => stager'[t].drops \cap stager'[u].drops = {}
    BY <2>1, <2>3, <2>4 DEF DropsLocked
  <2>7. publisher'.at = "applied" => \A t \in Stagers : publisher'.chosen \cap stager'[t].drops = {}
    BY <2>1, <2>2, <2>3, <2>4 DEF DropsLocked
  <2>8. \A t \in Stagers : stager'[t].newest # 0 =>
          batch'[stager'[t].newest].status # "absent" /\ batch'[stager'[t].newest].layer = "landUse"
    BY <2>1, <2>2 DEF DropsLocked, new
  <2>. QED
    BY <2>2, <2>5, <2>6, <2>7, <2>8 DEF DropsLocked, Staged
<1>6. ASSUME NEW s \in Stagers, CommitStaging(s)
      PROVE  DropsLocked'
  <2>. DEFINE st == stager[s]
  <2>1. \A t \in Stagers \ {s} : stager'[t].drops = stager[t].drops /\ stager'[t].newest = stager[t].newest
    BY <1>6, CommitStagingOthers
  <2>2. stager'[s].drops = {} /\ stager'[s].newest = 0
    BY <1>6, CommitStagingWrites DEF NotStaging
  <2>3. publisher' = publisher
    BY <1>6, CommitStagingWrites
  <2>4. \A b \in BatchIds \ {st.own, st.landUse} :
          batch'[b].layer = batch[b].layer /\ batch'[b].status = IF b \in st.drops THEN "superseded" ELSE batch[b].status
    BY <1>6, CommitStagingBatches
  <2>5. \A b \in BatchIds : batch[b].status # "absent" => b \notin {st.own, st.landUse}
    BY <1>0 DEF IdsApart, Taken
  <2>6. ASSUME NEW t \in Stagers \ {s}, NEW b \in stager[t].drops
        PROVE  batch'[b].status = "staged" /\ (batch'[b].layer = "landUse" => b = stager[t].newest)
    <3>1. b \in BatchIds /\ b \notin st.drops /\ batch[b].status = "staged" /\ (batch[b].layer = "landUse" => b = stager[t].newest)
      BY <1>0 DEF DropsLocked, Staged
    <3>. QED
      BY <3>1, <2>4, <2>5
  <2>7. \A t \in Stagers : stager'[t].newest # 0 =>
          batch'[stager'[t].newest].status # "absent" /\ batch'[stager'[t].newest].layer = "landUse"
    BY <1>0, <2>1, <2>2 DEF DropsLocked, RowsKept
  <2>8. \A b \in publisher'.chosen : batch'[b].status # "absent"
    BY <1>0, <2>3 DEF DropsLocked, RowsKept
  <2>9. \A t, u \in Stagers : t # u => stager'[t].drops \cap stager'[u].drops = {}
    BY <2>1, <2>2 DEF DropsLocked
  <2>10. publisher'.at = "applied" => \A t \in Stagers : publisher'.chosen \cap stager'[t].drops = {}
    BY <2>1, <2>2, <2>3 DEF DropsLocked
  <2>11. \A t \in Stagers : \A b \in stager'[t].drops :
           batch'[b].status = "staged" /\ (batch'[b].layer = "landUse" => b = stager'[t].newest)
    BY <2>1, <2>2, <2>6
  <2>. QED
    BY <2>3, <2>7, <2>8, <2>9, <2>10, <2>11 DEF DropsLocked, Staged
<1>7. ASSUME NEW s \in Stagers, GiveUp(s) \/ WaitForRun(s)
      PROVE  DropsLocked'
  <2>1. \A t \in Stagers : \/ stager'[t] = stager[t]
                           \/ stager'[t].drops = {} /\ stager'[t].newest = 0
    <3>1. stager'[s].drops = {} /\ stager'[s].newest = 0
      BY <1>7, GiveUpWrites, WaitForRunWrites DEF NotStaging, StagerSteps, Progress
    <3>. QED
      BY <1>7, <3>1, GiveUpWrites, WaitForRunWrites
  <2>2. batch' = batch /\ publisher' = publisher
    BY <1>7, GiveUpWrites, WaitForRunWrites
  <2>. QED
    BY <2>1, <2>2, DropsLockedKept
<1>8. ASSUME NEW b \in BatchIds, ApproveBatch(b) \/ RejectBatch(b)
      PROVE  DropsLocked'
  <2>1. stager' = stager /\ publisher' = publisher
    BY <1>8, DecisionWrites
  <2>2. \A t \in Stagers : b \notin stager[t].drops
    BY <1>8, DecisionWrites DEF Open, BatchFree
  <2>3. \A t \in Stagers : \A c \in stager[t].drops : c \in BatchIds \ {b} /\ Staged(c) /\ (batch[c].layer = "landUse" => c = stager[t].newest)
    BY <1>0, <2>2 DEF DropsLocked
  <2>4. \A t \in Stagers : \A c \in stager'[t].drops :
          batch'[c].status = "staged" /\ (batch'[c].layer = "landUse" => c = stager'[t].newest)
    BY <2>1, <2>3, <1>8, DecisionWrites DEF Staged
  <2>5. \A t \in Stagers : stager'[t].newest # 0 =>
          batch'[stager'[t].newest].status # "absent" /\ batch'[stager'[t].newest].layer = "landUse"
    BY <1>0, <2>1 DEF DropsLocked, RowsKept
  <2>6. \A c \in publisher'.chosen : batch'[c].status # "absent"
    BY <1>0, <2>1 DEF DropsLocked, RowsKept
  <2>. QED
    BY <2>1, <2>4, <2>5, <2>6 DEF DropsLocked, Staged
<1>9. CASE GeometryPreflight \/ ChooseBatches \/ ApplyGeometry \/ PublishFails
  <2>1. batch' = batch /\ stager' = stager
    BY <1>9, PublisherWrites
  <2>2. publisher'.at = "applied" => \A t \in Stagers : publisher'.chosen \cap stager'[t].drops = {}
    BY <1>9, <2>1, PublisherWrites
  <2>3. \A b \in publisher'.chosen : batch'[b].status # "absent"
    BY <1>9, <2>1, PublisherWrites DEF StagedBatches, Staged, DropsLocked
  <2>4. publisher'.at \in {"idle", "checked"} => publisher'.chosen = {}
    BY <1>9, PublisherWrites
  <2>. QED
    BY <2>1, <2>2, <2>3, <2>4 DEF DropsLocked, Staged
<1>10. CASE CommitPublish
  <2>1. stager' = stager /\ publisher'.at = "idle" /\ publisher'.chosen = {} /\ publisher.at = "applied"
    BY <1>10, CommitPublishWrites
  <2>2. \A t \in Stagers : \A b \in stager[t].drops : b \in BatchIds /\ Outcome(b) = batch[b].status
    BY <1>0, <2>1 DEF DropsLocked, Outcome
  <2>3. \A t \in Stagers : \A b \in stager'[t].drops :
          batch'[b].status = "staged" /\ (batch'[b].layer = "landUse" => b = stager'[t].newest)
    BY <2>1, <2>2, <1>10, CommitPublishWrites DEF DropsLocked, Staged
  <2>4. \A t \in Stagers : stager'[t].newest # 0 =>
          batch'[stager'[t].newest].status # "absent" /\ batch'[stager'[t].newest].layer = "landUse"
    BY <1>0, <2>1 DEF DropsLocked, RowsKept
  <2>. QED
    BY <2>1, <2>3, <2>4 DEF DropsLocked, Staged
<1>11. CASE UNCHANGED geometryVars
  <2>1. \A t \in Stagers : \/ stager'[t] = stager[t]
                           \/ stager'[t].drops = {} /\ stager'[t].newest = 0
    BY <1>11 DEF geometryVars, tables
  <2>2. batch' = batch /\ publisher' = publisher
    BY <1>11 DEF geometryVars, tables
  <2>. QED
    BY <2>1, <2>2, DropsLockedKept
<1>. QED
  BY <1>1, <1>2, <1>3, <1>4, <1>5, <1>6, <1>7, <1>8, <1>9, <1>10, <1>11 DEF GeometryNext

LEMMA ShapeStep ==
  ASSUME Shape, [GeometryNext]_geometryVars
  PROVE  Shape' /\ RowsKept
<1>1. Typed /\ StagerSteps /\ IdsApart /\ DatasetBatches /\ HoldsKnown /\ DropsLocked
  BY DEF Shape
<1>2. RowsKept
  BY <1>1, RowsStay
<1>3. Typed' /\ StagerSteps' /\ IdsApart'
  BY <1>1, TypedStep, StagerStepsStep, IdsApartStep
<1>4. DatasetBatches' /\ HoldsKnown' /\ DropsLocked'
  BY <1>1, <1>2, <1>3, DatasetBatchesStep, HoldsKnownStep, DropsLockedStep
<1>. QED
  BY <1>2, <1>3, <1>4 DEF Shape

LEMMA ShapeInit ==
  ASSUME GeometryInit
  PROVE  Shape
<1>. USE GeometryAssumption DEF GeometryInit
<1>1. /\ \A b \in BatchIds : batch[b] = NoBatch
      /\ \A s \in Stagers : stager[s] = NotStaging
      /\ dataset = << >> /\ DOMAIN dataset = {} /\ nextBatch = 1 /\ refused = {} /\ served = {}
      /\ publisher.at = "idle" /\ publisher.chosen = {}
  BY DEF NotPublishing
<1>2. Typed
  BY NothingTyped DEF Typed, PublisherRecord, NotPublishing
<1>3. StagerSteps
  BY <1>1 DEF StagerSteps, Progress, NotStaging
<1>4. IdsApart
  BY <1>1 DEF IdsApart, Taken, NotStaging, NoBatch
<1>5. DatasetBatches
  BY <1>1 DEF DatasetBatches
<1>6. HoldsKnown
  BY <1>1 DEF HoldsKnown, NotStaging, NoBatch
<1>7. DropsLocked
  BY <1>1 DEF DropsLocked, NotStaging, NoBatch
<1>. QED
  BY <1>2, <1>3, <1>4, <1>5, <1>6, <1>7 DEF Shape

-----------------------------------------------------------------------------
(* A staging that has looked for the runs of its plan will supersede every *)
(* staged one that it has not overlooked, with the batches of its own.     *)
SeenBy(st) ==
  /\ st.old \cup st.unseen \subseteq DOMAIN dataset
  /\ \A n \in st.old : dataset[n].plan = st.plan
  /\ st.at \in {"cleared", "found", "carried"} =>
    /\ StagedRuns(st.plan) \subseteq st.old \cup st.unseen
    /\ \A n \in st.old : dataset[n].own # 0 /\ Staged(dataset[n].own) => dataset[n].own \in st.drops
RunsSeen == \A s \in Stagers : SeenBy(stager[s])
ClosingApplied ==
  /\ publisher.closing \subseteq DOMAIN dataset
  /\ publisher.at # "applied" => publisher.closing = {}
  /\ \A n \in publisher.closing : dataset[n].own # 0 =>
    dataset[n].own \in publisher.chosen \/ ~Staged(dataset[n].own)
RunInv == RunsSeen /\ ClosingApplied /\ OneRunUnderReview

(* Nothing is staged twice: not a batch, not a dataset.                    *)
NoReturn ==
  /\ \A b \in BatchIds : batch[b].status # "absent" /\ batch'[b].status = "staged" => batch[b].status = "staged"
  /\ \A n \in DOMAIN dataset : dataset'[n].status = "staged" => dataset[n].status = "staged"

LEMMA NoReturnStep ==
  ASSUME Shape, [GeometryNext]_geometryVars
  PROVE  NoReturn
<1>0. Typed /\ IdsApart /\ DropsLocked
  BY DEF Shape
<1>1. ASSUME NEW s \in Stagers, NEW p \in Plans, NEW brings \in Drawings, NEW label \in Labels,
             TakeLabel(s, p, brings, label)
      PROVE  NoReturn
  BY <1>1, TakeLabelWrites, <1>0 DEF NoReturn
<1>2. ASSUME NEW s \in Stagers, RecordInvalid(s)
      PROVE  NoReturn
  BY <1>2, RecordInvalidWrites, <1>0 DEF NoReturn
<1>3. ASSUME NEW s \in Stagers, Clear(s)
      PROVE  NoReturn
  BY <1>3, ClearWrites, <1>0 DEF NoReturn
<1>4. ASSUME NEW s \in Stagers, FindNewest(s)
      PROVE  NoReturn
  BY <1>4, FindNewestWrites, <1>0 DEF NoReturn
<1>5. ASSUME NEW s \in Stagers, Carry(s)
      PROVE  NoReturn
  BY <1>5, CarryWrites, <1>0 DEF NoReturn
<1>6. ASSUME NEW s \in Stagers, CommitStaging(s)
      PROVE  NoReturn
  <2>1. \A b \in BatchIds : batch[b].status # "absent" => b \notin {stager[s].own, stager[s].landUse}
    BY <1>0, GeometryAssumption DEF IdsApart, Taken, BatchIds
  <2>2. \A b \in BatchIds \ {stager[s].own, stager[s].landUse} :
          batch'[b].status = IF b \in stager[s].drops THEN "superseded" ELSE batch[b].status
    BY <1>0, <1>6, CommitStagingBatches
  <2>3. \A n \in DOMAIN dataset :
          dataset'[n].status = IF n \in stager[s].old THEN "superseded" ELSE dataset[n].status
    BY <1>0, <1>6, CommitStagingWrites
  <2>. QED
    BY <2>1, <2>2, <2>3 DEF NoReturn
<1>7. ASSUME NEW s \in Stagers, GiveUp(s) \/ WaitForRun(s)
      PROVE  NoReturn
  BY <1>7, GiveUpWrites, WaitForRunWrites, <1>0 DEF NoReturn
<1>8. ASSUME NEW b \in BatchIds, ApproveBatch(b) \/ RejectBatch(b)
      PROVE  NoReturn
  BY <1>0, <1>8, DecisionWrites DEF NoReturn, Open, Staged
<1>9. CASE GeometryPreflight \/ ChooseBatches \/ ApplyGeometry \/ PublishFails
  BY <1>9, PublisherWrites, <1>0 DEF NoReturn
<1>10. CASE CommitPublish
  <2>1. \A c \in BatchIds : Outcome(c) = "staged" => batch[c].status = "staged"
    BY DEF Outcome
  <2>2. \A n \in DOMAIN dataset : Marked(n) = "staged" => dataset[n].status = "staged"
    BY DEF Marked
  <2>. QED
    BY <1>0, <1>10, <2>1, <2>2, CommitPublishWrites DEF NoReturn
<1>11. CASE UNCHANGED geometryVars
  BY <1>11 DEF geometryVars, tables, history, NoReturn
<1>. QED
  BY <1>1, <1>2, <1>3, <1>4, <1>5, <1>6, <1>7, <1>8, <1>9, <1>10, <1>11 DEF GeometryNext

(* A staging that another step leaves where it is has still seen them.     *)
LEMMA StillSeen ==
  ASSUME Shape, RowsKept, NoReturn, NEW t \in Stagers, SeenBy(stager[t]),
         stager'[t].at \in {"cleared", "found", "carried"} => stager[t].at \in {"cleared", "found", "carried"},
         stager'[t].plan = stager[t].plan, stager'[t].old = stager[t].old,
         stager[t].drops \subseteq stager'[t].drops,
         stager[t].unseen \subseteq stager'[t].unseen, stager'[t].unseen \subseteq DOMAIN dataset',
         stager'[t].at \in {"cleared", "found", "carried"} =>
           \A n \in DOMAIN dataset' \ DOMAIN dataset :
             dataset'[n].status = "staged" /\ dataset'[n].plan = stager[t].plan => n \in stager'[t].unseen
  PROVE  SeenBy(stager[t])'
<1>. DEFINE old == stager[t].old
<1>0. Typed
  BY DEF Shape
<1>1. PICK p : p = stager[t].plan
  OBVIOUS
<1>2. old \subseteq DOMAIN dataset' /\ \A n \in old : dataset'[n].plan = p
  BY <1>1 DEF SeenBy, RowsKept
<1>3. ASSUME stager'[t].at \in {"cleared", "found", "carried"}, NEW n \in StagedRuns(p)'
      PROVE  n \in old \cup stager'[t].unseen
  <2>1. n \in DOMAIN dataset' /\ dataset'[n].plan = p /\ dataset'[n].status = "staged"
    BY DEF StagedRuns
  <2>2. CASE n \in DOMAIN dataset
    <3>1. n \in StagedRuns(p)
      BY <2>1, <2>2 DEF StagedRuns, RowsKept, NoReturn
    <3>. QED
      BY <1>1, <1>3, <3>1 DEF SeenBy
  <2>3. CASE n \notin DOMAIN dataset
    BY <1>1, <1>3, <2>1, <2>3
  <2>. QED
    BY <2>2, <2>3
<1>4. ASSUME stager'[t].at \in {"cleared", "found", "carried"}, NEW n \in old,
             dataset'[n].own # 0, batch'[dataset'[n].own].status = "staged"
      PROVE  dataset'[n].own \in stager'[t].drops
  <2>1. n \in DOMAIN dataset /\ dataset'[n].own = dataset[n].own
    BY DEF SeenBy, RowsKept
  <2>2. dataset[n].own \in BatchIds /\ batch[dataset[n].own].status # "absent"
    BY <1>0, <1>4, <2>1, DatasetRows, GeometryAssumption DEF Shape, DatasetBatches, BatchIds,
       DatasetRow
  <2>3. batch[dataset[n].own].status = "staged"
    BY <1>4, <2>1, <2>2 DEF NoReturn
  <2>. QED
    BY <1>4, <2>1, <2>3 DEF SeenBy, Staged
<1>. QED
  BY <1>1, <1>2, <1>3, <1>4 DEF SeenBy, Staged

LEMMA RunsSeenStep ==
  ASSUME Shape, Shape', RowsKept, NoReturn, RunsSeen, [GeometryNext]_geometryVars
  PROVE  RunsSeen'
<1>0. Typed /\ StagerSteps
  BY DEF Shape
<1>. DEFINE N == Len(dataset) + 1
            Stays(t) ==
              /\ stager'[t].at \in {"cleared", "found", "carried"} => stager[t].at \in {"cleared", "found", "carried"}
              /\ stager'[t].plan = stager[t].plan /\ stager'[t].old = stager[t].old
              /\ stager[t].drops \subseteq stager'[t].drops /\ stager'[t].unseen = stager[t].unseen
            Nothing(t) == stager'[t].old = {} /\ stager'[t].unseen = {} /\ stager'[t].at \in {"idle", "labelled"}
<1>20. \A t \in Stagers : SeenBy(stager[t])
  BY DEF RunsSeen
<1>21. ASSUME NEW t \in Stagers, Stays(t),
              \A n \in DOMAIN dataset' \ DOMAIN dataset : dataset'[n].status # "staged"
       PROVE  SeenBy(stager[t])'
  <2>1. stager'[t].unseen \subseteq DOMAIN dataset'
    BY <1>20, <1>21 DEF SeenBy, RowsKept
  <2>. QED
    BY <1>20, <1>21, <2>1, StillSeen
<1>22. ASSUME NEW t \in Stagers, Nothing(t) PROVE SeenBy(stager[t])'
  BY <1>22 DEF SeenBy
<1>23. ASSUME DOMAIN dataset' = DOMAIN dataset, \A t \in Stagers : Stays(t) \/ Nothing(t) PROVE RunsSeen'
  <2>. HIDE DEF Stays, Nothing
  <2>. QED
    BY <1>21, <1>22, <1>23 DEF RunsSeen
<1>1. ASSUME NEW s \in Stagers, NEW p \in Plans, NEW brings \in Drawings, NEW label \in Labels,
             TakeLabel(s, p, brings, label)
      PROVE  RunsSeen'
  <2>1. dataset' = dataset /\ Nothing(s) /\ \A t \in Stagers \ {s} : Stays(t)
    BY <1>0, <1>1, TakeLabelWrites
  <2>. HIDE DEF Stays, Nothing
  <2>. QED
    BY <1>23, <2>1
<1>2. ASSUME NEW s \in Stagers, RecordInvalid(s)
      PROVE  RunsSeen'
  <2>1. Nothing(s) /\ \A t \in Stagers \ {s} : Stays(t)
    BY <1>0, <1>2, RecordInvalidWrites DEF NotStaging
  <2>2. DOMAIN dataset' = DOMAIN dataset \cup {N} /\ dataset'[N] = Row(s, "invalid")
    BY <1>0, <1>2, RecordInvalidWrites
  <2>3. dataset'[N].status = "invalid"
    BY <2>2 DEF Row
  <2>. HIDE DEF Stays, Nothing, N
  <2>. QED
    BY <1>21, <1>22, <2>1, <2>2, <2>3 DEF RunsSeen
<1>3. ASSUME NEW s \in Stagers, Clear(s)
      PROVE  RunsSeen'
  <2>1. \A t \in Stagers \ {s} : Stays(t)
    BY <1>0, <1>3, ClearWrites
  <2>2. PICK p : p = stager[s].plan
    OBVIOUS
  <2>3. /\ stager'[s].plan = p /\ stager'[s].unseen = stager[s].unseen
        /\ stager'[s].old = StagedRuns(p) \ stager[s].unseen
        /\ stager'[s].drops = {dataset[n].own : n \in stager'[s].old} \cap {b \in BatchIds : Staged(b)}
        /\ dataset' = dataset /\ batch' = batch
    BY <1>0, <1>3, <2>2, ClearWrites
  <2>4. StagedRuns(p)' = StagedRuns(p)
    BY <2>3 DEF StagedRuns
  <2>5. ASSUME NEW n \in stager'[s].old, dataset[n].own # 0, batch[dataset[n].own].status = "staged"
        PROVE  dataset[n].own \in stager'[s].drops
    <3>1. n \in DOMAIN dataset
      BY <2>3 DEF StagedRuns
    <3>2. dataset[n].own \in BatchIds
      BY <1>0, <2>5, <3>1, DatasetRows, GeometryAssumption DEF BatchIds, DatasetRow
    <3>. QED
      BY <2>3, <2>5, <3>2 DEF Staged
  <2>6. SeenBy(stager[s])'
    <3>1. StagedRuns(p) \subseteq DOMAIN dataset /\ \A n \in StagedRuns(p) : dataset[n].plan = p
      BY DEF StagedRuns
    <3>2. stager[s].unseen \subseteq DOMAIN dataset
      BY <1>20 DEF SeenBy
    <3>. QED
      BY <2>3, <2>4, <2>5, <3>1, <3>2 DEF SeenBy, Staged
  <2>. HIDE DEF Stays
  <2>. QED
    BY <1>21, <2>1, <2>3, <2>6 DEF RunsSeen
<1>4. ASSUME NEW s \in Stagers, FindNewest(s) \/ Carry(s) \/ WaitForRun(s)
      PROVE  RunsSeen'
  <2>1. dataset' = dataset /\ \A t \in Stagers \ {s} : Stays(t)
    BY <1>0, <1>4, FindNewestWrites, CarryWrites, WaitForRunWrites
  <2>2. Stays(s)
    BY <1>0, <1>4, FindNewestWrites, CarryWrites, WaitForRunWrites
  <2>. HIDE DEF Stays
  <2>. QED
    BY <1>23, <2>1, <2>2
<1>5. ASSUME NEW s \in Stagers, CommitStaging(s)
      PROVE  RunsSeen'
  <2>1. SeenBy(stager[s])'
    <3>1. Nothing(s)
      BY <1>0, <1>5, CommitStagingWrites DEF NotStaging
    <3>. HIDE DEF Nothing
    <3>. QED
      BY <1>22, <3>1
  <2>2. DOMAIN dataset' = DOMAIN dataset \cup {N} /\ dataset'[N].plan = stager[s].plan
    <3>1. DOMAIN dataset' = DOMAIN dataset \cup {N}
      BY <1>0, <1>5, CommitStagingWrites
    <3>2. dataset'[N] = Row(s, "staged")
      BY <1>0, <1>5, CommitStagingWrites
    <3>. QED
      BY <3>1, <3>2 DEF Row
  <2>3. ASSUME NEW t \in Stagers \ {s} PROVE SeenBy(stager[t])'
    <3>1. /\ stager'[t].at = stager[t].at /\ stager'[t].plan = stager[t].plan
          /\ stager'[t].old = stager[t].old /\ stager'[t].drops = stager[t].drops
          /\ stager'[t].unseen = IF stager[t].plan = stager[s].plan /\ stager[t].at \notin {"idle", "labelled"}
                                 THEN stager[t].unseen \cup {N} ELSE stager[t].unseen
      BY <1>0, <1>5, CommitStagingOthers
    <3>2. stager[t].unseen \subseteq DOMAIN dataset
      BY <1>20 DEF SeenBy
    <3>. HIDE DEF N
    <3>3. stager[t].unseen \subseteq stager'[t].unseen /\ stager'[t].unseen \subseteq DOMAIN dataset'
      BY <2>2, <3>1, <3>2
    <3>4. stager'[t].at \in {"cleared", "found", "carried"} =>
            \A n \in DOMAIN dataset' \ DOMAIN dataset :
              dataset'[n].status = "staged" /\ dataset'[n].plan = stager[t].plan => n \in stager'[t].unseen
      BY <2>2, <3>1
    <3>. QED
      BY <1>20, <3>1, <3>3, <3>4, StillSeen
  <2>. QED
    BY <2>1, <2>3 DEF RunsSeen
<1>6. ASSUME NEW s \in Stagers, GiveUp(s)
      PROVE  RunsSeen'
  <2>1. dataset' = dataset /\ Nothing(s) /\ \A t \in Stagers \ {s} : Stays(t)
    BY <1>0, <1>6, GiveUpWrites DEF NotStaging
  <2>. HIDE DEF Stays, Nothing
  <2>. QED
    BY <1>23, <2>1
<1>7. ASSUME stager' = stager, DOMAIN dataset' = DOMAIN dataset
      PROVE  RunsSeen'
  <2>1. \A t \in Stagers : Stays(t)
    BY <1>7
  <2>. HIDE DEF Stays
  <2>. QED
    BY <1>7, <1>23, <2>1
<1>8. ASSUME NEW b \in BatchIds, ApproveBatch(b) \/ RejectBatch(b)
      PROVE  RunsSeen'
  BY <1>0, <1>7, <1>8, DecisionWrites
<1>9. CASE GeometryPreflight \/ ChooseBatches \/ ApplyGeometry \/ PublishFails
  BY <1>0, <1>7, <1>9, PublisherWrites
<1>10. CASE CommitPublish
  BY <1>0, <1>7, <1>10, CommitPublishWrites
<1>11. CASE UNCHANGED geometryVars
  BY <1>7, <1>11 DEF geometryVars, tables
<1>. QED
  BY <1>1, <1>2, <1>3, <1>4, <1>5, <1>6, <1>8, <1>9, <1>10, <1>11 DEF GeometryNext

LEMMA ClosingAppliedStep ==
  ASSUME Shape, Shape', RowsKept, NoReturn, ClosingApplied, [GeometryNext]_geometryVars
  PROVE  ClosingApplied'
<1>0. Typed
  BY DEF Shape
<1>1. \A n \in DOMAIN dataset : dataset[n].own # 0 =>
        dataset[n].own \in BatchIds /\ batch[dataset[n].own].status # "absent"
  BY <1>0, DatasetRows, GeometryAssumption DEF Shape, DatasetBatches, BatchIds, DatasetRow
<1>2. CASE publisher' = publisher
  <2>1. ASSUME NEW n \in publisher.closing, dataset'[n].own # 0
        PROVE  dataset'[n].own \in publisher.chosen \/ batch'[dataset'[n].own].status # "staged"
    <3>1. n \in DOMAIN dataset /\ dataset'[n].own = dataset[n].own
      BY DEF ClosingApplied, RowsKept
    <3>2. dataset[n].own \in publisher.chosen \/ batch[dataset[n].own].status # "staged"
      BY <2>1, <3>1 DEF ClosingApplied, Staged
    <3>. QED
      BY <1>1, <2>1, <3>1, <3>2 DEF NoReturn
  <2>. QED
    BY <1>2, <2>1 DEF ClosingApplied, RowsKept, Staged
<1>3. CASE publisher'.closing = {}
  BY <1>3 DEF ClosingApplied
<1>4. CASE GeometryPreflight \/ ChooseBatches \/ ApplyGeometry \/ PublishFails
  <2>1. CASE publisher.at = "checked" /\ publisher'.closing = publisher.closing
    BY <1>3, <2>1 DEF ClosingApplied
  <2>2. CASE /\ publisher'.at = "applied" /\ publisher'.chosen = publisher.chosen
             /\ publisher'.closing = {n \in DOMAIN dataset : dataset[n].status = "staged" /\ Applied(n)}
    <3>1. dataset' = dataset /\ batch' = batch
      BY <1>0, <1>4, PublisherWrites
    <3>2. ASSUME NEW n \in publisher'.closing, dataset[n].own # 0
          PROVE  dataset[n].own \in publisher.chosen \/ batch[dataset[n].own].status # "staged"
      BY <2>2, <3>2 DEF Applied, Outcome
    <3>. QED
      BY <2>2, <3>1, <3>2 DEF ClosingApplied, Staged
  <2>. QED
    BY <1>0, <1>3, <1>4, <2>1, <2>2, PublisherWrites
<1>5. CASE CommitPublish
  BY <1>0, <1>3, <1>5, CommitPublishWrites
<1>6. \/ publisher' = publisher \/ CommitPublish
      \/ GeometryPreflight \/ ChooseBatches \/ ApplyGeometry \/ PublishFails
  BY <1>0, TakeLabelWrites, RecordInvalidWrites, WaitForRunWrites, ClearWrites, FindNewestWrites,
     CarryWrites, CommitStagingWrites,
     GiveUpWrites, DecisionWrites DEF GeometryNext, geometryVars
<1>. QED
  BY <1>2, <1>4, <1>5, <1>6

LEMMA OneRunStep ==
  ASSUME Shape, Shape', RowsKept, NoReturn, RunInv, [GeometryNext]_geometryVars
  PROVE  OneRunUnderReview'
<1>0. Typed /\ StagerSteps /\ DropsLocked /\ IdsApart
  BY DEF Shape
<1>1. \A n \in DOMAIN dataset : dataset[n].own # 0 =>
        dataset[n].own \in BatchIds /\ batch[dataset[n].own].status # "absent"
  BY <1>0, DatasetRows, GeometryAssumption DEF Shape, DatasetBatches, BatchIds, DatasetRow
<1>20. parallel \subseteq parallel'
  BY <1>0, TakeLabelWrites, RecordInvalidWrites, WaitForRunWrites, ClearWrites, FindNewestWrites,
     CarryWrites, CommitStagingWrites, GiveUpWrites, DecisionWrites, PublisherWrites,
     CommitPublishWrites DEF GeometryNext, geometryVars, history
<1>2. \A n, m \in DOMAIN dataset :
        /\ dataset'[n].plan = dataset'[m].plan /\ n < m
        /\ dataset'[n].status = "staged" /\ dataset'[m].status = "staged"
        => <<n, m>> \in parallel'
  BY <1>20 DEF RowsKept, NoReturn, RunInv, OneRunUnderReview
<1>3. \A n \in DOMAIN dataset : dataset[n].own # 0 /\ batch'[dataset[n].own].status = "staged" => dataset[n].status = "staged"
  BY <1>1 DEF NoReturn, RunInv, OneRunUnderReview, Staged
<1>4. ASSUME DOMAIN dataset' = DOMAIN dataset,
             \A n \in DOMAIN dataset : dataset[n].status = "staged" /\ dataset'[n].status # "staged" /\ dataset[n].own # 0 =>
               batch'[dataset[n].own].status # "staged"
      PROVE  OneRunUnderReview'
  BY <1>2, <1>3, <1>4 DEF OneRunUnderReview, RowsKept, Staged
<1>5. ASSUME NEW s \in Stagers, RecordInvalid(s) PROVE OneRunUnderReview'
  <2>. DEFINE N == Len(dataset) + 1
  <2>1. DOMAIN dataset' = DOMAIN dataset \cup {N} /\ dataset'[N] = Row(s, "invalid")
        /\ \A n \in DOMAIN dataset : dataset'[n] = dataset[n]
    BY <1>0, <1>5, RecordInvalidWrites
  <2>2. dataset'[N].status = "invalid" /\ dataset'[N].own = 0
    <3>1. stager[s].own = 0
      BY <1>0, <1>5, RecordInvalidWrites DEF StagerSteps, Progress
    <3>. QED
      BY <2>1, <3>1 DEF Row
  <2>. HIDE DEF N
  <2>3. \A n, m \in DOMAIN dataset' :
        /\ dataset'[n].plan = dataset'[m].plan /\ n < m
        /\ dataset'[n].status = "staged" /\ dataset'[m].status = "staged"
        => <<n, m>> \in parallel'
    BY <1>2, <2>1, <2>2
  <2>4. \A n \in DOMAIN dataset' : dataset'[n].own # 0 /\ batch'[dataset'[n].own].status = "staged" => dataset'[n].status = "staged"
    BY <1>3, <2>1, <2>2
  <2>. QED
    BY <2>3, <2>4 DEF OneRunUnderReview, Staged
<1>6. ASSUME NEW s \in Stagers, CommitStaging(s) PROVE OneRunUnderReview'
  <2>. DEFINE N == Len(dataset) + 1
  <2>1. DOMAIN dataset' = DOMAIN dataset \cup {N} /\ dataset'[N] = Row(s, "staged")
        /\ \A n \in DOMAIN dataset : dataset'[n].status = IF n \in stager[s].old THEN "superseded" ELSE dataset[n].status
    <3>1. DOMAIN dataset' = DOMAIN dataset \cup {N}
      BY <1>0, <1>6, CommitStagingWrites
    <3>2. dataset'[N] = Row(s, "staged")
      BY <1>0, <1>6, CommitStagingWrites
    <3>3. \A n \in DOMAIN dataset : dataset'[n].status = IF n \in stager[s].old THEN "superseded" ELSE dataset[n].status
      BY <1>0, <1>6, CommitStagingWrites
    <3>. QED
      BY <3>1, <3>2, <3>3
  <2>2. dataset'[N].status = "staged" /\ dataset'[N].plan = stager[s].plan
    BY <2>1 DEF Row
  <2>3. /\ stager[s].at = "carried" /\ LabelFree(s)
        /\ parallel' = parallel \cup (Relabelled(s) \X {N})
    BY <1>0, <1>6, CommitStagingWrites
  <2>8. \A n \in DOMAIN dataset : n < N /\ ~ (N < n) /\ n # N
    BY <1>0, DatasetRows
  <2>9. N \in Nat
    BY <1>0, DatasetRows
  <2>. HIDE DEF N
  <2>4. ASSUME NEW n \in DOMAIN dataset, dataset'[n].status = "staged", dataset'[n].plan = dataset'[N].plan
        PROVE  <<n, N>> \in parallel'
    <3>1. n \in StagedRuns(stager[s].plan) /\ n \notin stager[s].old
      BY <2>1, <2>2, <2>4 DEF StagedRuns, RowsKept
    <3>2. n \in stager[s].unseen
      BY <2>3, <3>1 DEF RunInv, RunsSeen, SeenBy
    <3>3. dataset[n].label # stager[s].label
      BY <2>3, <3>1 DEF LabelFree, StagedRuns
    <3>. QED
      BY <2>3, <3>2, <3>3 DEF Relabelled
  <2>5. \A n, m \in DOMAIN dataset' :
        /\ dataset'[n].plan = dataset'[m].plan /\ n < m
        /\ dataset'[n].status = "staged" /\ dataset'[m].status = "staged"
        => <<n, m>> \in parallel'
    <3>. TAKE n, m \in DOMAIN dataset'
    <3>1. CASE n \in DOMAIN dataset /\ m \in DOMAIN dataset
      BY <1>2, <3>1
    <3>2. CASE n \in DOMAIN dataset /\ m = N
      BY <2>4, <3>2
    <3>3. CASE n = N
      BY <2>1, <2>8, <2>9, <3>3
    <3>. QED
      BY <2>1, <3>1, <3>2, <3>3
  <2>6. ASSUME NEW n \in DOMAIN dataset, dataset[n].own # 0, batch'[dataset[n].own].status = "staged"
        PROVE  dataset'[n].status = "staged"
    <3>1. dataset[n].status = "staged" /\ batch[dataset[n].own].status = "staged"
      BY <1>1, <1>3, <2>6 DEF NoReturn
    <3>2. dataset[n].own \in BatchIds \ {stager[s].own, stager[s].landUse}
      BY <1>0, <1>1, <2>6, GeometryAssumption DEF IdsApart, Taken, BatchIds
    <3>3. dataset[n].own \notin stager[s].drops
      BY <1>0, <1>6, <2>6, <3>2, CommitStagingBatches
    <3>4. n \notin stager[s].old
      <4>1. stager[s].at = "carried"
        BY <1>0, <1>6, CommitStagingWrites
      <4>. QED
        BY <2>6, <3>1, <3>3, <4>1 DEF RunInv, RunsSeen, SeenBy, Staged
    <3>. QED
      BY <2>1, <3>1, <3>4
  <2>7. \A n \in DOMAIN dataset' : dataset'[n].own # 0 /\ batch'[dataset'[n].own].status = "staged" => dataset'[n].status = "staged"
    BY <2>1, <2>2, <2>6 DEF RowsKept
  <2>. QED
    BY <2>5, <2>7 DEF OneRunUnderReview, Staged
<1>7. CASE CommitPublish
  <2>1. ASSUME NEW n \in DOMAIN dataset, dataset[n].status = "staged", dataset'[n].status # "staged", dataset[n].own # 0
        PROVE  batch'[dataset[n].own].status # "staged"
    <3>1. n \in publisher.closing
      BY <1>0, <1>7, <2>1, CommitPublishWrites DEF Marked
    <3>2. dataset[n].own \in publisher.chosen \/ batch[dataset[n].own].status # "staged"
      BY <2>1, <3>1 DEF RunInv, ClosingApplied, Staged
    <3>3. Outcome(dataset[n].own) # "staged"
      BY <3>2 DEF Outcome
    <3>. QED
      BY <1>0, <1>1, <1>7, <2>1, <3>3, CommitPublishWrites
  <2>2. DOMAIN dataset' = DOMAIN dataset
    BY <1>0, <1>7, CommitPublishWrites
  <2>. QED
    BY <1>4, <2>1, <2>2
<1>8. CASE dataset' = dataset
  BY <1>4, <1>8
<1>9. dataset' = dataset \/ CommitPublish \/ \E s \in Stagers : RecordInvalid(s) \/ CommitStaging(s)
  BY <1>0, TakeLabelWrites, WaitForRunWrites, ClearWrites, FindNewestWrites, CarryWrites, GiveUpWrites,
     DecisionWrites, PublisherWrites
     DEF GeometryNext, geometryVars, tables
<1>. QED
  BY <1>5, <1>6, <1>7, <1>8, <1>9

LEMMA RunStep ==
  ASSUME Shape, RunInv, [GeometryNext]_geometryVars
  PROVE  RunInv'
<1>1. Shape' /\ RowsKept /\ NoReturn
  BY ShapeStep, NoReturnStep
<1>2. RunsSeen' /\ ClosingApplied' /\ OneRunUnderReview'
  BY <1>1, RunsSeenStep, ClosingAppliedStep, OneRunStep DEF RunInv
<1>. QED
  BY <1>2 DEF RunInv

LEMMA RunInit ==
  ASSUME GeometryInit
  PROVE  RunInv
<1>1. /\ \A s \in Stagers : stager[s] = NotStaging
      /\ dataset = << >> /\ DOMAIN dataset = {} /\ publisher.closing = {}
  BY DEF NotPublishing, GeometryInit
<1>. QED
  BY <1>1 DEF RunInv, RunsSeen, SeenBy, ClosingApplied, OneRunUnderReview, NotStaging

(* OneRunUnderReview: of two runs of a plan under review together the later *)
(* was staged without seeing the earlier, under another label (stage.py:   *)
(* SUPERSEDE_SQL and uq_georef_datasets_version), however many stagings,   *)
(* labels, plans and publishes there are.                                  *)
THEOREM OneRun == GeometrySpec => []OneRunUnderReview
<1>1. GeometryInit => Shape /\ RunInv
  BY ShapeInit, RunInit
<1>2. Shape /\ RunInv /\ [GeometryNext]_geometryVars => (Shape /\ RunInv)'
  BY ShapeStep, RunStep
<1>3. RunInv => OneRunUnderReview
  BY DEF RunInv
<1>. QED
  BY <1>1, <1>2, <1>3, PTL DEF GeometrySpec

-----------------------------------------------------------------------------
(* Two facts the shape leaves open: a batch that is there is of a plan, and *)
(* the datasets stay within their bound, the ones under way counted in.    *)
PlansKnown == \A b \in BatchIds : batch[b].status # "absent" => batch[b].plan \in Plans
Busy == {s \in Stagers : Staging(s)}
RoomKept == IsFiniteSet(Busy) /\ Len(dataset) + Cardinality(Busy) <= MaxDatasets

LEMMA PlansKnownStep ==
  ASSUME Shape, RowsKept, PlansKnown, [GeometryNext]_geometryVars
  PROVE  PlansKnown'
<1>. SUFFICES ASSUME NEW b \in BatchIds, batch[b].status = "absent", batch'[b].status # "absent"
              PROVE  batch'[b].plan \in Plans
  BY DEF PlansKnown, RowsKept
<1>. USE DEF Shape
<1>1. ASSUME NEW s \in Stagers, CommitStaging(s)
      PROVE  batch'[b].plan \in Plans
  <2>1. b \in {stager[s].own, stager[s].landUse} /\ b # 0
    BY <1>1, CommitStagingBatches DEF BatchIds, DropsLocked, Staged
  <2>2. stager[s].plan \in Plans
    BY <1>1, CommitStagingWrites DEF StagerSteps, Progress
  <2>. QED
    BY <1>1, <2>1, <2>2, CommitStagingBatches
<1>2. ASSUME NEW c \in BatchIds, ApproveBatch(c) \/ RejectBatch(c)
      PROVE  FALSE
  BY <1>2, DecisionWrites DEF Open, Staged
<1>3. CASE CommitPublish
  <2>1. Outcome(b) # "absent" /\ b \in publisher.chosen
    BY <1>3, CommitPublishWrites DEF Outcome
  <2>. QED
    BY <2>1 DEF DropsLocked
<1>4. batch' # batch
  OBVIOUS
<1>. QED
  BY <1>1, <1>2, <1>3, <1>4, TakeLabelWrites, RecordInvalidWrites, WaitForRunWrites, ClearWrites, FindNewestWrites,
     CarryWrites, GiveUpWrites, PublisherWrites DEF GeometryNext, geometryVars, tables

(* A staging that ends leaves the busy ones, and may leave a dataset.      *)
LEMMA StagingEnds ==
  ASSUME Typed, RoomKept, NEW s \in Stagers, Staging(s), stager'[s] = NotStaging,
         \A t \in Stagers \ {s} : stager'[t].at = stager[t].at,
         Len(dataset') \in Nat, Len(dataset') <= Len(dataset) + 1
  PROVE  RoomKept'
<1>1. Busy' = Busy \ {s} /\ s \in Busy
  BY DEF Busy, Staging, NotStaging
<1>2. IsFiniteSet(Busy') /\ Cardinality(Busy') = Cardinality(Busy) - 1 /\ Cardinality(Busy) \in Nat
  BY <1>1, FS_RemoveElement, FS_CardinalityType DEF RoomKept
<1>3. Len(dataset) \in Nat
  BY DatasetRows DEF Typed
<1>. QED
  BY <1>2, <1>3, GeometryAssumption DEF RoomKept

LEMMA SameEnd ==
  ASSUME NEW n \in Nat, NEW m \in Nat, 1..n = 1..m
  PROVE  n = m
<1>1. n # 0 => n \in 1..m
  OBVIOUS
<1>2. m # 0 => m \in 1..n
  OBVIOUS
<1>. QED
  BY <1>1, <1>2

LEMMA NextEnd ==
  ASSUME NEW n \in Nat, NEW m \in Nat, 1..n = (1..m) \cup {m + 1}
  PROVE  n = m + 1
<1>1. 1..n = 1..(m + 1)
  OBVIOUS
<1>. QED
  BY <1>1, SameEnd

LEMMA RoomKeptStep ==
  ASSUME Shape, RoomKept, [GeometryNext]_geometryVars
  PROVE  RoomKept'
<1>. USE DEF Shape
<1>1. Len(dataset) \in Nat /\ DOMAIN dataset = 1..Len(dataset) /\ Len(dataset') \in Nat
      /\ DOMAIN dataset' = 1..Len(dataset')
  BY TypedStep, DatasetRows DEF Typed
<1>2. ASSUME NEW s \in Stagers, NEW p \in Plans, NEW brings \in Drawings, NEW label \in Labels,
             TakeLabel(s, p, brings, label)
      PROVE  RoomKept'
  <2>1. Busy' = Busy \cup {s} /\ s \notin Busy /\ dataset' = dataset
    BY <1>2, TakeLabelWrites DEF Busy, Staging
  <2>2. IsFiniteSet(Busy') /\ Cardinality(Busy') = Cardinality(Busy) + 1 /\ Cardinality(Busy) \in Nat
    BY <2>1, FS_AddElement, FS_CardinalityType DEF RoomKept
  <2>3. Len(dataset) + Cardinality(Busy) < MaxDatasets
    BY <1>2 DEF TakeLabel, RoomForDataset, Busy
  <2>. QED
    BY <1>1, <2>1, <2>2, <2>3, GeometryAssumption DEF RoomKept
<1>3. ASSUME NEW s \in Stagers, RecordInvalid(s)
      PROVE  RoomKept'
  <2>1. Len(dataset') = Len(dataset) + 1
    BY <1>3, <1>1 DEF RecordInvalid, Typed
  <2>2. Staging(s)
    BY <1>3, RecordInvalidWrites DEF Staging
  <2>. QED
    BY <1>1, <1>3, <2>1, <2>2, RecordInvalidWrites, StagingEnds
<1>4. ASSUME NEW s \in Stagers, CommitStaging(s)
      PROVE  RoomKept'
  <2>1. DOMAIN dataset' = DOMAIN dataset \cup {Len(dataset) + 1}
    BY <1>4, CommitStagingWrites
  <2>2. 1..Len(dataset') = (1..Len(dataset)) \cup {Len(dataset) + 1}
    BY <1>1, <2>1
  <2>3. Len(dataset') = Len(dataset) + 1
    BY <1>1, <2>2, NextEnd
  <2>4. Staging(s) /\ stager'[s] = NotStaging
    BY <1>4, CommitStagingWrites DEF Staging
  <2>5. \A t \in Stagers \ {s} : stager'[t].at = stager[t].at
    BY <1>4, CommitStagingOthers
  <2>. QED
    BY <2>3, <2>4, <2>5, <1>1, StagingEnds
<1>5. ASSUME NEW s \in Stagers, GiveUp(s)
      PROVE  RoomKept'
  <2>1. Staging(s) /\ stager'[s] = NotStaging /\ dataset' = dataset
    BY <1>5, GiveUpWrites DEF GiveUp
  <2>2. \A t \in Stagers \ {s} : stager'[t].at = stager[t].at
    BY <1>5, GiveUpWrites
  <2>. QED
    BY <1>1, <2>1, <2>2, StagingEnds
<1>6. ASSUME NEW s \in Stagers, WaitForRun(s) \/ Clear(s) \/ FindNewest(s) \/ Carry(s)
      PROVE  RoomKept'
  <2>1. dataset' = dataset /\ \A t \in Stagers : (stager'[t].at # "idle") <=> (stager[t].at # "idle")
    <3>1. dataset' = dataset /\ \A t \in Stagers \ {s} : stager'[t] = stager[t]
      BY <1>6, WaitForRunWrites, ClearWrites, FindNewestWrites, CarryWrites
    <3>2. stager'[s].at # "idle" /\ stager[s].at # "idle"
      BY <1>6, WaitForRunWrites, ClearWrites, FindNewestWrites, CarryWrites
    <3>. QED
      BY <3>1, <3>2
  <2>2. Busy' = Busy
    BY <2>1 DEF Busy, Staging
  <2>. QED
    BY <2>1, <2>2 DEF RoomKept
<1>7. ASSUME UNCHANGED stager, Len(dataset') = Len(dataset)
      PROVE  RoomKept'
  <2>1. Busy' = Busy
    BY <1>7 DEF Busy, Staging
  <2>. QED
    BY <1>7, <2>1 DEF RoomKept
<1>8. CASE CommitPublish
  <2>1. UNCHANGED stager /\ DOMAIN dataset' = DOMAIN dataset
    BY <1>8, CommitPublishWrites
  <2>2. Len(dataset') = Len(dataset)
    BY <1>1, <2>1, SameEnd
  <2>. QED
    BY <1>7, <2>1, <2>2
<1>9. ASSUME UNCHANGED <<stager, dataset>>
      PROVE  RoomKept'
  BY <1>7, <1>9
<1>10. ASSUME NEW b \in BatchIds, ApproveBatch(b) \/ RejectBatch(b)
       PROVE  RoomKept'
  BY <1>9, <1>10, DecisionWrites
<1>11. CASE GeometryPreflight \/ ChooseBatches \/ ApplyGeometry \/ PublishFails
  BY <1>9, <1>11, PublisherWrites
<1>12. CASE UNCHANGED geometryVars
  BY <1>9, <1>12 DEF geometryVars, tables
<1>. QED
  BY <1>2, <1>3, <1>4, <1>5, <1>6, <1>8, <1>10, <1>11, <1>12 DEF GeometryNext

LEMMA GeometryTyped ==
  ASSUME Shape, RunInv, PlansKnown, RoomKept
  PROVE  GeometryTypeOK
<1>. USE DEF Shape
<1>1. nextBatch \in 1..(MaxBatches + 1) /\ MaxBatches \in Nat
  BY GeometryAssumption DEF Typed
<1>2. \A b \in BatchIds : batch[b].status # "absent" => b < nextBatch
  BY <1>1 DEF IdsApart, BatchIds
<1>3. \A n \in DOMAIN dataset :
        /\ dataset[n].status \in {"staged", "invalid", "superseded", "published"}
        /\ dataset[n].own \in 0..MaxBatches /\ dataset[n].landUse \in 0..MaxBatches
  BY DatasetRows DEF DatasetRow
<1>4. \A n \in DOMAIN dataset : \A b \in {dataset[n].own, dataset[n].landUse} :
        b \in 0..(nextBatch - 1)
  <2>. SUFFICES ASSUME NEW n \in DOMAIN dataset, NEW b \in {dataset[n].own, dataset[n].landUse}, b # 0
                PROVE  b \in 0..(nextBatch - 1)
    BY <1>1
  <2>1. b \in BatchIds
    BY <1>1, <1>3 DEF BatchIds
  <2>2. batch[b].status # "absent"
    BY DEF DatasetBatches
  <2>. QED
    BY <1>1, <1>2, <2>1, <2>2 DEF BatchIds
<1>5. ASSUME NEW b \in BatchIds, Origin(b)
      PROVE  b \in 1..(nextBatch - 1)
  BY <1>1, <1>4, <1>5 DEF Origin, BatchIds
<1>6. served \subseteq 1..(nextBatch - 1)
  BY <1>5 DEF Typed, HoldsKnown
<1>7. ASSUME NEW b \in BatchIds
      PROVE  /\ batch[b].status \in {"absent", "staged", "superseded", "rejected", "published"}
             /\ batch[b].holds \subseteq 1..(nextBatch - 1)
             /\ batch[b].status # "absent" => batch[b].plan \in Plans /\ b < nextBatch
  <2>1. batch[b] \in BatchRow
    BY DEF Typed
  <2>2. batch[b].status \in {"absent", "staged", "superseded", "rejected", "published"}
        /\ batch[b].holds \subseteq BatchIds
    BY <2>1 DEF BatchRow
  <2>. QED
    BY <1>2, <1>5, <2>2 DEF HoldsKnown, PlansKnown
<1>8. \A s \in Stagers : stager[s].drops \cup stager[s].missed \subseteq BatchIds
  BY DEF Typed, StagerRecord
<1>9. publisher.chosen \subseteq BatchIds /\ publisher.closing \subseteq DOMAIN dataset
  BY DEF Typed, PublisherRecord, RunInv, ClosingApplied
<1>10. Len(dataset) <= MaxDatasets
  <2>1. Len(dataset) \in Nat /\ Cardinality(Busy) \in Nat
    BY DatasetRows, FS_CardinalityType DEF Typed, RoomKept
  <2>. QED
    BY <2>1, GeometryAssumption DEF RoomKept
<1>11. DOMAIN batch = BatchIds /\ hasty \subseteq refused /\ refused \subseteq BatchIds
       /\ overlooked \subseteq BatchIds
  BY DEF Typed
<1>. QED
  BY <1>3, <1>4, <1>6, <1>7, <1>8, <1>9, <1>10, <1>11 DEF GeometryTypeOK

(* GeometryTypeOK: every row, lock and snapshot of the staging, the review *)
(* and the geometry step of a publish has the shape the code gives it,     *)
(* the ids it names have been handed out, and the bounds are kept.         *)
THEOREM GeometryTypes == GeometrySpec => []GeometryTypeOK
<1>1. GeometryInit => Shape /\ RunInv /\ PlansKnown /\ RoomKept
  <2>1. ASSUME GeometryInit PROVE PlansKnown /\ RoomKept
    <3>1. Busy = {} /\ dataset = << >>
      BY <2>1 DEF GeometryInit, Busy, Staging, NotStaging
    <3>2. IsFiniteSet(Busy) /\ Cardinality(Busy) = 0
      BY <3>1, FS_EmptySet
    <3>3. Len(dataset) = 0
      BY <3>1
    <3>. QED
      BY <2>1, <3>2, <3>3, GeometryAssumption DEF GeometryInit, PlansKnown, RoomKept, NoBatch
  <2>. QED
    BY <2>1, ShapeInit, RunInit
<1>2. (Shape /\ RunInv /\ PlansKnown /\ RoomKept) /\ [GeometryNext]_geometryVars
      => (Shape /\ RunInv /\ PlansKnown /\ RoomKept)'
  BY ShapeStep, RunStep, PlansKnownStep, RoomKeptStep
<1>3. Shape /\ RunInv /\ PlansKnown /\ RoomKept => GeometryTypeOK
  BY GeometryTyped
<1>. QED
  BY <1>1, <1>2, <1>3, PTL DEF GeometrySpec

-----------------------------------------------------------------------------
(* What another batch, the map or a staging holds is no longer staged, or  *)
(* is locked by that staging: so it cannot be rejected any more.           *)
CarriedClosed ==
  /\ \A c \in BatchIds : \A b \in batch[c].holds : b # c => ~Staged(b)
  /\ \A b \in served : ~Staged(b)
  /\ \A s \in Stagers : \A b \in stager[s].holds :
       b = stager[s].landUse \/ b \in stager[s].drops \/ ~Staged(b)

Clean(ids) == ids \cap (refused \ hasty) = {}
RejectedUnused ==
  /\ \A s \in Stagers : Clean(stager[s].holds)
  /\ \A s \in Stagers : stager[s].newest # 0 => Clean(batch[stager[s].newest].holds)
  /\ Clean(publisher.chosen)
  /\ \A c \in LandChosen : Clean(batch[c].holds)
RejectInv == CarriedClosed /\ RejectedUnused /\ RejectedStaysOut

(* What is held has been committed.                                        *)
LEMMA HeldIsThere ==
  ASSUME Shape
  PROVE  /\ \A c \in BatchIds : \A b \in batch[c].holds : b \in BatchIds /\ batch[b].status # "absent"
         /\ \A b \in served : b \in BatchIds /\ batch[b].status # "absent"
         /\ \A s \in Stagers : \A b \in stager[s].holds :
              b \in BatchIds /\ (b = stager[s].landUse \/ batch[b].status # "absent")
         /\ \A s \in Stagers : stager[s].newest # 0 => stager[s].newest \in BatchIds
         /\ publisher.chosen \subseteq BatchIds /\ refused \subseteq BatchIds /\ 0 \notin BatchIds
<1>0. Typed /\ DatasetBatches /\ HoldsKnown
  BY DEF Shape
<1>1. \A c \in BatchIds : batch[c].holds \subseteq BatchIds
  BY <1>0 DEF Typed, BatchRow
<1>2. \A s \in Stagers : stager[s].holds \subseteq BatchIds
  BY <1>0 DEF Typed, StagerRecord
<1>3. served \subseteq BatchIds /\ refused \subseteq BatchIds /\ publisher.chosen \subseteq BatchIds
  BY <1>0 DEF Typed, PublisherRecord
<1>4. 0 \notin BatchIds /\ \A s \in Stagers : stager[s].newest # 0 => stager[s].newest \in BatchIds
  BY <1>0, GeometryAssumption DEF Typed, StagerRecord, BatchIds
<1>5. \A b \in BatchIds : Origin(b) => batch[b].status # "absent"
  BY <1>0, <1>4 DEF DatasetBatches, Origin
<1>6. \A c \in BatchIds : \A b \in batch[c].holds : Origin(b)
  BY <1>0 DEF HoldsKnown
<1>7. (\A b \in served : Origin(b)) /\ \A s \in Stagers : \A b \in stager[s].holds : b = stager[s].landUse \/ Origin(b)
  BY <1>0 DEF HoldsKnown
<1>. HIDE DEF Origin
<1>. QED
  BY <1>1, <1>2, <1>3, <1>4, <1>5, <1>6, <1>7

LEMMA HoldsStay ==
  ASSUME Shape, Shape', RowsKept
  PROVE  /\ \A c \in BatchIds : batch[c].status # "absent" => batch'[c].holds = batch[c].holds
         /\ \A c \in publisher.chosen : batch'[c].holds = batch[c].holds /\ batch'[c].layer = batch[c].layer
         /\ \A s \in Stagers : stager[s].newest # 0 => batch'[stager[s].newest].holds = batch[stager[s].newest].holds
         /\ publisher'.chosen = publisher.chosen => LandChosen' = LandChosen
<1>1. \A c \in publisher.chosen : c \in BatchIds /\ batch[c].status # "absent"
  BY HeldIsThere DEF Shape, DropsLocked
<1>2. \A s \in Stagers : stager[s].newest # 0 => stager[s].newest \in BatchIds /\ batch[stager[s].newest].status # "absent"
  BY HeldIsThere DEF Shape, DropsLocked
<1>3. \A c \in publisher.chosen : batch'[c].holds = batch[c].holds /\ batch'[c].layer = batch[c].layer
  BY <1>1 DEF RowsKept
<1>4. publisher'.chosen = publisher.chosen => LandChosen' = LandChosen
  BY <1>3 DEF LandChosen
<1>. QED
  BY <1>2, <1>3, <1>4 DEF RowsKept

LEMMA CarriedClosedKept ==
  ASSUME Shape, NoReturn, CarriedClosed, served' = served,
         \A c \in BatchIds : batch'[c].holds = batch[c].holds,
         \A s \in Stagers : \/ stager'[s].holds = {}
                            \/ /\ stager'[s].holds = stager[s].holds /\ stager'[s].landUse = stager[s].landUse
                               /\ stager[s].drops \subseteq stager'[s].drops
  PROVE  CarriedClosed'
<1>1. \A b \in BatchIds : batch[b].status # "absent" /\ ~Staged(b) => batch'[b].status # "staged"
  BY DEF NoReturn, Staged
<1>2. \A c \in BatchIds : \A b \in batch'[c].holds : b # c => batch'[b].status # "staged"
  BY <1>1, HeldIsThere DEF CarriedClosed
<1>3. \A b \in served' : batch'[b].status # "staged"
  BY <1>1, HeldIsThere DEF CarriedClosed
<1>4. \A s \in Stagers : \A b \in stager'[s].holds :
        b = stager'[s].landUse \/ b \in stager'[s].drops \/ batch'[b].status # "staged"
  BY <1>1, HeldIsThere DEF CarriedClosed
<1>. QED
  BY <1>2, <1>3, <1>4 DEF CarriedClosed, Staged

LEMMA RejectedKept ==
  ASSUME Shape, Shape', RowsKept, NoReturn, RejectedUnused, RejectedStaysOut,
         served' = served, refused' = refused, hasty' = hasty,
         \A c \in BatchIds : batch'[c].holds = batch[c].holds /\ batch'[c].layer = batch[c].layer,
         \A b \in refused : batch[b].status = "rejected" => batch'[b].status = "rejected",
         \A c \in BatchIds : batch'[c].status = "staged" => batch[c].status = "staged",
         \A s \in Stagers : /\ stager'[s].holds \in {{}, stager[s].holds}
                            /\ stager'[s].newest \in {0, stager[s].newest},
         publisher'.chosen \in {{}, publisher.chosen}
  PROVE  RejectedUnused' /\ RejectedStaysOut'
<1>1. StagedLand' \subseteq StagedLand
  BY DEF StagedLand, Staged
<1>2. LandChosen' \subseteq LandChosen /\ LandChosen \subseteq BatchIds
  BY HeldIsThere DEF LandChosen
<1>3. RejectedStaysOut'
  BY <1>1 DEF RejectedStaysOut, Stands, StagedLand
<1>4. RejectedUnused'
  <2>1. \A s \in Stagers : Clean(stager[s].holds)'
    BY DEF RejectedUnused, Clean
  <2>2. \A s \in Stagers : stager'[s].newest # 0 => Clean(batch[stager[s].newest].holds)'
    BY HeldIsThere DEF RejectedUnused, Clean
  <2>3. Clean(publisher.chosen)'
    BY DEF RejectedUnused, Clean
  <2>4. \A c \in LandChosen' : Clean(batch[c].holds)'
    BY <1>2 DEF RejectedUnused, Clean
  <2>. QED
    BY <2>1, <2>2, <2>3, <2>4 DEF RejectedUnused
<1>. QED
  BY <1>3, <1>4

LEMMA CarriedClosedStep ==
  ASSUME Shape, Shape', RowsKept, NoReturn, CarriedClosed, [GeometryNext]_geometryVars
  PROVE  CarriedClosed'
<1>0. Typed /\ StagerSteps /\ IdsApart /\ DropsLocked
  BY DEF Shape
<1>1. ASSUME NEW s \in Stagers, NEW p \in Plans, NEW brings \in Drawings, NEW label \in Labels,
             TakeLabel(s, p, brings, label)
      PROVE  CarriedClosed'
  <2>1. \A t \in Stagers : \/ stager'[t].holds = {}
                           \/ /\ stager'[t].holds = stager[t].holds /\ stager'[t].landUse = stager[t].landUse
                              /\ stager[t].drops \subseteq stager'[t].drops
    BY <1>0, <1>1, TakeLabelWrites
  <2>2. served' = served /\ \A c \in BatchIds : batch'[c].holds = batch[c].holds
    BY <1>0, <1>1, TakeLabelWrites
  <2>. QED
    BY <2>1, <2>2, CarriedClosedKept
<1>2. ASSUME NEW s \in Stagers, RecordInvalid(s)
      PROVE  CarriedClosed'
  <2>1. \A t \in Stagers : \/ stager'[t].holds = {}
                           \/ /\ stager'[t].holds = stager[t].holds /\ stager'[t].landUse = stager[t].landUse
                              /\ stager[t].drops \subseteq stager'[t].drops
    BY <1>0, <1>2, RecordInvalidWrites DEF NotStaging
  <2>2. served' = served /\ \A c \in BatchIds : batch'[c].holds = batch[c].holds
    BY <1>0, <1>2, RecordInvalidWrites
  <2>. QED
    BY <2>1, <2>2, CarriedClosedKept
<1>3. ASSUME NEW s \in Stagers, Clear(s)
      PROVE  CarriedClosed'
  <2>0. stager'[s].holds = {}
    BY <1>0, <1>3, ClearWrites DEF StagerSteps, Progress
  <2>1. \A t \in Stagers : \/ stager'[t].holds = {}
                           \/ /\ stager'[t].holds = stager[t].holds /\ stager'[t].landUse = stager[t].landUse
                              /\ stager[t].drops \subseteq stager'[t].drops
    BY <1>0, <1>3, <2>0, ClearWrites
  <2>2. served' = served /\ \A c \in BatchIds : batch'[c].holds = batch[c].holds
    BY <1>0, <1>3, <2>0, ClearWrites
  <2>. QED
    BY <2>1, <2>2, CarriedClosedKept
<1>4. ASSUME NEW s \in Stagers, FindNewest(s)
      PROVE  CarriedClosed'
  <2>0. stager'[s].holds = {}
    BY <1>0, <1>4, FindNewestWrites DEF StagerSteps, Progress
  <2>1. \A t \in Stagers : \/ stager'[t].holds = {}
                           \/ /\ stager'[t].holds = stager[t].holds /\ stager'[t].landUse = stager[t].landUse
                              /\ stager[t].drops \subseteq stager'[t].drops
    BY <1>0, <1>4, <2>0, FindNewestWrites
  <2>2. served' = served /\ \A c \in BatchIds : batch'[c].holds = batch[c].holds
    BY <1>0, <1>4, <2>0, FindNewestWrites
  <2>. QED
    BY <2>1, <2>2, CarriedClosedKept
<1>5. ASSUME NEW s \in Stagers, Carry(s)
      PROVE  CarriedClosed'
  <2>. DEFINE new == stager[s].newest
  <2>1. /\ \A t \in Stagers \ {s} : stager'[t] = stager[t]
        /\ batch' = batch /\ served' = served /\ stager'[s].landUse = stager[s].landUse
        /\ stager'[s].drops = stager[s].drops \cup ({new} \cap {b \in BatchIds : Staged(b)})
        /\ stager'[s].holds \subseteq CarriedForward(s) \cup {stager[s].landUse}
    BY <1>0, <1>5, CarryWrites
  <2>2. ASSUME NEW b \in CarriedForward(s) PROVE b \in stager'[s].drops \/ ~Staged(b)
    <3>1. CASE new = 0
      BY <3>1 DEF CarriedForward, CarriedClosed
    <3>2. CASE new # 0 /\ b = new
      <4>1. new \in BatchIds
        BY <3>2, HeldIsThere
      <4>. QED
        BY <2>1, <3>2, <4>1
    <3>3. CASE new # 0 /\ b # new
      <4>1. new \in BatchIds /\ b \in batch[new].holds
        BY <3>3, HeldIsThere DEF CarriedForward
      <4>. QED
        BY <3>3, <4>1 DEF CarriedClosed
    <3>. QED
      BY <3>1, <3>2, <3>3
  <2>3. \A t \in Stagers : \A b \in stager'[t].holds :
          b = stager'[t].landUse \/ b \in stager'[t].drops \/ ~Staged(b)
    BY <2>1, <2>2 DEF CarriedClosed
  <2>. QED
    BY <2>1, <2>3 DEF CarriedClosed, Staged
<1>6. ASSUME NEW s \in Stagers, CommitStaging(s)
      PROVE  CarriedClosed'
  <2>. DEFINE st == stager[s]
  <2>1. \A b \in BatchIds : batch[b].status # "absent" /\ ~Staged(b) => batch'[b].status # "staged"
    BY DEF NoReturn, Staged
  <2>2. \A c \in BatchIds \ {st.own, st.landUse} : batch'[c].holds = batch[c].holds
    BY <1>0, <1>6, CommitStagingBatches
  <2>3. \A c \in BatchIds \cap {st.own, st.landUse} : \A b \in batch'[c].holds : b \in st.holds /\ c = st.landUse
    BY HeldIsThere, <1>0, <1>6, CommitStagingBatches
  <2>4. \A b \in st.holds : b = st.landUse \/ batch'[b].status # "staged"
    <3>1. ASSUME NEW b \in st.drops PROVE batch'[b].status = "superseded"
      <4>1. b \in BatchIds /\ batch[b].status = "staged"
        BY <1>0 DEF DropsLocked, Staged, Typed, StagerRecord
      <4>2. b \notin {st.own, st.landUse}
        BY <4>1, HeldIsThere, <1>0 DEF IdsApart, Taken
      <4>. QED
        BY <1>0, <1>6, <3>1, <4>1, <4>2, CommitStagingBatches
    <3>. QED
      BY <2>1, <3>1, HeldIsThere DEF CarriedClosed
  <2>5. \A c \in BatchIds : \A b \in batch'[c].holds : b # c => batch'[b].status # "staged"
    <3>1. ASSUME NEW c \in BatchIds \ {st.own, st.landUse}, NEW b \in batch'[c].holds, b # c
          PROVE  batch'[b].status # "staged"
      BY <2>1, <2>2, <3>1, HeldIsThere DEF CarriedClosed
    <3>2. ASSUME NEW c \in BatchIds \cap {st.own, st.landUse}, NEW b \in batch'[c].holds, b # c
          PROVE  batch'[b].status # "staged"
      BY <2>3, <2>4, <3>2
    <3>. QED
      BY <3>1, <3>2
  <2>6. \A b \in served' : batch'[b].status # "staged"
    BY <2>1, <1>0, <1>6, CommitStagingWrites, HeldIsThere DEF CarriedClosed
  <2>7. \A t \in Stagers : \A b \in stager'[t].holds :
          b = stager'[t].landUse \/ b \in stager'[t].drops \/ batch'[b].status # "staged"
    <3>1. stager'[s].holds = {}
      BY <1>0, <1>6, CommitStagingWrites DEF NotStaging
    <3>2. \A t \in Stagers \ {s} : stager'[t].holds = stager[t].holds /\ stager'[t].landUse = stager[t].landUse
                                   /\ stager'[t].drops = stager[t].drops
      BY <1>0, <1>6, CommitStagingOthers
    <3>. QED
      BY <2>1, <3>1, <3>2, HeldIsThere DEF CarriedClosed
  <2>. QED
    BY <2>5, <2>6, <2>7 DEF CarriedClosed, Staged
<1>7. ASSUME NEW s \in Stagers, GiveUp(s) \/ WaitForRun(s)
      PROVE  CarriedClosed'
  <2>1. \A t \in Stagers : \/ stager'[t].holds = {}
                           \/ /\ stager'[t].holds = stager[t].holds /\ stager'[t].landUse = stager[t].landUse
                              /\ stager[t].drops \subseteq stager'[t].drops
    BY <1>0, <1>7, GiveUpWrites, WaitForRunWrites DEF NotStaging
  <2>2. served' = served /\ \A c \in BatchIds : batch'[c].holds = batch[c].holds
    BY <1>0, <1>7, GiveUpWrites, WaitForRunWrites
  <2>. QED
    BY <2>1, <2>2, CarriedClosedKept
<1>8. ASSUME NEW b \in BatchIds, ApproveBatch(b) \/ RejectBatch(b)
      PROVE  CarriedClosed'
  <2>1. \A t \in Stagers : \/ stager'[t].holds = {}
                           \/ /\ stager'[t].holds = stager[t].holds /\ stager'[t].landUse = stager[t].landUse
                              /\ stager[t].drops \subseteq stager'[t].drops
    BY <1>0, <1>8, DecisionWrites
  <2>2. served' = served /\ \A c \in BatchIds : batch'[c].holds = batch[c].holds
    BY <1>0, <1>8, DecisionWrites
  <2>. QED
    BY <2>1, <2>2, CarriedClosedKept
<1>9. CASE GeometryPreflight \/ ChooseBatches \/ ApplyGeometry \/ PublishFails
  <2>1. \A t \in Stagers : \/ stager'[t].holds = {}
                           \/ /\ stager'[t].holds = stager[t].holds /\ stager'[t].landUse = stager[t].landUse
                              /\ stager[t].drops \subseteq stager'[t].drops
    BY <1>0, <1>9, PublisherWrites
  <2>2. served' = served /\ \A c \in BatchIds : batch'[c].holds = batch[c].holds
    BY <1>0, <1>9, PublisherWrites
  <2>. QED
    BY <2>1, <2>2, CarriedClosedKept
<1>10. CASE CommitPublish
  <2>1. \A b \in BatchIds : batch[b].status # "absent" /\ ~Staged(b) => batch'[b].status # "staged"
    BY DEF NoReturn, Staged
  <2>2. (\A c \in BatchIds : batch'[c].holds = batch[c].holds /\ batch'[c].status = Outcome(c)) /\ stager' = stager
    BY <1>0, <1>10, CommitPublishWrites
  <2>3. \A b \in served' : batch'[b].status # "staged"
    <3>1. CASE LandChosen = {}
      BY <2>1, <3>1, <1>0, <1>10, CommitPublishWrites, HeldIsThere DEF CarriedClosed
    <3>2. CASE LandChosen # {}
      <4>1. Highest(LandChosen) \in LandChosen /\ Highest(LandChosen) \in BatchIds
        BY <1>0, <3>2, HighestOfChosen
      <4>2. served' = batch[Highest(LandChosen)].holds
        BY <1>0, <1>10, <3>2, CommitPublishWrites
      <4>3. Outcome(Highest(LandChosen)) # "staged"
        BY <4>1 DEF Outcome, LandChosen
      <4>. QED
        BY <2>1, <2>2, <4>1, <4>2, <4>3, HeldIsThere DEF CarriedClosed
    <3>. QED
      BY <3>1, <3>2
  <2>4. \A c \in BatchIds : \A b \in batch'[c].holds : b # c => batch'[b].status # "staged"
    BY <2>1, <2>2, HeldIsThere DEF CarriedClosed
  <2>5. \A t \in Stagers : \A b \in stager'[t].holds :
          b = stager'[t].landUse \/ b \in stager'[t].drops \/ batch'[b].status # "staged"
    BY <2>1, <2>2, HeldIsThere DEF CarriedClosed
  <2>. QED
    BY <2>3, <2>4, <2>5 DEF CarriedClosed, Staged
<1>11. CASE UNCHANGED geometryVars
  <2>1. \A t \in Stagers : \/ stager'[t].holds = {}
                           \/ /\ stager'[t].holds = stager[t].holds /\ stager'[t].landUse = stager[t].landUse
                              /\ stager[t].drops \subseteq stager'[t].drops
    BY <1>11 DEF geometryVars, tables
  <2>2. served' = served /\ \A c \in BatchIds : batch'[c].holds = batch[c].holds
    BY <1>11 DEF geometryVars, tables
  <2>. QED
    BY <2>1, <2>2, CarriedClosedKept
<1>. QED
  BY <1>1, <1>2, <1>3, <1>4, <1>5, <1>6, <1>7, <1>8, <1>9, <1>10, <1>11 DEF GeometryNext

LEMMA RejectedStep ==
  ASSUME Shape, Shape', RowsKept, NoReturn, RejectInv, [GeometryNext]_geometryVars
  PROVE  RejectedUnused' /\ RejectedStaysOut'
<1>. DEFINE Goal == RejectedUnused' /\ RejectedStaysOut'
<1>0. Typed /\ StagerSteps /\ IdsApart /\ DropsLocked /\ HoldsKnown
  BY DEF Shape
<1>20. CarriedClosed /\ RejectedUnused /\ RejectedStaysOut
  BY DEF RejectInv
<1>. HIDE DEF Goal
<1>1. ASSUME NEW s \in Stagers, NEW p \in Plans, NEW brings \in Drawings, NEW label \in Labels,
             TakeLabel(s, p, brings, label)
      PROVE  Goal
  <2>1. \A t \in Stagers : /\ stager'[t].holds \in {{}, stager[t].holds}
                           /\ stager'[t].newest \in {0, stager[t].newest}
    BY <1>0, <1>1, TakeLabelWrites
  <2>2. /\ served' = served /\ refused' = refused /\ hasty' = hasty /\ batch' = batch
        /\ publisher'.chosen \in {{}, publisher.chosen}
    BY <1>0, <1>1, TakeLabelWrites
  <2>. QED
    BY <1>20, <2>1, <2>2, RejectedKept DEF Goal
<1>2. ASSUME NEW s \in Stagers, RecordInvalid(s)
      PROVE  Goal
  <2>1. \A t \in Stagers : /\ stager'[t].holds \in {{}, stager[t].holds}
                           /\ stager'[t].newest \in {0, stager[t].newest}
    BY <1>0, <1>2, RecordInvalidWrites DEF NotStaging
  <2>2. /\ served' = served /\ refused' = refused /\ hasty' = hasty /\ batch' = batch
        /\ publisher'.chosen \in {{}, publisher.chosen}
    BY <1>0, <1>2, RecordInvalidWrites
  <2>. QED
    BY <1>20, <2>1, <2>2, RejectedKept DEF Goal
<1>3. ASSUME NEW s \in Stagers, Clear(s)
      PROVE  Goal
  <2>1. \A t \in Stagers : /\ stager'[t].holds \in {{}, stager[t].holds}
                           /\ stager'[t].newest \in {0, stager[t].newest}
    BY <1>0, <1>3, ClearWrites
  <2>2. /\ served' = served /\ refused' = refused /\ hasty' = hasty /\ batch' = batch
        /\ publisher'.chosen \in {{}, publisher.chosen}
    BY <1>0, <1>3, ClearWrites
  <2>. QED
    BY <1>20, <2>1, <2>2, RejectedKept DEF Goal
<1>4. ASSUME NEW s \in Stagers, FindNewest(s)
      PROVE  Goal
  <2>1. /\ \A t \in Stagers \ {s} : stager'[t] = stager[t]
        /\ stager'[s].holds = stager[s].holds /\ stager'[s].newest = NewestStaged
        /\ batch' = batch /\ served' = served /\ publisher' = publisher /\ refused' = refused /\ hasty' = hasty
    BY <1>0, <1>4, FindNewestWrites
  <2>2. NewestStaged # 0 => Clean(batch[NewestStaged].holds)
    BY <1>0, <1>20, HighestOfStaged DEF RejectedStaysOut, Stands, Clean
  <2>3. RejectedStaysOut'
    BY <1>20, <2>1 DEF RejectedStaysOut, Stands, StagedLand, Staged
  <2>4. \A t \in Stagers : Clean(stager[t].holds)' /\ (stager'[t].newest # 0 => Clean(batch[stager[t].newest].holds)')
    BY <1>20, <2>1, <2>2 DEF RejectedUnused, Clean
  <2>5. LandChosen' = LandChosen
    BY <2>1 DEF LandChosen
  <2>6. RejectedUnused'
    BY <1>20, <2>1, <2>4, <2>5 DEF RejectedUnused, Clean
  <2>. QED
    BY <2>3, <2>6 DEF Goal
<1>5. ASSUME NEW s \in Stagers, Carry(s)
      PROVE  Goal
  <2>1. /\ \A t \in Stagers \ {s} : stager'[t] = stager[t]
        /\ stager'[s].holds \subseteq CarriedForward(s) \cup {stager[s].landUse}
        /\ stager'[s].newest = stager[s].newest /\ stager[s].at = "found"
        /\ batch' = batch /\ served' = served /\ publisher' = publisher /\ refused' = refused /\ hasty' = hasty
    BY <1>0, <1>5, CarryWrites
  <2>2. Clean(CarriedForward(s))
    <3>1. CASE stager[s].newest = 0
      BY <1>20, <3>1 DEF CarriedForward, RejectedStaysOut, Stands, Clean
    <3>2. CASE stager[s].newest # 0
      BY <1>20, <3>2 DEF CarriedForward, RejectedUnused, Clean
    <3>. QED
      BY <3>1, <3>2
  <2>3. stager[s].landUse \notin refused
    <3>1. stager[s].landUse # 0
      BY <1>0, <2>1 DEF StagerSteps, Progress
    <3>. QED
      BY <1>0, <3>1 DEF IdsApart, Taken, HoldsKnown
  <2>4. RejectedStaysOut'
    BY <1>20, <2>1 DEF RejectedStaysOut, Stands, StagedLand, Staged
  <2>5. \A t \in Stagers : Clean(stager[t].holds)' /\ (stager'[t].newest # 0 => Clean(batch[stager[t].newest].holds)')
    BY <1>20, <2>1, <2>2, <2>3 DEF RejectedUnused, Clean
  <2>6. LandChosen' = LandChosen
    BY <2>1 DEF LandChosen
  <2>7. RejectedUnused'
    BY <1>20, <2>1, <2>5, <2>6 DEF RejectedUnused, Clean
  <2>. QED
    BY <2>4, <2>7 DEF Goal
<1>6. ASSUME NEW s \in Stagers, CommitStaging(s)
      PROVE  Goal
  <2>. DEFINE st == stager[s]
  <2>1. served' = served /\ publisher' = publisher /\ refused' = refused /\ hasty' = hasty
        /\ \A t \in Stagers \ {s} : stager'[t].holds = stager[t].holds /\ stager'[t].newest = stager[t].newest
    <3>1. served' = served /\ publisher' = publisher /\ refused' = refused /\ hasty' = hasty
      BY <1>0, <1>6, CommitStagingWrites
    <3>2. \A t \in Stagers \ {s} :
            stager'[t].holds = stager[t].holds /\ stager'[t].newest = stager[t].newest
      BY <1>0, <1>6, CommitStagingOthers
    <3>. QED
      BY <3>1, <3>2
  <2>2. stager'[s].holds = {} /\ stager'[s].newest = 0
    BY <1>0, <1>6, CommitStagingWrites DEF NotStaging
  <2>3. \A b \in refused : batch[b].status = "rejected" => batch'[b].status = "rejected"
    <3>1. \A b \in refused : b \in BatchIds \ {st.own, st.landUse}
      BY <1>0, HeldIsThere DEF HoldsKnown, IdsApart, Taken
    <3>2. \A b \in refused : b \notin st.drops
      BY <1>0 DEF HoldsKnown, DropsLocked, Staged
    <3>. QED
      BY <1>0, <1>6, <3>1, <3>2, CommitStagingBatches
  <2>4. \A c \in StagedLand' : batch'[c].holds = st.holds \/ (c \in StagedLand /\ batch'[c].holds = batch[c].holds)
    <3>1. \A c \in StagedLand' : c \in BatchIds /\ batch'[c].status = "staged" /\ batch'[c].layer = "landUse"
      BY DEF StagedLand, Staged
    <3>2. st.own \notin StagedLand'
      BY <1>0, <1>6, <3>1, HeldIsThere, CommitStagingBatches
    <3>3. st.landUse \in StagedLand' => batch'[st.landUse].holds = st.holds
      BY <1>0, <1>6, <3>1, HeldIsThere, CommitStagingBatches
    <3>4. \A c \in BatchIds \ {st.own, st.landUse} :
            /\ batch'[c].holds = batch[c].holds /\ batch'[c].layer = batch[c].layer
            /\ batch'[c].status = "staged" => batch[c].status = "staged"
      BY <1>0, <1>6, CommitStagingBatches
    <3>. QED
      BY <3>1, <3>2, <3>3, <3>4 DEF StagedLand, Staged
  <2>5. Clean(st.holds)
    BY <1>20 DEF RejectedUnused
  <2>6. RejectedStaysOut'
    BY <1>20, <2>1, <2>3, <2>4, <2>5 DEF RejectedStaysOut, Stands, Clean
  <2>7. LandChosen' = LandChosen /\ \A c \in LandChosen : batch'[c].holds = batch[c].holds
    BY <2>1, HoldsStay DEF LandChosen
  <2>8. \A t \in Stagers : Clean(stager[t].holds)' /\ (stager'[t].newest # 0 => Clean(batch[stager[t].newest].holds)')
    BY <1>20, <2>1, <2>2, HoldsStay DEF RejectedUnused, Clean
  <2>9. RejectedUnused'
    BY <1>20, <2>1, <2>7, <2>8 DEF RejectedUnused, Clean
  <2>. QED
    BY <2>6, <2>9 DEF Goal
<1>7. ASSUME NEW s \in Stagers, GiveUp(s) \/ WaitForRun(s)
      PROVE  Goal
  <2>1. \A t \in Stagers : /\ stager'[t].holds \in {{}, stager[t].holds}
                           /\ stager'[t].newest \in {0, stager[t].newest}
    BY <1>0, <1>7, GiveUpWrites, WaitForRunWrites DEF NotStaging
  <2>2. /\ served' = served /\ refused' = refused /\ hasty' = hasty /\ batch' = batch
        /\ publisher'.chosen \in {{}, publisher.chosen}
    BY <1>0, <1>7, GiveUpWrites, WaitForRunWrites
  <2>. QED
    BY <1>20, <2>1, <2>2, RejectedKept DEF Goal
<1>8. ASSUME NEW b \in BatchIds, ApproveBatch(b) \/ RejectBatch(b)
      PROVE  Goal
  <2>0. /\ \A c \in BatchIds : batch'[c].holds = batch[c].holds /\ batch'[c].layer = batch[c].layer
        /\ \A c \in BatchIds \ {b} : batch'[c].status = batch[c].status
        /\ served' = served /\ stager' = stager /\ publisher' = publisher
        /\ Staged(b) /\ \A t \in Stagers : b \notin stager[t].drops
    BY <1>0, <1>8, DecisionWrites DEF Open, BatchFree
  <2>1. \A c \in refused : c # b
    BY <1>0, <2>0 DEF HoldsKnown, Staged
  <2>2. \A c \in refused : batch[c].status = "rejected" => batch'[c].status = "rejected"
    BY <2>0, <2>1, HeldIsThere
  <2>3. CASE refused' = refused /\ hasty' = hasty /\ batch'[b].status = "staged"
    BY <1>20, <2>0, <2>2, <2>3, RejectedKept DEF Goal, Staged
  <2>4. CASE /\ batch'[b].status = "rejected" /\ refused' = refused \cup {b}
             /\ hasty' = IF InUse(b) THEN hasty \cup {b} ELSE hasty
    <3>. DEFINE out == refused' \ hasty'
    <3>1. \A c \in out : c \in refused \ hasty \/ (c = b /\ ~InUse(b))
      BY <2>4
    <3>2. StagedLand' \subseteq StagedLand \ {b}
      BY <2>0, <2>4 DEF StagedLand, Staged
    <3>3. ~InUse(b) => /\ b \notin served /\ \A c \in BatchIds : b \in batch[c].holds => b = c
                       /\ \A t \in Stagers : b \notin stager[t].holds /\ stager[t].newest # b
                       /\ b \notin publisher.chosen
      <4>1. b \notin served /\ \A c \in BatchIds : b \in batch[c].holds => b = c
        BY <1>20, <2>0 DEF CarriedClosed
      <4>2. \A t \in Stagers : b # stager[t].landUse
        BY <1>0, <2>0, HeldIsThere DEF IdsApart, Taken, Staged
      <4>3. \A t \in Stagers : b \notin stager[t].holds
        BY <1>20, <2>0, <4>2 DEF CarriedClosed
      <4>. QED
        BY <4>1, <4>3 DEF InUse
    <3>. HIDE DEF out
    <3>4. \A c \in out : batch'[c].status = "rejected"
      BY <1>20, <2>2, <2>4, <3>1 DEF RejectedStaysOut
    <3>5. ASSUME NEW c \in out PROVE c \notin served /\ \A e \in StagedLand' : c \notin batch[e].holds
      <4>1. CASE c \in refused \ hasty
        BY <1>20, <3>2, <4>1 DEF RejectedStaysOut, Stands
      <4>2. CASE c = b /\ ~InUse(b)
        BY <3>2, <3>3, <4>2 DEF StagedLand
      <4>. QED
        BY <3>1, <4>1, <4>2
    <3>6. RejectedStaysOut'
      <4>1. \A e \in StagedLand' : e \in BatchIds
        BY DEF StagedLand
      <4>. QED
        BY <2>0, <3>4, <3>5, <4>1 DEF RejectedStaysOut, Stands, out
    <3>7. LandChosen' = LandChosen /\ LandChosen \subseteq publisher.chosen /\ LandChosen \subseteq BatchIds
      BY <2>0, HoldsStay, HeldIsThere DEF LandChosen
    <3>8. ASSUME NEW c \in out
          PROVE  /\ \A t \in Stagers : c \notin stager[t].holds
                 /\ \A t \in Stagers : stager[t].newest # 0 => c \notin batch[stager[t].newest].holds
                 /\ c \notin publisher.chosen
                 /\ \A e \in LandChosen : c \notin batch[e].holds
      <4>1. CASE c \in refused \ hasty
        BY <1>20, <4>1 DEF RejectedUnused, Clean
      <4>2. CASE c = b /\ ~InUse(b)
        BY <3>3, <3>7, <4>2, HeldIsThere
      <4>. QED
        BY <3>1, <4>1, <4>2
    <3>9. \A t \in Stagers : Clean(stager[t].holds)' /\ (stager'[t].newest # 0 => Clean(batch[stager[t].newest].holds)')
      BY <2>0, <3>8, HeldIsThere DEF Clean, out
    <3>10. Clean(publisher.chosen)' /\ \A e \in LandChosen' : Clean(batch[e].holds)'
      BY <2>0, <3>7, <3>8 DEF Clean, out
    <3>11. RejectedUnused'
      BY <3>9, <3>10 DEF RejectedUnused
    <3>. QED
      BY <3>6, <3>11 DEF Goal
  <2>. QED
    BY <1>0, <1>8, <2>3, <2>4, DecisionWrites
<1>9. CASE GeometryPreflight \/ ChooseBatches \/ ApplyGeometry \/ PublishFails
  <2>0. batch' = batch /\ served' = served /\ stager' = stager /\ refused' = refused /\ hasty' = hasty
    BY <1>0, <1>9, PublisherWrites
  <2>1. CASE publisher'.chosen \in {{}, publisher.chosen}
    BY <1>20, <2>0, <2>1, RejectedKept DEF Goal
  <2>2. CASE publisher'.chosen = StagedBatches
    <3>1. RejectedStaysOut'
      BY <1>20, <2>0 DEF RejectedStaysOut, Stands, StagedLand, Staged
    <3>2. Clean(publisher.chosen)'
      BY <1>0, <2>0, <2>2 DEF Clean, StagedBatches, Staged, HoldsKnown
    <3>3. LandChosen' \subseteq StagedLand
      BY <2>0, <2>2 DEF LandChosen, StagedBatches, StagedLand
    <3>4. \A c \in LandChosen' : Clean(batch[c].holds)'
      BY <1>20, <2>0, <3>3 DEF RejectedStaysOut, Stands, Clean
    <3>5. \A t \in Stagers : Clean(stager[t].holds)' /\ (stager'[t].newest # 0 => Clean(batch[stager[t].newest].holds)')
      BY <1>20, <2>0 DEF RejectedUnused, Clean
    <3>6. RejectedUnused'
      BY <3>2, <3>4, <3>5 DEF RejectedUnused
    <3>. QED
      BY <3>1, <3>6 DEF Goal
  <2>. QED
    BY <1>0, <1>9, <2>1, <2>2, PublisherWrites
<1>10. CASE CommitPublish
  <2>0. /\ \A c \in BatchIds : /\ batch'[c].holds = batch[c].holds /\ batch'[c].layer = batch[c].layer
                               /\ batch'[c].status = Outcome(c)
        /\ stager' = stager /\ refused' = refused /\ hasty' = hasty /\ publisher'.chosen = {}
        /\ served' = IF LandChosen = {} THEN served ELSE batch[Highest(LandChosen)].holds
    BY <1>0, <1>10, CommitPublishWrites
  <2>1. \A b \in refused \ hasty : b \in BatchIds /\ batch'[b].status = "rejected"
    BY <1>20, <2>0, HeldIsThere DEF Outcome, RejectedStaysOut, RejectedUnused, Clean
  <2>2. StagedLand' \subseteq StagedLand
    BY <2>0 DEF StagedLand, Staged, Outcome
  <2>3. Clean(served')
    <3>1. LandChosen # {} => Highest(LandChosen) \in LandChosen
      BY <1>0, HighestOfChosen
    <3>. QED
      BY <1>20, <2>0, <3>1 DEF Clean, RejectedUnused, RejectedStaysOut, Stands
  <2>4. RejectedStaysOut'
    BY <1>20, <2>0, <2>1, <2>2, <2>3 DEF RejectedStaysOut, Stands, StagedLand, Clean
  <2>5. LandChosen' = {}
    BY <2>0 DEF LandChosen
  <2>6. \A t \in Stagers : Clean(stager[t].holds)' /\ (stager'[t].newest # 0 => Clean(batch[stager[t].newest].holds)')
    BY <1>20, <2>0, HeldIsThere DEF RejectedUnused, Clean
  <2>7. RejectedUnused'
    BY <2>0, <2>5, <2>6 DEF RejectedUnused, Clean
  <2>. QED
    BY <2>4, <2>7 DEF Goal
<1>11. CASE UNCHANGED geometryVars
  <2>1. \A t \in Stagers : /\ stager'[t].holds \in {{}, stager[t].holds}
                           /\ stager'[t].newest \in {0, stager[t].newest}
    BY <1>11 DEF geometryVars, tables, history
  <2>2. /\ served' = served /\ refused' = refused /\ hasty' = hasty /\ batch' = batch
        /\ publisher'.chosen \in {{}, publisher.chosen}
    BY <1>11 DEF geometryVars, tables, history
  <2>. QED
    BY <1>20, <2>1, <2>2, RejectedKept DEF Goal
<1>. QED
  BY <1>1, <1>2, <1>3, <1>4, <1>5, <1>6, <1>7, <1>8, <1>9, <1>10, <1>11 DEF GeometryNext, Goal

LEMMA RejectStep ==
  ASSUME Shape, RejectInv, [GeometryNext]_geometryVars
  PROVE  RejectInv'
<1>1. Shape' /\ RowsKept /\ NoReturn
  BY ShapeStep, NoReturnStep
<1>2. CarriedClosed'
  BY <1>1, CarriedClosedStep DEF RejectInv
<1>3. RejectedUnused' /\ RejectedStaysOut'
  BY <1>1, RejectedStep
<1>. QED
  BY <1>2, <1>3 DEF RejectInv

LEMMA RejectInit ==
  ASSUME GeometryInit
  PROVE  RejectInv
<1>1. /\ \A b \in BatchIds : batch[b].holds = {}
      /\ \A s \in Stagers : stager[s] = NotStaging
      /\ served = {} /\ refused = {} /\ publisher.chosen = {}
  BY DEF NotPublishing, GeometryInit, NoBatch
<1>. QED
  BY <1>1 DEF RejectInv, CarriedClosed, RejectedUnused, RejectedStaysOut, Clean, NotStaging,
     LandChosen

(* RejectedStaysOut: what a reviewer has rejected while nobody was using   *)
(* it stays rejected, off the map and out of every staged batch            *)
(* (geometry_review.py: "a rejected batch never returns").                 *)
THEOREM RejectedOut == GeometrySpec => []RejectedStaysOut
<1>1. GeometryInit => Shape /\ RejectInv
  BY ShapeInit, RejectInit
<1>2. Shape /\ RejectInv /\ [GeometryNext]_geometryVars => (Shape /\ RejectInv)'
  BY ShapeStep, RejectStep
<1>3. RejectInv => RejectedStaysOut
  BY DEF RejectInv
<1>. QED
  BY <1>1, <1>2, <1>3, PTL DEF GeometrySpec

-----------------------------------------------------------------------------
(* What may go missing: two stagings overlooked each other, a batch that   *)
(* held it was rejected, or a later run of its plan replaced it.           *)
Excused(b) ==
  \/ b \in overlooked
  \/ \E c \in refused : b \in batch[c].holds
  \/ \E n \in DOMAIN dataset : dataset[n].landUse = b /\ Replaced(n)

(* Everything in ids that is not excused is in kept.                       *)
Covers(kept, ids) == \A b \in ids : b \in kept \/ Excused(b)

(* A staged land-use batch has what every other one, the map and what is   *)
(* being published have.                                                   *)
StagedAlike ==
  /\ \A c \in StagedLand \cup LandChosen, d \in StagedLand : Covers(batch[d].holds, batch[c].holds)
  /\ \A c, d \in LandChosen : Covers(batch[d].holds, batch[c].holds)
  /\ \A c \in LandChosen : StagedLand = {} => Covers({}, batch[c].holds)
  /\ \A c \in StagedLand \cup LandChosen : Covers(batch[c].holds, served)

(* A staging that has looked for the newest batch will carry what is       *)
(* staged, chosen or served, but for its own plan and what it has missed.  *)
Newest(s) == IF stager[s].newest = 0 THEN {} ELSE batch[stager[s].newest].holds
Missed(s) == UNION {batch[m].holds : m \in stager[s].missed}
OfPlan(s) == {b \in BatchIds : batch[b].plan = stager[s].plan}
CarriesLand(s) ==
  stager[s].landUse # 0 =>
    /\ \A c \in StagedLand \cup LandChosen : c \in stager[s].missed \/ Covers(Newest(s), batch[c].holds)
    /\ stager[s].newest # 0 => Covers(Newest(s) \cup Missed(s), served)
    /\ stager[s].at = "carried" =>
         /\ Newest(s) \subseteq stager[s].holds \cup OfPlan(s)
         /\ Covers(stager[s].holds \cup OfPlan(s) \cup Missed(s), served)

LandStands == \A b \in BatchIds : b \in batch[b].holds => Stands(b) \/ Excused(b)
KeptInv == StagedAlike /\ (\A s \in Stagers : CarriesLand(s)) /\ LandStands

(* An excuse stays one.                                                    *)
HistoryGrows ==
  /\ overlooked \subseteq overlooked' /\ refused \subseteq refused'
  /\ \A n \in DOMAIN dataset : dataset[n].status # "invalid" => dataset'[n].status # "invalid"

LEMMA HistoryGrowsStep ==
  ASSUME Typed, [GeometryNext]_geometryVars
  PROVE  HistoryGrows
<1>1. ASSUME NEW s \in Stagers, NEW p \in Plans, NEW brings \in Drawings, NEW label \in Labels,
             TakeLabel(s, p, brings, label)
      PROVE  HistoryGrows
  BY <1>1, TakeLabelWrites DEF HistoryGrows
<1>2. ASSUME NEW s \in Stagers, RecordInvalid(s)
      PROVE  HistoryGrows
  BY <1>2, RecordInvalidWrites DEF HistoryGrows
<1>3. ASSUME NEW s \in Stagers, Clear(s)
      PROVE  HistoryGrows
  BY <1>3, ClearWrites DEF HistoryGrows
<1>4. ASSUME NEW s \in Stagers, FindNewest(s)
      PROVE  HistoryGrows
  BY <1>4, FindNewestWrites DEF HistoryGrows
<1>5. ASSUME NEW s \in Stagers, Carry(s)
      PROVE  HistoryGrows
  BY <1>5, CarryWrites DEF HistoryGrows
<1>6. ASSUME NEW s \in Stagers, CommitStaging(s)
      PROVE  HistoryGrows
  BY <1>6, CommitStagingWrites DEF HistoryGrows
<1>7. ASSUME NEW s \in Stagers, GiveUp(s) \/ WaitForRun(s)
      PROVE  HistoryGrows
  BY <1>7, GiveUpWrites, WaitForRunWrites DEF HistoryGrows
<1>8. ASSUME NEW b \in BatchIds, ApproveBatch(b) \/ RejectBatch(b)
      PROVE  HistoryGrows
  BY <1>8, DecisionWrites DEF HistoryGrows
<1>9. CASE GeometryPreflight \/ ChooseBatches \/ ApplyGeometry \/ PublishFails
  BY <1>9, PublisherWrites DEF HistoryGrows
<1>10. CASE CommitPublish
  <2>1. \A n \in DOMAIN dataset : Marked(n) \in {"superseded", "published", dataset[n].status}
    BY DEF Marked
  <2>. QED
    BY <1>10, <2>1, CommitPublishWrites DEF HistoryGrows
<1>11. CASE UNCHANGED geometryVars
  BY <1>11 DEF geometryVars, tables, history, HistoryGrows
<1>. QED
  BY <1>1, <1>2, <1>3, <1>4, <1>5, <1>6, <1>7, <1>8, <1>9, <1>10, <1>11 DEF GeometryNext

LEMMA ExcuseStays ==
  ASSUME Shape, RowsKept, HistoryGrows, NEW b, Excused(b)
  PROVE  Excused(b)'
<1>1. CASE b \in overlooked
  BY <1>1 DEF Excused, HistoryGrows
<1>2. CASE \E c \in refused : b \in batch[c].holds
  <2>1. PICK c \in refused : b \in batch[c].holds
    BY <1>2
  <2>2. c \in BatchIds /\ batch[c].status # "absent"
    BY HeldIsThere DEF Shape, HoldsKnown
  <2>3. b \in batch'[c].holds /\ c \in refused'
    BY <2>1, <2>2 DEF RowsKept, HistoryGrows
  <2>. QED
    BY <2>3 DEF Excused
<1>3. CASE \E n \in DOMAIN dataset : dataset[n].landUse = b /\ Replaced(n)
  <2>1. PICK n \in DOMAIN dataset : dataset[n].landUse = b /\ Replaced(n)
    BY <1>3
  <2>2. PICK m \in DOMAIN dataset : m > n /\ dataset[m].plan = dataset[n].plan /\ dataset[m].status # "invalid"
    BY <2>1 DEF Replaced
  <2>3. n \in DOMAIN dataset' /\ dataset'[n].landUse = b
        /\ m \in DOMAIN dataset' /\ m > n /\ dataset'[m].plan = dataset'[n].plan /\ dataset'[m].status # "invalid"
    BY <2>1, <2>2 DEF RowsKept, HistoryGrows
  <2>. QED
    BY <2>3 DEF Excused, Replaced
<1>. QED
  BY <1>1, <1>2, <1>3 DEF Excused

(* A new run of a plan replaces what the plan has had.                     *)
LEMMA PlanReplaced ==
  ASSUME Shape, RowsKept, NEW s \in Stagers, CommitStaging(s), NEW b \in BatchIds, Origin(b),
         batch[b].plan = stager[s].plan
  PROVE  Excused(b)'
<1>0. Typed
  BY DEF Shape
<1>1. PICK n \in DOMAIN dataset : dataset[n].landUse = b
  BY DEF Origin
<1>2. b # 0
  BY GeometryAssumption DEF BatchIds
<1>3. dataset[n].plan = stager[s].plan
  BY <1>1, <1>2 DEF Shape, DatasetBatches
<1>. DEFINE N == Len(dataset) + 1
<1>4. N \in DOMAIN dataset' /\ dataset'[N] = Row(s, "staged")
  BY <1>0, CommitStagingWrites
<1>5. dataset'[N].plan = stager[s].plan /\ dataset'[N].status = "staged"
  BY <1>4 DEF Row
<1>6. N > n
  BY <1>0, NextRow
<1>7. n \in DOMAIN dataset' /\ dataset'[n].plan = stager[s].plan /\ dataset'[n].landUse = b
  BY <1>1, <1>3 DEF RowsKept
<1>. HIDE DEF N
<1>8. \E m \in DOMAIN dataset' : m > n /\ dataset'[m].plan = dataset'[n].plan /\ dataset'[m].status # "invalid"
  BY <1>4, <1>5, <1>6, <1>7
<1>. QED
  BY <1>7, <1>8 DEF Excused, Replaced

(* What is held has come with a dataset.                                   *)
LEMMA HeldHasOrigin ==
  ASSUME Shape
  PROVE  /\ \A c \in BatchIds : \A b \in batch[c].holds : Origin(b)
         /\ \A b \in served : Origin(b)
BY DEF Shape, HoldsKnown

(* Where no batch, map or choice changes, they stay alike.                 *)
LEMMA AlikeKept ==
  ASSUME Shape, Shape', RowsKept, HistoryGrows, StagedAlike, LandStands,
         batch' = batch, served' = served, publisher'.chosen \in {{}, publisher.chosen}
  PROVE  StagedAlike' /\ LandStands'
<1>1. \A b : Excused(b) => Excused(b)'
  BY ExcuseStays
<1>2. StagedLand' = StagedLand /\ LandChosen' \subseteq LandChosen
  BY DEF StagedLand, Staged, LandChosen
<1>3. StagedAlike'
  BY <1>1, <1>2 DEF StagedAlike, Covers
<1>4. LandStands'
  BY <1>1, <1>2 DEF LandStands, Stands
<1>. QED
  BY <1>3, <1>4

(* A staging that waits carries the same.                                  *)
LEMMA CarriesLandKept ==
  ASSUME Shape, Shape', RowsKept, HistoryGrows, NEW s \in Stagers, CarriesLand(s),
         \/ stager'[s].landUse = 0
         \/ /\ stager'[s].at = stager[s].at /\ stager'[s].plan = stager[s].plan
            /\ stager'[s].landUse = stager[s].landUse /\ stager'[s].newest = stager[s].newest
            /\ stager'[s].holds = stager[s].holds /\ stager[s].missed \subseteq stager'[s].missed,
         \A c \in (StagedLand \cup LandChosen)' :
           \/ c \in (StagedLand \cup LandChosen) /\ batch'[c].holds = batch[c].holds
           \/ c \in stager'[s].missed,
         \A b \in served' \ served : \E c \in LandChosen : b \in batch[c].holds /\ batch[c].holds = served'
  PROVE  CarriesLand(s)'
<1>0. \A b : Excused(b) => Excused(b)'
  BY ExcuseStays
<1>1. CASE stager'[s].landUse = 0
  BY <1>1 DEF CarriesLand
<1>2. CASE /\ stager'[s].at = stager[s].at /\ stager'[s].plan = stager[s].plan
           /\ stager'[s].landUse = stager[s].landUse /\ stager'[s].newest = stager[s].newest
           /\ stager'[s].holds = stager[s].holds /\ stager[s].missed \subseteq stager'[s].missed
           /\ stager[s].landUse # 0
  <2>1. Newest(s)' = Newest(s)
    BY <1>2, HoldsStay DEF Newest
  <2>2. Missed(s) \subseteq Missed(s)'
    <3>1. \A m \in stager[s].missed : m \in BatchIds /\ batch[m].holds \subseteq batch'[m].holds
      <4>1. \A m \in stager[s].missed : m \in BatchIds
        BY DEF Shape, Typed, StagerRecord
      <4>2. \A m \in BatchIds : batch[m].status = "absent" => batch[m].holds = {}
        BY DEF Shape, HoldsKnown
      <4>. QED
        BY <4>1, <4>2, HoldsStay
    <3>. QED
      BY <1>2, <3>1 DEF Missed
  <2>3. \A b \in Newest(s) \cup served : b \in OfPlan(s) => b \in OfPlan(s)'
    <3>1. \A b \in Newest(s) \cup served : b \in BatchIds /\ batch[b].status # "absent"
      BY HeldIsThere DEF Newest
    <3>. QED
      BY <1>2, <3>1 DEF OfPlan, RowsKept
  <2>4. \A c \in StagedLand \cup LandChosen : c \in stager[s].missed \/ Covers(Newest(s), batch[c].holds)
    BY <1>2 DEF CarriesLand
  <2>5. \A c \in (StagedLand \cup LandChosen)' : c \in stager'[s].missed \/ Covers(Newest(s), batch[c].holds)'
    BY <1>0, <1>2, <2>1, <2>4 DEF Covers
  <2>6. \A b \in served' : b \in served \/ b \in Missed(s)' \/ b \in Newest(s) \/ Excused(b)
    <3>1. ASSUME NEW b \in served' \ served PROVE b \in Missed(s)' \/ b \in Newest(s) \/ Excused(b)
      <4>1. PICK c \in LandChosen : b \in batch[c].holds
        OBVIOUS
      <4>2. CASE c \in stager[s].missed
        BY <2>2, <4>1, <4>2 DEF Missed
      <4>3. CASE Covers(Newest(s), batch[c].holds)
        BY <4>1, <4>3 DEF Covers
      <4>. QED
        BY <2>4, <4>2, <4>3
    <3>. QED
      BY <3>1
  <2>7. stager'[s].newest # 0 => Covers(Newest(s) \cup Missed(s), served)'
    BY <1>0, <1>2, <2>1, <2>2, <2>6 DEF CarriesLand, Covers
  <2>8. stager'[s].at = "carried" =>
         /\ Newest(s)' \subseteq stager'[s].holds \cup OfPlan(s)'
         /\ Covers(stager[s].holds \cup OfPlan(s) \cup Missed(s), served)'
    <3>1. SUFFICES ASSUME stager[s].at = "carried"
                   PROVE  /\ Newest(s)' \subseteq stager'[s].holds \cup OfPlan(s)'
                          /\ Covers(stager[s].holds \cup OfPlan(s) \cup Missed(s), served)'
      BY <1>2
    <3>2. Newest(s) \subseteq stager[s].holds \cup OfPlan(s)
      BY <1>2, <3>1 DEF CarriesLand
    <3>3. Newest(s)' \subseteq stager'[s].holds \cup OfPlan(s)'
      BY <1>2, <2>1, <2>3, <3>2
    <3>4. \A b \in served : b \in stager[s].holds \cup OfPlan(s) \cup Missed(s) \/ Excused(b)
      BY <1>2, <3>1 DEF CarriesLand, Covers
    <3>5. \A b \in served' : b \in stager'[s].holds \cup OfPlan(s)' \cup Missed(s)' \/ Excused(b)'
      BY <1>0, <1>2, <2>1, <2>2, <2>3, <2>6, <3>3, <3>4
    <3>. QED
      BY <3>3, <3>5 DEF Covers
  <2>. QED
    BY <2>5, <2>7, <2>8 DEF CarriesLand
<1>. QED
  BY <1>1, <1>2

(* What a staging was about to supersede is what it has carried forward.   *)
LEMMA CommittedLand ==
  ASSUME Shape, Shape', RowsKept, NEW s \in Stagers, CommitStaging(s)
  PROVE  /\ stager[s].landUse = 0 => StagedLand' = StagedLand
         /\ stager[s].landUse # 0 => StagedLand' = (StagedLand \ stager[s].drops) \cup {stager[s].landUse}
         /\ stager[s].landUse # 0 =>
              batch'[stager[s].landUse].holds = stager[s].holds /\ stager[s].landUse \in BatchIds
         /\ \A c \in StagedLand \cup LandChosen : batch'[c].holds = batch[c].holds
         /\ LandChosen' = LandChosen
         /\ \A b \in BatchIds : b \in batch'[b].holds => b \in batch[b].holds \/ b = stager[s].landUse
<1>0. Typed /\ StagerSteps /\ IdsApart /\ DropsLocked
  BY DEF Shape
<1>. DEFINE st == stager[s]
<1>1. /\ st.own # 0 => st.own \in BatchIds /\ batch[st.own].status = "absent" /\ st.own # st.landUse
      /\ st.landUse # 0 => st.landUse \in BatchIds /\ batch[st.landUse].status = "absent"
  BY <1>0, GeometryAssumption DEF Typed, StagerRecord, BatchIds, IdsApart, Taken
<1>2. \A b \in st.drops : b \in BatchIds /\ batch[b].layer = "landUse" => st.landUse # 0
  <2>1. st.landUse = 0 => st.newest = 0
    BY <1>0 DEF StagerSteps, Progress
  <2>2. st.drops \subseteq BatchIds /\ 0 \notin BatchIds
    BY <1>0, HeldIsThere DEF Typed, StagerRecord
  <2>. QED
    BY <1>0, <2>1, <2>2 DEF DropsLocked
<1>4. 0 \notin BatchIds
  BY HeldIsThere
<1>5. /\ st.own # 0 => batch'[st.own].layer = "own" /\ batch'[st.own].holds = {}
      /\ st.landUse # 0 => LET new == batch'[st.landUse] IN
           new.layer = "landUse" /\ new.status = "staged" /\ new.holds = st.holds
      /\ \A b \in BatchIds \ {st.own, st.landUse} :
           /\ batch'[b].layer = batch[b].layer /\ batch'[b].holds = batch[b].holds
           /\ batch'[b].status = IF b \in st.drops THEN "superseded" ELSE batch[b].status
  BY <1>0, CommitStagingBatches
<1>. HIDE DEF st
<1>6. ASSUME NEW b \in BatchIds, b # st.landUse
      PROVE  b \in StagedLand' <=> b \in StagedLand \ st.drops
  <2>1. CASE b = st.own
    BY <1>1, <1>4, <1>5, <2>1 DEF StagedLand, Staged
  <2>2. CASE b # st.own
    BY <1>5, <1>6, <2>2 DEF StagedLand, Staged
  <2>. QED
    BY <2>1, <2>2
<1>7. st.landUse # 0 => st.landUse \in StagedLand' /\ st.landUse \notin StagedLand
  BY <1>1, <1>5 DEF StagedLand, Staged
<1>8. st.landUse = 0 => StagedLand \cap st.drops = {}
  BY <1>2 DEF StagedLand
<1>9. st.landUse = 0 => StagedLand' = StagedLand
  <2>1. \A b \in BatchIds : st.landUse = 0 => (b \in StagedLand' <=> b \in StagedLand)
    BY <1>4, <1>6, <1>8
  <2>. QED
    BY <2>1 DEF StagedLand
<1>10. st.landUse # 0 => StagedLand' = (StagedLand \ st.drops) \cup {st.landUse}
  <2>1. \A b \in BatchIds : st.landUse # 0 => (b \in StagedLand' <=> b \in (StagedLand \ st.drops) \cup {st.landUse})
    BY <1>6, <1>7
  <2>2. StagedLand \subseteq BatchIds /\ StagedLand' \subseteq BatchIds
    BY DEF StagedLand
  <2>. QED
    BY <1>1, <2>1, <2>2
<1>11. \A c \in StagedLand \cup LandChosen : batch'[c].holds = batch[c].holds
  BY HoldsStay DEF StagedLand, Staged, LandChosen
<1>12. LandChosen' = LandChosen
  BY <1>0, HoldsStay, CommitStagingWrites
<1>13. \A b \in BatchIds : b \in batch'[b].holds => b \in batch[b].holds \/ b = st.landUse
  BY <1>4, <1>5
<1>. QED
  BY <1>1, <1>5, <1>9, <1>10, <1>11, <1>12, <1>13 DEF st

(* What a new batch and those beside it do not share has been noted.       *)
LEMMA NotedAstray ==
  ASSUME Typed, NEW s \in Stagers, CommitStaging(s), stager[s].landUse # 0,
         NEW c \in stager[s].missed \cup (StagedLand \ stager[s].drops)
  PROVE  /\ \A b \in batch[c].holds : b \in stager[s].holds \/ Excused(b)'
         /\ \A b \in stager[s].holds : b \in batch[c].holds \/ Excused(b)'
<1>1. overlooked' = overlooked \cup Astray(s)
  BY CommitStagingWrites
<1>2. (batch[c].holds \ stager[s].holds) \cup (stager[s].holds \ batch[c].holds) \subseteq Astray(s)
  BY DEF Astray
<1>. QED
  BY <1>1, <1>2 DEF Excused

LEMMA CommitStagingKeeps ==
  ASSUME Shape, Shape', RowsKept, HistoryGrows, KeptInv, NEW s \in Stagers, CommitStaging(s)
  PROVE  KeptInv'
<1>. DEFINE l == stager[s].landUse
            beside == StagedLand \ stager[s].drops
<1>0. /\ Typed /\ served' = served /\ stager'[s] = NotStaging
      /\ \A t \in Stagers \ {s} : LET old == stager[t] new == stager'[t] IN
              /\ new.at = old.at /\ new.plan = old.plan
              /\ new.landUse = old.landUse /\ new.newest = old.newest /\ new.holds = old.holds
              /\ new.missed = IF l # 0 /\ old.landUse # 0 THEN old.missed \cup {l} ELSE old.missed
      /\ stager[s].at = "carried"
  <2>1. Typed
    BY DEF Shape
  <2>2. served' = served /\ stager'[s] = NotStaging /\ stager[s].at = "carried"
    BY <2>1, CommitStagingWrites
  <2>3. ASSUME NEW t \in Stagers \ {s}
        PROVE  LET old == stager[t] new == stager'[t] IN
              /\ new.at = old.at /\ new.plan = old.plan
              /\ new.landUse = old.landUse /\ new.newest = old.newest /\ new.holds = old.holds
              /\ new.missed = IF l # 0 /\ old.landUse # 0 THEN old.missed \cup {l} ELSE old.missed
    BY <2>1, CommitStagingOthers
  <2>. QED
    BY <2>1, <2>2, <2>3
<1>1. \A b : Excused(b) => Excused(b)'
  BY ExcuseStays
<1>2. /\ l = 0 => StagedLand' = StagedLand
      /\ l # 0 => StagedLand' = beside \cup {l} /\ batch'[l].holds = stager[s].holds /\ l \in BatchIds
      /\ \A c \in StagedLand \cup LandChosen : batch'[c].holds = batch[c].holds
      /\ LandChosen' = LandChosen
      /\ \A b \in BatchIds : b \in batch'[b].holds => b \in batch[b].holds \/ b = l
  BY CommittedLand
<1>3. StagedAlike /\ LandStands /\ \A t \in Stagers : CarriesLand(t)
  BY DEF KeptInv
<1>4. \A t \in Stagers : CarriesLand(t)'
  <2>1. CarriesLand(s)'
    BY <1>0 DEF CarriesLand, NotStaging
  <2>2. ASSUME NEW t \in Stagers \ {s} PROVE CarriesLand(t)'
    <3>1. CASE stager[t].landUse = 0
      BY <1>0, <3>1 DEF CarriesLand
    <3>2. CASE stager[t].landUse # 0
      <4>1. CarriesLand(t) /\ t \in Stagers
        BY <1>3
      <4>2. \A c \in (StagedLand \cup LandChosen)' :
              \/ c \in (StagedLand \cup LandChosen) /\ batch'[c].holds = batch[c].holds
              \/ c \in stager'[t].missed
        BY <1>0, <1>2, <3>2
      <4>3. /\ stager'[t].at = stager[t].at /\ stager'[t].plan = stager[t].plan
            /\ stager'[t].landUse = stager[t].landUse /\ stager'[t].newest = stager[t].newest
            /\ stager'[t].holds = stager[t].holds /\ stager[t].missed \subseteq stager'[t].missed
        BY <1>0
      <4>. QED
        BY <1>0, <4>1, <4>2, <4>3, CarriesLandKept
    <3>. QED
      BY <3>1, <3>2
  <2>. QED
    BY <2>1, <2>2
<1>5. CASE l = 0
  <2>1. StagedAlike'
    BY <1>0, <1>1, <1>2, <1>3, <1>5 DEF StagedAlike, Covers
  <2>2. LandStands'
    <3>1. 0 \notin BatchIds
      BY HeldIsThere
    <3>. QED
      BY <1>0, <1>1, <1>2, <1>3, <1>5, <3>1 DEF LandStands, Stands
  <2>. QED
    BY <1>4, <2>1, <2>2 DEF KeptInv
<1>6. CASE l # 0
  <2>1. \A b \in OfPlan(s) : Origin(b) => Excused(b)'
    BY PlanReplaced DEF OfPlan
  <2>2. /\ \A c \in StagedLand \cup LandChosen : c \in stager[s].missed \/ Covers(Newest(s), batch[c].holds)
        /\ Newest(s) \subseteq stager[s].holds \cup OfPlan(s)
        /\ Covers(stager[s].holds \cup OfPlan(s) \cup Missed(s), served)
    BY <1>0, <1>3, <1>6 DEF CarriesLand
  <2>3. /\ StagedLand \cup LandChosen \subseteq BatchIds /\ stager[s].missed \subseteq BatchIds
        /\ stager[s].newest # 0 => stager[s].newest \in BatchIds
    BY <1>0, HeldIsThere DEF StagedLand, LandChosen, Typed, StagerRecord
  <2>4. \A b \in Newest(s) : b \in stager[s].holds \/ Excused(b)'
    <3>1. \A b \in Newest(s) : Origin(b)
      BY <2>3, HeldHasOrigin DEF Newest
    <3>. QED
      BY <2>1, <2>2, <3>1
  <2>5. ASSUME NEW c \in StagedLand \cup LandChosen, c \in beside \cup LandChosen, NEW b \in batch[c].holds
        PROVE  b \in stager[s].holds \/ Excused(b)'
    <3>1. CASE c \in stager[s].missed \cup beside
      BY <1>0, <1>6, <2>5, <3>1, NotedAstray
    <3>2. CASE Covers(Newest(s), batch[c].holds)
      BY <1>1, <2>4, <2>5, <3>2 DEF Covers
    <3>. QED
      BY <2>2, <2>5, <3>1, <3>2
  <2>6. ASSUME NEW d \in beside, NEW b \in stager[s].holds
        PROVE  b \in batch[d].holds \/ Excused(b)'
    BY <1>0, <1>6, NotedAstray
  <2>7. ASSUME NEW b \in served
        PROVE  b \in stager[s].holds \/ Excused(b)'
    <3>1. CASE b \in Missed(s)
      <4>1. PICK m \in stager[s].missed : b \in batch[m].holds
        BY <3>1 DEF Missed
      <4>. QED
        BY <1>0, <1>6, <4>1, NotedAstray
    <3>2. CASE b \in OfPlan(s)
      BY <2>1, <3>2, HeldHasOrigin
    <3>. QED
      BY <1>1, <2>2, <3>1, <3>2 DEF Covers
  <2>8. StagedAlike'
    <3>1. ASSUME NEW c \in (StagedLand \cup LandChosen)', NEW d \in StagedLand'
          PROVE  Covers(batch[d].holds, batch[c].holds)'
      <4>1. c = l \/ c \in beside \cup LandChosen
        BY <1>2, <1>6
      <4>2. d = l \/ d \in beside
        BY <1>2, <1>6
      <4>3. CASE c = l /\ d = l
        BY <4>3 DEF Covers
      <4>4. CASE c = l /\ d \in beside
        BY <1>2, <1>6, <2>6, <4>4 DEF Covers
      <4>5. CASE c \in beside \cup LandChosen /\ d = l
        BY <1>2, <1>6, <2>5, <4>5 DEF Covers
      <4>6. CASE c \in beside \cup LandChosen /\ d \in beside
        BY <1>1, <1>2, <1>3, <4>6 DEF Covers, StagedAlike
      <4>. QED
        BY <4>1, <4>2, <4>3, <4>4, <4>5, <4>6
    <3>2. \A c, d \in LandChosen' : Covers(batch[d].holds, batch[c].holds)'
      BY <1>1, <1>2, <1>3 DEF Covers, StagedAlike
    <3>3. StagedLand' # {}
      BY <1>2, <1>6
    <3>4. ASSUME NEW c \in (StagedLand \cup LandChosen)' PROVE Covers(batch[c].holds, served)'
      <4>1. c = l \/ c \in beside \cup LandChosen
        BY <1>2, <1>6
      <4>2. CASE c = l
        BY <1>0, <1>2, <1>6, <2>7, <4>2 DEF Covers
      <4>3. CASE c \in beside \cup LandChosen
        BY <1>0, <1>1, <1>2, <1>3, <4>3 DEF Covers, StagedAlike
      <4>. QED
        BY <4>1, <4>2, <4>3
    <3>. QED
      BY <3>1, <3>2, <3>3, <3>4 DEF StagedAlike
  <2>9. LandStands'
    <3>. SUFFICES ASSUME NEW b \in BatchIds, b \in batch'[b].holds
                  PROVE  Stands(b)' \/ Excused(b)'
      BY DEF LandStands
    <3>0. \A x \in stager[s].holds : Stands(x)'
      BY <1>2, <1>6 DEF Stands
    <3>1. CASE b = l
      BY <1>2, <1>6, <3>0, <3>1
    <3>2. CASE b \in served
      BY <1>0, <3>2 DEF Stands
    <3>3. CASE \E c \in beside : b \in batch[c].holds
      BY <1>2, <1>6, <3>3 DEF Stands
    <3>4. CASE \E c \in StagedLand \cap stager[s].drops : b \in batch[c].holds
      <4>1. PICK c \in StagedLand \cap stager[s].drops : b \in batch[c].holds
        BY <3>4
      <4>2. c = stager[s].newest /\ c # 0
        BY <4>1, HeldIsThere DEF Shape, DropsLocked, StagedLand
      <4>3. b \in Newest(s)
        BY <4>1, <4>2 DEF Newest
      <4>. QED
        BY <2>4, <3>0, <4>3
    <3>5. b = l \/ Stands(b) \/ Excused(b)
      BY <1>2, <1>3 DEF LandStands
    <3>. QED
      BY <1>1, <3>1, <3>2, <3>3, <3>4, <3>5 DEF Stands
  <2>. QED
    BY <1>4, <2>8, <2>9 DEF KeptInv
<1>. QED
  BY <1>5, <1>6

(* Where the stagings have nothing new to carry and the staged batches and *)
(* the choice only shrink, what is left is to be looked at by itself.      *)
LEMMA CarriersWait ==
  ASSUME Shape, Shape', RowsKept, HistoryGrows, KeptInv, stager' = stager,
         (StagedLand \cup LandChosen)' \subseteq StagedLand \cup LandChosen,
         \A b \in served' \ served : \E c \in LandChosen : b \in batch[c].holds /\ batch[c].holds = served'
  PROVE  \A t \in Stagers : CarriesLand(t)'
<1>1. \A c \in StagedLand \cup LandChosen : batch'[c].holds = batch[c].holds
  BY HoldsStay DEF StagedLand, Staged, LandChosen
<1>2. ASSUME NEW t \in Stagers PROVE CarriesLand(t)'
  <2>1. CarriesLand(t)
    BY DEF KeptInv
  <2>. QED
    BY <1>1, <2>1, CarriesLandKept
<1>. QED
  BY <1>2

LEMMA DecisionKeeps ==
  ASSUME Shape, Shape', RowsKept, HistoryGrows, KeptInv,
         NEW b \in BatchIds, ApproveBatch(b) \/ RejectBatch(b)
  PROVE  KeptInv'
<1>0. /\ Typed /\ served' = served /\ stager' = stager /\ publisher' = publisher
      /\ \A c \in BatchIds : batch'[c].layer = batch[c].layer /\ batch'[c].holds = batch[c].holds
      /\ \A c \in BatchIds \ {b} : batch'[c].status = batch[c].status
      /\ Staged(b)
      /\ batch'[b].status = "staged" \/ (batch'[b].status = "rejected" /\ b \in refused')
  BY DecisionWrites DEF Shape, Open
<1>1. \A x : Excused(x) => Excused(x)'
  BY ExcuseStays
<1>2. StagedLand' \subseteq StagedLand /\ StagedLand \ StagedLand' \subseteq refused'
  BY <1>0 DEF StagedLand, Staged
<1>3. LandChosen' = LandChosen
  BY <1>0, HoldsStay
<1>4. StagedLand \cup LandChosen \subseteq BatchIds
  BY HeldIsThere DEF StagedLand, LandChosen
<1>5. \A c \in StagedLand \ StagedLand' : \A x \in batch[c].holds : Excused(x)'
  BY <1>0, <1>2, <1>4 DEF Excused
<1>6. \A t \in Stagers : CarriesLand(t)'
  BY <1>0, <1>2, <1>3, CarriersWait
<1>7. StagedAlike /\ LandStands
  BY DEF KeptInv
<1>8. StagedAlike'
  <2>1. ASSUME NEW c \in LandChosen', StagedLand' = {} PROVE Covers({}, batch[c].holds)'
    <3>1. CASE StagedLand = {}
      BY <1>0, <1>1, <1>3, <1>4, <1>7, <2>1, <3>1 DEF StagedAlike, Covers
    <3>2. CASE StagedLand # {}
      <4>1. PICK d \in StagedLand : TRUE
        BY <3>2
      <4>2. Covers(batch[d].holds, batch[c].holds)
        BY <1>3, <1>7, <2>1 DEF StagedAlike
      <4>. QED
        BY <1>0, <1>1, <1>3, <1>4, <1>5, <2>1, <4>2 DEF Covers
    <3>. QED
      BY <3>1, <3>2
  <2>2. \A c \in (StagedLand \cup LandChosen)', d \in StagedLand' : Covers(batch[d].holds, batch[c].holds)'
    BY <1>0, <1>1, <1>2, <1>3, <1>4, <1>7 DEF StagedAlike, Covers
  <2>3. \A c, d \in LandChosen' : Covers(batch[d].holds, batch[c].holds)'
    BY <1>0, <1>1, <1>3, <1>4, <1>7 DEF StagedAlike, Covers
  <2>4. \A c \in (StagedLand \cup LandChosen)' : Covers(batch[c].holds, served)'
    BY <1>0, <1>1, <1>2, <1>3, <1>4, <1>7 DEF StagedAlike, Covers
  <2>. QED
    BY <2>1, <2>2, <2>3, <2>4 DEF StagedAlike
<1>9. LandStands'
  <2>1. \A x \in BatchIds : Stands(x) => Stands(x)' \/ Excused(x)'
    BY <1>0, <1>4, <1>5 DEF Stands
  <2>. QED
    BY <1>0, <1>1, <1>7, <2>1 DEF LandStands
<1>. QED
  BY <1>6, <1>8, <1>9 DEF KeptInv

LEMMA CommitPublishKeeps ==
  ASSUME Shape, Shape', RowsKept, HistoryGrows, KeptInv, CommitPublish
  PROVE  KeptInv'
<1>0. /\ Typed /\ stager' = stager /\ publisher'.chosen = {}
      /\ \A c \in BatchIds : /\ batch'[c].layer = batch[c].layer /\ batch'[c].holds = batch[c].holds
                             /\ batch'[c].status = Outcome(c)
      /\ served' = IF LandChosen = {} THEN served ELSE batch[Highest(LandChosen)].holds
  BY CommitPublishWrites DEF Shape
<1>1. \A x : Excused(x) => Excused(x)'
  BY ExcuseStays
<1>2. StagedLand' \subseteq StagedLand /\ StagedLand \ StagedLand' \subseteq LandChosen
  BY <1>0 DEF StagedLand, Staged, Outcome, LandChosen
<1>3. LandChosen' = {}
  BY <1>0 DEF LandChosen
<1>4. StagedLand \cup LandChosen \subseteq BatchIds
  BY HeldIsThere DEF StagedLand, LandChosen
<1>5. LandChosen # {} => Highest(LandChosen) \in LandChosen /\ served' = batch[Highest(LandChosen)].holds
  BY <1>0, HighestOfChosen
<1>6. \A t \in Stagers : CarriesLand(t)'
  <2>1. \A b \in served' \ served : \E c \in LandChosen : b \in batch[c].holds /\ batch[c].holds = served'
    BY <1>0, <1>5
  <2>. QED
    BY <1>0, <1>2, <1>3, <2>1, CarriersWait
<1>7. StagedAlike /\ LandStands
  BY DEF KeptInv
<1>8. StagedAlike'
  <2>1. \A c, d \in StagedLand' : Covers(batch[d].holds, batch[c].holds)'
    BY <1>0, <1>1, <1>2, <1>4, <1>7 DEF StagedAlike, Covers
  <2>2. \A c \in StagedLand' : Covers(batch[c].holds, served)'
    <3>1. CASE LandChosen = {}
      BY <1>0, <1>1, <1>2, <1>4, <1>7, <3>1 DEF StagedAlike, Covers
    <3>2. CASE LandChosen # {}
      BY <1>0, <1>1, <1>2, <1>4, <1>5, <1>7, <3>2 DEF StagedAlike, Covers
    <3>. QED
      BY <3>1, <3>2
  <2>. QED
    BY <1>3, <2>1, <2>2 DEF StagedAlike
<1>9. LandStands'
  <2>1. ASSUME NEW x \in BatchIds, Stands(x) PROVE Stands(x)' \/ Excused(x)'
    <3>1. CASE x \in served
      <4>1. CASE LandChosen = {}
        BY <1>0, <3>1, <4>1 DEF Stands
      <4>2. CASE LandChosen # {}
        BY <1>1, <1>5, <1>7, <3>1, <4>2 DEF Stands, StagedAlike, Covers
      <4>. QED
        BY <4>1, <4>2
    <3>2. CASE \E c \in StagedLand' : x \in batch[c].holds
      BY <1>0, <1>2, <1>4, <3>2 DEF Stands
    <3>3. CASE \E c \in LandChosen : x \in batch[c].holds
      BY <1>1, <1>5, <1>7, <3>3 DEF Stands, StagedAlike, Covers
    <3>. QED
      BY <1>2, <2>1, <3>1, <3>2, <3>3 DEF Stands
  <2>. QED
    BY <1>0, <1>1, <1>7, <2>1 DEF LandStands
<1>. QED
  BY <1>6, <1>8, <1>9 DEF KeptInv

LEMMA FindNewestKeeps ==
  ASSUME Shape, KeptInv, NEW s \in Stagers, FindNewest(s)
  PROVE  CarriesLand(s)'
<1>0. /\ Typed /\ StagerSteps /\ StagedAlike
      /\ batch' = batch /\ dataset' = dataset /\ served' = served /\ publisher' = publisher
      /\ refused' = refused /\ overlooked' = overlooked
      /\ stager[s].at = "cleared" /\ stager'[s].at = "found" /\ stager'[s].newest = NewestStaged
  BY FindNewestWrites DEF Shape, KeptInv
<1>1. /\ StagedLand' = StagedLand /\ LandChosen' = LandChosen
      /\ \A b : Excused(b) <=> Excused(b)'
  BY <1>0 DEF StagedLand, Staged, LandChosen, Excused, Replaced
<1>2. CASE NewestStaged = 0
  <2>1. StagedLand = {} /\ Newest(s)' = {}
    BY <1>0, <1>2, HighestOfStaged DEF Newest
  <2>. QED
    BY <1>0, <1>1, <1>2, <2>1 DEF CarriesLand, Covers, StagedAlike
<1>3. CASE NewestStaged # 0
  <2>1. NewestStaged \in StagedLand /\ Newest(s)' = batch[NewestStaged].holds
    BY <1>0, <1>3, HighestOfStaged DEF Newest
  <2>. QED
    BY <1>0, <1>1, <1>3, <2>1 DEF CarriesLand, Covers, StagedAlike
<1>. QED
  BY <1>2, <1>3

LEMMA CarryKeeps ==
  ASSUME Shape, KeptInv, NEW s \in Stagers, Carry(s)
  PROVE  CarriesLand(s)'
<1>0. /\ Typed /\ StagerSteps /\ CarriesLand(s)
      /\ batch' = batch /\ dataset' = dataset /\ served' = served /\ publisher' = publisher
      /\ refused' = refused /\ overlooked' = overlooked
      /\ stager'[s].newest = stager[s].newest /\ stager'[s].missed = stager[s].missed
      /\ stager'[s].plan = stager[s].plan /\ stager'[s].landUse = stager[s].landUse
      /\ CarriedForward(s) \subseteq stager'[s].holds
      /\ stager[s].at = "found"
  BY CarryWrites DEF Shape, KeptInv
<1>1. /\ StagedLand' = StagedLand /\ LandChosen' = LandChosen
      /\ \A b : Excused(b) <=> Excused(b)'
      /\ Newest(s)' = Newest(s) /\ Missed(s)' = Missed(s) /\ OfPlan(s)' = OfPlan(s)
  BY <1>0 DEF StagedLand, Staged, LandChosen, Excused, Replaced, Newest, Missed, OfPlan
<1>2. stager[s].landUse # 0
  BY <1>0 DEF StagerSteps, Progress
<1>3. Newest(s) \subseteq stager'[s].holds \cup OfPlan(s)
  <2>1. \A b \in Newest(s) : b \in BatchIds
    BY HeldIsThere DEF Newest
  <2>. QED
    BY <1>0, <2>1 DEF Newest, OfPlan, CarriedForward
<1>4. Covers(stager'[s].holds \cup OfPlan(s) \cup Missed(s), served)
  <2>1. CASE stager[s].newest = 0
    <3>1. \A b \in served : b \in BatchIds
      BY HeldIsThere
    <3>. QED
      BY <1>0, <2>1, <3>1 DEF Covers, OfPlan, CarriedForward
  <2>2. CASE stager[s].newest # 0
    BY <1>0, <1>2, <1>3, <2>2 DEF CarriesLand, Covers
  <2>. QED
    BY <2>1, <2>2
<1>. QED
  BY <1>0, <1>1, <1>2, <1>3, <1>4 DEF CarriesLand, Covers

LEMMA KeptStep ==
  ASSUME Shape, KeptInv, [GeometryNext]_geometryVars
  PROVE  KeptInv'
<1>0. Typed /\ StagerSteps /\ Shape' /\ RowsKept /\ HistoryGrows
  BY ShapeStep, HistoryGrowsStep DEF Shape
<1>20. StagedAlike /\ LandStands /\ \A t \in Stagers : CarriesLand(t)
  BY DEF KeptInv
<1>21. ASSUME batch' = batch, served' = served, publisher' = publisher,
              NEW s \in Stagers, CarriesLand(s)', \A t \in Stagers \ {s} : stager'[t] = stager[t]
       PROVE  KeptInv'
  <2>1. StagedAlike' /\ LandStands'
    BY <1>0, <1>20, <1>21, AlikeKept
  <2>2. (StagedLand \cup LandChosen)' = StagedLand \cup LandChosen
    BY <1>21 DEF StagedLand, Staged, LandChosen
  <2>3. ASSUME NEW t \in Stagers \ {s} PROVE CarriesLand(t)'
    BY <1>0, <1>20, <1>21, <2>2, CarriesLandKept
  <2>. QED
    BY <1>21, <2>1, <2>3 DEF KeptInv
<1>1. ASSUME NEW s \in Stagers, NEW p \in Plans, NEW brings \in Drawings, NEW label \in Labels,
             TakeLabel(s, p, brings, label)
      PROVE  KeptInv'
  <2>1. stager'[s].landUse = 0
    BY <1>0, <1>1, TakeLabelWrites
  <2>2. CarriesLand(s)'
    BY <2>1 DEF CarriesLand
  <2>. QED
    BY <1>0, <1>1, <1>21, <2>2, TakeLabelWrites
<1>2. ASSUME NEW s \in Stagers, RecordInvalid(s)
      PROVE  KeptInv'
  <2>1. CarriesLand(s)'
    BY <1>0, <1>2, RecordInvalidWrites DEF CarriesLand, NotStaging
  <2>. QED
    BY <1>0, <1>2, <1>21, <2>1, RecordInvalidWrites
<1>3. ASSUME NEW s \in Stagers, Clear(s) \/ WaitForRun(s)
      PROVE  KeptInv'
  <2>1. stager'[s].landUse = 0
    BY <1>0, <1>3, ClearWrites, WaitForRunWrites DEF StagerSteps, Progress
  <2>2. CarriesLand(s)'
    BY <2>1 DEF CarriesLand
  <2>. QED
    BY <1>0, <1>3, <1>21, <2>2, ClearWrites, WaitForRunWrites
<1>4. ASSUME NEW s \in Stagers, FindNewest(s)
      PROVE  KeptInv'
  <2>1. CarriesLand(s)'
    BY <1>4, FindNewestKeeps
  <2>. QED
    BY <1>0, <1>4, <1>21, <2>1, FindNewestWrites
<1>5. ASSUME NEW s \in Stagers, Carry(s)
      PROVE  KeptInv'
  <2>1. CarriesLand(s)'
    BY <1>5, CarryKeeps
  <2>. QED
    BY <1>0, <1>5, <1>21, <2>1, CarryWrites
<1>6. ASSUME NEW s \in Stagers, CommitStaging(s)
      PROVE  KeptInv'
  BY <1>0, <1>6, CommitStagingKeeps
<1>7. ASSUME NEW s \in Stagers, GiveUp(s)
      PROVE  KeptInv'
  <2>1. CarriesLand(s)'
    BY <1>0, <1>7, GiveUpWrites DEF CarriesLand, NotStaging
  <2>. QED
    BY <1>0, <1>7, <1>21, <2>1, GiveUpWrites
<1>8. ASSUME NEW b \in BatchIds, ApproveBatch(b) \/ RejectBatch(b)
      PROVE  KeptInv'
  BY <1>0, <1>8, DecisionKeeps
<1>9. CASE GeometryPreflight \/ ChooseBatches \/ ApplyGeometry \/ PublishFails
  <2>0. batch' = batch /\ served' = served /\ stager' = stager
    BY <1>0, <1>9, PublisherWrites
  <2>1. CASE publisher'.chosen \in {{}, publisher.chosen}
    <3>1. StagedAlike' /\ LandStands'
      BY <1>0, <1>20, <2>0, <2>1, AlikeKept
    <3>2. (StagedLand \cup LandChosen)' \subseteq StagedLand \cup LandChosen
      BY <2>0, <2>1 DEF StagedLand, Staged, LandChosen
    <3>3. \A t \in Stagers : CarriesLand(t)'
      BY <1>0, <2>0, <3>2, CarriersWait
    <3>. QED
      BY <3>1, <3>3 DEF KeptInv
  <2>2. CASE publisher'.chosen = StagedBatches
    <3>1. StagedLand' = StagedLand /\ LandChosen' \subseteq StagedLand
      BY <2>0, <2>2 DEF StagedLand, Staged, LandChosen, StagedBatches
    <3>2. \A b : Excused(b) => Excused(b)'
      BY <1>0, ExcuseStays
    <3>3. StagedAlike'
      BY <1>20, <2>0, <3>1, <3>2 DEF StagedAlike, Covers
    <3>4. LandStands'
      BY <1>20, <2>0, <3>1, <3>2 DEF LandStands, Stands
    <3>5. \A t \in Stagers : CarriesLand(t)'
      BY <1>0, <2>0, <3>1, CarriersWait
    <3>. QED
      BY <3>3, <3>4, <3>5 DEF KeptInv
  <2>. QED
    BY <1>0, <1>9, <2>1, <2>2, PublisherWrites
<1>10. CASE CommitPublish
  BY <1>0, <1>10, CommitPublishKeeps
<1>11. CASE UNCHANGED geometryVars
  <2>1. batch' = batch /\ served' = served /\ publisher' = publisher /\ stager' = stager
    BY <1>11 DEF geometryVars, tables
  <2>2. StagedAlike' /\ LandStands'
    BY <1>0, <1>20, <2>1, AlikeKept
  <2>3. (StagedLand \cup LandChosen)' = StagedLand \cup LandChosen
    BY <2>1 DEF StagedLand, Staged, LandChosen
  <2>4. \A t \in Stagers : CarriesLand(t)'
    BY <1>0, <2>1, <2>3, CarriersWait
  <2>. QED
    BY <2>2, <2>4 DEF KeptInv
<1>. QED
  BY <1>1, <1>2, <1>3, <1>4, <1>5, <1>6, <1>7, <1>8, <1>9, <1>10, <1>11 DEF GeometryNext

LEMMA KeptInit ==
  ASSUME GeometryInit
  PROVE  KeptInv
<1>1. /\ \A b \in BatchIds : batch[b].holds = {} /\ ~Staged(b)
      /\ \A s \in Stagers : stager[s].landUse = 0
      /\ served = {} /\ publisher.chosen = {}
  BY DEF NotPublishing, GeometryInit, NoBatch, NotStaging, Staged
<1>. QED
  BY <1>1 DEF KeptInv, StagedAlike, StagedLand, LandChosen, CarriesLand, LandStands, Covers

(* LandUseKept: the land use a plan has staged or published is served or   *)
(* in a staged batch, unless a batch holding it was rejected, a later run  *)
(* of the plan replaced it or stagings did not see each other (stage.py:   *)
(* every batch of a generic layer carries what the other plans have).      *)
THEOREM LandKept == GeometrySpec => []LandUseKept
<1>1. GeometryInit => Shape /\ KeptInv
  BY ShapeInit, KeptInit
<1>2. Shape /\ KeptInv /\ [GeometryNext]_geometryVars => (Shape /\ KeptInv)'
  BY ShapeStep, KeptStep
<1>3. Shape /\ KeptInv => LandUseKept
  <2>. SUFFICES ASSUME Shape, KeptInv, NEW n \in DOMAIN dataset, dataset[n].landUse # 0,
                       dataset[n].landUse \in batch[dataset[n].landUse].holds, ~Replaced(n)
                PROVE  \/ Stands(dataset[n].landUse) \/ dataset[n].landUse \in overlooked
                       \/ \E c \in refused : dataset[n].landUse \in batch[c].holds
    BY DEF LandUseKept
  <2>. DEFINE b == dataset[n].landUse
  <2>1. b \in BatchIds
    BY DatasetRows, GeometryAssumption DEF Shape, DatasetRow, BatchIds
  <2>2. Stands(b) \/ Excused(b)
    BY <2>1 DEF KeptInv, LandStands
  <2>3. \A m \in DOMAIN dataset : dataset[m].landUse = b => m = n
    BY DEF Shape, DatasetBatches
  <2>. QED
    BY <2>2, <2>3 DEF Excused
<1>. QED
  BY <1>1, <1>2, <1>3, PTL DEF GeometrySpec
=============================================================================
