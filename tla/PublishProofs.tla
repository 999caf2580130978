---------------------------- MODULE PublishProofs ----------------------------
(* Theorems about Publish for every number of worker processes, items,     *)
(* assumptions versions, kept versions and bounded events.                 *)
EXTENDS Publish, FiniteSetTheorems, WellFoundedInduction, TLAPS

(* A bounded event only moves its own counter.                             *)
LEMMA Counted ==
  ASSUME TypeOK, NEW e \in Events, Spend(e)
  PROVE  spent' \in [Events -> Nat]
BY DEF TypeOK, Spend

(* Rows, objects and processes keep their shape; in particular a draft     *)
(* always has a row id and a built archive the heatmap it was built with.  *)
THEOREM TypeCorrect == Spec => []TypeOK
<1>. USE ProcsAssumption, BoundsAssumption DEF Versions, Drafting, InTransaction, Procs
<1>1. Init => TypeOK
  BY DEF Init, TypeOK
<1>2. TypeOK /\ [Next]_vars => TypeOK'
  <2>. SUFFICES ASSUME TypeOK, [Next]_vars PROVE TypeOK'
    OBVIOUS
  <2>. USE DEF TypeOK, itemVars, rowVars, lockVars, workVars
  <2>1. ASSUME NEW i \in Items, Stage(i) PROVE TypeOK'
    BY <2>1 DEF Stage
  <2>2. ASSUME NEW i \in Items, NEW d \in {"approved", "rejected"}, Decide(i, d) PROVE TypeOK'
    BY <2>2 DEF Decide
  <2>3. ASSUME NEW a \in Assumptions, Reprice(a) PROVE TypeOK'
    <3>1. spent' \in [Events -> Nat]
      BY <2>3, Counted DEF Reprice, Events
    <3>. QED
      BY <3>1, <2>3 DEF Reprice
  <2>4. ASSUME NEW v \in Versions, OperatorFlip(v) PROVE TypeOK'
    <3>1. spent' \in [Events -> Nat]
      BY <2>4, Counted DEF OperatorFlip, Events
    <3>. QED
      BY <3>1, <2>4 DEF OperatorFlip
  <2>5. ASSUME NEW r \in Runs, Preflight(r) PROVE TypeOK'
    BY <2>5 DEF Preflight
  <2>6. ASSUME NEW p \in Procs, BeginLock(p) PROVE TypeOK'
    BY <2>6 DEF BeginLock
  <2>7. ASSUME NEW p \in Procs, GetLock(p) PROVE TypeOK'
    BY <2>7 DEF GetLock
  <2>8. ASSUME NEW p \in Procs, LoseLock(p) PROVE TypeOK'
    BY <2>8 DEF LoseLock
  <2>9. ASSUME NEW r \in Runs, InsertVersion(r) PROVE TypeOK'
    BY <2>9 DEF InsertVersion, Numbered
  <2>10. ASSUME NEW r \in Runs, InsertWaits(r) PROVE TypeOK'
    BY <2>10 DEF InsertWaits, Numbered
  <2>11. ASSUME NEW r \in Runs, InsertRefused(r) PROVE TypeOK'
    BY <2>11 DEF InsertRefused, Rollback, TransactionEnds
  <2>12. ASSUME NEW r \in Runs, PublishValues(r) PROVE TypeOK'
    BY <2>12 DEF PublishValues, VersionValues, Eligible
  <2>13. ASSUME NEW p \in Procs, ComputeCells(p) PROVE TypeOK'
    <3>1. CASE p \in Runs
      BY <2>13, <3>1 DEF ComputeCells
    <3>2. CASE p \in Refreshes
      BY <2>13, <3>2 DEF ComputeCells
    <3>. QED
      BY <3>1, <3>2
  <2>14. ASSUME NEW r \in Runs, Upload(r) PROVE TypeOK'
    BY <2>14 DEF Upload
  <2>15. ASSUME NEW r \in Runs, Flip(r) PROVE TypeOK'
    BY <2>15, ZenonT(60) DEF Flip, CommitVersion, PointerMoves, TransactionEnds
  <2>16. ASSUME NEW r \in Runs, FlipUnanswered(r) PROVE TypeOK'
    <3>1. spent' \in [Events -> Nat]
      BY <2>16, Counted DEF FlipUnanswered, Events
    <3>2. /\ rows' \subseteq Versions /\ archived' \subseteq rows' /\ current' \in rows'
          /\ pruned' \subseteq rows' /\ cells' \in [Versions -> Assumptions]
          /\ doomed' \in [Procs -> SUBSET rows']
      BY <2>16, ZenonT(60) DEF FlipUnanswered, CommitVersion, PointerMoves
    <3>. QED
      BY <3>1, <3>2, <2>16 DEF FlipUnanswered, CommitVersion, TransactionEnds
  <2>17. ASSUME NEW r \in Runs, UploadUnanswered(r) PROVE TypeOK'
    <3>1. spent' \in [Events -> Nat]
      BY <2>17, Counted DEF UploadUnanswered, Events
    <3>. QED
      BY <3>1, <2>17 DEF UploadUnanswered, Rollback, TransactionEnds
  <2>18. ASSUME NEW r \in Runs, StepFails(r) PROVE TypeOK'
    <3>1. spent' \in [Events -> Nat]
      BY <2>18, Counted DEF StepFails, Events
    <3>. QED
      BY <3>1, <2>18 DEF StepFails, Rollback, TransactionEnds
  <2>19. ASSUME NEW r \in Runs, DeadlockVictim(r) PROVE TypeOK'
    BY <2>19 DEF DeadlockVictim, Deadlock, Rollback, TransactionEnds
  <2>20. ASSUME NEW r \in Runs, RecordFailure(r) PROVE TypeOK'
    <3>1. spent' \in [Events -> Nat]
      BY <2>20, Counted DEF RecordFailure, Events
    <3>2. CASE End(r, "failed")
      BY <3>1, <3>2, <2>20 DEF RecordFailure, End
    <3>3. CASE ~End(r, "failed")
      BY <3>1, <3>3, <2>20, ZenonT(60) DEF RecordFailure
    <3>. QED
      BY <3>2, <3>3
  <2>21. ASSUME NEW r \in Runs, DeleteArchive(r) PROVE TypeOK'
    <3>1. spent' \in [Events -> Nat]
      BY <2>21, Counted DEF DeleteArchive, Events
    <3>. QED
      BY <3>1, <2>21 DEF DeleteArchive, End
  <2>22. ASSUME NEW r \in Runs, ReportFlip(r) PROVE TypeOK'
    <3>1. spent' \in [Events -> Nat]
      BY <2>22, Counted DEF ReportFlip, Events
    <3>. QED
      BY <3>1, <2>22, ZenonT(60) DEF ReportFlip
  <2>23. ASSUME NEW r \in Runs, PruneSelect(r) PROVE TypeOK'
    BY <2>23 DEF PruneSelect, PruneCandidates
  <2>24. ASSUME NEW r \in Runs, NEW v \in Versions, PruneDelete(r, v) PROVE TypeOK'
    BY <2>24 DEF PruneDelete
  <2>25. ASSUME NEW r \in Runs, PruneCommit(r) PROVE TypeOK'
    BY <2>25 DEF PruneCommit
  <2>26. ASSUME NEW r \in Runs, PruneFails(r) PROVE TypeOK'
    <3>1. spent' \in [Events -> Nat]
      BY <2>26, Counted DEF PruneFails, Events
    <3>. QED
      BY <3>1, <2>26 DEF PruneFails
  <2>27. ASSUME NEW r \in Runs, Succeed(r) PROVE TypeOK'
    <3>1. spent' \in [Events -> Nat]
      BY <2>27, Counted DEF Succeed, Events
    <3>. QED
      BY <3>1, <2>27, ZenonT(60) DEF Succeed, End
  <2>28. ASSUME NEW f \in Refreshes, RefreshArchive(f) PROVE TypeOK'
    BY <2>28 DEF RefreshArchive
  <2>29. ASSUME NEW f \in Refreshes, RefreshCommit(f) PROVE TypeOK'
    BY <2>29 DEF RefreshCommit, TransactionEnds
  <2>30. ASSUME NEW f \in Refreshes, RefreshFails(f) PROVE TypeOK'
    <3>1. spent' \in [Events -> Nat]
      BY <2>30, Counted DEF RefreshFails, Events
    <3>. QED
      BY <3>1, <2>30 DEF RefreshFails, Rollback, TransactionEnds
  <2>31. ASSUME NEW p \in Procs, Crash(p) PROVE TypeOK'
    <3>1. spent' \in [Events -> Nat]
      BY <2>31, Counted DEF Crash, Events
    <3>. QED
      BY <3>1, <2>31 DEF Crash, TransactionEnds
  <2>32. ASSUME NEW r \in Runs, RunStep(r) PROVE TypeOK'
    BY <2>32, <2>6, <2>7, <2>8, <2>9, <2>10, <2>11, <2>12, <2>13, <2>14, <2>15,
       <2>19, <2>20, <2>21, <2>22, <2>23, <2>24, <2>25, <2>27
    DEF RunStep, Procs
  <2>33. ASSUME NEW f \in Refreshes, RefreshStep(f) PROVE TypeOK'
    BY <2>33, <2>7, <2>8, <2>13, <2>28, <2>29
    DEF RefreshStep, Procs
  <2>34. CASE UNCHANGED vars
    BY <2>34 DEF vars
  <2>. HIDE DEF TypeOK
  <2>. QED
    BY <2>1, <2>2, <2>3, <2>4, <2>5, <2>6, <2>16, <2>17, <2>18, <2>26, <2>30,
       <2>31, <2>32, <2>33, <2>34
    DEF Next, Procs
<1>. QED
  BY <1>1, <1>2, PTL DEF Spec

(* A draft's id is new, and only one transaction at a time holds the next  *)
(* version number.                                                         *)
DraftsFresh ==
  /\ \A v \in rows : v < nextId
  /\ \A r \in Runs : pc[r] \in Drafting => draft[r] < nextId /\ draft[r] \notin rows
  /\ \A q, r \in Runs : pc[q] \in Drafting /\ pc[r] \in Drafting => q = r

LEMMA FreshDrafts == Spec => []DraftsFresh
<1>. USE ProcsAssumption, BoundsAssumption DEF Versions, Drafting, InTransaction, Procs
<1>1. Init => DraftsFresh
  BY DEF Init, DraftsFresh
<1>2. TypeOK /\ DraftsFresh /\ [Next]_vars => DraftsFresh'
  <2>. SUFFICES ASSUME TypeOK, DraftsFresh, [Next]_vars PROVE DraftsFresh'
    OBVIOUS
  <2>. USE DEF TypeOK, DraftsFresh, itemVars, rowVars, lockVars, workVars
  <2>1. ASSUME NEW i \in Items, Stage(i) PROVE DraftsFresh'
    BY <2>1 DEF Stage
  <2>2. ASSUME NEW i \in Items, NEW d \in {"approved", "rejected"}, Decide(i, d) PROVE DraftsFresh'
    BY <2>2 DEF Decide
  <2>3. ASSUME NEW a \in Assumptions, Reprice(a) PROVE DraftsFresh'
    BY <2>3 DEF Reprice
  <2>4. ASSUME NEW v \in Versions, OperatorFlip(v) PROVE DraftsFresh'
    BY <2>4 DEF OperatorFlip
  <2>5. ASSUME NEW r \in Runs, Preflight(r) PROVE DraftsFresh'
    BY <2>5 DEF Preflight
  <2>6. ASSUME NEW p \in Procs, BeginLock(p) PROVE DraftsFresh'
    BY <2>6 DEF BeginLock
  <2>7. ASSUME NEW p \in Procs, GetLock(p) PROVE DraftsFresh'
    BY <2>7 DEF GetLock
  <2>8. ASSUME NEW p \in Procs, LoseLock(p) PROVE DraftsFresh'
    BY <2>8 DEF LoseLock
  <2>9. ASSUME NEW r \in Runs, InsertVersion(r) PROVE DraftsFresh'
    BY <2>9 DEF InsertVersion, Numbered
  <2>10. ASSUME NEW r \in Runs, InsertWaits(r) PROVE DraftsFresh'
    BY <2>10 DEF InsertWaits, Numbered
  <2>11. ASSUME NEW r \in Runs, InsertRefused(r) PROVE DraftsFresh'
    BY <2>11 DEF InsertRefused, Rollback, TransactionEnds
  <2>12. ASSUME NEW r \in Runs, PublishValues(r) PROVE DraftsFresh'
    BY <2>12 DEF PublishValues, VersionValues, Eligible
  <2>13. ASSUME NEW p \in Procs, ComputeCells(p) PROVE DraftsFresh'
    BY <2>13 DEF ComputeCells
  <2>14. ASSUME NEW r \in Runs, Upload(r) PROVE DraftsFresh'
    BY <2>14 DEF Upload
  <2>15. ASSUME NEW r \in Runs, Flip(r) PROVE DraftsFresh'
    BY <2>15 DEF Flip, CommitVersion, PointerMoves, TransactionEnds
  <2>16. ASSUME NEW r \in Runs, FlipUnanswered(r) PROVE DraftsFresh'
    BY <2>16 DEF FlipUnanswered, CommitVersion, PointerMoves, TransactionEnds
  <2>17. ASSUME NEW r \in Runs, UploadUnanswered(r) PROVE DraftsFresh'
    BY <2>17 DEF UploadUnanswered, Rollback, TransactionEnds
  <2>18. ASSUME NEW r \in Runs, StepFails(r) PROVE DraftsFresh'
    BY <2>18 DEF StepFails, Rollback, TransactionEnds
  <2>19. ASSUME NEW r \in Runs, DeadlockVictim(r) PROVE DraftsFresh'
    BY <2>19 DEF DeadlockVictim, Deadlock, Rollback, TransactionEnds
  <2>20. ASSUME NEW r \in Runs, RecordFailure(r) PROVE DraftsFresh'
    <3>1. UNCHANGED <<rows, nextId, draft>>
      BY <2>20 DEF RecordFailure, End
    <3>2. CASE pc' = [pc EXCEPT ![r] = "cleaning"]
      BY <3>1, <3>2
    <3>3. CASE pc' = [pc EXCEPT ![r] = "idle"]
      BY <3>1, <3>3
    <3>. QED
      BY <3>2, <3>3, <2>20 DEF RecordFailure, End
  <2>21. ASSUME NEW r \in Runs, DeleteArchive(r) PROVE DraftsFresh'
    BY <2>21 DEF DeleteArchive, End
  <2>22. ASSUME NEW r \in Runs, ReportFlip(r) PROVE DraftsFresh'
    <3>1. UNCHANGED <<rows, nextId, draft>>
      BY <2>22 DEF ReportFlip
    <3>2. CASE pc' = [pc EXCEPT ![r] = "pruning"]
      BY <3>1, <3>2
    <3>3. CASE pc' = [pc EXCEPT ![r] = "failing"]
      BY <3>1, <3>3
    <3>. QED
      BY <3>2, <3>3, <2>22 DEF ReportFlip
  <2>23. ASSUME NEW r \in Runs, PruneSelect(r) PROVE DraftsFresh'
    BY <2>23 DEF PruneSelect, PruneCandidates
  <2>24. ASSUME NEW r \in Runs, NEW v \in Versions, PruneDelete(r, v) PROVE DraftsFresh'
    BY <2>24 DEF PruneDelete
  <2>25. ASSUME NEW r \in Runs, PruneCommit(r) PROVE DraftsFresh'
    BY <2>25 DEF PruneCommit
  <2>26. ASSUME NEW r \in Runs, PruneFails(r) PROVE DraftsFresh'
    BY <2>26 DEF PruneFails
  <2>27. ASSUME NEW r \in Runs, Succeed(r) PROVE DraftsFresh'
    <3>1. UNCHANGED <<rows, nextId, draft>> /\ pc' = [pc EXCEPT ![r] = "idle"]
      BY <2>27 DEF Succeed, End
    <3>. QED
      BY <3>1
  <2>28. ASSUME NEW f \in Refreshes, RefreshArchive(f) PROVE DraftsFresh'
    BY <2>28 DEF RefreshArchive
  <2>29. ASSUME NEW f \in Refreshes, RefreshCommit(f) PROVE DraftsFresh'
    BY <2>29 DEF RefreshCommit, TransactionEnds
  <2>30. ASSUME NEW f \in Refreshes, RefreshFails(f) PROVE DraftsFresh'
    BY <2>30 DEF RefreshFails, Rollback, TransactionEnds
  <2>31. ASSUME NEW p \in Procs, Crash(p) PROVE DraftsFresh'
    BY <2>31 DEF Crash, TransactionEnds
  <2>32. ASSUME NEW r \in Runs, RunStep(r) PROVE DraftsFresh'
    BY <2>32, <2>6, <2>7, <2>8, <2>9, <2>10, <2>11, <2>12, <2>13, <2>14, <2>15,
       <2>19, <2>20, <2>21, <2>22, <2>23, <2>24, <2>25, <2>27
    DEF RunStep, Procs
  <2>33. ASSUME NEW f \in Refreshes, RefreshStep(f) PROVE DraftsFresh'
    BY <2>33, <2>7, <2>8, <2>13, <2>28, <2>29
    DEF RefreshStep, Procs
  <2>34. CASE UNCHANGED vars
    BY <2>34 DEF vars
  <2>. HIDE DEF TypeOK, DraftsFresh
  <2>. QED
    BY <2>1, <2>2, <2>3, <2>4, <2>5, <2>6, <2>16, <2>17, <2>18, <2>26, <2>30,
       <2>31, <2>32, <2>33, <2>34
    DEF Next, Procs
<1>. QED
  BY <1>1, <1>2, TypeCorrect, PTL DEF Spec

(* Events are counted and never forgotten.                                 *)
LEMMA EventsCounted ==
  ASSUME TypeOK, [Next]_vars
  PROVE  spent' \in [Events -> Nat] /\ \A e \in Events : spent[e] <= spent'[e]
<1>. DEFINE Grows == spent' \in [Events -> Nat] /\ \A e \in Events : spent[e] <= spent'[e]
<1>1. ASSUME \E e \in Events : Spend(e) PROVE Grows
  BY <1>1 DEF TypeOK, Spend
<1>2. ASSUME UNCHANGED spent PROVE Grows
  BY <1>2 DEF TypeOK
<1>3. (\E e \in Events : Spend(e)) \/ UNCHANGED spent
  BY DEF Events, vars, Next, Stage, Decide, Reprice, OperatorFlip, Preflight, RunStep, StepFails, PruneFails,
     FlipUnanswered, UploadUnanswered, BeginLock, RefreshStep, RefreshFails, Crash, GetLock, LoseLock,
     InsertVersion, InsertWaits, InsertRefused, PublishValues, ComputeCells, Upload, Flip, DeadlockVictim,
     RecordFailure, DeleteArchive, ReportFlip, PruneSelect, PruneDelete, PruneCommit, Succeed,
     RefreshArchive, RefreshCommit
<1>. QED
  BY <1>1, <1>2, <1>3

(* An upload or a commit took effect without an answer; or somebody moved  *)
(* the pointer by hand.                                                    *)
Unanswered == spent["lostAnswer"] > 0
Disturbed == Unanswered \/ spent["operator"] > 0

(* What never happened is not happening now: an event that the next state  *)
(* has not counted is no part of this step.                                *)
LEMMA NotSpent ==
  ASSUME TypeOK
  PROVE  \A e \in Events : spent'[e] > 0 \/ ~Spend(e)
BY DEF TypeOK, Spend

LEMMA Answered ==
  ASSUME TypeOK, ~Unanswered'
  PROVE  /\ \A r \in Runs : ~FlipUnanswered(r) /\ ~UploadUnanswered(r)
         /\ ~Spend("lostAnswer")
BY NotSpent DEF Unanswered, Events, FlipUnanswered, UploadUnanswered

LEMMA DisturbedStays ==
  ASSUME TypeOK, [Next]_vars, ~Disturbed'
  PROVE  ~Disturbed
BY EventsCounted DEF TypeOK, Disturbed, Unanswered, Events

(* Nothing that is about to be deleted is served or about to be served: a  *)
(* failed run cleans up an archive no row and no draft has, and the prune  *)
(* works on rows that are not current.                                     *)
DeletionsSafe ==
  /\ \A r \in Runs : pc[r] = "flipping" => bucket[draft[r]] # None /\ uploaded[r] = draft[r]
  /\ \A r \in Runs : pc[r] \notin {"flipping", "failing", "cleaning"} => uploaded[r] = 0
  /\ \A r \in Runs : uploaded[r] < nextId
  /\ \A r \in Runs : pc[r] \in {"failing", "cleaning"} /\ uploaded[r] # 0 =>
       /\ uploaded[r] \notin rows
       /\ \A q \in Runs : pc[q] \in Drafting => draft[q] # uploaded[r]
  /\ \A r \in Runs : current \notin doomed[r]

ArchiveSafe == DeletionsSafe /\ ServedArchiveExists

LEMMA ArchiveSafety == Spec => [](Disturbed \/ ArchiveSafe)
<1>. USE ProcsAssumption, BoundsAssumption DEF Versions, Drafting, InTransaction, Procs
<1>1. Init => ArchiveSafe
  BY DEF Init, ArchiveSafe, DeletionsSafe, ServedArchiveExists
<1>2. TypeOK /\ DraftsFresh /\ (Disturbed \/ ArchiveSafe) /\ [Next]_vars => (Disturbed \/ ArchiveSafe)'
  <2>. SUFFICES ASSUME TypeOK, DraftsFresh, ArchiveSafe, [Next]_vars, ~Disturbed' PROVE ArchiveSafe'
    BY DisturbedStays
  <2>0. \A r \in Runs : ~FlipUnanswered(r) /\ ~UploadUnanswered(r)
    BY Answered DEF Disturbed
  <2>. USE DEF TypeOK, DraftsFresh, ArchiveSafe, DeletionsSafe, ServedArchiveExists, itemVars, rowVars, lockVars, workVars
  <2>1. ASSUME NEW i \in Items, Stage(i) PROVE ArchiveSafe'
    BY <2>1 DEF Stage
  <2>2. ASSUME NEW i \in Items, NEW d \in {"approved", "rejected"}, Decide(i, d) PROVE ArchiveSafe'
    BY <2>2 DEF Decide
  <2>3. ASSUME NEW a \in Assumptions, Reprice(a) PROVE ArchiveSafe'
    BY <2>3 DEF Reprice
  <2>4. ASSUME NEW v \in Versions, OperatorFlip(v) PROVE ArchiveSafe'
    BY SMTT(30), <2>4 DEF OperatorFlip, Spend, Events, Disturbed
  <2>5. ASSUME NEW r \in Runs, Preflight(r) PROVE ArchiveSafe'
    BY <2>5 DEF Preflight
  <2>6. ASSUME NEW p \in Procs, BeginLock(p) PROVE ArchiveSafe'
    BY <2>6 DEF BeginLock
  <2>7. ASSUME NEW p \in Procs, GetLock(p) PROVE ArchiveSafe'
    BY <2>7 DEF GetLock
  <2>8. ASSUME NEW p \in Procs, LoseLock(p) PROVE ArchiveSafe'
    BY <2>8 DEF LoseLock
  <2>9. ASSUME NEW r \in Runs, InsertVersion(r) PROVE ArchiveSafe'
    <3>1. nextId' = nextId + 1 /\ draft' = [draft EXCEPT ![r] = nextId] /\ nextId \in Nat
      BY <2>9 DEF InsertVersion
    <3>3. ASSUME NEW q \in Runs, pc'[q] \in {"failing", "cleaning"}, uploaded'[q] # 0
          PROVE  \A s \in Runs : pc'[s] \in Drafting => draft'[s] # uploaded'[q]
      <4>1. pc[q] = pc'[q] /\ uploaded'[q] = uploaded[q] /\ uploaded[q] < nextId
        BY <2>9, <3>3 DEF InsertVersion
      <4>. QED
        BY <4>1, <3>1, <2>9, <3>3 DEF InsertVersion
    <3>4. \A q \in Runs : uploaded'[q] < nextId'
      BY <3>1, <2>9 DEF InsertVersion
    <3>5. \A q \in Runs : pc'[q] = "flipping" => bucket'[draft'[q]] # None /\ uploaded'[q] = draft'[q]
      BY <3>1, <2>9 DEF InsertVersion
    <3>6. \A q \in Runs : pc'[q] \notin {"flipping", "failing", "cleaning"} => uploaded'[q] = 0
      BY <3>1, <2>9 DEF InsertVersion
    <3>7. \A q \in Runs : pc'[q] \in {"failing", "cleaning"} /\ uploaded'[q] # 0 => uploaded'[q] \notin rows'
      BY <3>1, <2>9 DEF InsertVersion
    <3>8. \A q \in Runs : current' \notin doomed'[q]
      BY <2>9 DEF InsertVersion
    <3>9. DeletionsSafe'
      BY <3>3, <3>4, <3>5, <3>6, <3>7, <3>8
    <3>10. ServedArchiveExists'
      BY <2>9 DEF InsertVersion
    <3>. QED
      BY <3>9, <3>10
  <2>10. ASSUME NEW r \in Runs, InsertWaits(r) PROVE ArchiveSafe'
    BY <2>10 DEF InsertWaits, Numbered
  <2>11. ASSUME NEW r \in Runs, InsertRefused(r) PROVE ArchiveSafe'
    BY <2>11 DEF InsertRefused, Rollback, TransactionEnds
  <2>12. ASSUME NEW r \in Runs, PublishValues(r) PROVE ArchiveSafe'
    BY <2>12 DEF PublishValues, VersionValues, Eligible
  <2>13. ASSUME NEW p \in Procs, ComputeCells(p) PROVE ArchiveSafe'
    BY <2>13 DEF ComputeCells
  <2>14. ASSUME NEW r \in Runs, Upload(r) PROVE ArchiveSafe'
    BY <2>14 DEF Upload
  <2>15. ASSUME NEW r \in Runs, Flip(r) PROVE ArchiveSafe'
    BY <2>15 DEF Flip, CommitVersion, PointerMoves, TransactionEnds
  <2>16. ASSUME NEW r \in Runs, FlipUnanswered(r) PROVE ArchiveSafe'
    BY <2>0, <2>16
  <2>17. ASSUME NEW r \in Runs, UploadUnanswered(r) PROVE ArchiveSafe'
    BY <2>0, <2>17
  <2>18. ASSUME NEW r \in Runs, StepFails(r) PROVE ArchiveSafe'
    BY <2>18 DEF StepFails, Rollback, TransactionEnds
  <2>19. ASSUME NEW r \in Runs, DeadlockVictim(r) PROVE ArchiveSafe'
    BY <2>19 DEF DeadlockVictim, Deadlock, Rollback, TransactionEnds
  <2>20. ASSUME NEW r \in Runs, RecordFailure(r) PROVE ArchiveSafe'
    <3>1. CASE End(r, "failed")
      BY <3>1, <2>20 DEF RecordFailure, End
    <3>2. CASE ~End(r, "failed")
      <4>1. pc[r] = "failing" /\ pc' = [pc EXCEPT ![r] = "cleaning"]
            /\ UNCHANGED <<rowVars, bucket, workVars>>
        BY <3>2, <2>20 DEF RecordFailure
      <4>3. DeletionsSafe'
        BY <4>1
      <4>4. ServedArchiveExists'
        BY <4>1
      <4>. QED
        BY <4>3, <4>4
    <3>. QED
      BY <3>1, <3>2
  <2>21. ASSUME NEW r \in Runs, DeleteArchive(r) PROVE ArchiveSafe'
    BY SMTT(30), <2>21 DEF DeleteArchive, End
  <2>22. ASSUME NEW r \in Runs, ReportFlip(r) PROVE ArchiveSafe'
    <3>1. PICK next \in {"pruning", "failing"} : pc' = [pc EXCEPT ![r] = next]
      BY <2>22 DEF ReportFlip
    <3>2. pc[r] = "reporting" /\ uploaded[r] = 0
      BY <2>22 DEF ReportFlip
    <3>3. CASE next = "pruning"
      BY <3>1, <3>2, <3>3, <2>22 DEF ReportFlip
    <3>4. CASE next = "failing"
      BY <3>1, <3>2, <3>4, <2>22 DEF ReportFlip
    <3>. QED
      BY <3>3, <3>4
  <2>23. ASSUME NEW r \in Runs, PruneSelect(r) PROVE ArchiveSafe'
    BY <2>23 DEF PruneSelect, PruneCandidates
  <2>24. ASSUME NEW r \in Runs, NEW v \in Versions, PruneDelete(r, v) PROVE ArchiveSafe'
    BY <2>24 DEF PruneDelete
  <2>25. ASSUME NEW r \in Runs, PruneCommit(r) PROVE ArchiveSafe'
    BY <2>25 DEF PruneCommit
  <2>26. ASSUME NEW r \in Runs, PruneFails(r) PROVE ArchiveSafe'
    BY <2>26 DEF PruneFails
  <2>27. ASSUME NEW r \in Runs, Succeed(r) PROVE ArchiveSafe'
    <3>1. \E how \in {"succeeded", "failed"} : End(r, how)
      BY <2>27 DEF Succeed
    <3>. QED
      BY <3>1, <2>27 DEF Succeed, End
  <2>28. ASSUME NEW f \in Refreshes, RefreshArchive(f) PROVE ArchiveSafe'
    BY <2>28 DEF RefreshArchive
  <2>29. ASSUME NEW f \in Refreshes, RefreshCommit(f) PROVE ArchiveSafe'
    BY <2>29 DEF RefreshCommit, TransactionEnds
  <2>30. ASSUME NEW f \in Refreshes, RefreshFails(f) PROVE ArchiveSafe'
    BY <2>30 DEF RefreshFails, Rollback, TransactionEnds
  <2>31. ASSUME NEW p \in Procs, Crash(p) PROVE ArchiveSafe'
    BY <2>31 DEF Crash, TransactionEnds
  <2>32. ASSUME NEW r \in Runs, RunStep(r) PROVE ArchiveSafe'
    BY <2>32, <2>6, <2>7, <2>8, <2>9, <2>10, <2>11, <2>12, <2>13, <2>14, <2>15,
       <2>19, <2>20, <2>21, <2>22, <2>23, <2>24, <2>25, <2>27
    DEF RunStep, Procs
  <2>33. ASSUME NEW f \in Refreshes, RefreshStep(f) PROVE ArchiveSafe'
    BY <2>33, <2>7, <2>8, <2>13, <2>28, <2>29
    DEF RefreshStep, Procs
  <2>34. CASE UNCHANGED vars
    BY <2>34 DEF vars
  <2>. HIDE DEF TypeOK, ArchiveSafe, DraftsFresh, DeletionsSafe, ServedArchiveExists
  <2>. QED
    BY <2>1, <2>2, <2>3, <2>4, <2>5, <2>6, <2>16, <2>17, <2>18, <2>26, <2>30,
       <2>31, <2>32, <2>33, <2>34
    DEF Next, Procs
<1>. QED
  BY <1>1, <1>2, TypeCorrect, FreshDrafts, PTL DEF Spec

(* The archive visitors are told to read is never missing, however many    *)
(* publishes and refreshes overlap, steps fail and workers die, as long as *)
(* no commit loses its answer and nobody moves the pointer by hand.        *)
THEOREM ServedArchive == Spec => [](Disturbed \/ ServedArchiveExists)
<1>1. ArchiveSafe => ServedArchiveExists
  BY DEF ArchiveSafe
<1>. QED
  BY <1>1, ArchiveSafety, PTL

(* Every non-empty set of versions has a newest one.                       *)
LEMMA NewestExists ==
  ASSUME NEW S \in SUBSET Versions, S # {}
  PROVE  \E m \in S : \A v \in S : v <= m
<1>. DEFINE Bound == {n \in Nat : \A v \in S : v <= n}
<1>1. PICK R : IsWellFoundedOn(R, Nat) /\ \A m, n \in Nat : m < n => <<m, n>> \in R
  <2>. DEFINE Less == OpToRel(<, Nat)
  <2>1. IsWellFoundedOn(Less, Nat)
    BY NatLessThanWellFounded
  <2>2. \A m, n \in Nat : m < n => <<m, n>> \in Less
    BY DEF OpToRel
  <2>. HIDE DEF Less
  <2>. QED
    BY <2>1, <2>2
<1>2. Bound \subseteq Nat /\ Bound # {}
  <2>1. MaxVersion \in Bound
    BY BoundsAssumption DEF Versions
  <2>. QED
    BY <2>1
<1>3. PICK n \in Bound : \A m \in Bound : ~ (<<m, n>> \in R)
  <2>1. IsWellFoundedOn(R, Nat)
    BY <1>1
  <2>. HIDE <1>1 DEF Bound
  <2>. QED
    BY <2>1, <1>2, WFMin
<1>4. n \in Nat /\ \A v \in S : v <= n
  BY <1>3
<1>5. CASE n \in S
  BY <1>4, <1>5
<1>6. CASE n \notin S
  <2>1. n > 0
    <3>1. PICK v \in S : TRUE
      OBVIOUS
    <3>. QED
      BY <3>1, <1>4, <1>6, BoundsAssumption DEF Versions
  <2>2. n - 1 \in Bound
    BY <2>1, <1>4, <1>6, BoundsAssumption DEF Versions
  <2>3. <<n - 1, n>> \in R
    BY <1>1, <1>4, <2>1
  <2>. QED
    BY <1>3, <2>2, <2>3
<1>. QED
  BY <1>5, <1>6

(* Rows whose archive is deleted or selected for deletion.                 *)
Doomed == {v \in rows : (\E r \in Runs : v \in doomed[r]) \/ (v \in archived /\ bucket[v] = None)}

(* Such a row is old: enough newer rows are kept, and it is not current.   *)
OnlyOldDoomed ==
  /\ archived \cap pruned = {}
  /\ \A v \in Doomed : v # current /\ Cardinality(Newer(v)) >= KeepVersions - 1

(* More newer rows leave a row old.                                        *)
LEMMA NewerGrows ==
  ASSUME NEW S \in SUBSET Versions, NEW T \in SUBSET S, Cardinality(T) >= KeepVersions - 1
  PROVE  Cardinality(S) >= KeepVersions - 1
<1>1. IsFiniteSet(Versions)
  BY FS_Interval, BoundsAssumption DEF Versions
<1>2. IsFiniteSet(S)
  BY <1>1, FS_Subset
<1>3. IsFiniteSet(T) /\ Cardinality(T) <= Cardinality(S)
  BY <1>2, FS_Subset
<1>4. Cardinality(S) \in Nat /\ Cardinality(T) \in Nat
  BY <1>2, <1>3, FS_CardinalityType
<1>. QED
  BY <1>3, <1>4, KeepAssumption

(* A step that only takes rows off the list of the doomed, and takes no    *)
(* newer row from a row that stays on it, keeps them old.                  *)
LEMMA OldStaysOld ==
  ASSUME TypeOK, TypeOK', OnlyOldDoomed, archived' \cap pruned' = {},
         Doomed' \subseteq Doomed,
         \A v \in Doomed' : v # current',
         \A v \in Doomed' : Newer(v) \subseteq Newer(v)'
  PROVE  OnlyOldDoomed'
<1>1. ASSUME NEW v \in Doomed' PROVE Cardinality(Newer(v)') >= KeepVersions - 1
  <2>1. Cardinality(Newer(v)) >= KeepVersions - 1
    BY <1>1 DEF OnlyOldDoomed
  <2>2. Newer(v) \subseteq Newer(v)' /\ Newer(v)' \subseteq Versions
    BY <1>1 DEF Newer, TypeOK
  <2>. QED
    BY <2>1, <2>2, NewerGrows
<1>. QED
  BY <1>1 DEF OnlyOldDoomed

(* Steps that move neither rows nor the pointer nor the prune.             *)
LEMMA RetentionUntouched ==
  ASSUME TypeOK, TypeOK', OnlyOldDoomed, UNCHANGED <<rows, current, archived, pruned>>,
         \A v \in rows : bucket'[v] = bucket[v] \/ bucket'[v] # None,
         \A r \in Runs : doomed'[r] \subseteq doomed[r]
  PROVE  OnlyOldDoomed'
<1>1. Doomed' \subseteq Doomed
  BY DEF TypeOK, Doomed, Procs
<1>2. \A v : Newer(v)' = Newer(v)
  BY DEF Newer
<1>. QED
  BY <1>1, <1>2, OldStaysOld DEF OnlyOldDoomed

(* The prune selects rows that are old even if all the doomed ones go.     *)
LEMMA SelectionIsOld ==
  ASSUME TypeOK, TypeOK', OnlyOldDoomed, NEW r \in Runs, PruneSelect(r)
  PROVE  OnlyOldDoomed'
<1>1. Doomed' \subseteq Doomed \cup PruneCandidates
  BY DEF TypeOK, Doomed, PruneSelect, rowVars, Procs
<1>2. \A v : Newer(v)' = Newer(v)
  BY DEF Newer, PruneSelect, rowVars
<1>3. \A v \in PruneCandidates : v # current /\ Cardinality(Newer(v)) >= KeepVersions - 1
  BY DEF PruneCandidates
<1>. QED
  BY <1>1, <1>2, <1>3 DEF OnlyOldDoomed, PruneSelect, rowVars

(* The commit of a prune leaves the newest doomed row its newer rows, and  *)
(* every other doomed row at least those.                                  *)
LEMMA PruningKeepsNewer ==
  ASSUME TypeOK, TypeOK', OnlyOldDoomed, NEW r \in Runs, PruneCommit(r)
  PROVE  OnlyOldDoomed'
<1>. USE DEF PruneCommit
<1>1. archived' \cap pruned' = {}
  BY DEF OnlyOldDoomed
<1>2. Doomed' \subseteq Doomed /\ current' = current
  BY DEF TypeOK, Doomed, Procs
<1>3. ASSUME NEW v \in Doomed' PROVE Cardinality(Newer(v)') >= KeepVersions - 1
  <2>1. PICK m \in Doomed : \A w \in Doomed : w <= m
    <3>1. Doomed \subseteq Versions /\ Doomed # {}
      BY <1>2, <1>3 DEF TypeOK, Doomed
    <3>. QED
      BY <3>1, NewestExists
  <2>2. Cardinality(Newer(m)) >= KeepVersions - 1
    BY <2>1 DEF OnlyOldDoomed
  <2>3. v <= m /\ m \in Nat /\ v \in Nat
    BY <1>2, <1>3, <2>1 DEF TypeOK, Doomed, Versions
  <2>4. doomed[r] \subseteq Doomed
    BY DEF TypeOK, Doomed, Procs
  <2>5. ASSUME NEW w \in Newer(m) PROVE w \in Newer(v)'
    <3>1. w \in rows \ pruned /\ w # current /\ w > m
      BY <2>5 DEF Newer
    <3>2. w \in Nat /\ ~(w <= m)
      BY <3>1, <2>3, BoundsAssumption DEF TypeOK, Versions
    <3>3. w \notin doomed[r]
      BY <3>2, <2>1, <2>4
    <3>4. w > v
      BY <3>1, <3>2, <2>3
    <3>. QED
      BY <3>1, <3>3, <3>4 DEF Newer
  <2>6. Newer(m) \subseteq Newer(v)'
    BY <2>5
  <2>7. Newer(v)' \subseteq Versions
    BY DEF Newer, TypeOK
  <2>. QED
    BY <2>2, <2>6, <2>7, NewerGrows
<1>. QED
  BY <1>1, <1>2, <1>3 DEF OnlyOldDoomed

(* A version that goes live is newer than all others and takes its place   *)
(* among those that are kept.                                              *)
LEMMA FlipKeepsNewer ==
  ASSUME TypeOK, TypeOK', DraftsFresh, ArchiveSafe, OnlyOldDoomed, NEW r \in Runs, Flip(r)
  PROVE  OnlyOldDoomed'
<1>. USE DEF Flip, CommitVersion, PointerMoves
<1>1. draft[r] \notin rows /\ bucket[draft[r]] # None
  BY DEF DraftsFresh, ArchiveSafe, DeletionsSafe, Drafting
<1>2. Doomed' \subseteq Doomed /\ draft[r] \notin Doomed'
  BY <1>1 DEF TypeOK, Doomed, Procs
<1>3. \A v \in Doomed' : v # current'
  BY <1>2
<1>4. \A v : Newer(v) \subseteq Newer(v)'
  BY <1>1 DEF Newer
<1>5. archived' \cap pruned' = {}
  BY <1>1 DEF OnlyOldDoomed, TypeOK
<1>. QED
  BY <1>2, <1>3, <1>4, <1>5, OldStaysOld

LEMMA RetentionStep ==
  ASSUME TypeOK, TypeOK', DraftsFresh, ArchiveSafe, OnlyOldDoomed, [Next]_vars, ~Disturbed'
  PROVE  OnlyOldDoomed'
<1>1. ASSUME NEW i \in Items, Stage(i) PROVE OnlyOldDoomed'
  BY <1>1, RetentionUntouched DEF Stage, TypeOK, Procs, Versions, rowVars, workVars, lockVars, itemVars
<1>2. ASSUME NEW i \in Items, NEW d \in {"approved", "rejected"}, Decide(i, d) PROVE OnlyOldDoomed'
  BY <1>2, RetentionUntouched DEF Decide, TypeOK, Procs, Versions, rowVars, workVars, lockVars, itemVars
<1>3. ASSUME NEW a \in Assumptions, Reprice(a) PROVE OnlyOldDoomed'
  BY <1>3, RetentionUntouched DEF Reprice, TypeOK, Procs, Versions, rowVars, workVars, lockVars, itemVars
<1>4. ASSUME NEW v \in Versions, OperatorFlip(v) PROVE OnlyOldDoomed'
  BY <1>4 DEF OperatorFlip, Spend, Events, Disturbed, TypeOK
<1>5. ASSUME NEW r \in Runs, Preflight(r) PROVE OnlyOldDoomed'
  BY <1>5, RetentionUntouched DEF Preflight, TypeOK, Procs, Versions, rowVars, workVars, lockVars, itemVars
<1>6. ASSUME NEW p \in Procs, BeginLock(p) PROVE OnlyOldDoomed'
  BY <1>6, RetentionUntouched DEF BeginLock, TypeOK, Procs, Versions, rowVars, workVars, lockVars, itemVars
<1>7. ASSUME NEW p \in Procs, GetLock(p) PROVE OnlyOldDoomed'
  BY <1>7, RetentionUntouched DEF GetLock, TypeOK, Procs, Versions, rowVars, workVars, lockVars, itemVars
<1>8. ASSUME NEW p \in Procs, LoseLock(p) PROVE OnlyOldDoomed'
  BY <1>8, RetentionUntouched DEF LoseLock, TypeOK, Procs, Versions, rowVars, workVars, lockVars, itemVars
<1>9. ASSUME NEW r \in Runs, InsertVersion(r) PROVE OnlyOldDoomed'
  BY <1>9, RetentionUntouched DEF InsertVersion, Numbered, TypeOK, Procs, Versions, rowVars, workVars, lockVars, itemVars
<1>10. ASSUME NEW r \in Runs, InsertWaits(r) PROVE OnlyOldDoomed'
  BY <1>10, RetentionUntouched DEF InsertWaits, Numbered, TypeOK, Procs, Versions, rowVars, workVars, lockVars, itemVars
<1>11. ASSUME NEW r \in Runs, InsertRefused(r) PROVE OnlyOldDoomed'
  BY <1>11, RetentionUntouched DEF InsertRefused, Rollback, TransactionEnds, TypeOK, Procs, Versions, rowVars, workVars, lockVars, itemVars
<1>12. ASSUME NEW r \in Runs, PublishValues(r) PROVE OnlyOldDoomed'
  BY <1>12, RetentionUntouched DEF PublishValues, TypeOK, Procs, Versions, rowVars, workVars, lockVars, itemVars
<1>13. ASSUME NEW p \in Procs, ComputeCells(p) PROVE OnlyOldDoomed'
  BY <1>13, RetentionUntouched DEF ComputeCells, TypeOK, Procs, Versions, rowVars, workVars, lockVars, itemVars
<1>14. ASSUME NEW r \in Runs, Upload(r) PROVE OnlyOldDoomed'
  <2>1. draft[r] \notin rows
    BY <1>14 DEF Upload, DraftsFresh, Drafting
  <2>. QED
    BY <1>14, <2>1, RetentionUntouched DEF Upload, TypeOK, Procs, rowVars
<1>15. ASSUME NEW r \in Runs, Flip(r) PROVE OnlyOldDoomed'
  BY <1>15, FlipKeepsNewer
<1>16. ASSUME NEW r \in Runs, FlipUnanswered(r) PROVE OnlyOldDoomed'
  BY <1>16 DEF FlipUnanswered, Spend, Events, Disturbed, Unanswered, TypeOK
<1>17. ASSUME NEW r \in Runs, UploadUnanswered(r) PROVE OnlyOldDoomed'
  BY <1>17 DEF UploadUnanswered, Spend, Events, Disturbed, Unanswered, TypeOK
<1>18. ASSUME NEW r \in Runs, StepFails(r) PROVE OnlyOldDoomed'
  BY <1>18, RetentionUntouched DEF StepFails, Rollback, TransactionEnds, TypeOK, Procs, Versions, rowVars, workVars, lockVars, itemVars
<1>19. ASSUME NEW r \in Runs, DeadlockVictim(r) PROVE OnlyOldDoomed'
  BY <1>19, RetentionUntouched DEF DeadlockVictim, Deadlock, Rollback, TransactionEnds, TypeOK, Procs, Versions, rowVars, workVars, lockVars, itemVars
<1>20. ASSUME NEW r \in Runs, RecordFailure(r) PROVE OnlyOldDoomed'
  BY <1>20, RetentionUntouched DEF RecordFailure, End, TypeOK, Procs, Versions, rowVars, workVars, lockVars, itemVars
<1>21. ASSUME NEW r \in Runs, DeleteArchive(r) PROVE OnlyOldDoomed'
  <2>1. bucket' = [bucket EXCEPT ![uploaded[r]] = None] \/ bucket' = bucket
    BY <1>21 DEF DeleteArchive
  <2>2. uploaded[r] = 0 \/ uploaded[r] \notin rows
    BY <1>21 DEF DeleteArchive, ArchiveSafe, DeletionsSafe
  <2>3. \A v \in rows : bucket'[v] = bucket[v]
    BY <2>1, <2>2 DEF TypeOK, Versions
  <2>. QED
    BY <1>21, <2>3, RetentionUntouched DEF DeleteArchive, End, rowVars
<1>22. ASSUME NEW r \in Runs, ReportFlip(r) PROVE OnlyOldDoomed'
  BY <1>22, RetentionUntouched DEF ReportFlip, TypeOK, Procs, Versions, rowVars, workVars, lockVars, itemVars
<1>23. ASSUME NEW r \in Runs, PruneSelect(r) PROVE OnlyOldDoomed'
  BY <1>23, SelectionIsOld
<1>24. ASSUME NEW r \in Runs, NEW v \in Versions, PruneDelete(r, v) PROVE OnlyOldDoomed'
  <2>. USE <1>24 DEF PruneDelete
  <2>1. Doomed' \subseteq Doomed
    BY DEF TypeOK, Doomed, Procs, workVars, rowVars
  <2>2. \A u : Newer(u)' = Newer(u)
    BY DEF Newer, rowVars
  <2>3. \A u \in Doomed' : u # current'
    BY <2>1 DEF OnlyOldDoomed, rowVars
  <2>. QED
    BY <2>1, <2>2, <2>3, OldStaysOld DEF OnlyOldDoomed, rowVars
<1>25. ASSUME NEW r \in Runs, PruneCommit(r) PROVE OnlyOldDoomed'
  BY <1>25, PruningKeepsNewer
<1>26. ASSUME NEW r \in Runs, PruneFails(r) PROVE OnlyOldDoomed'
  BY <1>26, RetentionUntouched DEF PruneFails, TypeOK, Procs, Versions, rowVars, workVars, lockVars, itemVars
<1>27. ASSUME NEW r \in Runs, Succeed(r) PROVE OnlyOldDoomed'
  BY <1>27, RetentionUntouched DEF Succeed, End, TypeOK, Procs, Versions, rowVars, workVars, lockVars, itemVars
<1>28. ASSUME NEW f \in Refreshes, RefreshArchive(f) PROVE OnlyOldDoomed'
  <2>1. heat[f] # None
    BY <1>28, ProcsAssumption DEF RefreshArchive, TypeOK, Procs
  <2>. QED
    BY <1>28, <2>1, RetentionUntouched DEF RefreshArchive, TypeOK, rowVars, workVars
<1>29. ASSUME NEW f \in Refreshes, RefreshCommit(f) PROVE OnlyOldDoomed'
  BY <1>29, RetentionUntouched DEF RefreshCommit, TransactionEnds, TypeOK, Procs, Versions, rowVars, workVars, lockVars, itemVars
<1>30. ASSUME NEW f \in Refreshes, RefreshFails(f) PROVE OnlyOldDoomed'
  BY <1>30, RetentionUntouched DEF RefreshFails, Rollback, TransactionEnds, TypeOK, Procs, Versions, rowVars, workVars, lockVars, itemVars
<1>31. ASSUME NEW p \in Procs, Crash(p) PROVE OnlyOldDoomed'
  BY <1>31, RetentionUntouched DEF Crash, TransactionEnds, TypeOK, Procs, Versions, rowVars, workVars, lockVars, itemVars
<1>32. ASSUME NEW r \in Runs, RunStep(r) PROVE OnlyOldDoomed'
  BY <1>32, <1>6, <1>7, <1>8, <1>9, <1>10, <1>11, <1>12, <1>13, <1>14, <1>15,
     <1>19, <1>20, <1>21, <1>22, <1>23, <1>24, <1>25, <1>27
  DEF RunStep, Procs
<1>33. ASSUME NEW f \in Refreshes, RefreshStep(f) PROVE OnlyOldDoomed'
  BY <1>33, <1>7, <1>8, <1>13, <1>28, <1>29 DEF RefreshStep, Procs
<1>34. CASE UNCHANGED vars
  BY <1>34, RetentionUntouched DEF vars, rowVars, workVars, TypeOK, Versions, Procs
<1>. QED
  BY <1>1, <1>2, <1>3, <1>4, <1>5, <1>6, <1>16, <1>17, <1>18, <1>26, <1>30,
     <1>31, <1>32, <1>33, <1>34
  DEF Next, Procs

(* Every version the retention rule keeps has its archive, whatever        *)
(* publishes, prunes, failures and refreshes overlap, so an operator can   *)
(* point at any of them.                                                   *)
THEOREM RetainedArchives == Spec => [](Disturbed \/ RetainedArchivesExist)
<1>1. Init => OnlyOldDoomed
  BY DEF Init, OnlyOldDoomed, Doomed, Procs
<1>2. TypeOK /\ TypeOK' /\ DraftsFresh /\ (Disturbed \/ ArchiveSafe) /\ (Disturbed \/ OnlyOldDoomed) /\ [Next]_vars
        => (Disturbed \/ OnlyOldDoomed)'
  BY RetentionStep, DisturbedStays
<1>3. TypeOK /\ OnlyOldDoomed => RetainedArchivesExist
  <2>. SUFFICES ASSUME TypeOK, OnlyOldDoomed, NEW v \in archived, Kept(v)
                PROVE  bucket[v] # None /\ v \notin pruned
    BY DEF RetainedArchivesExist
  <2>1. v \notin Doomed
    <3>1. Newer(v) \subseteq Versions
      BY DEF Newer, TypeOK
    <3>2. IsFiniteSet(Newer(v))
      <4>1. IsFiniteSet(Versions)
        BY FS_Interval, BoundsAssumption DEF Versions
      <4>. QED
        BY <3>1, <4>1, FS_Subset
    <3>3. Cardinality(Newer(v)) \in Nat
      BY <3>2, FS_CardinalityType
    <3>. QED
      BY <3>3, KeepAssumption DEF OnlyOldDoomed, Kept
  <2>. QED
    BY <2>1 DEF OnlyOldDoomed, Doomed, TypeOK
<1>. QED
  BY <1>1, <1>2, <1>3, TypeCorrect, FreshDrafts, ArchiveSafety, PTL DEF Spec

(* A lost answer, a failure that cannot be recorded or an archive that the *)
(* object store refuses to delete.                                         *)
Unreported == Unanswered \/ spent["report"] > 0 \/ spent["storage"] > 0

LEMMA UnreportedStays ==
  ASSUME TypeOK, [Next]_vars, ~Unreported'
  PROVE  ~Unreported
BY EventsCounted DEF TypeOK, Unreported, Unanswered, Events

(* Drafts have ids of their own, and an object exists for a draft only     *)
(* once it is uploaded; a run that failed remembers what to clean up.      *)
BeforeInsert == {"checked", "locking", "numbering", "inserting"}
Unbuilt == {"inserted", "valued", "building"}

DraftsApart ==
  /\ \A r \in Runs : draft[r] < nextId
  /\ \A q, r \in Runs : q # r /\ draft[q] = draft[r] => draft[q] = 0
  /\ \A r \in Runs : pc[r] \in BeforeInsert => draft[r] = 0
ObjectsKnown ==
  /\ \A v \in Versions : v >= nextId => bucket[v] = None
  /\ \A r \in Runs : pc[r] \in Unbuilt => bucket[draft[r]] = None
  /\ \A r \in Runs : pc[r] = "flipping" => uploaded[r] = draft[r]
  /\ \A r \in Runs : pc[r] \in BeforeInsert \cup Unbuilt \cup {"idle"} => uploaded[r] = 0
FailuresClean ==
  /\ \A r \in Runs : pc[r] \in {"failing", "cleaning"} =>
       /\ draft[r] \notin rows
       /\ uploaded[r] \in {0, draft[r]}
       /\ uploaded[r] = 0 /\ draft[r] # 0 => bucket[draft[r]] = None
  /\ \A r \in Runs : verdict[r] = "failed" => pc[r] = "idle"
CleanInv == DraftsApart /\ ObjectsKnown /\ FailuresClean /\ FailureLeavesNothing

LEMMA CleanStep ==
  ASSUME TypeOK, DraftsFresh, CleanInv, [Next]_vars, ~Unreported'
  PROVE  CleanInv'
<1>0. /\ \A r \in Runs : ~FlipUnanswered(r) /\ ~UploadUnanswered(r)
      /\ ~Spend("report") /\ ~Spend("storage")
  BY Answered, NotSpent DEF Unreported, Events
<1>. USE ProcsAssumption, BoundsAssumption
     DEF TypeOK, DraftsFresh, CleanInv, DraftsApart, ObjectsKnown, FailuresClean, FailureLeavesNothing,
         BeforeInsert, Unbuilt, Versions, Drafting, InTransaction, Procs, itemVars, rowVars, lockVars, workVars
<1>1. ASSUME NEW i \in Items, Stage(i) PROVE CleanInv'
  BY <1>1 DEF Stage
<1>2. ASSUME NEW i \in Items, NEW d \in {"approved", "rejected"}, Decide(i, d) PROVE CleanInv'
  BY <1>2 DEF Decide
<1>3. ASSUME NEW a \in Assumptions, Reprice(a) PROVE CleanInv'
  BY <1>3 DEF Reprice
<1>4. ASSUME NEW v \in Versions, OperatorFlip(v) PROVE CleanInv'
  BY <1>4 DEF OperatorFlip
<1>5. ASSUME NEW r \in Runs, Preflight(r) PROVE CleanInv'
  <2>1. DraftsApart'
    BY <1>5 DEF Preflight
  <2>2. ObjectsKnown'
    BY <1>5 DEF Preflight
  <2>3. FailuresClean'
    BY <1>5 DEF Preflight
  <2>4. FailureLeavesNothing'
    BY <1>5 DEF Preflight
  <2>. QED
    BY <2>1, <2>2, <2>3, <2>4
<1>6. ASSUME NEW p \in Procs, BeginLock(p) PROVE CleanInv'
  BY <1>6 DEF BeginLock
<1>7. ASSUME NEW p \in Procs, GetLock(p) PROVE CleanInv'
  BY <1>7 DEF GetLock
<1>8. ASSUME NEW p \in Procs, LoseLock(p) PROVE CleanInv'
  BY <1>8 DEF LoseLock
<1>9. ASSUME NEW r \in Runs, InsertVersion(r) PROVE CleanInv'
  <2>1. DraftsApart'
    BY <1>9 DEF InsertVersion, Numbered
  <2>2. ObjectsKnown'
    BY <1>9 DEF InsertVersion, Numbered
  <2>3. FailuresClean'
    BY <1>9 DEF InsertVersion, Numbered
  <2>4. FailureLeavesNothing'
    BY <1>9 DEF InsertVersion, Numbered
  <2>. QED
    BY <2>1, <2>2, <2>3, <2>4
<1>10. ASSUME NEW r \in Runs, InsertWaits(r) PROVE CleanInv'
  BY <1>10 DEF InsertWaits, Numbered
<1>11. ASSUME NEW r \in Runs, InsertRefused(r) PROVE CleanInv'
  BY <1>11 DEF InsertRefused, Rollback, TransactionEnds
<1>12. ASSUME NEW r \in Runs, PublishValues(r) PROVE CleanInv'
  BY <1>12 DEF PublishValues
<1>13. ASSUME NEW p \in Procs, ComputeCells(p) PROVE CleanInv'
  BY <1>13 DEF ComputeCells
<1>14. ASSUME NEW r \in Runs, Upload(r) PROVE CleanInv'
  BY <1>14 DEF Upload
<1>15. ASSUME NEW r \in Runs, Flip(r) PROVE CleanInv'
  BY <1>15 DEF Flip, CommitVersion, PointerMoves, TransactionEnds
<1>16. ASSUME NEW r \in Runs, FlipUnanswered(r) PROVE CleanInv'
  BY <1>0, <1>16
<1>17. ASSUME NEW r \in Runs, UploadUnanswered(r) PROVE CleanInv'
  BY <1>0, <1>17
<1>18. ASSUME NEW r \in Runs, StepFails(r) PROVE CleanInv'
  BY <1>18 DEF StepFails, Rollback, TransactionEnds
<1>19. ASSUME NEW r \in Runs, DeadlockVictim(r) PROVE CleanInv'
  BY <1>19 DEF DeadlockVictim, Deadlock, Rollback, TransactionEnds
<1>20. ASSUME NEW r \in Runs, RecordFailure(r) PROVE CleanInv'
  <2>6. CASE End(r, "failed")
    <3>5. pc[r] = "failing" /\ uploaded[r] = 0 /\ UNCHANGED bucket
      BY <1>20, <1>0, <2>6 DEF RecordFailure, End
    <3>1. DraftsApart'
      BY <2>6, <3>5 DEF End
    <3>2. ObjectsKnown'
      BY <2>6, <3>5 DEF End
    <3>3. FailuresClean'
      BY <2>6, <3>5 DEF End
    <3>4. FailureLeavesNothing'
      BY <2>6, <3>5 DEF End
    <3>. QED
      BY <3>1, <3>2, <3>3, <3>4
  <2>7. CASE ~ End(r, "failed")
    <3>5. pc[r] = "failing" /\ uploaded[r] # 0 /\ pc' = [pc EXCEPT ![r] = "cleaning"]
          /\ UNCHANGED <<itemVars, rowVars, bucket, lockVars, workVars, verdict>>
      BY <1>20, <1>0, <2>7 DEF RecordFailure
    <3>1. DraftsApart'
      BY <3>5
    <3>2. ObjectsKnown'
      BY <3>5
    <3>3. FailuresClean'
      BY <3>5
    <3>4. FailureLeavesNothing'
      BY <3>5
    <3>. QED
      BY <3>1, <3>2, <3>3, <3>4
  <2>. QED
    BY <2>6, <2>7
<1>21. ASSUME NEW r \in Runs, DeleteArchive(r) PROVE CleanInv'
  <2>6. pc[r] = "cleaning" /\ bucket' = [bucket EXCEPT ![uploaded[r]] = None] /\ End(r, "failed")
    BY <1>21, <1>0 DEF DeleteArchive
  <2>1. DraftsApart'
    BY <2>6 DEF End
  <2>2. ObjectsKnown'
    BY <2>6 DEF End
  <2>3. FailuresClean'
    BY <2>6 DEF End
  <2>4. FailureLeavesNothing'
    BY <2>6 DEF End
  <2>. QED
    BY <2>1, <2>2, <2>3, <2>4
<1>22. ASSUME NEW r \in Runs, ReportFlip(r) PROVE CleanInv'
  <2>6. pc[r] = "reporting" /\ pc' = [pc EXCEPT ![r] = "pruning"]
        /\ UNCHANGED <<itemVars, rowVars, bucket, workVars, verdict>>
    BY <1>22, <1>0 DEF ReportFlip
  <2>1. DraftsApart'
    BY <2>6
  <2>2. ObjectsKnown'
    BY <2>6
  <2>3. FailuresClean'
    BY <2>6
  <2>4. FailureLeavesNothing'
    BY <2>6
  <2>. QED
    BY <2>1, <2>2, <2>3, <2>4
<1>23. ASSUME NEW r \in Runs, PruneSelect(r) PROVE CleanInv'
  BY <1>23 DEF PruneSelect, PruneCandidates
<1>24. ASSUME NEW r \in Runs, NEW v \in Versions, PruneDelete(r, v) PROVE CleanInv'
  BY <1>24 DEF PruneDelete
<1>25. ASSUME NEW r \in Runs, PruneCommit(r) PROVE CleanInv'
  BY <1>25 DEF PruneCommit
<1>26. ASSUME NEW r \in Runs, PruneFails(r) PROVE CleanInv'
  BY <1>26 DEF PruneFails
<1>27. ASSUME NEW r \in Runs, Succeed(r) PROVE CleanInv'
  <2>6. pc[r] = "pruned" /\ End(r, "succeeded") /\ UNCHANGED bucket
    BY <1>27, <1>0 DEF Succeed
  <2>1. DraftsApart'
    BY <2>6 DEF End
  <2>2. ObjectsKnown'
    BY <2>6 DEF End
  <2>3. FailuresClean'
    BY <2>6 DEF End
  <2>4. FailureLeavesNothing'
    BY <2>6 DEF End
  <2>. QED
    BY <2>1, <2>2, <2>3, <2>4
<1>28. ASSUME NEW f \in Refreshes, RefreshArchive(f) PROVE CleanInv'
  BY <1>28 DEF RefreshArchive
<1>29. ASSUME NEW f \in Refreshes, RefreshCommit(f) PROVE CleanInv'
  BY <1>29 DEF RefreshCommit, TransactionEnds
<1>30. ASSUME NEW f \in Refreshes, RefreshFails(f) PROVE CleanInv'
  BY <1>30 DEF RefreshFails, Rollback, TransactionEnds
<1>31. ASSUME NEW p \in Procs, Crash(p) PROVE CleanInv'
  BY <1>31 DEF Crash, TransactionEnds
<1>32. ASSUME NEW r \in Runs, RunStep(r) PROVE CleanInv'
  BY <1>32, <1>6, <1>7, <1>8, <1>9, <1>10, <1>11, <1>12, <1>13, <1>14, <1>15,
     <1>19, <1>20, <1>21, <1>22, <1>23, <1>24, <1>25, <1>27
  DEF RunStep, Procs
<1>33. ASSUME NEW f \in Refreshes, RefreshStep(f) PROVE CleanInv'
  BY <1>33, <1>7, <1>8, <1>13, <1>28, <1>29 DEF RefreshStep, Procs
<1>34. CASE UNCHANGED vars
  BY <1>34 DEF vars
<1>. HIDE DEF TypeOK, DraftsFresh, CleanInv
<1>. QED
  BY <1>1, <1>2, <1>3, <1>4, <1>5, <1>6, <1>16, <1>17, <1>18, <1>26, <1>30,
     <1>31, <1>32, <1>33, <1>34
  DEF Next, Procs

(* A run that failed, and could say so, left no version and no archive.    *)
THEOREM FailureClean == Spec => [](Unreported \/ FailureLeavesNothing)
<1>1. Init => CleanInv
  BY ProcsAssumption, BoundsAssumption DEF Init, CleanInv, DraftsApart, ObjectsKnown, FailuresClean, FailureLeavesNothing,
     BeforeInsert, Unbuilt, Versions, Procs
<1>2. TypeOK /\ DraftsFresh /\ (Unreported \/ CleanInv) /\ [Next]_vars => (Unreported \/ CleanInv)'
  BY CleanStep, UnreportedStays
<1>3. CleanInv => FailureLeavesNothing
  BY DEF CleanInv
<1>. QED
  BY <1>1, <1>2, <1>3, TypeCorrect, FreshDrafts, PTL DEF Spec

(* A step failed, a worker died or an operator moved the pointer.          *)
Interrupted == spent["step"] > 0 \/ spent["crash"] > 0 \/ spent["operator"] > 0

LEMMA UninterruptedStays ==
  ASSUME TypeOK, [Next]_vars, ~(Unanswered \/ Interrupted)'
  PROVE  ~(Unanswered \/ Interrupted)
BY EventsCounted DEF TypeOK, Interrupted, Unanswered, Events

(* A refresh owns the current row from its lock to its commit, and a draft *)
(* is uploaded with the heatmap it will be recorded with; so the current   *)
(* archive shows the heatmap that is recorded, or a refresh has just       *)
(* replaced it.                                                            *)
RefreshOwnsRow ==
  \A f \in Refreshes : pc[f] \in {"locked", "rebuilding", "refreshing"} =>
     /\ base[f] = current /\ current # 0 /\ holder[current] = f
     /\ pc[f] = "refreshing" /\ current \in archived => bucket[current] = heat[f]
DraftShowsHeat == \A r \in Runs : pc[r] = "flipping" => bucket[draft[r]] = heat[r]
Refreshed == \E f \in Refreshes : pc[f] = "refreshing" /\ base[f] = current
ArchiveShowsCells == current \in archived => Refreshed \/ bucket[current] = cells[current]
HeatmapsMatch == RefreshOwnsRow /\ DraftShowsHeat /\ ArchiveShowsCells

LEMMA HeatmapsStep ==
  ASSUME TypeOK, TypeOK', DraftsFresh, ArchiveSafe, HeatmapsMatch, [Next]_vars, ~(Unanswered \/ Interrupted)'
  PROVE  HeatmapsMatch'
<1>0. /\ \A r \in Runs : ~FlipUnanswered(r) /\ ~UploadUnanswered(r)
      /\ ~Spend("operator") /\ ~Spend("step") /\ ~Spend("crash")
  BY Answered, NotSpent DEF Interrupted, Events
<1>. USE ProcsAssumption, BoundsAssumption
     DEF TypeOK, DraftsFresh, ArchiveSafe, DeletionsSafe, HeatmapsMatch, RefreshOwnsRow, DraftShowsHeat, ArchiveShowsCells, Refreshed,
         Versions, Drafting, InTransaction, Procs, itemVars, rowVars, lockVars, workVars
<1>1. ASSUME NEW i \in Items, Stage(i) PROVE HeatmapsMatch'
  BY <1>1 DEF Stage
<1>2. ASSUME NEW i \in Items, NEW d \in {"approved", "rejected"}, Decide(i, d) PROVE HeatmapsMatch'
  BY <1>2 DEF Decide
<1>3. ASSUME NEW a \in Assumptions, Reprice(a) PROVE HeatmapsMatch'
  BY <1>3 DEF Reprice
<1>4. ASSUME NEW v \in Versions, OperatorFlip(v) PROVE HeatmapsMatch'
  BY <1>0, <1>4 DEF OperatorFlip
<1>5. ASSUME NEW r \in Runs, Preflight(r) PROVE HeatmapsMatch'
  BY <1>5 DEF Preflight
<1>6. ASSUME NEW p \in Procs, BeginLock(p) PROVE HeatmapsMatch'
  BY <1>6 DEF BeginLock
<1>7. ASSUME NEW p \in Procs, GetLock(p) PROVE HeatmapsMatch'
  BY <1>7 DEF GetLock
<1>8. ASSUME NEW p \in Procs, LoseLock(p) PROVE HeatmapsMatch'
  BY <1>8 DEF LoseLock
<1>9. ASSUME NEW r \in Runs, InsertVersion(r) PROVE HeatmapsMatch'
  BY <1>9 DEF InsertVersion, Numbered
<1>10. ASSUME NEW r \in Runs, InsertWaits(r) PROVE HeatmapsMatch'
  BY <1>10 DEF InsertWaits, Numbered
<1>11. ASSUME NEW r \in Runs, InsertRefused(r) PROVE HeatmapsMatch'
  BY <1>11 DEF InsertRefused, Rollback, TransactionEnds
<1>12. ASSUME NEW r \in Runs, PublishValues(r) PROVE HeatmapsMatch'
  BY <1>12 DEF PublishValues
<1>13. ASSUME NEW p \in Procs, ComputeCells(p) PROVE HeatmapsMatch'
  BY <1>13 DEF ComputeCells
<1>14. ASSUME NEW r \in Runs, Upload(r) PROVE HeatmapsMatch'
  BY <1>14 DEF Upload
<1>15. ASSUME NEW r \in Runs, Flip(r) PROVE HeatmapsMatch'
  BY <1>15 DEF Flip, CommitVersion, PointerMoves, TransactionEnds
<1>16. ASSUME NEW r \in Runs, FlipUnanswered(r) PROVE HeatmapsMatch'
  BY <1>0, <1>16
<1>17. ASSUME NEW r \in Runs, UploadUnanswered(r) PROVE HeatmapsMatch'
  BY <1>0, <1>17
<1>18. ASSUME NEW r \in Runs, StepFails(r) PROVE HeatmapsMatch'
  BY <1>0, <1>18 DEF StepFails
<1>19. ASSUME NEW r \in Runs, DeadlockVictim(r) PROVE HeatmapsMatch'
  BY <1>19 DEF DeadlockVictim, Deadlock, Rollback, TransactionEnds
<1>20. ASSUME NEW r \in Runs, RecordFailure(r) PROVE HeatmapsMatch'
  <2>1. PICK next \in {"idle", "cleaning"} : pc' = [pc EXCEPT ![r] = next]
    BY <1>20 DEF RecordFailure, End
  <2>2. UNCHANGED <<current, archived, cells, bucket, holder, base, heat, draft>>
    BY <1>20 DEF RecordFailure, End
  <2>3. pc[r] = "failing"
    BY <1>20 DEF RecordFailure
  <2>. QED
    BY <2>1, <2>2, <2>3
<1>21. ASSUME NEW r \in Runs, DeleteArchive(r) PROVE HeatmapsMatch'
  BY <1>21 DEF DeleteArchive, End
<1>22. ASSUME NEW r \in Runs, ReportFlip(r) PROVE HeatmapsMatch'
  BY <1>22 DEF ReportFlip
<1>23. ASSUME NEW r \in Runs, PruneSelect(r) PROVE HeatmapsMatch'
  BY <1>23 DEF PruneSelect, PruneCandidates
<1>24. ASSUME NEW r \in Runs, NEW v \in Versions, PruneDelete(r, v) PROVE HeatmapsMatch'
  BY <1>24 DEF PruneDelete
<1>25. ASSUME NEW r \in Runs, PruneCommit(r) PROVE HeatmapsMatch'
  BY <1>25 DEF PruneCommit
<1>26. ASSUME NEW r \in Runs, PruneFails(r) PROVE HeatmapsMatch'
  BY <1>0, <1>26 DEF PruneFails
<1>27. ASSUME NEW r \in Runs, Succeed(r) PROVE HeatmapsMatch'
  <2>1. pc' = [pc EXCEPT ![r] = "idle"] /\ UNCHANGED <<current, archived, cells, bucket, holder, base, heat, draft>>
    BY <1>27 DEF Succeed, End
  <2>. QED
    BY <2>1
<1>28. ASSUME NEW f \in Refreshes, RefreshArchive(f) PROVE HeatmapsMatch'
  BY <1>28 DEF RefreshArchive
<1>29. ASSUME NEW f \in Refreshes, RefreshCommit(f) PROVE HeatmapsMatch'
  BY <1>29 DEF RefreshCommit, TransactionEnds
<1>30. ASSUME NEW f \in Refreshes, RefreshFails(f) PROVE HeatmapsMatch'
  BY <1>0, <1>30 DEF RefreshFails
<1>31. ASSUME NEW p \in Procs, Crash(p) PROVE HeatmapsMatch'
  BY <1>0, <1>31 DEF Crash
<1>32. ASSUME NEW r \in Runs, RunStep(r) PROVE HeatmapsMatch'
  BY <1>32, <1>6, <1>7, <1>8, <1>9, <1>10, <1>11, <1>12, <1>13, <1>14, <1>15,
     <1>19, <1>20, <1>21, <1>22, <1>23, <1>24, <1>25, <1>27
  DEF RunStep, Procs
<1>33. ASSUME NEW f \in Refreshes, RefreshStep(f) PROVE HeatmapsMatch'
  BY <1>33, <1>7, <1>8, <1>13, <1>28, <1>29 DEF RefreshStep, Procs
<1>34. CASE UNCHANGED vars
  BY <1>34 DEF vars
<1>. HIDE DEF TypeOK, DraftsFresh, ArchiveSafe, HeatmapsMatch
<1>. QED
  BY <1>1, <1>2, <1>3, <1>4, <1>5, <1>6, <1>16, <1>17, <1>18, <1>26, <1>30,
     <1>31, <1>32, <1>33, <1>34
  DEF Next, Procs

(* Visitors see the heatmap of the assumptions that apply, or the pointer  *)
(* tells that it is stale, or a refresh is about to commit, as long as no  *)
(* upload or commit loses its answer, no step fails, no worker dies and    *)
(* nobody moves the pointer by hand.                                       *)
THEOREM HeatmapCorrect == Spec => [](Interrupted \/ HeatmapRight)
<1>1. Init => HeatmapsMatch
  BY DEF Init, HeatmapsMatch, RefreshOwnsRow, DraftShowsHeat, ArchiveShowsCells, Procs
<1>2. TypeOK /\ TypeOK' /\ DraftsFresh /\ (Disturbed \/ ArchiveSafe)
      /\ (Unanswered \/ Interrupted \/ HeatmapsMatch) /\ [Next]_vars
        => (Unanswered \/ Interrupted \/ HeatmapsMatch)'
  <2>. SUFFICES ASSUME TypeOK, TypeOK', DraftsFresh, Disturbed \/ ArchiveSafe,
                       Unanswered \/ Interrupted \/ HeatmapsMatch, [Next]_vars, ~(Unanswered \/ Interrupted)'
                PROVE  HeatmapsMatch'
    OBVIOUS
  <2>1. ~(Unanswered \/ Interrupted)
    BY UninterruptedStays
  <2>2. ArchiveSafe /\ HeatmapsMatch
    BY <2>1 DEF Disturbed, Interrupted
  <2>. QED
    BY <2>2, HeatmapsStep
<1>3. HeatmapsMatch => HeatmapRight
  BY DEF HeatmapsMatch, ArchiveShowsCells, Refreshed, HeatmapRight
<1>4. Unanswered => HeatmapRight
  BY DEF Unanswered, HeatmapRight
<1>. QED
  BY <1>1, <1>2, <1>3, <1>4, TypeCorrect, FreshDrafts, ArchiveSafety, PTL DEF Spec

(* With one publish at a time, what its transaction read and drafted still *)
(* describes the database: the row it locked is the current one, and its   *)
(* draft already carries every item published so far and those it closed.  *)
DraftComplete ==
  /\ \A r \in Runs : pc[r] = "locking" => wanted[r] = current
  /\ \A r \in Runs : pc[r] \in {"numbering", "inserted"} => base[r] = current
  /\ \A r \in Runs : pc[r] # "inserting"
  /\ \A r \in Runs : pc[r] \in {"valued", "building", "flipping"} =>
       /\ closing[r] \subseteq values[draft[r]]
       /\ \A i \in Items : item[i] = "published" => i \in values[draft[r]]
  /\ \A i \in Items : item[i] = "published" => current # 0

(* One publish at a time never loses a value: whatever fails, refreshes,   *)
(* dies or loses its answer, an item that was published stays served.      *)
THEOREM PublishedServed ==
  ASSUME \A q, r \in Runs : q = r, Budget["operator"] = 0
  PROVE  Spec => []PublishedStaysServed
<1>. DEFINE Inv == DraftComplete /\ PublishedStaysServed
<1>. USE ProcsAssumption, BoundsAssumption DEF Versions, Drafting, InTransaction, Procs
<1>1. Init => Inv
  BY DEF Init, DraftComplete, PublishedStaysServed
<1>2. TypeOK /\ DraftsFresh /\ Inv /\ [Next]_vars => Inv'
  <2>. SUFFICES ASSUME TypeOK, DraftsFresh, Inv, [Next]_vars PROVE Inv'
    OBVIOUS
  <2>. USE DEF TypeOK, DraftsFresh, DraftComplete, PublishedStaysServed, itemVars, rowVars, lockVars, workVars
  <2>1. ASSUME NEW i \in Items, Stage(i) PROVE Inv'
    BY <2>1 DEF Stage
  <2>2. ASSUME NEW i \in Items, NEW d \in {"approved", "rejected"}, Decide(i, d) PROVE Inv'
    BY <2>2 DEF Decide
  <2>3. ASSUME NEW a \in Assumptions, Reprice(a) PROVE Inv'
    BY <2>3 DEF Reprice
  <2>4. ASSUME NEW v \in Versions, OperatorFlip(v) PROVE Inv'
    BY <2>4 DEF OperatorFlip, Spend, Events
  <2>5. ASSUME NEW r \in Runs, Preflight(r) PROVE Inv'
    BY <2>5 DEF Preflight
  <2>6. ASSUME NEW p \in Procs, BeginLock(p) PROVE Inv'
    BY <2>6 DEF BeginLock
  <2>7. ASSUME NEW p \in Procs, GetLock(p) PROVE Inv'
    BY <2>7 DEF GetLock
  <2>8. ASSUME NEW p \in Procs, LoseLock(p) PROVE Inv'
    BY <2>8 DEF LoseLock
  <2>9. ASSUME NEW r \in Runs, InsertVersion(r) PROVE Inv'
    BY <2>9 DEF InsertVersion, Numbered
  <2>10. ASSUME NEW r \in Runs, InsertWaits(r) PROVE Inv'
    BY <2>10 DEF InsertWaits, Numbered
  <2>11. ASSUME NEW r \in Runs, InsertRefused(r) PROVE Inv'
    BY <2>11 DEF InsertRefused, Rollback, TransactionEnds
  <2>12. ASSUME NEW r \in Runs, PublishValues(r) PROVE Inv'
    BY <2>12 DEF PublishValues, VersionValues, Eligible
  <2>13. ASSUME NEW p \in Procs, ComputeCells(p) PROVE Inv'
    BY <2>13 DEF ComputeCells
  <2>14. ASSUME NEW r \in Runs, Upload(r) PROVE Inv'
    BY <2>14 DEF Upload
  <2>15. ASSUME NEW r \in Runs, Flip(r) PROVE Inv'
    BY <2>15 DEF Flip, CommitVersion, PointerMoves, TransactionEnds
  <2>16. ASSUME NEW r \in Runs, FlipUnanswered(r) PROVE Inv'
    BY <2>16 DEF FlipUnanswered, CommitVersion, PointerMoves, TransactionEnds
  <2>17. ASSUME NEW r \in Runs, UploadUnanswered(r) PROVE Inv'
    BY <2>17 DEF UploadUnanswered, Rollback, TransactionEnds
  <2>18. ASSUME NEW r \in Runs, StepFails(r) PROVE Inv'
    BY <2>18 DEF StepFails, Rollback, TransactionEnds
  <2>19. ASSUME NEW r \in Runs, DeadlockVictim(r) PROVE Inv'
    BY <2>19 DEF DeadlockVictim, Deadlock, Rollback, TransactionEnds
  <2>20. ASSUME NEW r \in Runs, RecordFailure(r) PROVE Inv'
    <3>1. UNCHANGED <<item, current, values, lockVars, draft, closing>>
      BY <2>20 DEF RecordFailure, End
    <3>2. CASE pc' = [pc EXCEPT ![r] = "cleaning"]
      BY <3>1, <3>2
    <3>3. CASE pc' = [pc EXCEPT ![r] = "idle"]
      BY <3>1, <3>3
    <3>. QED
      BY <3>2, <3>3, <2>20 DEF RecordFailure, End
  <2>21. ASSUME NEW r \in Runs, DeleteArchive(r) PROVE Inv'
    BY <2>21 DEF DeleteArchive, End
  <2>22. ASSUME NEW r \in Runs, ReportFlip(r) PROVE Inv'
    BY <2>22 DEF ReportFlip
  <2>23. ASSUME NEW r \in Runs, PruneSelect(r) PROVE Inv'
    BY <2>23 DEF PruneSelect, PruneCandidates
  <2>24. ASSUME NEW r \in Runs, NEW v \in Versions, PruneDelete(r, v) PROVE Inv'
    BY <2>24 DEF PruneDelete
  <2>25. ASSUME NEW r \in Runs, PruneCommit(r) PROVE Inv'
    BY <2>25 DEF PruneCommit
  <2>26. ASSUME NEW r \in Runs, PruneFails(r) PROVE Inv'
    BY <2>26 DEF PruneFails
  <2>27. ASSUME NEW r \in Runs, Succeed(r) PROVE Inv'
    <3>1. UNCHANGED <<item, current, values, lockVars, draft, closing>> /\ pc' = [pc EXCEPT ![r] = "idle"]
      BY <2>27 DEF Succeed, End
    <3>. QED
      BY <3>1
  <2>28. ASSUME NEW f \in Refreshes, RefreshArchive(f) PROVE Inv'
    BY <2>28 DEF RefreshArchive
  <2>29. ASSUME NEW f \in Refreshes, RefreshCommit(f) PROVE Inv'
    BY <2>29 DEF RefreshCommit, TransactionEnds
  <2>30. ASSUME NEW f \in Refreshes, RefreshFails(f) PROVE Inv'
    BY <2>30 DEF RefreshFails, Rollback, TransactionEnds
  <2>31. ASSUME NEW p \in Procs, Crash(p) PROVE Inv'
    BY <2>31 DEF Crash, TransactionEnds
  <2>32. ASSUME NEW r \in Runs, RunStep(r) PROVE Inv'
    BY <2>32, <2>6, <2>7, <2>8, <2>9, <2>10, <2>11, <2>12, <2>13, <2>14, <2>15,
       <2>19, <2>20, <2>21, <2>22, <2>23, <2>24, <2>25, <2>27
    DEF RunStep, Procs
  <2>33. ASSUME NEW f \in Refreshes, RefreshStep(f) PROVE Inv'
    BY <2>33, <2>7, <2>8, <2>13, <2>28, <2>29
    DEF RefreshStep, Procs
  <2>34. CASE UNCHANGED vars
    BY <2>34 DEF vars
  <2>. HIDE DEF TypeOK, DraftsFresh, Inv, DraftComplete, PublishedStaysServed
  <2>. QED
    BY <2>1, <2>2, <2>3, <2>4, <2>5, <2>6, <2>16, <2>17, <2>18, <2>26, <2>30,
       <2>31, <2>32, <2>33, <2>34
    DEF Next, Procs
<1>. QED
  BY <1>1, <1>2, TypeCorrect, FreshDrafts, PTL DEF Spec
==============================================================================
