--------------------------- MODULE JobQueueProofs ---------------------------
(* Theorems about JobQueue for every number of jobs, keys, requests,       *)
(* workers, attempts and faults.                                           *)
EXTENDS JobQueue, TLAPS

(* A fault only moves its own counter.                                     *)
LEMMA FaultsCounted ==
  ASSUME TypeOK, NEW f \in FaultKinds, Suffer(f)
  PROVE  faults' \in [FaultKinds -> Nat]
BY DEF TypeOK, Suffer

(* Every reachable state has the shape the schema and the code give it.    *)
THEOREM TypeCorrect == Spec => []TypeOK
<1>. USE DEF CallerStates, Statuses, Active, Final
<1>1. Init => TypeOK
  BY DEF Init, TypeOK, IdleCaller
<1>2. TypeOK /\ [Next]_vars => TypeOK'
  <2>. SUFFICES ASSUME TypeOK, [Next]_vars PROVE TypeOK'
    OBVIOUS
  <2>. USE NoneAssumption DEF TypeOK, rowVars, workerVars
  <2>1. ASSUME NEW c \in Callers, NEW k \in Keys, EnqueueCheck(c, k) PROVE TypeOK'
    BY <2>1 DEF EnqueueCheck
  <2>2. ASSUME NEW c \in Callers, NEW j \in Jobs, EnqueueInsert(c, j) PROVE TypeOK'
    BY <2>2 DEF EnqueueInsert
  <2>3. ASSUME NEW c \in Callers, EnqueueConflict(c) PROVE TypeOK'
    BY <2>3 DEF EnqueueConflict, IdleCaller
  <2>4. ASSUME NEW c \in Callers, NEW j \in Jobs, Requeue(c, j) PROVE TypeOK'
    BY <2>4 DEF Requeue
  <2>5. ASSUME NEW c \in Callers, Dispatch(c) PROVE TypeOK'
    BY <2>5 DEF Dispatch, IdleCaller
  <2>6. ASSUME NEW c \in Callers, DispatchError(c) PROVE TypeOK'
    BY <2>6 DEF DispatchError, Suffer
  <2>7. ASSUME NEW c \in Callers, RecordDispatchFailure(c) PROVE TypeOK'
    BY <2>7 DEF RecordDispatchFailure, IdleCaller
  <2>8. ASSUME NEW c \in Callers, CallerAbandons(c) PROVE TypeOK'
    <3>1. faults' \in [FaultKinds -> Nat]
      BY <2>8, FaultsCounted DEF CallerAbandons, FaultKinds
    <3>. QED
      BY <3>1, <2>8 DEF CallerAbandons, IdleCaller
  <2>9. ASSUME NEW w \in Workers, NEW j \in Jobs, Load(w, j) PROVE TypeOK'
    BY <2>9 DEF Load, IsFinal
  <2>10. ASSUME NEW w \in Workers, MarkRunning(w) PROVE TypeOK'
    BY <2>10 DEF MarkRunning
  <2>11. ASSUME NEW w \in Workers, NEW verdict \in Final, Finish(w, verdict) PROVE TypeOK'
    BY <2>11 DEF Finish
  <2>12. ASSUME NEW w \in Workers, MarkRetrying(w) PROVE TypeOK'
    BY <2>12 DEF MarkRetrying
  <2>13. ASSUME NEW w \in Workers, IndexRefuses(w) PROVE TypeOK'
    BY <2>13 DEF IndexRefuses
  <2>14. ASSUME NEW w \in Workers, Resend(w) PROVE TypeOK'
    BY <2>14 DEF Resend
  <2>15. ASSUME NEW w \in Workers, Ack(w) PROVE TypeOK'
    BY <2>15 DEF Ack, Release
  <2>16. ASSUME NEW w \in Workers, Crash(w) PROVE TypeOK'
    <3>1. faults' \in [FaultKinds -> Nat]
      BY <2>16, FaultsCounted DEF Crash, FaultKinds
    <3>. QED
      BY <3>1, <2>16 DEF Crash, Release
  <2>17. ASSUME NEW w \in Workers, Restore(w) PROVE TypeOK'
    <3>1. faults' \in [FaultKinds -> Nat]
      BY <2>17, FaultsCounted DEF Restore, FaultKinds
    <3>. QED
      BY <3>1, <2>17 DEF Restore
  <2>18. ASSUME NEW w \in Workers, WorkerAbandons(w) PROVE TypeOK'
    <3>1. faults' \in [FaultKinds -> Nat]
      BY <2>18, FaultsCounted DEF WorkerAbandons, FaultKinds
    <3>. QED
      BY <3>1, <2>18 DEF WorkerAbandons, Release
  <2>19. CASE UNCHANGED vars
    BY <2>19 DEF vars, rowVars, workerVars
  <2>. QED
    BY <2>1, <2>2, <2>3, <2>4, <2>5, <2>6, <2>7, <2>8, <2>9, <2>10, <2>11, <2>12, <2>13, <2>14, <2>15, <2>16, <2>17, <2>18, <2>19
    DEF Next, CallerStep, WorkerStep
<1>. QED
  BY <1>1, <1>2, PTL DEF Spec

(* Two jobs of one dedupe key are never active together.                   *)
THEOREM KeyExclusive == Spec => []OneActivePerKey
<1>1. Init => OneActivePerKey
  BY DEF Init, OneActivePerKey, IsActive, Active
<1>2. TypeOK /\ OneActivePerKey /\ [Next]_vars => OneActivePerKey'
  <2>. SUFFICES ASSUME TypeOK, OneActivePerKey, [Next]_vars PROVE OneActivePerKey'
    OBVIOUS
  <2>. USE NoneAssumption DEF TypeOK, OneActivePerKey, IsActive, Active, Final, rowVars, workerVars
  <2>1. ASSUME NEW c \in Callers, NEW k \in Keys, EnqueueCheck(c, k) PROVE OneActivePerKey'
    BY <2>1 DEF EnqueueCheck
  <2>2. ASSUME NEW c \in Callers, NEW j \in Jobs, EnqueueInsert(c, j) PROVE OneActivePerKey'
    BY <2>2 DEF EnqueueInsert, KeyTaken
  <2>3. ASSUME NEW c \in Callers, EnqueueConflict(c) PROVE OneActivePerKey'
    BY <2>3 DEF EnqueueConflict, IdleCaller
  <2>4. ASSUME NEW c \in Callers, NEW j \in Jobs, Requeue(c, j) PROVE OneActivePerKey'
    BY <2>4 DEF Requeue, KeyTaken
  <2>5. ASSUME NEW c \in Callers, Dispatch(c) PROVE OneActivePerKey'
    BY <2>5 DEF Dispatch, IdleCaller
  <2>6. ASSUME NEW c \in Callers, DispatchError(c) PROVE OneActivePerKey'
    BY <2>6 DEF DispatchError
  <2>7. ASSUME NEW c \in Callers, RecordDispatchFailure(c) PROVE OneActivePerKey'
    BY <2>7 DEF RecordDispatchFailure, IdleCaller
  <2>8. ASSUME NEW c \in Callers, CallerAbandons(c) PROVE OneActivePerKey'
    BY <2>8 DEF CallerAbandons, IdleCaller
  <2>9. ASSUME NEW w \in Workers, NEW j \in Jobs, Load(w, j) PROVE OneActivePerKey'
    BY <2>9 DEF Load, IsFinal
  <2>10. ASSUME NEW w \in Workers, MarkRunning(w) PROVE OneActivePerKey'
    BY <2>10 DEF MarkRunning, IndexAdmits, KeyTaken
  <2>11. ASSUME NEW w \in Workers, NEW verdict \in Final, Finish(w, verdict) PROVE OneActivePerKey'
    BY <2>11 DEF Finish
  <2>12. ASSUME NEW w \in Workers, MarkRetrying(w) PROVE OneActivePerKey'
    BY <2>12 DEF MarkRetrying, IndexAdmits, KeyTaken
  <2>13. ASSUME NEW w \in Workers, IndexRefuses(w) PROVE OneActivePerKey'
    BY <2>13 DEF IndexRefuses, IndexAdmits
  <2>14. ASSUME NEW w \in Workers, Resend(w) PROVE OneActivePerKey'
    BY <2>14 DEF Resend
  <2>15. ASSUME NEW w \in Workers, Ack(w) PROVE OneActivePerKey'
    BY <2>15 DEF Ack, Release
  <2>16. ASSUME NEW w \in Workers, Crash(w) PROVE OneActivePerKey'
    BY <2>16 DEF Crash, Release
  <2>17. ASSUME NEW w \in Workers, Restore(w) PROVE OneActivePerKey'
    BY <2>17 DEF Restore
  <2>18. ASSUME NEW w \in Workers, WorkerAbandons(w) PROVE OneActivePerKey'
    BY <2>18 DEF WorkerAbandons, Release
  <2>19. CASE UNCHANGED vars
    BY <2>19 DEF vars
  <2>. QED
    BY <2>1, <2>2, <2>3, <2>4, <2>5, <2>6, <2>7, <2>8, <2>9, <2>10,
       <2>11, <2>12, <2>13, <2>14, <2>15, <2>16, <2>17, <2>18, <2>19
    DEF Next, CallerStep, WorkerStep
<1>. QED
  BY <1>1, <1>2, TypeCorrect, PTL DEF Spec

(* An active job always has a carrier, unless a fault took its last one.   *)
THEOREM NotStranded == Spec => []NeverStranded
<1>1. Init => NeverStranded
  BY DEF Init, NeverStranded, IsActive, Active
<1>2. TypeOK /\ NeverStranded /\ [Next]_vars => NeverStranded'
  <2>. SUFFICES ASSUME TypeOK, NeverStranded, [Next]_vars PROVE NeverStranded'
    OBVIOUS
  <2>. USE DEF TypeOK, NeverStranded, Carried, IsActive, Active, Final, CallerStates, rowVars, workerVars
  <2>1. ASSUME NEW c \in Callers, NEW k \in Keys, EnqueueCheck(c, k) PROVE NeverStranded'
    BY <2>1 DEF EnqueueCheck
  <2>2. ASSUME NEW c \in Callers, NEW j \in Jobs, EnqueueInsert(c, j) PROVE NeverStranded'
    BY <2>2 DEF EnqueueInsert
  <2>3. ASSUME NEW c \in Callers, EnqueueConflict(c) PROVE NeverStranded'
    BY <2>3 DEF EnqueueConflict, IdleCaller
  <2>4. ASSUME NEW c \in Callers, NEW j \in Jobs, Requeue(c, j) PROVE NeverStranded'
    BY <2>4 DEF Requeue
  <2>5. ASSUME NEW c \in Callers, Dispatch(c) PROVE NeverStranded'
    BY <2>5 DEF Dispatch, IdleCaller
  <2>6. ASSUME NEW c \in Callers, DispatchError(c) PROVE NeverStranded'
    BY <2>6 DEF DispatchError
  <2>7. ASSUME NEW c \in Callers, RecordDispatchFailure(c) PROVE NeverStranded'
    BY <2>7 DEF RecordDispatchFailure, IdleCaller
  <2>8. ASSUME NEW c \in Callers, CallerAbandons(c) PROVE NeverStranded'
    BY <2>8 DEF CallerAbandons, IdleCaller
  <2>9. ASSUME NEW w \in Workers, NEW j \in Jobs, Load(w, j) PROVE NeverStranded'
    BY <2>9 DEF Load, IsFinal
  <2>10. ASSUME NEW w \in Workers, MarkRunning(w) PROVE NeverStranded'
    BY <2>10 DEF MarkRunning
  <2>11. ASSUME NEW w \in Workers, NEW verdict \in Final, Finish(w, verdict) PROVE NeverStranded'
    BY <2>11 DEF Finish
  <2>12. ASSUME NEW w \in Workers, MarkRetrying(w) PROVE NeverStranded'
    BY <2>12 DEF MarkRetrying
  <2>13. ASSUME NEW w \in Workers, IndexRefuses(w) PROVE NeverStranded'
    BY <2>13 DEF IndexRefuses, IndexAdmits
  <2>14. ASSUME NEW w \in Workers, Resend(w) PROVE NeverStranded'
    BY <2>14 DEF Resend
  <2>15. ASSUME NEW w \in Workers, Ack(w) PROVE NeverStranded'
    BY <2>15 DEF Ack, Release
  <2>16. ASSUME NEW w \in Workers, Crash(w) PROVE NeverStranded'
    BY <2>16 DEF Crash, Release
  <2>17. ASSUME NEW w \in Workers, Restore(w) PROVE NeverStranded'
    BY <2>17 DEF Restore
  <2>18. ASSUME NEW w \in Workers, WorkerAbandons(w) PROVE NeverStranded'
    BY <2>18 DEF WorkerAbandons, Release
  <2>19. CASE UNCHANGED vars
    BY <2>19 DEF vars
  <2>. QED
    BY <2>1, <2>2, <2>3, <2>4, <2>5, <2>6, <2>7, <2>8, <2>9, <2>10,
       <2>11, <2>12, <2>13, <2>14, <2>15, <2>16, <2>17, <2>18, <2>19
    DEF Next, CallerStep, WorkerStep
<1>. QED
  BY <1>1, <1>2, TypeCorrect, PTL DEF Spec

-----------------------------------------------------------------------------
(* The carriers of a job: requests about to publish its message and        *)
(* workers that have taken it and not yet decided.                         *)
Bears(c, j) == caller[c].job = j /\ caller[c].at \in {"dispatching", "broker_failed"}
Carries(w, j) == task[w] = j /\ pc[w] \in {"loaded", "working", "resending"}

(* A request that will insert knows its key.                               *)
KeyKnown == \A c \in Callers : caller[c].at = "inserting" => caller[c].key \in Keys

(* A message in the broker is the only carrier of a job that is active.    *)
MessageAlone ==
  \A j \in Jobs : broker[j] > 0 =>
     /\ broker[j] = 1
     /\ IsActive(j)
     /\ \A c \in Callers : ~Bears(c, j)
     /\ \A w \in Workers : ~Carries(w, j)

(* A request that publishes is the only carrier of a job still queued.     *)
RequestAlone ==
  \A c \in Callers, j \in Jobs : Bears(c, j) =>
     /\ status[j] = "queued"
     /\ \A d \in Callers : Bears(d, j) => d = c
     /\ \A w \in Workers : ~Carries(w, j)

(* A worker that carries a job is alone with it, and the row says what the *)
(* worker is doing and which attempt it is.                                *)
WorkerAlone ==
  \A w \in Workers, j \in Jobs : Carries(w, j) =>
     /\ \A v \in Workers : Carries(v, j) => v = w
     /\ pc[w] = "loaded" => IsActive(j)
     /\ pc[w] = "working" => status[j] = "running" /\ seen[w] = attempts[j]
     /\ pc[w] = "resending" => status[j] = "retrying"

(* What makes OneBodyPerJob inductive: a job has one carrier at most.      *)
OneCarrier == MessageAlone /\ RequestAlone /\ WorkerAlone

CarrierInv == KeyKnown /\ (Duplicated \/ OneCarrier)

(* A fault that duplicates a message is never forgotten.                   *)
LEMMA DuplicationStays ==
  ASSUME TypeOK, Duplicated, [Next]_vars
  PROVE  Duplicated'
<1>. USE DEF TypeOK, Duplicated, Suffer, FaultKinds, rowVars, workerVars
<1>1. ASSUME NEW c \in Callers, NEW k \in Keys, EnqueueCheck(c, k) PROVE Duplicated'
  BY <1>1 DEF EnqueueCheck
<1>2. ASSUME NEW c \in Callers, NEW j \in Jobs, EnqueueInsert(c, j) PROVE Duplicated'
  BY <1>2 DEF EnqueueInsert
<1>3. ASSUME NEW c \in Callers, EnqueueConflict(c) PROVE Duplicated'
  BY <1>3 DEF EnqueueConflict, IdleCaller
<1>4. ASSUME NEW c \in Callers, NEW j \in Jobs, Requeue(c, j) PROVE Duplicated'
  BY <1>4 DEF Requeue
<1>5. ASSUME NEW c \in Callers, Dispatch(c) PROVE Duplicated'
  BY <1>5 DEF Dispatch, IdleCaller
<1>6. ASSUME NEW c \in Callers, DispatchError(c) PROVE Duplicated'
  BY <1>6 DEF DispatchError
<1>7. ASSUME NEW c \in Callers, RecordDispatchFailure(c) PROVE Duplicated'
  BY <1>7 DEF RecordDispatchFailure, IdleCaller
<1>8. ASSUME NEW c \in Callers, CallerAbandons(c) PROVE Duplicated'
  BY <1>8 DEF CallerAbandons, IdleCaller
<1>9. ASSUME NEW w \in Workers, NEW j \in Jobs, Load(w, j) PROVE Duplicated'
  BY <1>9 DEF Load, IsFinal
<1>10. ASSUME NEW w \in Workers, MarkRunning(w) PROVE Duplicated'
  BY <1>10 DEF MarkRunning
<1>11. ASSUME NEW w \in Workers, NEW verdict \in Final, Finish(w, verdict) PROVE Duplicated'
  BY <1>11 DEF Finish
<1>12. ASSUME NEW w \in Workers, MarkRetrying(w) PROVE Duplicated'
  BY <1>12 DEF MarkRetrying
<1>13. ASSUME NEW w \in Workers, IndexRefuses(w) PROVE Duplicated'
  BY <1>13 DEF IndexRefuses, IndexAdmits
<1>14. ASSUME NEW w \in Workers, Resend(w) PROVE Duplicated'
  BY <1>14 DEF Resend
<1>15. ASSUME NEW w \in Workers, Ack(w) PROVE Duplicated'
  BY <1>15 DEF Ack, Release
<1>16. ASSUME NEW w \in Workers, Crash(w) PROVE Duplicated'
  BY <1>16 DEF Crash, Release
<1>17. ASSUME NEW w \in Workers, Restore(w) PROVE Duplicated'
  BY <1>17 DEF Restore
<1>18. ASSUME NEW w \in Workers, WorkerAbandons(w) PROVE Duplicated'
  BY <1>18 DEF WorkerAbandons, Release
<1>19. CASE UNCHANGED vars
  BY <1>19 DEF vars
<1>. QED
  BY <1>1, <1>2, <1>3, <1>4, <1>5, <1>6, <1>7, <1>8, <1>9, <1>10,
     <1>11, <1>12, <1>13, <1>14, <1>15, <1>16, <1>17, <1>18, <1>19
  DEF Next, CallerStep, WorkerStep

(* A request always knows the key it inserts.                              *)
LEMMA KeyKnownStep ==
  ASSUME TypeOK, KeyKnown, [Next]_vars
  PROVE  KeyKnown'
<1>. USE DEF TypeOK, KeyKnown, rowVars, workerVars
<1>1. ASSUME NEW c \in Callers, NEW k \in Keys, EnqueueCheck(c, k) PROVE KeyKnown'
  BY <1>1 DEF EnqueueCheck
<1>2. ASSUME NEW c \in Callers, NEW j \in Jobs, EnqueueInsert(c, j) PROVE KeyKnown'
  BY <1>2 DEF EnqueueInsert
<1>3. ASSUME NEW c \in Callers, EnqueueConflict(c) PROVE KeyKnown'
  BY <1>3 DEF EnqueueConflict, IdleCaller
<1>4. ASSUME NEW c \in Callers, NEW j \in Jobs, Requeue(c, j) PROVE KeyKnown'
  BY <1>4 DEF Requeue
<1>5. ASSUME NEW c \in Callers, Dispatch(c) PROVE KeyKnown'
  BY <1>5 DEF Dispatch, IdleCaller
<1>6. ASSUME NEW c \in Callers, DispatchError(c) PROVE KeyKnown'
  BY <1>6 DEF DispatchError
<1>7. ASSUME NEW c \in Callers, RecordDispatchFailure(c) PROVE KeyKnown'
  BY <1>7 DEF RecordDispatchFailure, IdleCaller
<1>8. ASSUME NEW c \in Callers, CallerAbandons(c) PROVE KeyKnown'
  BY <1>8 DEF CallerAbandons, IdleCaller
<1>9. ASSUME NEW w \in Workers, NEW j \in Jobs, Load(w, j) PROVE KeyKnown'
  BY <1>9 DEF Load, IsFinal
<1>10. ASSUME NEW w \in Workers, MarkRunning(w) PROVE KeyKnown'
  BY <1>10 DEF MarkRunning
<1>11. ASSUME NEW w \in Workers, NEW verdict \in Final, Finish(w, verdict) PROVE KeyKnown'
  BY <1>11 DEF Finish
<1>12. ASSUME NEW w \in Workers, MarkRetrying(w) PROVE KeyKnown'
  BY <1>12 DEF MarkRetrying
<1>13. ASSUME NEW w \in Workers, IndexRefuses(w) PROVE KeyKnown'
  BY <1>13 DEF IndexRefuses, IndexAdmits
<1>14. ASSUME NEW w \in Workers, Resend(w) PROVE KeyKnown'
  BY <1>14 DEF Resend
<1>15. ASSUME NEW w \in Workers, Ack(w) PROVE KeyKnown'
  BY <1>15 DEF Ack, Release
<1>16. ASSUME NEW w \in Workers, Crash(w) PROVE KeyKnown'
  BY <1>16 DEF Crash, Release
<1>17. ASSUME NEW w \in Workers, Restore(w) PROVE KeyKnown'
  BY <1>17 DEF Restore
<1>18. ASSUME NEW w \in Workers, WorkerAbandons(w) PROVE KeyKnown'
  BY <1>18 DEF WorkerAbandons, Release
<1>19. CASE UNCHANGED vars
  BY <1>19 DEF vars
<1>. QED
  BY <1>1, <1>2, <1>3, <1>4, <1>5, <1>6, <1>7, <1>8, <1>9, <1>10,
     <1>11, <1>12, <1>13, <1>14, <1>15, <1>16, <1>17, <1>18, <1>19
  DEF Next, CallerStep, WorkerStep

(* A message stays the only carrier of its job.                            *)
LEMMA MessageAloneStep ==
  ASSUME TypeOK, OneCarrier, [Next]_vars, ~Duplicated'
  PROVE  MessageAlone'
<1>. USE NoneAssumption DEF TypeOK, OneCarrier, MessageAlone, RequestAlone, WorkerAlone, Bears, Carries,
       IsActive, Active, Final, CallerStates, rowVars, workerVars
<1>1. ASSUME NEW c \in Callers, NEW k \in Keys, EnqueueCheck(c, k) PROVE MessageAlone'
  BY <1>1 DEF EnqueueCheck
<1>2. ASSUME NEW c \in Callers, NEW j \in Jobs, EnqueueInsert(c, j) PROVE MessageAlone'
  BY <1>2 DEF EnqueueInsert
<1>3. ASSUME NEW c \in Callers, EnqueueConflict(c) PROVE MessageAlone'
  BY <1>3 DEF EnqueueConflict, IdleCaller
<1>4. ASSUME NEW c \in Callers, NEW j \in Jobs, Requeue(c, j) PROVE MessageAlone'
  BY <1>4 DEF Requeue
<1>5. ASSUME NEW c \in Callers, Dispatch(c) PROVE MessageAlone'
  BY <1>5 DEF Dispatch, IdleCaller
<1>6. ASSUME NEW c \in Callers, DispatchError(c) PROVE MessageAlone'
  BY <1>6 DEF DispatchError, Suffer, Duplicated, FaultKinds
<1>7. ASSUME NEW c \in Callers, RecordDispatchFailure(c) PROVE MessageAlone'
  BY <1>7 DEF RecordDispatchFailure, IdleCaller
<1>8. ASSUME NEW c \in Callers, CallerAbandons(c) PROVE MessageAlone'
  BY <1>8 DEF CallerAbandons, IdleCaller
<1>9. ASSUME NEW w \in Workers, NEW j \in Jobs, Load(w, j) PROVE MessageAlone'
  BY <1>9 DEF Load, IsFinal
<1>10. ASSUME NEW w \in Workers, MarkRunning(w) PROVE MessageAlone'
  BY <1>10 DEF MarkRunning
<1>11. ASSUME NEW w \in Workers, NEW verdict \in Final, Finish(w, verdict) PROVE MessageAlone'
  BY <1>11 DEF Finish
<1>12. ASSUME NEW w \in Workers, MarkRetrying(w) PROVE MessageAlone'
  BY <1>12 DEF MarkRetrying
<1>13. ASSUME NEW w \in Workers, IndexRefuses(w) PROVE MessageAlone'
  BY <1>13 DEF IndexRefuses, IndexAdmits
<1>14. ASSUME NEW w \in Workers, Resend(w) PROVE MessageAlone'
  BY <1>14 DEF Resend
<1>15. ASSUME NEW w \in Workers, Ack(w) PROVE MessageAlone'
  BY <1>15 DEF Ack, Release
<1>16. ASSUME NEW w \in Workers, Crash(w) PROVE MessageAlone'
  BY <1>16 DEF Crash, Release, Suffer, Duplicated, FaultKinds
<1>17. ASSUME NEW w \in Workers, Restore(w) PROVE MessageAlone'
  BY <1>17 DEF Restore, Suffer, Duplicated, FaultKinds
<1>18. ASSUME NEW w \in Workers, WorkerAbandons(w) PROVE MessageAlone'
  BY <1>18 DEF WorkerAbandons, Release
<1>19. CASE UNCHANGED vars
  BY <1>19 DEF vars
<1>. QED
  BY <1>1, <1>2, <1>3, <1>4, <1>5, <1>6, <1>7, <1>8, <1>9, <1>10,
     <1>11, <1>12, <1>13, <1>14, <1>15, <1>16, <1>17, <1>18, <1>19
  DEF Next, CallerStep, WorkerStep

(* A publishing request stays the only carrier of its job.                 *)
LEMMA RequestAloneStep ==
  ASSUME TypeOK, OneCarrier, [Next]_vars, ~Duplicated'
  PROVE  RequestAlone'
<1>. USE NoneAssumption DEF TypeOK, OneCarrier, MessageAlone, RequestAlone, WorkerAlone, Bears, Carries,
       IsActive, Active, Final, CallerStates, rowVars, workerVars
<1>1. ASSUME NEW c \in Callers, NEW k \in Keys, EnqueueCheck(c, k) PROVE RequestAlone'
  BY <1>1 DEF EnqueueCheck
<1>2. ASSUME NEW c \in Callers, NEW j \in Jobs, EnqueueInsert(c, j) PROVE RequestAlone'
  BY <1>2 DEF EnqueueInsert
<1>3. ASSUME NEW c \in Callers, EnqueueConflict(c) PROVE RequestAlone'
  BY <1>3 DEF EnqueueConflict, IdleCaller
<1>4. ASSUME NEW c \in Callers, NEW j \in Jobs, Requeue(c, j) PROVE RequestAlone'
  BY <1>4 DEF Requeue
<1>5. ASSUME NEW c \in Callers, Dispatch(c) PROVE RequestAlone'
  BY <1>5 DEF Dispatch, IdleCaller
<1>6. ASSUME NEW c \in Callers, DispatchError(c) PROVE RequestAlone'
  BY <1>6 DEF DispatchError, Suffer, Duplicated, FaultKinds
<1>7. ASSUME NEW c \in Callers, RecordDispatchFailure(c) PROVE RequestAlone'
  BY <1>7 DEF RecordDispatchFailure, IdleCaller
<1>8. ASSUME NEW c \in Callers, CallerAbandons(c) PROVE RequestAlone'
  BY <1>8 DEF CallerAbandons, IdleCaller
<1>9. ASSUME NEW w \in Workers, NEW j \in Jobs, Load(w, j) PROVE RequestAlone'
  BY <1>9 DEF Load, IsFinal
<1>10. ASSUME NEW w \in Workers, MarkRunning(w) PROVE RequestAlone'
  BY <1>10 DEF MarkRunning
<1>11. ASSUME NEW w \in Workers, NEW verdict \in Final, Finish(w, verdict) PROVE RequestAlone'
  BY <1>11 DEF Finish
<1>12. ASSUME NEW w \in Workers, MarkRetrying(w) PROVE RequestAlone'
  BY <1>12 DEF MarkRetrying
<1>13. ASSUME NEW w \in Workers, IndexRefuses(w) PROVE RequestAlone'
  BY <1>13 DEF IndexRefuses, IndexAdmits
<1>14. ASSUME NEW w \in Workers, Resend(w) PROVE RequestAlone'
  BY <1>14 DEF Resend
<1>15. ASSUME NEW w \in Workers, Ack(w) PROVE RequestAlone'
  BY <1>15 DEF Ack, Release
<1>16. ASSUME NEW w \in Workers, Crash(w) PROVE RequestAlone'
  BY <1>16 DEF Crash, Release, Suffer, Duplicated, FaultKinds
<1>17. ASSUME NEW w \in Workers, Restore(w) PROVE RequestAlone'
  BY <1>17 DEF Restore, Suffer, Duplicated, FaultKinds
<1>18. ASSUME NEW w \in Workers, WorkerAbandons(w) PROVE RequestAlone'
  BY <1>18 DEF WorkerAbandons, Release
<1>19. CASE UNCHANGED vars
  BY <1>19 DEF vars
<1>. QED
  <2>. HIDE DEF TypeOK, OneCarrier, MessageAlone, RequestAlone, WorkerAlone, Bears, Carries,
         IsActive, Active, Final, CallerStates, rowVars, workerVars
  <2>. QED
    BY <1>1, <1>2, <1>3, <1>4, <1>5, <1>6, <1>7, <1>8, <1>9, <1>10,
       <1>11, <1>12, <1>13, <1>14, <1>15, <1>16, <1>17, <1>18, <1>19
    DEF Next, CallerStep, WorkerStep

(* A carrying worker stays alone with its job.                             *)
LEMMA WorkerAloneStep ==
  ASSUME TypeOK, OneCarrier, [Next]_vars, ~Duplicated'
  PROVE  WorkerAlone'
<1>. USE NoneAssumption DEF TypeOK, OneCarrier, MessageAlone, RequestAlone, WorkerAlone, Bears, Carries,
       IsActive, Active, Final, CallerStates, rowVars, workerVars
<1>1. ASSUME NEW c \in Callers, NEW k \in Keys, EnqueueCheck(c, k) PROVE WorkerAlone'
  BY <1>1 DEF EnqueueCheck
<1>2. ASSUME NEW c \in Callers, NEW j \in Jobs, EnqueueInsert(c, j) PROVE WorkerAlone'
  BY <1>2 DEF EnqueueInsert
<1>3. ASSUME NEW c \in Callers, EnqueueConflict(c) PROVE WorkerAlone'
  BY <1>3 DEF EnqueueConflict, IdleCaller
<1>4. ASSUME NEW c \in Callers, NEW j \in Jobs, Requeue(c, j) PROVE WorkerAlone'
  BY <1>4 DEF Requeue
<1>5. ASSUME NEW c \in Callers, Dispatch(c) PROVE WorkerAlone'
  BY <1>5 DEF Dispatch, IdleCaller
<1>6. ASSUME NEW c \in Callers, DispatchError(c) PROVE WorkerAlone'
  BY <1>6 DEF DispatchError, Suffer, Duplicated, FaultKinds
<1>7. ASSUME NEW c \in Callers, RecordDispatchFailure(c) PROVE WorkerAlone'
  BY <1>7 DEF RecordDispatchFailure, IdleCaller
<1>8. ASSUME NEW c \in Callers, CallerAbandons(c) PROVE WorkerAlone'
  BY <1>8 DEF CallerAbandons, IdleCaller
<1>9. ASSUME NEW w \in Workers, NEW j \in Jobs, Load(w, j) PROVE WorkerAlone'
  BY <1>9 DEF Load, IsFinal
<1>10. ASSUME NEW w \in Workers, MarkRunning(w) PROVE WorkerAlone'
  BY <1>10 DEF MarkRunning
<1>11. ASSUME NEW w \in Workers, NEW verdict \in Final, Finish(w, verdict) PROVE WorkerAlone'
  BY <1>11 DEF Finish
<1>12. ASSUME NEW w \in Workers, MarkRetrying(w) PROVE WorkerAlone'
  BY <1>12 DEF MarkRetrying
<1>13. ASSUME NEW w \in Workers, IndexRefuses(w) PROVE WorkerAlone'
  BY <1>13 DEF IndexRefuses, IndexAdmits
<1>14. ASSUME NEW w \in Workers, Resend(w) PROVE WorkerAlone'
  BY <1>14 DEF Resend
<1>15. ASSUME NEW w \in Workers, Ack(w) PROVE WorkerAlone'
  BY <1>15 DEF Ack, Release
<1>16. ASSUME NEW w \in Workers, Crash(w) PROVE WorkerAlone'
  BY <1>16 DEF Crash, Release, Suffer, Duplicated, FaultKinds
<1>17. ASSUME NEW w \in Workers, Restore(w) PROVE WorkerAlone'
  BY <1>17 DEF Restore, Suffer, Duplicated, FaultKinds
<1>18. ASSUME NEW w \in Workers, WorkerAbandons(w) PROVE WorkerAlone'
  BY <1>18 DEF WorkerAbandons, Release
<1>19. CASE UNCHANGED vars
  BY <1>19 DEF vars
<1>. QED
  BY <1>1, <1>2, <1>3, <1>4, <1>5, <1>6, <1>7, <1>8, <1>9, <1>10,
     <1>11, <1>12, <1>13, <1>14, <1>15, <1>16, <1>17, <1>18, <1>19
  DEF Next, CallerStep, WorkerStep

(* While no fault has duplicated a message, a job has one carrier at most. *)
THEOREM CarriedOnce == Spec => []CarrierInv
<1>1. Init => CarrierInv
  BY DEF Init, CarrierInv, KeyKnown, OneCarrier, MessageAlone, RequestAlone, WorkerAlone, Bears, Carries, IdleCaller
<1>2. TypeOK /\ CarrierInv /\ [Next]_vars => CarrierInv'
  <2>. SUFFICES ASSUME TypeOK, CarrierInv, [Next]_vars, ~Duplicated' PROVE OneCarrier'
    BY KeyKnownStep DEF CarrierInv
  <2>1. OneCarrier
    BY DuplicationStays DEF CarrierInv
  <2>2. MessageAlone' /\ RequestAlone' /\ WorkerAlone'
    BY <2>1, MessageAloneStep, RequestAloneStep, WorkerAloneStep
  <2>. QED
    BY <2>2 DEF OneCarrier
<1>. QED
  BY <1>1, <1>2, TypeCorrect, PTL DEF Spec

(* Up to the first duplicated message, one worker at most runs the body of *)
(* a job, whatever requests, manual retries and other faults do.           *)
THEOREM BodyExclusive == Spec => []OneBodyPerJob
<1>1. TypeOK /\ CarrierInv => OneBodyPerJob
  BY DEF TypeOK, CarrierInv, OneCarrier, WorkerAlone, Carries, OneBodyPerJob
<1>. QED
  BY <1>1, TypeCorrect, CarriedOnce, PTL

(* Every step of the queue is a step of the promised lifecycle, or leaves  *)
(* the row alone, up to the first fault that duplicates a message.         *)
LEMMA StepRefines ==
  ASSUME TypeOK, OneActivePerKey, CarrierInv, [Next]_vars, ~Duplicated'
  PROVE  Promise!Next \/ UNCHANGED rowVars
<1>1. OneCarrier /\ KeyKnown
  BY DuplicationStays DEF CarrierInv
<1>2. ASSUME NEW c \in Callers, NEW j \in Jobs, EnqueueInsert(c, j) PROVE Promise!Next
  <2>1. caller[c].key \in Keys
    BY <1>1, <1>2 DEF EnqueueInsert, KeyKnown
  <2>2. Promise!Create(j, caller[c].key)
    BY <1>2, NoneAssumption DEF EnqueueInsert, KeyTaken, IsActive, Active, Promise!Create, Promise!KeyFree, Promise!Active
  <2>. QED
    BY <2>1, <2>2 DEF Promise!Next
<1>3. ASSUME NEW c \in Callers, NEW j \in Jobs, Requeue(c, j) PROVE Promise!Next
  <2>1. Promise!Retry(j)
    BY <1>3 DEF Requeue, KeyTaken, IsActive, Active, Promise!Retry, Promise!KeyFree, Promise!Active
  <2>. QED
    BY <2>1 DEF Promise!Next
<1>4. ASSUME NEW c \in Callers, RecordDispatchFailure(c) PROVE Promise!Next
  <2>1. caller[c].job \in Jobs /\ status[caller[c].job] = "queued"
    BY <1>1, <1>4 DEF TypeOK, RecordDispatchFailure, OneCarrier, RequestAlone, Bears
  <2>2. Promise!Conclude(caller[c].job)
    BY <1>4, <2>1 DEF RecordDispatchFailure, Promise!Conclude
  <2>. QED
    BY <2>1, <2>2 DEF Promise!Next
<1>5. ASSUME NEW w \in Workers, MarkRunning(w) PROVE Promise!Next
  <2>1. task[w] \in Jobs /\ IsActive(task[w])
    BY <1>1, <1>5 DEF TypeOK, MarkRunning, OneCarrier, WorkerAlone, Carries
  <2>2. Promise!Start(task[w])
    BY <1>5, <2>1 DEF MarkRunning, IsActive, Active, Promise!Start, Promise!Active
  <2>. QED
    BY <2>1, <2>2 DEF Promise!Next
<1>6. ASSUME NEW w \in Workers, NEW verdict \in Final, Finish(w, verdict) PROVE Promise!Next
  <2>1. task[w] \in Jobs /\ status[task[w]] = "running"
    BY <1>1, <1>6 DEF TypeOK, Finish, OneCarrier, WorkerAlone, Carries
  <2>2. Promise!Conclude(task[w])
    BY <1>6, <2>1 DEF Finish, Final, Promise!Conclude
  <2>. QED
    BY <2>1, <2>2 DEF Promise!Next
<1>7. ASSUME NEW w \in Workers, MarkRetrying(w) PROVE Promise!Next
  <2>1. task[w] \in Jobs /\ status[task[w]] = "running" /\ seen[w] = attempts[task[w]]
    BY <1>1, <1>7 DEF TypeOK, MarkRetrying, OneCarrier, WorkerAlone, Carries
  <2>2. Promise!Wait(task[w])
    BY <1>7, <2>1 DEF MarkRetrying, Promise!Wait
  <2>. QED
    BY <2>1, <2>2 DEF Promise!Next
<1>8. CASE UNCHANGED vars
  BY <1>8 DEF vars
<1>9. ASSUME NEW c \in Callers,
             \/ \E k \in Keys : EnqueueCheck(c, k)
             \/ EnqueueConflict(c) \/ Dispatch(c) \/ DispatchError(c) \/ CallerAbandons(c)
      PROVE  UNCHANGED rowVars
  BY <1>9 DEF EnqueueCheck, EnqueueConflict, Dispatch, DispatchError, CallerAbandons
<1>10. ASSUME NEW w \in Workers,
              \/ \E j \in Jobs : Load(w, j)
              \/ IndexRefuses(w) \/ Resend(w) \/ Ack(w)
              \/ Crash(w) \/ Restore(w) \/ WorkerAbandons(w)
       PROVE  UNCHANGED rowVars
  BY <1>10 DEF Load, IndexRefuses, Resend, Ack, Crash, Restore, WorkerAbandons
<1>. QED
  BY <1>2, <1>3, <1>4, <1>5, <1>6, <1>7, <1>8, <1>9, <1>10 DEF Next, CallerStep, WorkerStep

(* Up to the first duplicated message the queue implements the lifecycle   *)
(* its documentation promises.                                             *)
THEOREM QueueKeepsLifecycle == Spec => LifecycleKept
<1>1. Init => Promise!Init
  BY DEF Init, Promise!Init
<1>2. TypeOK /\ OneActivePerKey /\ CarrierInv /\ [Next]_vars => [Duplicated' \/ Promise!Next]_rowVars
  BY StepRefines
<1>. QED
  BY <1>1, <1>2, TypeCorrect, KeyExclusive, CarriedOnce, PTL DEF Spec, LifecycleKept
=============================================================================
