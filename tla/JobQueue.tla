------------------------------ MODULE JobQueue ------------------------------
(***************************************************************************)
(* The job system: rows of pipeline_jobs, the Celery messages that carry   *)
(* them, the API requests that create or re-queue a row, and the worker    *)
(* processes that run it (jobs/enqueue.py, jobs/base.py,                   *)
(* api/services/jobs.py, jobs/celery_app.py).                              *)
(*                                                                         *)
(* One action is one database transaction or one broker call, because      *)
(* everything between two of them is local to a process.  PostgreSQL runs  *)
(* at its default READ COMMITTED level, so a decision taken on a row that  *)
(* an earlier transaction read is a separate action from the write.        *)
(*                                                                         *)
(* Faults are counted in `faults` and bounded by FaultBudget:              *)
(*   crash      a worker host dies; its unacknowledged message comes back  *)
(*   restore    the broker's visibility timeout hands a message that a     *)
(*              live worker still holds to somebody else as well           *)
(*   ambiguous  publishing a message reports an error after delivering it  *)
(*   refuse     publishing a message fails and nothing is delivered        *)
(*   abandon    a process gives up between two steps and nobody redelivers:*)
(*              the API process dies after its commit, the database is     *)
(*              away when a worker needs it, the pool child is killed      *)
(*              (task_acks_late without task_reject_on_worker_lost)        *)
(***************************************************************************)
EXTENDS Naturals, FiniteSets

CONSTANTS Jobs,             \* ids the pipeline_jobs sequence hands out
          Keys,             \* dedupe keys
          Callers,          \* API requests in flight
          Workers,          \* Celery worker processes
          None,             \* "no value"
          MaxAttempts,      \* pipeline_jobs.max_attempts
          MaxManualRetries, \* bound: retries a staff user asks for, per job
          FaultBudget       \* bound: faults of each kind in one behaviour

FaultKinds == {"crash", "restore", "ambiguous", "refuse", "abandon"}

ASSUME NoneAssumption == None \notin Jobs /\ None \notin Keys
ASSUME AttemptsAssumption == MaxAttempts \in Nat \ {0}
ASSUME BoundsAssumption == /\ MaxManualRetries \in Nat
                           /\ FaultBudget \in [FaultKinds -> Nat]

Active == {"queued", "running", "retrying"}
Final == {"succeeded", "failed"}
Statuses == {"none"} \cup Active \cup Final

VARIABLES status, key, attempts, manual, \* job id -> columns of pipeline_jobs
          broker,  \* job id -> messages for it waiting in the broker
          caller,  \* API request -> where it is
          pc,      \* worker -> what it does next
          task,    \* worker -> the job of its message
          seen,    \* worker -> job.attempts as mark_running returned it
          holds,   \* worker -> its message is still unacknowledged
          faults,  \* fault kind -> how often it has happened
          lost     \* jobs whose last message or process a fault took away

rowVars == <<status, key, attempts, manual>>
workerVars == <<pc, task, seen, holds>>
vars == <<rowVars, broker, caller, workerVars, faults, lost>>

CallerStates == [at : {"idle", "inserting", "dispatching", "broker_failed"},
                 job : Jobs \cup {None}, key : Keys \cup {None}]

IdleCaller == [at |-> "idle", job |-> None, key |-> None]

IsActive(j) == status[j] \in Active
IsFinal(j) == status[j] \in Final

(* Mutant: a partial index that forgets the rows waiting for a retry.      *)
KeyTakenUnlessRetrying(k, except) ==
  \E j \in Jobs \ {except} : status[j] \in {"queued", "running"} /\ key[j] = k

(* uq_pipeline_jobs_active_dedupe: the rows the partial unique index holds *)
KeyTaken(k, except) == \E j \in Jobs \ {except} : IsActive(j) /\ key[j] = k

Init == /\ status = [j \in Jobs |-> "none"]
        /\ key = [j \in Jobs |-> None]
        /\ attempts = [j \in Jobs |-> 0]
        /\ manual = [j \in Jobs |-> 0]
        /\ broker = [j \in Jobs |-> 0]
        /\ caller = [c \in Callers |-> IdleCaller]
        /\ pc = [w \in Workers |-> "idle"]
        /\ task = [w \in Workers |-> None]
        /\ seen = [w \in Workers |-> 0]
        /\ holds = [w \in Workers |-> FALSE]
        /\ faults = [f \in FaultKinds |-> 0]
        /\ lost = {}

Suffer(f) == /\ faults[f] < FaultBudget[f]
             /\ faults' = [faults EXCEPT ![f] = @ + 1]

-----------------------------------------------------------------------------
(* The API: enqueue_job, JobService.retry and redispatch *)

(* enqueue_job looks for an active job with the key; finding one, it       *)
(* answers with it and changes nothing.                                    *)
EnqueueCheck(c, k) ==
  /\ caller[c].at = "idle"
  /\ ~KeyTaken(k, None)
  /\ caller' = [caller EXCEPT ![c] = [at |-> "inserting", job |-> None, key |-> k]]
  /\ UNCHANGED <<rowVars, broker, workerVars, faults, lost>>

(* Mutant: RETURNING id is not read, the request goes on without the job.  *)
EnqueueInsertDropsId(c, j) ==
  /\ caller[c].at = "inserting"
  /\ status[j] = "none"
  /\ ~KeyTaken(caller[c].key, None)
  /\ status' = [status EXCEPT ![j] = "queued"]
  /\ key' = [key EXCEPT ![j] = caller[c].key]
  /\ caller' = [caller EXCEPT ![c] = [@ EXCEPT !.at = "dispatching"]]
  /\ UNCHANGED <<attempts, manual, broker, workerVars, faults, lost>>

(* The INSERT and its commit; the index admits one active row per key.     *)
EnqueueInsert(c, j) ==
  /\ caller[c].at = "inserting"
  /\ status[j] = "none"
  /\ ~KeyTaken(caller[c].key, None)
  /\ status' = [status EXCEPT ![j] = "queued"]
  /\ key' = [key EXCEPT ![j] = caller[c].key]
  /\ caller' = [caller EXCEPT ![c] = [at |-> "dispatching", job |-> j, key |-> None]]
  /\ UNCHANGED <<attempts, manual, broker, workerVars, faults, lost>>

(* IntegrityError: a concurrent enqueue of the same key committed first.   *)
EnqueueConflict(c) ==
  /\ caller[c].at = "inserting"
  /\ KeyTaken(caller[c].key, None)
  /\ caller' = [caller EXCEPT ![c] = IdleCaller]
  /\ UNCHANGED <<rowVars, broker, workerVars, faults, lost>>

(* Mutant: jobs that wait for their next attempt count as retryable.       *)
RequeueWaiting(c, j) ==
  /\ caller[c].at = "idle"
  /\ status[j] \in {"failed", "retrying"}
  /\ manual[j] < MaxManualRetries
  /\ ~KeyTaken(key[j], j)
  /\ status' = [status EXCEPT ![j] = "queued"]
  /\ attempts' = [attempts EXCEPT ![j] = 0]
  /\ manual' = [manual EXCEPT ![j] = @ + 1]
  /\ caller' = [caller EXCEPT ![c] = [at |-> "dispatching", job |-> j, key |-> None]]
  /\ lost' = lost \ {j}
  /\ UNCHANGED <<key, broker, workerVars, faults>>

(* JobService.retry: the row is locked FOR UPDATE, so status and index are *)
(* checked and REQUEUE_SQL applied in one step.                            *)
Requeue(c, j) ==
  /\ caller[c].at = "idle"
  /\ status[j] = "failed"
  /\ manual[j] < MaxManualRetries
  /\ ~KeyTaken(key[j], j)
  /\ status' = [status EXCEPT ![j] = "queued"]
  /\ attempts' = [attempts EXCEPT ![j] = 0]
  /\ manual' = [manual EXCEPT ![j] = @ + 1]
  /\ caller' = [caller EXCEPT ![c] = [at |-> "dispatching", job |-> j, key |-> None]]
  /\ lost' = lost \ {j}
  /\ UNCHANGED <<key, broker, workerVars, faults>>

(* dispatcher.enqueue after the commit, for a new and for a re-queued row. *)
Dispatch(c) ==
  /\ caller[c].at = "dispatching"
  /\ broker' = [broker EXCEPT ![caller[c].job] = @ + 1]
  /\ caller' = [caller EXCEPT ![c] = IdleCaller]
  /\ UNCHANGED <<rowVars, workerVars, faults, lost>>

(* dispatcher.enqueue raises; the message may have reached the broker.     *)
DispatchError(c) ==
  /\ caller[c].at = "dispatching"
  /\ \/ Suffer("refuse") /\ UNCHANGED broker
     \/ Suffer("ambiguous") /\ broker' = [broker EXCEPT ![caller[c].job] = @ + 1]
  /\ caller' = [caller EXCEPT ![c] = [@ EXCEPT !.at = "broker_failed"]]
  /\ UNCHANGED <<rowVars, workerVars, lost>>

(* DISPATCH_FAILED_SQL: whatever the row says by now, it becomes failed.   *)
RecordDispatchFailure(c) ==
  /\ caller[c].at = "broker_failed"
  /\ status' = [status EXCEPT ![caller[c].job] = "failed"]
  /\ caller' = [caller EXCEPT ![c] = IdleCaller]
  /\ UNCHANGED <<key, attempts, manual, broker, workerVars, faults, lost>>

(* The API process dies between its commit and its next call.              *)
CallerAbandons(c) ==
  /\ caller[c].at \in {"dispatching", "broker_failed"}
  /\ Suffer("abandon")
  /\ lost' = lost \cup {caller[c].job}
  /\ caller' = [caller EXCEPT ![c] = IdleCaller]
  /\ UNCHANGED <<rowVars, broker, workerVars>>

-----------------------------------------------------------------------------
(* The worker: JobTask.execute around run_job_async *)

(* A message is taken and the row loaded: a finished job is skipped.       *)
Load(w, j) ==
  /\ pc[w] = "idle"
  /\ broker[j] > 0
  /\ broker' = [broker EXCEPT ![j] = @ - 1]
  /\ pc' = [pc EXCEPT ![w] = IF IsFinal(j) THEN "acking" ELSE "loaded"]
  /\ task' = [task EXCEPT ![w] = j]
  /\ holds' = [holds EXCEPT ![w] = TRUE]
  /\ UNCHANGED <<rowVars, caller, seen, faults, lost>>

(* A row may become active only when no other active row has its key.      *)
IndexAdmits(j) == IsActive(j) \/ ~KeyTaken(key[j], j)

(* mark_running: unconditional on the status the row has by now.           *)
MarkRunning(w) ==
  /\ pc[w] = "loaded"
  /\ IndexAdmits(task[w])
  /\ status' = [status EXCEPT ![task[w]] = "running"]
  /\ attempts' = [attempts EXCEPT ![task[w]] = @ + 1]
  /\ seen' = [seen EXCEPT ![w] = attempts[task[w]] + 1]
  /\ pc' = [pc EXCEPT ![w] = "working"]
  /\ UNCHANGED <<key, manual, broker, caller, task, holds, faults, lost>>

(* The body ended and mark_succeeded or mark_failed writes the verdict; a  *)
(* transient exception fails the job only on its last attempt, any other   *)
(* exception always does.                                                  *)
Finish(w, verdict) ==
  /\ pc[w] = "working"
  /\ status' = [status EXCEPT ![task[w]] = verdict]
  /\ pc' = [pc EXCEPT ![w] = "acking"]
  /\ UNCHANGED <<key, attempts, manual, broker, caller, task, seen, holds, faults, lost>>

(* Mutants: <= for <, and an outcome "retrying" that execute ignores.      *)
MarkRetryingOnceMore(w) ==
  /\ pc[w] = "working"
  /\ seen[w] <= MaxAttempts
  /\ IndexAdmits(task[w])
  /\ status' = [status EXCEPT ![task[w]] = "retrying"]
  /\ pc' = [pc EXCEPT ![w] = "resending"]
  /\ UNCHANGED <<key, attempts, manual, broker, caller, task, seen, holds, faults, lost>>
MarkRetryingUnsent(w) ==
  /\ pc[w] = "working"
  /\ seen[w] < MaxAttempts
  /\ IndexAdmits(task[w])
  /\ status' = [status EXCEPT ![task[w]] = "retrying"]
  /\ pc' = [pc EXCEPT ![w] = "acking"]
  /\ UNCHANGED <<key, attempts, manual, broker, caller, task, seen, holds, faults, lost>>

(* mark_retrying after a transient exception while attempts remain         *)
MarkRetrying(w) ==
  /\ pc[w] = "working"
  /\ seen[w] < MaxAttempts
  /\ IndexAdmits(task[w])
  /\ status' = [status EXCEPT ![task[w]] = "retrying"]
  /\ pc' = [pc EXCEPT ![w] = "resending"]
  /\ UNCHANGED <<key, attempts, manual, broker, caller, task, seen, holds, faults, lost>>

(* The unique index refuses mark_running or mark_retrying: run_job_async   *)
(* raises, the task fails and its message is acknowledged.                 *)
IndexRefuses(w) ==
  /\ \/ pc[w] = "loaded"
     \/ pc[w] = "working" /\ seen[w] < MaxAttempts
  /\ ~IndexAdmits(task[w])
  /\ pc' = [pc EXCEPT ![w] = "acking"]
  /\ UNCHANGED <<rowVars, broker, caller, task, seen, holds, faults, lost>>

(* JobTask.execute sends the next message itself (apply_async, countdown). *)
Resend(w) ==
  /\ pc[w] = "resending"
  /\ broker' = [broker EXCEPT ![task[w]] = @ + 1]
  /\ pc' = [pc EXCEPT ![w] = "acking"]
  /\ UNCHANGED <<rowVars, caller, task, seen, holds, faults, lost>>

(* The worker is free for the next message.                                *)
Release(w) ==
  /\ pc' = [pc EXCEPT ![w] = "idle"]
  /\ task' = [task EXCEPT ![w] = None]
  /\ seen' = [seen EXCEPT ![w] = 0]
  /\ holds' = [holds EXCEPT ![w] = FALSE]

(* acks_late: the message is acknowledged once the task has returned.      *)
Ack(w) ==
  /\ pc[w] = "acking"
  /\ Release(w)
  /\ UNCHANGED <<rowVars, broker, caller, faults, lost>>

(* Mutant: messages acknowledged on receipt (no task_acks_late).           *)
CrashAckedEarly(w) ==
  /\ pc[w] # "idle"
  /\ Suffer("crash")
  /\ Release(w)
  /\ UNCHANGED <<rowVars, broker, caller, lost>>

(* The worker host dies: the broker redelivers the message it still holds; *)
(* one that was already restored to somebody else does not come back.      *)
Crash(w) ==
  /\ pc[w] # "idle"
  /\ Suffer("crash")
  /\ \/ holds[w] /\ broker' = [broker EXCEPT ![task[w]] = @ + 1] /\ UNCHANGED lost
     \/ ~holds[w] /\ lost' = lost \cup {task[w]} /\ UNCHANGED broker
  /\ Release(w)
  /\ UNCHANGED <<rowVars, caller>>

(* The visibility timeout passes while the worker is still busy.           *)
Restore(w) ==
  /\ pc[w] # "idle"
  /\ holds[w]
  /\ Suffer("restore")
  /\ broker' = [broker EXCEPT ![task[w]] = @ + 1]
  /\ holds' = [holds EXCEPT ![w] = FALSE]
  /\ UNCHANGED <<rowVars, caller, pc, task, seen, lost>>

(* A store call raises, apply_async raises, or the pool child is killed:   *)
(* the message is acknowledged and the row stays as it is.                 *)
WorkerAbandons(w) ==
  /\ pc[w] \in {"loaded", "working", "resending"}
  /\ Suffer("abandon")
  /\ lost' = lost \cup {task[w]}
  /\ Release(w)
  /\ UNCHANGED <<rowVars, broker, caller>>

-----------------------------------------------------------------------------
CallerStep(c) == \/ \E j \in Jobs : EnqueueInsert(c, j)
                 \/ EnqueueConflict(c)
                 \/ Dispatch(c)
                 \/ RecordDispatchFailure(c)

WorkerStep(w) == \/ \E j \in Jobs : Load(w, j)
                 \/ MarkRunning(w)
                 \/ \E verdict \in Final : Finish(w, verdict)
                 \/ MarkRetrying(w)
                 \/ IndexRefuses(w)
                 \/ Resend(w)
                 \/ Ack(w)

Next == \/ \E c \in Callers : \/ \E k \in Keys : EnqueueCheck(c, k)
                              \/ \E j \in Jobs : Requeue(c, j)
                              \/ CallerStep(c)
                              \/ DispatchError(c)
                              \/ CallerAbandons(c)
        \/ \E w \in Workers : \/ WorkerStep(w)
                              \/ Crash(w)
                              \/ Restore(w)
                              \/ WorkerAbandons(w)

Spec == Init /\ [][Next]_vars

(* A request that has begun goes on, and a worker keeps taking messages    *)
(* and finishing bodies; requests themselves and faults are not forced.    *)
Fairness == /\ \A c \in Callers : WF_vars(CallerStep(c))
            /\ \A w \in Workers : WF_vars(WorkerStep(w))

FairSpec == Spec /\ Fairness

-----------------------------------------------------------------------------
(* Properties *)

(* Rows, messages and processes have the shape the schema and code give    *)
(* them: a busy process is about some job.                                 *)
TypeOK ==
  /\ status \in [Jobs -> Statuses]
  /\ key \in [Jobs -> Keys \cup {None}]
  /\ attempts \in [Jobs -> Nat]
  /\ manual \in [Jobs -> Nat]
  /\ broker \in [Jobs -> Nat]
  /\ caller \in [Callers -> CallerStates]
  /\ pc \in [Workers -> {"idle", "loaded", "working", "resending", "acking"}]
  /\ task \in [Workers -> Jobs \cup {None}]
  /\ seen \in [Workers -> Nat]
  /\ holds \in [Workers -> BOOLEAN]
  /\ faults \in [FaultKinds -> Nat]
  /\ lost \subseteq Jobs
  /\ \A c \in Callers : caller[c].at \in {"dispatching", "broker_failed"} => caller[c].job \in Jobs
  /\ \A w \in Workers : pc[w] # "idle" => task[w] \in Jobs

(* Two jobs with the same dedupe key are never active together, whatever   *)
(* enqueues, manual retries and late verdicts of workers interleave        *)
(* (uq_pipeline_jobs_active_dedupe, enqueue_job, JobService.retry).        *)
OneActivePerKey ==
  \A i, j \in Jobs : i # j /\ IsActive(i) /\ IsActive(j) => key[i] # key[j]

(* A message waits, or a process is about to act on the job: the job will  *)
(* get another step.                                                       *)
Carried(j) ==
  \/ broker[j] > 0
  \/ \E c \in Callers : caller[c].job = j /\ caller[c].at \in {"dispatching", "broker_failed"}
  \/ \E w \in Workers : task[w] = j /\ pc[w] \in {"loaded", "working", "resending"}

(* An active row blocks its key and refuses a manual retry, so a row that  *)
(* nobody will touch again blocks the target for good.  That only happens  *)
(* when a fault takes the job's last carrier and nobody redelivers it,     *)
(* never through a refused publication or a race of verdicts alone.        *)
NeverStranded == \A j \in Jobs : IsActive(j) => Carried(j) \/ j \in lost

(* Every job that becomes active ends succeeded or failed unless a fault   *)
(* took its carrier away: retries are finite and no duplicate, crash or    *)
(* stale verdict keeps a job going round.                                  *)
EventuallyFinal == \A j \in Jobs : IsActive(j) ~> (IsFinal(j) \/ j \in lost)

(* Faults after which one job may have two messages                        *)
Duplicated == \E f \in {"crash", "restore", "ambiguous"} : faults[f] > 0

(* As long as no fault duplicates a message, at most one worker runs the   *)
(* body of a job at a time, whatever enqueues and manual retries do.       *)
OneBodyPerJob ==
  Duplicated \/ \A v, w \in Workers :
                  pc[v] = "working" /\ pc[w] = "working" /\ task[v] = task[w] => v = w

(* The rows implement the lifecycle the documentation promises, up to the  *)
(* first fault that duplicates a message (Duplicated never becomes false). *)
Promise == INSTANCE JobLifecycle
LifecycleKept == Promise!Init /\ [][Duplicated' \/ Promise!Next]_rowVars
=============================================================================
