---------------------------- MODULE JobLifecycle ----------------------------
(***************************************************************************)
(* What the job system promises about a job (the docstrings of             *)
(* jobs/base.py and jobs/enqueue.py), without messages or processes: one   *)
(* active job per key, attempts counted, finitely many retries, and a      *)
(* finished job that only a manual retry starts again.                     *)
(***************************************************************************)
EXTENDS Naturals

CONSTANTS Jobs, Keys, None, MaxAttempts

VARIABLES status, key, attempts, manual  \* job id -> columns of pipeline_jobs

vars == <<status, key, attempts, manual>>

Active == {"queued", "running", "retrying"}

KeyFree(k, j) == \A i \in Jobs \ {j} : status[i] \in Active => key[i] # k

Init == /\ status = [j \in Jobs |-> "none"]
        /\ key = [j \in Jobs |-> None]
        /\ attempts = [j \in Jobs |-> 0]
        /\ manual = [j \in Jobs |-> 0]

(* A job is created for a key no active job has. *)
Create(j, k) ==
  /\ status[j] = "none"
  /\ KeyFree(k, j)
  /\ status' = [status EXCEPT ![j] = "queued"]
  /\ key' = [key EXCEPT ![j] = k]
  /\ UNCHANGED <<attempts, manual>>

(* An attempt begins; after a worker crash another one follows it. *)
Start(j) ==
  /\ status[j] \in Active
  /\ status' = [status EXCEPT ![j] = "running"]
  /\ attempts' = [attempts EXCEPT ![j] = @ + 1]
  /\ UNCHANGED <<key, manual>>

(* The attempt fails transiently and the job waits for the next one. *)
Wait(j) ==
  /\ status[j] = "running"
  /\ attempts[j] < MaxAttempts
  /\ status' = [status EXCEPT ![j] = "retrying"]
  /\ UNCHANGED <<key, attempts, manual>>

(* The attempt decides the job; or the queue refused its message and the   *)
(* job was never attempted.                                                *)
Conclude(j) ==
  /\ \/ status[j] = "running"
        /\ \E verdict \in {"succeeded", "failed"} : status' = [status EXCEPT ![j] = verdict]
     \/ status[j] = "queued" /\ status' = [status EXCEPT ![j] = "failed"]
  /\ UNCHANGED <<key, attempts, manual>>

(* A staff user asks for a failed job again. *)
Retry(j) ==
  /\ status[j] = "failed"
  /\ KeyFree(key[j], j)
  /\ status' = [status EXCEPT ![j] = "queued"]
  /\ attempts' = [attempts EXCEPT ![j] = 0]
  /\ manual' = [manual EXCEPT ![j] = @ + 1]
  /\ UNCHANGED key

Next == \E j \in Jobs : \/ \E k \in Keys : Create(j, k)
                        \/ Start(j) \/ Wait(j) \/ Conclude(j) \/ Retry(j)

Spec == Init /\ [][Next]_vars
=============================================================================
