----------------------------- MODULE Extraction -----------------------------
(***************************************************************************)
(* One PDF of the current version of a document: administrators attach and *)
(* detach it and queue extraction runs over it (api/services/admin.py),    *)
(* workers read it step by step and stage what they read                   *)
(* (jobs/extraction_runner.py), a reviewer accepts it.                     *)
(*                                                                         *)
(* A run's items are one reading, accepted or superseded as a whole.  What *)
(* surrounds the body in jobs/base.py is one step here (module JobQueue    *)
(* has its parts), a step's answer is only "done" or "failed".  INSERTs of *)
(* jobs, runs and items reference the document's row, so they wait while   *)
(* detach_file holds it FOR UPDATE.  Each fault happens at most once:      *)
(*   die     a worker dies; its message is delivered again                 *)
(*   again   a message is delivered again while its worker still works     *)
(*   outage  the model gives no answer, or a statement of the body fails   *)
(*   retry   an administrator retries a failed job                         *)
(*   deploy  the prompt, the schema or the model changes                   *)
(***************************************************************************)
EXTENDS Naturals

CONSTANTS Extractors,   \* worker processes
          Admins,       \* requests that can be under way at once
          MaxRuns,      \* bound: extraction runs of the file
          MaxSteps,     \* steps the manifest plans for it
          MaxTries,     \* max_attempts of extract_document
          Troubles      \* bound: sets of faults that happen together

Faults == {"die", "again", "outage", "retry", "deploy"}

ASSUME ExtractionBounds == /\ MaxRuns \in Nat /\ MaxSteps \in Nat \ {0} /\ MaxTries \in Nat
                           /\ Troubles \subseteq SUBSET Faults

VARIABLES
  attached,     \* the link in planning_document_files
  prompt,       \* what workers read with: prompt, schema and model versions
  status,       \* run -> extraction_runs.status, "none" before it is queued
  version,      \* run -> the prompt of its dedupe key
  jobs, tries,  \* run -> pipeline_jobs.status and attempts
  messages,     \* runs whose message waits for a worker
  saved,        \* run -> step -> extraction_run_chunks.status
  items,        \* run -> its items: "none", "pending", "accepted", "superseded"
  extractor,    \* per worker: where it is, its run, its attempt, its tally
  admin,        \* per request: where it is and the prompt it asks for
  trouble,      \* faults that have happened
  recalled,      \* history: a job was retried inside a detach
  reread        \* history: runs asked for although the file was read

runVars == <<status, version, jobs, tries, messages, saved, items>>
extractionVars == <<attached, prompt, runVars, extractor, admin, trouble, recalled, reread>>

Runs == 1..MaxRuns
Steps == 1..MaxSteps
Answers == {"none", "done", "failed"}
Nothing == [s \in Steps |-> "none"]
Free == [at |-> "idle", run |-> 0, attempt |-> 0, tally |-> Nothing]
Away == [at |-> "idle", prompt |-> 0, force |-> FALSE]

ExtractionInit ==
  /\ attached = TRUE /\ prompt = 1
  /\ status = [r \in Runs |-> "none"]
  /\ version = [r \in Runs |-> 0]
  /\ jobs = [r \in Runs |-> "none"]
  /\ tries = [r \in Runs |-> 0]
  /\ messages = {}
  /\ saved = [r \in Runs |-> Nothing]
  /\ items = [r \in Runs |-> "none"]
  /\ extractor = [e \in Extractors |-> Free]
  /\ admin = [a \in Admins |-> Away]
  /\ trouble = {}
  /\ recalled = FALSE /\ reread = {}

Suffers(f) == /\ f \notin trouble
              /\ trouble' = trouble \cup {f}
              /\ \E together \in Troubles : trouble' \subseteq together

(* uq_pipeline_jobs_active_dedupe                                          *)
Pursued(p) == \E r \in Runs : version[r] = p /\ jobs[r] \in {"queued", "running", "retrying"}

(* REUSABLE_RUN_SQL                                                        *)
Readable(p) == \E r \in Runs : version[r] = p /\ status[r] = "ready"

(* detach_file holds the document's row.                                   *)
Detaching == \E a \in Admins : admin[a].at = "detaching"

Queued == {r \in Runs : status[r] # "none"}
IsLatest(r) == r \in Queued /\ \A q \in Queued : q <= r

(* _EXTRACTION_STATE: the job decides unless the run is ready.             *)
InProgress(r) == /\ status[r] \in {"queued", "extracting", "failed"}
             /\ \/ jobs[r] \in {"queued", "running", "retrying"}
                \/ jobs[r] = "succeeded" /\ status[r] \in {"queued", "extracting"}

-----------------------------------------------------------------------------
(* Requests *)

(* Mutant: a run that has read the file is not looked for.                 *)
AskExtractionAnew(a) ==
  /\ admin[a].at = "idle" /\ attached
  /\ admin' = [admin EXCEPT ![a] = [at |-> "queueing", prompt |-> prompt, force |-> FALSE]]
  /\ UNCHANGED <<attached, prompt, runVars, extractor, trouble, recalled, reread>>

(* enqueue_extract: the file must be attached; a run that has read it with *)
(* the same versions answers, unless the request forces another.           *)
AskExtraction(a) ==
  /\ admin[a].at = "idle" /\ attached
  /\ admin' = [admin EXCEPT ![a] =
       [at |-> "queueing", prompt |-> prompt, force |-> Readable(prompt)]]
  /\ UNCHANGED <<attached, prompt, runVars, extractor, trouble, recalled, reread>>

(* enqueue_job and insert_run in a later transaction, then the message; an *)
(* active job with the key answers instead.                                *)
QueueRun(a, r) ==
  /\ admin[a].at = "queueing" /\ ~Detaching
  /\ status[r] = "none" /\ \A q \in Runs : q < r => status[q] # "none"
  /\ ~Pursued(admin[a].prompt)
  /\ status' = [status EXCEPT ![r] = "queued"]
  /\ version' = [version EXCEPT ![r] = admin[a].prompt]
  /\ jobs' = [jobs EXCEPT ![r] = "queued"]
  /\ messages' = messages \cup {r}
  /\ reread' = IF admin[a].force THEN reread \cup {r} ELSE reread
  /\ admin' = [admin EXCEPT ![a] = Away]
  /\ UNCHANGED <<attached, prompt, tries, saved, items, extractor, trouble, recalled>>

(* detach_file locks the document, then reads DETACH_STATE_SQL: nothing    *)
(* accepted, the latest run not active.                                    *)
CheckDetach(a) ==
  /\ admin[a].at = "idle" /\ attached /\ ~Detaching
  /\ \A r \in Runs : /\ items[r] # "accepted"
                     /\ IsLatest(r) => ~InProgress(r)
  /\ admin' = [admin EXCEPT ![a] = [Away EXCEPT !.at = "detaching"]]
  /\ UNCHANGED <<attached, prompt, runVars, extractor, trouble, recalled, reread>>

(* SUPERSEDE_FILE_ITEMS_SQL, DELETE_LINK_SQL and the commit                *)
Detach(a) ==
  /\ admin[a].at = "detaching"
  /\ attached' = FALSE
  /\ items' = [r \in Runs |-> IF items[r] = "none" THEN "none" ELSE "superseded"]
  /\ admin' = [admin EXCEPT ![a] = Away]
  /\ UNCHANGED <<prompt, status, version, jobs, tries, messages, saved, extractor, trouble,
                 recalled, reread>>

(* An existing job answers the request, or the request fails.              *)
Withdraw(a) ==
  /\ admin[a].at # "idle"
  /\ admin' = [admin EXCEPT ![a] = Away]
  /\ UNCHANGED <<attached, prompt, runVars, extractor, trouble, recalled, reread>>

(* attach_files                                                            *)
Attach ==
  /\ ~attached /\ ~Detaching
  /\ attached' = TRUE
  /\ UNCHANGED <<prompt, runVars, extractor, admin, trouble, recalled, reread>>

(* JobService.retry of the run's job.  It looks neither at the link nor    *)
(* for a run that has read the file since.                                 *)
RetryRun(r) ==
  /\ jobs[r] = "failed" /\ ~Pursued(version[r])
  /\ Suffers("retry")
  /\ jobs' = [jobs EXCEPT ![r] = "queued"]
  /\ tries' = [tries EXCEPT ![r] = 0]
  /\ messages' = messages \cup {r}
  /\ recalled' = (recalled \/ Detaching)
  /\ reread' = IF Readable(version[r]) THEN reread \cup {r} ELSE reread
  /\ UNCHANGED <<attached, prompt, status, version, saved, items, extractor, admin>>

(* A reviewer accepts the run's items.                                     *)
Accept(r) ==
  /\ items[r] = "pending"
  /\ items' = [items EXCEPT ![r] = "accepted"]
  /\ UNCHANGED <<attached, prompt, status, version, jobs, tries, messages, saved, extractor,
                 admin, trouble, recalled, reread>>

(* A release changes the prompt, the schema or the model.                  *)
Deploy ==
  /\ Suffers("deploy")
  /\ prompt' = prompt + 1
  /\ UNCHANGED <<attached, runVars, extractor, admin, recalled, reread>>

-----------------------------------------------------------------------------
(* Workers *)

At(e, step) == extractor[e].at = step
Goes(e, step) == extractor' = [extractor EXCEPT ![e].at = step]
Leaves(e) == extractor' = [extractor EXCEPT ![e] = Free]

(* The message is taken and, unless the job is finished, the job marked    *)
(* running; a run that is ready for review has nothing to redo.            *)
TakeRun(e, r) ==
  /\ At(e, "idle") /\ r \in messages
  /\ messages' = messages \ {r}
  /\ IF jobs[r] \in {"succeeded", "failed"}
     THEN UNCHANGED <<jobs, tries, extractor>>
     ELSE /\ jobs' = [jobs EXCEPT ![r] = "running"]
          /\ tries' = [tries EXCEPT ![r] = @ + 1]
          /\ extractor' = [extractor EXCEPT ![e] =
               [at |-> CASE status[r] = "ready" -> "written"
                         [] status[r] = "failed" -> "restarting"
                         [] OTHER -> "starting",
                run |-> r, attempt |-> tries[r] + 1, tally |-> Nothing]]
  /\ UNCHANGED <<attached, prompt, status, version, saved, items, admin, trouble, recalled, reread>>

(* _start: a run that was read as failed forgets its failed steps.         *)
StartRun(e) ==
  LET r == extractor[e].run IN
  /\ At(e, "starting") \/ At(e, "restarting")
  /\ saved' = [saved EXCEPT ![r] = [s \in Steps |->
       IF At(e, "restarting") /\ @[s] = "failed" THEN "none" ELSE @[s]]]
  /\ status' = [status EXCEPT ![r] = "extracting"]
  /\ Goes(e, "started")
  /\ UNCHANGED <<attached, prompt, version, jobs, tries, messages, items, admin, trouble, recalled,
                 reread>>

(* Mutants: the link is not looked at; only answers that fit are kept.     *)
CheckFileUnlinked(e) ==
  /\ At(e, "started")
  /\ extractor' = [extractor EXCEPT ![e].at = "reading", ![e].tally = saved[extractor[e].run]]
  /\ UNCHANGED <<attached, prompt, runVars, admin, trouble, recalled, reread>>
CheckFileForgetful(e) ==
  /\ At(e, "started")
  /\ extractor' = [extractor EXCEPT
       ![e].at = IF attached THEN "reading" ELSE "failing",
       ![e].tally = [s \in Steps |-> IF saved[extractor[e].run][s] = "done" THEN "done" ELSE "none"]]
  /\ UNCHANGED <<attached, prompt, runVars, admin, trouble, recalled, reread>>

(* _execute: the file must still be attached; the saved steps are loaded.  *)
CheckFile(e) ==
  /\ At(e, "started")
  /\ extractor' = [extractor EXCEPT ![e].at = IF attached THEN "reading" ELSE "failing",
                                    ![e].tally = saved[extractor[e].run]]
  /\ UNCHANGED <<attached, prompt, runVars, admin, trouble, recalled, reread>>

(* The steps in their order, those in the tally left out                   *)
NextStep(e, s) == /\ extractor[e].tally[s] = "none"
                  /\ \A t \in Steps : t < s => extractor[e].tally[t] # "none"

(* _step: the model is asked, and paid, for step s; its answer fits or not.*)
ReadStep(e, s, answer) ==
  /\ At(e, "reading") /\ NextStep(e, s)
  /\ answer # "none"
  /\ extractor' = [extractor EXCEPT ![e].at = "answered", ![e].tally[s] = answer]
  /\ UNCHANGED <<attached, prompt, runVars, admin, trouble, recalled, reread>>

(* _checkpoint: SAVE_STEP_SQL keeps an answer that is there; this worker's *)
(* tally keeps its own.                                                    *)
SaveStep(e) ==
  LET r == extractor[e].run IN
  /\ At(e, "answered")
  /\ saved' = [saved EXCEPT ![r] = [s \in Steps |->
       IF @[s] = "none" THEN extractor[e].tally[s] ELSE @[s]]]
  /\ Goes(e, "reading")
  /\ UNCHANGED <<attached, prompt, status, version, jobs, tries, messages, items, admin, trouble,
                 recalled, reread>>

AllRead(e) == \A s \in Steps : extractor[e].tally[s] # "none"

(* _write: one transaction stages the items, supersedes the pending ones   *)
(* of the file's other runs and finishes the run.                          *)
WriteItems(e) ==
  LET r == extractor[e].run IN
  /\ At(e, "reading") /\ AllRead(e) /\ ~Detaching
  /\ \E s \in Steps : extractor[e].tally[s] = "done"
  /\ items' = [q \in Runs |-> CASE q = r -> "pending"
                                [] q # r /\ items[q] = "pending" -> "superseded"
                                [] OTHER -> items[q]]
  /\ status' = [status EXCEPT ![r] = "ready"]
  /\ reread' = reread \cup {q \in Runs : status[q] = "none" /\ \E a \in Admins :
                              admin[a].at = "queueing" /\ admin[a].prompt = version[r]}
  /\ Goes(e, "written")
  /\ UNCHANGED <<attached, prompt, version, jobs, tries, messages, saved, admin, trouble, recalled>>

(* Every step failed: ExtractionFailed.                                    *)
NothingRead(e) ==
  /\ At(e, "reading") /\ \A s \in Steps : extractor[e].tally[s] = "failed"
  /\ Goes(e, "failing")
  /\ UNCHANGED <<attached, prompt, runVars, admin, trouble, recalled, reread>>

Succeed(e) ==
  /\ At(e, "written")
  /\ jobs' = [jobs EXCEPT ![extractor[e].run] = "succeeded"]
  /\ Leaves(e)
  /\ UNCHANGED <<attached, prompt, status, version, tries, messages, saved, items, admin, trouble,
                 recalled, reread>>

(* A transient error: the job tries again unless this was the last attempt.*)
TransientError(e) ==
  /\ At(e, "reading") /\ Suffers("outage")
  /\ IF extractor[e].attempt < MaxTries
     THEN /\ jobs' = [jobs EXCEPT ![extractor[e].run] = "retrying"]
          /\ messages' = messages \cup {extractor[e].run}
          /\ Leaves(e)
     ELSE Goes(e, "failing") /\ UNCHANGED <<jobs, messages>>
  /\ UNCHANGED <<attached, prompt, status, version, tries, saved, items, admin, recalled, reread>>

(* Any other exception, an answer that cannot be saved among them.         *)
Raise(e) ==
  /\ extractor[e].at \in {"started", "reading", "answered"} /\ Suffers("outage")
  /\ Goes(e, "failing")
  /\ UNCHANGED <<attached, prompt, runVars, admin, recalled, reread>>

(* FAIL_SQL leaves a finished run alone; then the job fails.               *)
FailRun(e) ==
  /\ At(e, "failing")
  /\ status' = [status EXCEPT ![extractor[e].run] = IF @ = "ready" THEN @ ELSE "failed"]
  /\ Goes(e, "failed")
  /\ UNCHANGED <<attached, prompt, version, jobs, tries, messages, saved, items, admin, trouble,
                 recalled, reread>>

FailJob(e) ==
  /\ At(e, "failed")
  /\ jobs' = [jobs EXCEPT ![extractor[e].run] = "failed"]
  /\ Leaves(e)
  /\ UNCHANGED <<attached, prompt, status, version, tries, messages, saved, items, admin, trouble,
                 recalled, reread>>

(* The worker dies, or its message is handed out while it works.           *)
Die(e) ==
  /\ ~At(e, "idle") /\ Suffers("die")
  /\ messages' = messages \cup {extractor[e].run}
  /\ Leaves(e)
  /\ UNCHANGED <<attached, prompt, status, version, jobs, tries, saved, items, admin, recalled,
                 reread>>

DeliverAgain(e) ==
  /\ ~At(e, "idle") /\ Suffers("again")
  /\ messages' = messages \cup {extractor[e].run}
  /\ UNCHANGED <<attached, prompt, status, version, jobs, tries, saved, items, extractor, admin,
                 recalled, reread>>

-----------------------------------------------------------------------------
ExtractionNext ==
  \/ \E a \in Admins : \/ AskExtraction(a)
                       \/ \E r \in Runs : QueueRun(a, r)
                       \/ CheckDetach(a) \/ Detach(a) \/ Withdraw(a)
  \/ \E r \in Runs : RetryRun(r) \/ Accept(r)
  \/ Attach \/ Deploy
  \/ \E e \in Extractors :
       \/ \E r \in Runs : TakeRun(e, r)
       \/ StartRun(e) \/ CheckFile(e)
       \/ \E s \in Steps, answer \in Answers : ReadStep(e, s, answer)
       \/ SaveStep(e) \/ WriteItems(e) \/ NothingRead(e) \/ Succeed(e)
       \/ TransientError(e) \/ Raise(e) \/ FailRun(e) \/ FailJob(e)
       \/ Die(e) \/ DeliverAgain(e)

ExtractionSpec == ExtractionInit /\ [][ExtractionNext]_extractionVars

-----------------------------------------------------------------------------
(* Properties *)

(* Rows have the shape of the schema; a busy worker has a run it was given *)
(* a message for; a run that is ready has staged its items.                *)
ExtractionTypeOK ==
  /\ attached \in BOOLEAN /\ prompt \in Nat
  /\ status \in [Runs -> {"none", "queued", "extracting", "ready", "failed"}]
  /\ version \in [Runs -> Nat]
  /\ jobs \in [Runs -> {"none", "queued", "running", "retrying", "succeeded", "failed"}]
  /\ tries \in [Runs -> Nat] /\ messages \subseteq Queued
  /\ saved \in [Runs -> [Steps -> Answers]]
  /\ items \in [Runs -> {"none", "pending", "accepted", "superseded"}]
  /\ extractor \in [Extractors ->
       [at : {"idle", "starting", "restarting", "started", "reading", "answered", "written",
              "failing", "failed"},
        run : Queued \cup {0}, attempt : Nat, tally : [Steps -> Answers]]]
  /\ admin \in [Admins -> [at : {"idle", "queueing", "detaching"}, prompt : Nat, force : BOOLEAN]]
  /\ trouble \subseteq Faults /\ recalled \in BOOLEAN /\ reread \subseteq Runs
  /\ \A r \in Runs : status[r] = "ready" => items[r] # "none"
  /\ \A e \in Extractors : extractor[e].at # "idle" => extractor[e].run # 0

(* admin.py:1456-1458 and extraction_runner.py:170-173: what was read from *)
(* a file that left its version is not up for review, however requests to  *)
(* detach and to extract it interleave.  It holds of the file's latest     *)
(* run, which is the one detach_file looks at, unless its message was      *)
(* delivered twice or its job retried inside the detach.                   *)
DetachedIsQuiet ==
  ~attached /\ "again" \notin trouble /\ ~recalled =>
    \A r \in Runs : IsLatest(r) => items[r] \notin {"pending", "accepted"}

(* jobs/tasks/extraction.py:22: retries resume from the saved steps: the    *)
(* model is never asked again for a step whose answer is saved, until a    *)
(* message is delivered twice.                                             *)
StepPaidOnce ==
  [][\A e \in Extractors, s \in Steps :
       extractor'[e].at = "answered" /\ extractor'[e].tally[s] # extractor[e].tally[s]
         => saved[extractor[e].run][s] = "none" \/ "again" \in trouble]_extractionVars

(* runs.py:6-11: the same content is read the same way once, unless that   *)
(* is forced, a failed run is retried after another has read it, or the    *)
(* run ends while a request for the next one is under way.                 *)
ReadOnce ==
  "again" \notin trouble =>
    \A q, r \in Runs : q # r /\ version[q] = version[r] /\ {status[q], status[r]} = {"ready"}
                         => {q, r} \cap reread # {}
=============================================================================
