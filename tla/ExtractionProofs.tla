-------------------------- MODULE ExtractionProofs --------------------------
(***************************************************************************)
(* Paying for a step, reading a file and detaching it, for any number of   *)
(* workers, requests, runs, steps and attempts, and for every combination  *)
(* of faults.                                                              *)
(***************************************************************************)
EXTENDS Extraction, TLAPS

Active == {"queued", "running", "retrying"}
Places == {"idle", "starting", "restarting", "started", "reading", "answered", "written",
           "failing", "failed"}
Duties == [at : Places, run : Runs \cup {0}, attempt : Nat, tally : [Steps -> Answers]]
Errands == [at : {"idle", "queueing", "detaching"}, prompt : Nat, force : BOOLEAN]
Busy(e) == extractor[e].at # "idle"

(* The shape of the state; messages and workers are about queued runs, and *)
(* a run that was never queued has no items and no job.                    *)
Shape ==
  /\ prompt \in Nat
  /\ status \in [Runs -> {"none", "queued", "extracting", "ready", "failed"}]
  /\ version \in [Runs -> Nat]
  /\ jobs \in [Runs -> {"none", "queued", "running", "retrying", "succeeded", "failed"}]
  /\ tries \in [Runs -> Nat] /\ messages \subseteq Runs
  /\ saved \in [Runs -> [Steps -> Answers]]
  /\ items \in [Runs -> {"none", "pending", "accepted", "superseded"}]
  /\ extractor \in [Extractors -> Duties]
  /\ admin \in [Admins -> Errands]
  /\ \A e \in Extractors : Busy(e) => extractor[e].run \in Queued
  /\ messages \subseteq Queued
  /\ \A r \in Runs : status[r] = "none" => items[r] = "none" /\ jobs[r] = "none"

-----------------------------------------------------------------------------
(* What the steps of requests and workers do                               *)

(* Everything about a run that a step about another run leaves alone.      *)
Kept(q) ==
  /\ status'[q] = status[q] /\ jobs'[q] = jobs[q] /\ saved'[q] = saved[q]
  /\ q \in messages' <=> q \in messages
Others(e) == \A f \in Extractors : f # e => extractor'[f] = extractor[f]

(* The steps of a worker that has a run.                                   *)
Works(e) ==
  \/ StartRun(e) \/ CheckFile(e) \/ \E s \in Steps, answer \in Answers : ReadStep(e, s, answer)
  \/ SaveStep(e) \/ WriteItems(e) \/ NothingRead(e) \/ Succeed(e)
  \/ TransientError(e) \/ Raise(e) \/ FailRun(e) \/ FailJob(e) \/ Die(e)
Quits(e) == extractor'[e] = Free

Turns(e, at, tally) == extractor' = [extractor EXCEPT ![e].at = at, ![e].tally = tally]

LEMMA Moved ==
  ASSUME extractor \in [Extractors -> Duties], NEW e \in Extractors, NEW at \in
                 {"starting", "restarting", "started", "reading", "answered", "written",
                  "failing", "failed"},
         NEW tally \in [Steps -> Answers],
         Turns(e, at, tally)
  PROVE  /\ extractor' \in [Extractors -> Duties] /\ Others(e)
         /\ extractor'[e].at = at /\ extractor'[e].run = extractor[e].run
         /\ extractor'[e].attempt = extractor[e].attempt /\ extractor'[e].tally = tally
BY DEF Duties, Others, Places, Turns

LEMMA Gone ==
  ASSUME extractor \in [Extractors -> Duties], NEW e \in Extractors, NEW at \in
                 {"starting", "restarting", "started", "reading", "answered", "written",
                  "failing", "failed"}, Goes(e, at)
  PROVE  /\ extractor' \in [Extractors -> Duties] /\ Others(e)
         /\ extractor'[e].at = at /\ extractor'[e].run = extractor[e].run
         /\ extractor'[e].attempt = extractor[e].attempt /\ extractor'[e].tally = extractor[e].tally
BY DEF Duties, Others, Places, Goes

LEMMA Left ==
  ASSUME extractor \in [Extractors -> Duties], NEW e \in Extractors, Leaves(e)
  PROVE  /\ extractor' \in [Extractors -> Duties] /\ Others(e) /\ Quits(e) /\ ~Busy(e)'
<1>1. Free \in Duties /\ Free.at = "idle"
  BY DEF Free, Duties, Places, Nothing, Answers
<1>. QED
  BY <1>1 DEF Others, Leaves, Quits, Busy

(* A worker's step concerns the worker and its run.                        *)
LEMMA WorkerKeeps ==
  ASSUME Shape, NEW e \in Extractors, Works(e)
  PROVE  /\ Busy(e) /\ extractor[e].run \in Queued
         /\ extractor' \in [Extractors -> Duties] /\ Others(e)
         /\ Quits(e) \/ (extractor'[e].run = extractor[e].run /\ Busy(e)')
         /\ \A q \in Runs : q # extractor[e].run => Kept(q)
         /\ UNCHANGED <<attached, prompt, version, tries, admin, recalled>>
<1>. USE DEF runVars, Kept
<1>1. /\ extractor \in [Extractors -> Duties] /\ extractor[e] \in Duties
      /\ extractor[e].tally \in [Steps -> Answers]
      /\ Busy(e) => extractor[e].run \in Queued
      /\ Busy(e) => saved[extractor[e].run] \in [Steps -> Answers]
  BY DEF Shape, Duties, Queued
<1>2. ASSUME NEW at \in {"starting", "restarting", "started", "reading", "answered", "written",
                          "failing", "failed"},
             Busy(e), Goes(e, at)
      PROVE  /\ Busy(e) /\ extractor[e].run \in Queued
             /\ extractor' \in [Extractors -> Duties] /\ Others(e)
             /\ Quits(e) \/ (extractor'[e].run = extractor[e].run /\ Busy(e)')
  <2>1. /\ extractor' \in [Extractors -> Duties] /\ Others(e)
        /\ extractor'[e].run = extractor[e].run /\ extractor'[e].at = at
    BY <1>1, <1>2, Gone
  <2>. QED
    BY <1>1, <1>2, <2>1 DEF Busy
<1>3. ASSUME Busy(e), Leaves(e)
      PROVE  /\ Busy(e) /\ extractor[e].run \in Queued
             /\ extractor' \in [Extractors -> Duties] /\ Others(e)
             /\ Quits(e) \/ (extractor'[e].run = extractor[e].run /\ Busy(e)')
  BY <1>1, <1>3, Left
<1>4. CASE StartRun(e)
  <2>1. Busy(e) /\ Goes(e, "started")
    BY <1>4 DEF StartRun, At, Busy
  <2>. QED
    BY <1>2, <1>4, <2>1 DEF StartRun, Places, Shape
<1>5. CASE CheckFile(e)
  <2>1. Busy(e) /\ \E at \in {"reading", "failing"} : Turns(e, at, saved[extractor[e].run])
    BY <1>5 DEF CheckFile, Turns, At, Busy, Places
  <2>2. PICK at \in {"reading", "failing"} : Turns(e, at, saved[extractor[e].run])
    BY <2>1
  <2>3. /\ extractor' \in [Extractors -> Duties] /\ Others(e)
        /\ extractor'[e].run = extractor[e].run /\ extractor'[e].at = at
    BY <1>1, <2>1, <2>2, Moved
  <2>. QED
    BY <1>1, <1>5, <2>1, <2>2, <2>3 DEF CheckFile, Busy
<1>6. ASSUME NEW s \in Steps, NEW answer \in Answers, ReadStep(e, s, answer)
      PROVE  /\ Busy(e) /\ extractor[e].run \in Queued
             /\ extractor' \in [Extractors -> Duties] /\ Others(e)
             /\ Quits(e) \/ (extractor'[e].run = extractor[e].run /\ Busy(e)')
  <2>1. Busy(e) /\ extractor' = [extractor EXCEPT ![e].at = "answered", ![e].tally[s] = answer]
    BY <1>6 DEF ReadStep, At, Busy
  <2>2. [extractor[e].tally EXCEPT ![s] = answer] \in [Steps -> Answers]
    BY <1>1
  <2>3. Turns(e, "answered", [extractor[e].tally EXCEPT ![s] = answer])
    BY <1>1, <2>1 DEF Turns, Duties
  <2>. QED
    <3>2. /\ extractor' \in [Extractors -> Duties] /\ Others(e)
          /\ extractor'[e].run = extractor[e].run /\ extractor'[e].at = "answered"
      BY <1>1, <2>2, <2>3, Moved
    <3>. QED
      BY <1>1, <2>1, <3>2 DEF Busy
<1>7. CASE SaveStep(e)
  <2>1. Busy(e) /\ Goes(e, "reading")
    BY <1>7 DEF SaveStep, At, Busy
  <2>. QED
    BY <1>2, <1>7, <2>1 DEF SaveStep, Places, Shape
<1>8. CASE WriteItems(e)
  <2>1. Busy(e) /\ Goes(e, "written")
    BY <1>8 DEF WriteItems, At, Busy
  <2>. QED
    BY <1>2, <1>8, <2>1 DEF WriteItems, Places, Shape
<1>9. CASE NothingRead(e) \/ Raise(e)
  <2>1. Busy(e) /\ Goes(e, "failing")
    BY <1>9 DEF NothingRead, Raise, At, Busy
  <2>. QED
    BY <1>2, <1>9, <2>1 DEF NothingRead, Raise, Places
<1>10. CASE FailRun(e)
  <2>1. Busy(e) /\ Goes(e, "failed")
    BY <1>10 DEF FailRun, At, Busy
  <2>. QED
    BY <1>2, <1>10, <2>1 DEF FailRun, Places, Shape
<1>11. CASE Succeed(e) \/ FailJob(e) \/ Die(e)
  <2>1. Busy(e) /\ Leaves(e)
    BY <1>11 DEF Succeed, FailJob, Die, At, Busy
  <2>. QED
    BY <1>3, <1>11, <2>1 DEF Succeed, FailJob, Die, Shape
<1>12. CASE TransientError(e)
  <2>1. Busy(e) /\ (Leaves(e) \/ Goes(e, "failing"))
    BY <1>12 DEF TransientError, At, Busy
  <2>2. CASE Leaves(e)
    BY <1>3, <1>12, <2>1, <2>2 DEF TransientError, Shape
  <2>3. CASE Goes(e, "failing")
    BY <1>2, <1>12, <2>1, <2>3 DEF TransientError, Places, Shape
  <2>. QED
    BY <2>1, <2>2, <2>3
<1>13. ASSUME NEW s \in Steps, NEW answer \in Answers, ReadStep(e, s, answer)
       PROVE  /\ \A q \in Runs : Kept(q)
              /\ UNCHANGED <<attached, prompt, version, tries, admin, recalled>>
  BY <1>13 DEF ReadStep
<1>. QED
  BY <1>4, <1>5, <1>6, <1>7, <1>8, <1>9, <1>10, <1>11, <1>12, <1>13 DEF Works
(* A message is taken: the worker gets the run, unless its job is final.   *)
LEMMA Taken ==
  ASSUME Shape, NEW e \in Extractors, NEW r \in Runs, TakeRun(e, r)
  PROVE  /\ ~Busy(e) /\ r \in Queued /\ r \in messages /\ messages' = messages \ {r}
         /\ extractor' \in [Extractors -> Duties] /\ Others(e)
         /\ \/ jobs[r] \in {"succeeded", "failed"} /\ UNCHANGED <<jobs, tries, extractor>>
            \/ /\ jobs[r] \notin {"succeeded", "failed"}
               /\ jobs' = [jobs EXCEPT ![r] = "running"] /\ tries' = [tries EXCEPT ![r] = tries[r] + 1]
               /\ extractor'[e].run = r
               /\ status[r] = "ready" => extractor'[e].at = "written"
               /\ status[r] # "ready" => extractor'[e].at \in {"starting", "restarting"}
         /\ UNCHANGED <<attached, prompt, status, version, saved, items, admin, trouble, recalled,
                        reread>>
<1>1. ~Busy(e) /\ r \in Queued /\ r \in messages /\ messages' = messages \ {r}
  BY DEF TakeRun, At, Busy, Shape
<1>2. UNCHANGED <<attached, prompt, status, version, saved, items, admin, trouble, recalled, reread>>
  BY DEF TakeRun
<1>3. CASE jobs[r] \in {"succeeded", "failed"}
  BY <1>1, <1>2, <1>3 DEF TakeRun, Shape, Others
<1>4. CASE jobs[r] \notin {"succeeded", "failed"}
  <2>. DEFINE start == CASE status[r] = "ready" -> "written"
                         [] status[r] = "failed" -> "restarting"
                         [] OTHER -> "starting"
              duty == [at |-> start, run |-> r, attempt |-> tries[r] + 1, tally |-> Nothing]
  <2>1. duty \in Duties
    <3>1. start \in Places
      BY DEF Places
    <3>2. tries[r] + 1 \in Nat /\ Nothing \in [Steps -> Answers]
      BY DEF Shape, Nothing, Answers
    <3>. HIDE DEF start
    <3>. QED
      BY <3>1, <3>2 DEF Duties
  <2>2. extractor' = [extractor EXCEPT ![e] = duty]
    BY <1>4 DEF TakeRun
  <2>3. /\ duty.run = r /\ (status[r] = "ready" => duty.at = "written")
        /\ status[r] # "ready" => duty.at \in {"starting", "restarting"}
    OBVIOUS
  <2>4. extractor' \in [Extractors -> Duties] /\ Others(e) /\ extractor'[e] = duty
    <3>. HIDE DEF duty
    <3>. QED
      BY <2>1, <2>2 DEF Shape, Others
  <2>. QED
    BY <1>1, <1>2, <1>4, <2>3, <2>4 DEF TakeRun
<1>. QED
  BY <1>3, <1>4

(* Every step is one of these.                                             *)
Asks(a) == \/ AskExtraction(a) \/ \E r \in Runs : QueueRun(a, r)
           \/ CheckDetach(a) \/ Detach(a) \/ Withdraw(a)
LEMMA Cases ==
  ASSUME [ExtractionNext]_extractionVars
  PROVE  \/ \E a \in Admins : Asks(a)
         \/ \E r \in Runs : RetryRun(r) \/ Accept(r)
         \/ Attach \/ Deploy \/ UNCHANGED extractionVars
         \/ \E e \in Extractors : \/ \E r \in Runs : TakeRun(e, r)
                                  \/ Works(e) \/ DeliverAgain(e)
BY DEF ExtractionNext, Asks, Works

LEMMA AdminMoves ==
  ASSUME Shape, NEW a \in Admins, Asks(a)
  PROVE  /\ admin' \in [Admins -> Errands]
         /\ UNCHANGED <<prompt, saved, extractor, tries, trouble, recalled>>
<1>1. \/ admin' = [admin EXCEPT ![a] = [at |-> "queueing", prompt |-> prompt, force |-> Readable(prompt)]]
      \/ admin' = [admin EXCEPT ![a] = Away]
      \/ admin' = [admin EXCEPT ![a] = [at |-> "detaching", prompt |-> 0, force |-> FALSE]]
  BY DEF Asks, AskExtraction, QueueRun, CheckDetach, Detach, Withdraw, Away
<1>2. Readable(prompt) \in BOOLEAN
  BY DEF Readable
<1>3. /\ [at |-> "queueing", prompt |-> prompt, force |-> Readable(prompt)] \in Errands
      /\ Away \in Errands
      /\ [at |-> "detaching", prompt |-> 0, force |-> FALSE] \in Errands
  BY <1>2 DEF Errands, Away, Shape
<1>4. UNCHANGED <<prompt, saved, extractor, tries, trouble, recalled>>
  BY DEF Asks, AskExtraction, QueueRun, CheckDetach, Detach, Withdraw, runVars
<1>. QED
  BY <1>1, <1>3, <1>4 DEF Shape

LEMMA ShapeStep ==
  ASSUME Shape, [ExtractionNext]_extractionVars
  PROVE  Shape'
<1>. USE DEF runVars
<1>1. ASSUME NEW a \in Admins, Asks(a)
      PROVE  Shape'
  <2>1. admin' \in [Admins -> Errands] /\ UNCHANGED <<prompt, saved, extractor, tries>>
    BY <1>1, AdminMoves
  <2>2. CASE AskExtraction(a) \/ CheckDetach(a) \/ Withdraw(a)
    BY <2>1, <2>2 DEF AskExtraction, CheckDetach, Withdraw, Shape, Queued, Busy
  <2>3. ASSUME NEW r \in Runs, QueueRun(a, r)
        PROVE  Shape'
    <3>1. /\ status' = [status EXCEPT ![r] = "queued"] /\ jobs' = [jobs EXCEPT ![r] = "queued"]
          /\ version' = [version EXCEPT ![r] = admin[a].prompt] /\ messages' = messages \cup {r}
          /\ UNCHANGED items
      BY <2>3 DEF QueueRun
    <3>2. admin[a].prompt \in Nat
      BY DEF Shape, Errands
    <3>3. Queued' = Queued \cup {r}
      BY <3>1 DEF Queued, Shape
    <3>. QED
      BY <2>1, <3>1, <3>2, <3>3 DEF Shape, Busy
  <2>4. CASE Detach(a)
    BY <2>1, <2>4 DEF Detach, Shape, Queued, Busy
  <2>. QED
    BY <1>1, <2>2, <2>3, <2>4 DEF Asks
<1>2. ASSUME NEW r \in Runs, RetryRun(r)
      PROVE  Shape'
  <2>1. /\ jobs' = [jobs EXCEPT ![r] = "queued"] /\ tries' = [tries EXCEPT ![r] = 0]
        /\ messages' = messages \cup {r}
        /\ UNCHANGED <<prompt, status, version, saved, items, extractor, admin>>
    BY <1>2 DEF RetryRun
  <2>2. r \in Queued'
    BY <1>2, <2>1 DEF RetryRun, Shape, Queued
  <2>. QED
    BY <2>1, <2>2 DEF Shape, Queued, Busy
<1>3. ASSUME NEW r \in Runs, Accept(r)
      PROVE  Shape'
  BY <1>3 DEF Accept, Shape, Queued, Busy
<1>4. CASE Attach \/ Deploy \/ UNCHANGED extractionVars
  BY <1>4 DEF Attach, Deploy, extractionVars, Shape, Queued, Busy
<1>5. ASSUME NEW e \in Extractors, NEW r \in Runs, TakeRun(e, r)
      PROVE  Shape'
  <2>1. jobs' \in [Runs -> {"none", "queued", "running", "retrying", "succeeded", "failed"}]
        /\ tries' \in [Runs -> Nat]
    <3>1. \/ UNCHANGED <<jobs, tries>>
          \/ jobs' = [jobs EXCEPT ![r] = "running"] /\ tries' = [tries EXCEPT ![r] = tries[r] + 1]
      BY <1>5, Taken
    <3>. QED
      BY <3>1 DEF Shape
  <2>2. \A f \in Extractors : Busy(f)' => extractor'[f].run \in Queued'
    <3>1. /\ Others(e) /\ r \in Queued /\ ~Busy(e) /\ Queued' = Queued
          /\ extractor' = extractor \/ extractor'[e].run = r
      BY <1>5, Taken DEF Queued
    <3>. QED
      BY <3>1 DEF Shape, Others, Busy
  <2>3. \A q \in Runs : status[q] = "none" => jobs'[q] = "none"
    BY <1>5, Taken DEF Shape, Queued
  <2>. QED
    BY <1>5, <2>1, <2>2, <2>3, Taken DEF Shape, Queued
<1>6. ASSUME NEW e \in Extractors, Works(e)
      PROVE  Shape'
  <2>1. /\ extractor[e].run \in Queued /\ extractor' \in [Extractors -> Duties] /\ Others(e)
        /\ Quits(e) \/ extractor'[e].run = extractor[e].run
        /\ UNCHANGED <<prompt, version, tries, admin>>
    BY <1>6, WorkerKeeps
  <2>2. /\ status' \in [Runs -> {"none", "queued", "extracting", "ready", "failed"}]
        /\ \A q \in Runs : status'[q] = "none" <=> status[q] = "none"
    BY SMTT(30), <1>6, <2>1 DEF Works, StartRun, CheckFile, ReadStep, SaveStep, WriteItems, NothingRead,
       Succeed, TransientError, Raise, FailRun, FailJob, Die, Shape, Queued
  <2>3. jobs' \in [Runs -> {"none", "queued", "running", "retrying", "succeeded", "failed"}]
    BY <1>6, <2>1 DEF Works, StartRun, CheckFile, ReadStep, SaveStep, WriteItems, NothingRead,
       Succeed, TransientError, Raise, FailRun, FailJob, Die, Shape
  <2>9. \A q \in Runs : status[q] = "none" => jobs'[q] = "none"
    BY <1>6, <2>1, WorkerKeeps DEF Shape, Kept, Queued
  <2>4. messages' \subseteq Queued
    BY <1>6, <2>1 DEF Works, StartRun, CheckFile, ReadStep, SaveStep, WriteItems, NothingRead,
       Succeed, TransientError, Raise, FailRun, FailJob, Die, Shape
  <2>5. saved' \in [Runs -> [Steps -> Answers]]
    <3>1. CASE StartRun(e)
      <4>1. saved' = [saved EXCEPT ![extractor[e].run] = [s \in Steps |->
              IF At(e, "restarting") /\ saved[extractor[e].run][s] = "failed" THEN "none"
              ELSE saved[extractor[e].run][s]]]
        BY <3>1, <2>1 DEF StartRun, Shape, Queued
      <4>. QED
        BY <2>1, <4>1 DEF Shape, Answers, Queued
    <3>2. CASE SaveStep(e)
      <4>1. extractor[e].tally \in [Steps -> Answers]
        BY DEF Shape, Duties
      <4>2. saved' = [saved EXCEPT ![extractor[e].run] = [s \in Steps |->
              IF saved[extractor[e].run][s] = "none" THEN extractor[e].tally[s]
              ELSE saved[extractor[e].run][s]]]
        BY <3>2, <2>1 DEF SaveStep, Shape, Queued
      <4>. QED
        BY <2>1, <4>1, <4>2 DEF Shape, Queued
    <3>3. CASE ~StartRun(e) /\ ~SaveStep(e)
      <4>1. saved' = saved
        BY <1>6, <3>3 DEF Works, CheckFile, ReadStep, WriteItems, NothingRead,
           Succeed, TransientError, Raise, FailRun, FailJob, Die
      <4>. QED
        BY <4>1 DEF Shape
    <3>. QED
      BY <3>1, <3>2, <3>3
  <2>6. /\ items' \in [Runs -> {"none", "pending", "accepted", "superseded"}]
        /\ \A q \in Runs : status[q] = "none" => items'[q] = "none"
    <3>1. CASE WriteItems(e)
      <4>1. items' = [q \in Runs |->
              IF q = extractor[e].run THEN "pending"
              ELSE IF items[q] = "pending" THEN "superseded" ELSE items[q]]
        BY <3>1 DEF WriteItems
      <4>. QED
        BY <2>1, <4>1 DEF Shape, Queued
    <3>2. CASE ~WriteItems(e)
      <4>1. items' = items
        BY <1>6, <3>2 DEF Works, StartRun, CheckFile, ReadStep, SaveStep, NothingRead,
           Succeed, TransientError, Raise, FailRun, FailJob, Die
      <4>. QED
        BY <4>1 DEF Shape
    <3>. QED
      BY <3>1, <3>2
  <2>7. Queued' = Queued /\ messages' \subseteq Runs
    BY <2>2, <2>4 DEF Queued
  <2>8. \A f \in Extractors : Busy(f)' => extractor'[f].run \in Queued
    BY <2>1 DEF Shape, Others, Busy, Quits, Free
  <2>. QED
    BY <2>1, <2>2, <2>3, <2>4, <2>5, <2>6, <2>7, <2>8, <2>9 DEF Shape
<1>7. ASSUME NEW e \in Extractors, DeliverAgain(e)
      PROVE  Shape'
  BY <1>7 DEF DeliverAgain, At, Shape, Queued, Busy
<1>. QED
  BY <1>1, <1>2, <1>3, <1>4, <1>5, <1>6, <1>7, Cases

LEMMA ShapeHolds == ExtractionSpec => []Shape
<1>1. ExtractionInit => Shape
  <2>1. Free \in Duties /\ Away \in Errands /\ Nothing \in [Steps -> Answers]
    BY DEF Free, Away, Duties, Errands, Places, Nothing, Answers
  <2>. QED
    BY <2>1 DEF ExtractionInit, Shape, Queued, Busy, Free
<1>. QED
  BY <1>1, ShapeStep, PTL DEF ExtractionSpec

(* What the shape leaves out: a worker without a run is free, and a run    *)
(* that is ready has staged its items.                                     *)
Staged ==
  /\ attached \in BOOLEAN /\ recalled \in BOOLEAN /\ trouble \subseteq Faults /\ reread \subseteq Runs
  /\ \A r \in Runs : status[r] = "ready" => items[r] # "none"
  /\ \A e \in Extractors : ~Busy(e) => extractor[e].run = 0

LEMMA StagedStep ==
  ASSUME Shape, Staged, [ExtractionNext]_extractionVars
  PROVE  Staged'
<1>. USE DEF runVars
<1>1. trouble' \subseteq Faults
  <2>1. trouble' = trouble \/ \E f : Suffers(f)
    BY DEF ExtractionNext, AskExtraction, QueueRun, CheckDetach, Detach, Withdraw, RetryRun, Accept, Attach,
       Deploy, TakeRun, StartRun, CheckFile, ReadStep, SaveStep, WriteItems, NothingRead, Succeed,
       TransientError, Raise, FailRun, FailJob, Die, DeliverAgain, extractionVars
  <2>. QED
    BY <2>1, ExtractionBounds DEF Suffers, Staged
<1>2. attached' \in BOOLEAN /\ recalled' \in BOOLEAN
  <2>. DEFINE Flags == attached' \in BOOLEAN /\ recalled' \in BOOLEAN
  <2>1. ASSUME NEW a \in Admins, Asks(a) PROVE Flags
    BY <2>1 DEF Asks, AskExtraction, QueueRun, CheckDetach, Detach, Withdraw, Staged
  <2>2. ASSUME NEW r \in Runs, RetryRun(r) \/ Accept(r) PROVE Flags
    <3>1. attached' = attached /\ (recalled' = recalled \/ recalled' = (recalled \/ Detaching))
      BY <2>2 DEF RetryRun, Accept
    <3>. QED
      BY <3>1 DEF Staged
  <2>3. ASSUME NEW e \in Extractors, Works(e) PROVE attached' = attached /\ recalled' = recalled
    BY <2>3 DEF Works, StartRun, CheckFile, ReadStep, SaveStep, WriteItems, NothingRead, Succeed,
       TransientError, Raise, FailRun, FailJob, Die
  <2>4. CASE \/ Attach \/ Deploy \/ UNCHANGED extractionVars
             \/ \E e \in Extractors : DeliverAgain(e) \/ \E r \in Runs : TakeRun(e, r)
    BY <2>4 DEF Attach, Deploy, extractionVars, DeliverAgain, TakeRun, Staged
  <2>. QED
    BY <2>1, <2>2, <2>3, <2>4, Cases DEF Staged
<1>3. reread' \subseteq Runs
  <2>1. ASSUME NEW a \in Admins, Asks(a) PROVE reread' \subseteq Runs
    BY <2>1 DEF Asks, AskExtraction, QueueRun, CheckDetach, Detach, Withdraw, Staged
  <2>2. ASSUME NEW e \in Extractors, Works(e) PROVE reread' \subseteq Runs
    <3>1. CASE WriteItems(e)
      BY <3>1 DEF WriteItems, Staged
    <3>2. CASE ~WriteItems(e)
      BY <2>2, <3>2 DEF Works, StartRun, CheckFile, ReadStep, SaveStep, NothingRead, Succeed,
         TransientError, Raise, FailRun, FailJob, Die, Staged
    <3>. QED
      BY <3>1, <3>2
  <2>3. CASE \/ Attach \/ Deploy \/ UNCHANGED extractionVars
             \/ \E r \in Runs : RetryRun(r) \/ Accept(r)
             \/ \E e \in Extractors : DeliverAgain(e) \/ \E r \in Runs : TakeRun(e, r)
    BY <2>3 DEF Attach, Deploy, extractionVars, RetryRun, Accept, DeliverAgain, TakeRun, Staged
  <2>. QED
    BY <2>1, <2>2, <2>3, Cases
<1>4. \A r \in Runs : status'[r] = "ready" => items'[r] # "none"
  <2>1. ASSUME NEW a \in Admins, Asks(a)
        PROVE  \A r \in Runs : status'[r] = "ready" => items'[r] # "none"
    BY <2>1 DEF Asks, AskExtraction, QueueRun, CheckDetach, Detach, Withdraw, Shape, Staged
  <2>2. ASSUME NEW q \in Runs, RetryRun(q) \/ Accept(q)
        PROVE  \A r \in Runs : status'[r] = "ready" => items'[r] # "none"
    BY <2>2 DEF RetryRun, Accept, Shape, Staged
  <2>3. ASSUME NEW e \in Extractors, Works(e)
        PROVE  \A r \in Runs : status'[r] = "ready" => items'[r] # "none"
    <3>1. extractor[e].run \in Queued
      BY <2>3, WorkerKeeps
    <3>2. CASE StartRun(e) \/ WriteItems(e) \/ FailRun(e)
      BY <3>1, <3>2 DEF StartRun, WriteItems, FailRun, Shape, Staged, Queued
    <3>3. CASE ~(StartRun(e) \/ WriteItems(e) \/ FailRun(e))
      BY <2>3, <3>3 DEF Works, CheckFile, ReadStep, SaveStep, NothingRead, Succeed, TransientError, Raise,
         FailJob, Die, Staged
    <3>. QED
      BY <3>2, <3>3
  <2>4. CASE \/ Attach \/ Deploy \/ UNCHANGED extractionVars
             \/ \E e \in Extractors : DeliverAgain(e) \/ \E r \in Runs : TakeRun(e, r)
    BY <2>4 DEF Attach, Deploy, extractionVars, DeliverAgain, TakeRun, Staged
  <2>. QED
    BY <2>1, <2>2, <2>3, <2>4, Cases
<1>5. \A e \in Extractors : ~Busy(e)' => extractor'[e].run = 0
  <2>1. ASSUME NEW f \in Extractors, Works(f)
        PROVE  \A e \in Extractors : ~Busy(e)' => extractor'[e].run = 0
    <3>1. Others(f) /\ (Quits(f) \/ Busy(f)')
      BY <2>1, WorkerKeeps
    <3>. QED
      BY <3>1 DEF Others, Quits, Free, Busy, Staged
  <2>2. ASSUME NEW f \in Extractors, NEW r \in Runs, TakeRun(f, r)
        PROVE  \A e \in Extractors : ~Busy(e)' => extractor'[e].run = 0
    BY <2>2, Taken DEF Others, Busy, Staged
  <2>3. CASE extractor' = extractor
    BY <2>3 DEF Busy, Staged
  <2>4. CASE \/ \E a \in Admins : Asks(a)
             \/ \E r \in Runs : RetryRun(r) \/ Accept(r)
             \/ Attach \/ Deploy \/ UNCHANGED extractionVars
             \/ \E e \in Extractors : DeliverAgain(e)
    BY <2>3, <2>4, AdminMoves DEF RetryRun, Accept, Attach, Deploy, extractionVars, DeliverAgain
  <2>. QED
    BY <2>1, <2>2, <2>4, Cases
<1>. QED
  BY <1>1, <1>2, <1>3, <1>4, <1>5 DEF Staged

(* Rows, requests and workers keep their shape; a busy worker has a run    *)
(* that was queued, and a run that is ready has staged its items.          *)
THEOREM ExtractionTypes == ExtractionSpec => []ExtractionTypeOK
<1>1. ExtractionInit => Staged
  <2>. SUFFICES ASSUME ExtractionInit
                PROVE  Staged
    OBVIOUS
  <2>1. /\ trouble = {} /\ reread = {} /\ \A r \in Runs : status[r] = "none"
        /\ \A e \in Extractors : extractor[e].run = 0
    BY DEF ExtractionInit, Free
  <2>2. attached \in BOOLEAN /\ recalled \in BOOLEAN
    BY DEF ExtractionInit
  <2>. QED
    BY <2>1, <2>2 DEF Staged
<1>2. Shape /\ Staged => ExtractionTypeOK
  <2>. SUFFICES ASSUME Shape, Staged
                PROVE  ExtractionTypeOK
    OBVIOUS
  <2>1. extractor \in [Extractors -> [at : Places, run : Queued \cup {0}, attempt : Nat, tally : [Steps -> Answers]]]
    BY DEF Shape, Staged, Duties, Busy
  <2>2. \A e \in Extractors : Busy(e) => extractor[e].run # 0
    BY ExtractionBounds DEF Shape, Queued, Runs
  <2>. QED
    BY <2>1, <2>2 DEF Shape, Staged, ExtractionTypeOK, Places, Errands, Busy
<1>. QED
  BY <1>1, <1>2, StagedStep, ShapeHolds, PTL DEF ExtractionSpec
-----------------------------------------------------------------------------
(* One execution per run, until a message is delivered twice               *)

(* The tally of a worker that reads has every step whose answer is saved.  *)
Tallied(e) == extractor[e].at \in {"reading", "answered"} =>
                \A s \in Steps : saved[extractor[e].run][s] # "none" => extractor[e].tally[s] # "none"

(* A worker's run has no message, its job runs, and it is ready when its   *)
(* items are written and not before.                                       *)
Bound(e) == Busy(e) =>
  /\ extractor[e].run \notin messages /\ jobs[extractor[e].run] = "running"
  /\ extractor[e].at = "written" <=> status[extractor[e].run] = "ready"

Solo ==
  "again" \notin trouble =>
    /\ \A e \in Extractors, f \in Extractors :
         Busy(e) /\ Busy(f) /\ extractor[e].run = extractor[f].run => e = f
    /\ \A e \in Extractors : Bound(e) /\ Tallied(e)
    /\ \A r \in messages : jobs[r] \in Active
    /\ \A q \in Runs, r \in Runs : version[q] = version[r] /\ jobs[q] \in Active
                                   /\ jobs[r] \in Active => q = r

LEMMA NoSecond ==
  ASSUME [ExtractionNext]_extractionVars, "again" \notin trouble'
  PROVE  "again" \notin trouble /\ \A e \in Extractors : ~DeliverAgain(e)
BY ZenonT(60) DEF ExtractionNext, extractionVars, AskExtraction, QueueRun, CheckDetach, Detach, Withdraw,
   RetryRun, Accept, Attach, Deploy, TakeRun, StartRun, CheckFile, ReadStep, SaveStep, WriteItems,
   NothingRead, Succeed, TransientError, Raise, FailRun, FailJob, Die, DeliverAgain, Suffers

(* What a worker's step does to its own run.                               *)
OwnRun(e) ==
  LET r == extractor[e].run IN
  /\ jobs'[r] \in {"running", "retrying", "succeeded", "failed"}
  /\ r \in messages' => ~Busy(e)' /\ jobs'[r] \in Active
  /\ Busy(e)' => /\ r \notin messages' /\ jobs'[r] = "running"
                 /\ extractor'[e].at = "written" <=> status'[r] = "ready"
  /\ extractor'[e].at \in {"reading", "answered"} =>
       \A s \in Steps : saved'[r][s] # "none" => extractor'[e].tally[s] # "none"

LEMMA OwnSteps ==
  ASSUME Shape, NEW e \in Extractors, Works(e), Bound(e), Tallied(e)
  PROVE  OwnRun(e)
<1>. DEFINE r == extractor[e].run
<1>. USE DEF runVars
<1>1. /\ extractor \in [Extractors -> Duties] /\ Busy(e)
      /\ r \notin messages /\ jobs[r] = "running" /\ r \in Runs
      /\ extractor[e].at = "written" <=> status[r] = "ready"
      /\ status \in [Runs -> {"none", "queued", "extracting", "ready", "failed"}]
      /\ jobs \in [Runs -> {"none", "queued", "running", "retrying", "succeeded", "failed"}]
  BY WorkerKeeps DEF Shape, Bound, Queued
<1>2. saved[r] \in [Steps -> Answers] /\ extractor[e].tally \in [Steps -> Answers]
  BY <1>1 DEF Shape, Duties
<1>3. CASE StartRun(e)
  <2>1. /\ Goes(e, "started") /\ UNCHANGED <<messages, jobs>>
        /\ status' = [status EXCEPT ![r] = "extracting"]
    BY <1>3 DEF StartRun
  <2>2. extractor'[e].at = "started"
    BY <1>1, <2>1, Gone
  <2>. QED
    BY <1>1, <2>1, <2>2 DEF OwnRun, Active
<1>4. CASE CheckFile(e)
  <2>1. /\ UNCHANGED <<messages, jobs, status, saved>> /\ extractor[e].at = "started"
        /\ \E at \in {"reading", "failing"} : Turns(e, at, saved[r])
    BY <1>4 DEF CheckFile, Turns, At
  <2>2. extractor'[e].at \in {"reading", "failing"} /\ extractor'[e].tally = saved[r]
    BY <1>1, <1>2, <2>1, Moved
  <2>. QED
    BY <1>1, <2>1, <2>2 DEF OwnRun, Active
<1>5. ASSUME NEW s \in Steps, NEW answer \in Answers, ReadStep(e, s, answer)
      PROVE  OwnRun(e)
  <2>1. /\ UNCHANGED <<messages, jobs, status, saved>> /\ extractor[e].at = "reading"
        /\ extractor' = [extractor EXCEPT ![e].at = "answered", ![e].tally[s] = answer]
        /\ answer # "none"
    BY <1>5 DEF ReadStep, At
  <2>. DEFINE tally == [extractor[e].tally EXCEPT ![s] = answer]
  <2>2. Turns(e, "answered", tally) /\ tally \in [Steps -> Answers]
    BY <1>1, <1>2, <2>1 DEF Turns, Duties
  <2>3. extractor'[e].at = "answered" /\ extractor'[e].tally = tally
    <3>. HIDE DEF tally
    <3>. QED
      BY <1>1, <2>2, Moved
  <2>4. \A t \in Steps : saved[r][t] # "none" => tally[t] # "none"
    BY <1>2, <2>1 DEF Tallied
  <2>. QED
    BY <1>1, <2>1, <2>3, <2>4 DEF OwnRun, Active
<1>6. CASE SaveStep(e)
  <2>1. /\ Goes(e, "reading") /\ UNCHANGED <<messages, jobs, status>> /\ extractor[e].at = "answered"
    BY <1>6 DEF SaveStep, At
  <2>2. extractor'[e].at = "reading" /\ extractor'[e].tally = extractor[e].tally
    BY <1>1, <2>1, Gone
  <2>3. saved'[r] = [s \in Steps |-> IF saved[r][s] = "none" THEN extractor[e].tally[s] ELSE saved[r][s]]
    BY <1>1, <1>6 DEF SaveStep, Shape
  <2>4. \A s \in Steps : saved'[r][s] # "none" => extractor[e].tally[s] # "none"
    BY <2>1, <2>3 DEF Tallied
  <2>. QED
    BY <1>1, <2>1, <2>2, <2>4 DEF OwnRun, Active
<1>7. CASE WriteItems(e)
  <2>1. /\ Goes(e, "written") /\ UNCHANGED <<messages, jobs>>
        /\ status' = [status EXCEPT ![r] = "ready"]
    BY <1>7 DEF WriteItems
  <2>2. extractor'[e].at = "written"
    BY <1>1, <2>1, Gone
  <2>. QED
    BY <1>1, <2>1, <2>2 DEF OwnRun, Active
<1>8. CASE NothingRead(e) \/ Raise(e)
  <2>1. /\ Goes(e, "failing") /\ UNCHANGED <<messages, jobs, status>> /\ extractor[e].at # "written"
    BY <1>8 DEF NothingRead, Raise, At
  <2>2. extractor'[e].at = "failing"
    BY <1>1, <2>1, Gone
  <2>. QED
    BY <1>1, <2>1, <2>2 DEF OwnRun, Active
<1>9. CASE FailRun(e)
  <2>1. /\ Goes(e, "failed") /\ UNCHANGED <<messages, jobs>> /\ extractor[e].at # "written"
    BY <1>9 DEF FailRun, At
  <2>2. extractor'[e].at = "failed"
    BY <1>1, <2>1, Gone
  <2>3. status'[r] # "ready"
    BY <1>1, <1>9, <2>1 DEF FailRun
  <2>. QED
    BY <1>1, <2>1, <2>2, <2>3 DEF OwnRun, Active
<1>10. CASE Succeed(e) \/ FailJob(e) \/ Die(e)
  <2>1. /\ Leaves(e) /\ messages' \in {messages, messages \cup {r}}
        /\ \/ UNCHANGED jobs
           \/ messages' = messages /\ \E st \in {"succeeded", "failed"} : jobs' = [jobs EXCEPT ![r] = st]
    BY <1>10 DEF Succeed, FailJob, Die
  <2>2. extractor'[e].at = "idle" /\ ~Busy(e)'
    BY <1>1, <2>1, Left DEF Quits, Free
  <2>. QED
    BY <1>1, <2>1, <2>2 DEF OwnRun, Active
<1>11. CASE TransientError(e)
  <2>1. CASE extractor[e].attempt < MaxTries
    <3>1. Leaves(e) /\ jobs' = [jobs EXCEPT ![r] = "retrying"]
      BY <1>11, <2>1 DEF TransientError
    <3>2. extractor'[e].at = "idle" /\ ~Busy(e)'
      BY <1>1, <3>1, Left DEF Quits, Free
    <3>. QED
      BY <1>1, <3>1, <3>2 DEF OwnRun, Active
  <2>2. CASE ~(extractor[e].attempt < MaxTries)
    <3>1. /\ Goes(e, "failing") /\ UNCHANGED <<messages, jobs, status>> /\ extractor[e].at # "written"
      BY <1>11, <2>2 DEF TransientError, At
    <3>2. extractor'[e].at = "failing"
      BY <1>1, <3>1, Gone
    <3>. QED
      BY <1>1, <3>1, <3>2 DEF OwnRun, Active
  <2>. QED
    BY <2>1, <2>2
<1>. QED
  BY <1>3, <1>4, <1>5, <1>6, <1>7, <1>8, <1>9, <1>10, <1>11 DEF Works

LEMMA SoloStep ==
  ASSUME Shape, Shape', Solo, [ExtractionNext]_extractionVars
  PROVE  Solo'
<1>. USE DEF runVars
<1>. SUFFICES ASSUME "again" \notin trouble'
              PROVE  /\ \A e \in Extractors, f \in Extractors :
                          Busy(e)' /\ Busy(f)' /\ extractor'[e].run = extractor'[f].run => e = f
                     /\ \A e \in Extractors : Bound(e)' /\ Tallied(e)'
                     /\ \A r \in messages' : jobs'[r] \in Active
                     /\ \A q \in Runs, r \in Runs : version'[q] = version'[r] /\ jobs'[q] \in Active
                                                    /\ jobs'[r] \in Active => q = r
  BY DEF Solo, Busy
<1>1. /\ \A e \in Extractors, f \in Extractors :
           Busy(e) /\ Busy(f) /\ extractor[e].run = extractor[f].run => e = f
      /\ \A e \in Extractors : Bound(e) /\ Tallied(e) /\ ~DeliverAgain(e)
      /\ \A r \in messages : jobs[r] \in Active
      /\ \A q \in Runs, r \in Runs : version[q] = version[r] /\ jobs[q] \in Active
                                     /\ jobs[r] \in Active => q = r
  BY NoSecond DEF Solo
<1>2. ASSUME UNCHANGED <<version, jobs, messages, extractor, status, saved>>
      PROVE  Solo'
  BY <1>2, <1>1 DEF Solo, Busy, Bound, Tallied
<1>3. ASSUME NEW a \in Admins, Asks(a)
      PROVE  Solo'
  <2>1. CASE AskExtraction(a) \/ CheckDetach(a) \/ Withdraw(a) \/ Detach(a)
    BY <1>2, <2>1 DEF AskExtraction, CheckDetach, Withdraw, Detach
  <2>2. ASSUME NEW r \in Runs, QueueRun(a, r)
        PROVE  Solo'
    <3>1. /\ status' = [status EXCEPT ![r] = "queued"] /\ jobs' = [jobs EXCEPT ![r] = "queued"]
          /\ version' = [version EXCEPT ![r] = admin[a].prompt] /\ messages' = messages \cup {r}
          /\ UNCHANGED <<extractor, saved>> /\ status[r] = "none"
          /\ ~Pursued(admin[a].prompt)
      BY <2>2 DEF QueueRun
    <3>2. \A e \in Extractors : Busy(e) => extractor[e].run # r /\ extractor[e].run \in Runs
      BY <3>1 DEF Shape, Queued
    <3>3. \A e \in Extractors : Bound(e)' /\ Tallied(e)'
      BY <1>1, <3>1, <3>2 DEF Bound, Tallied, Shape, Busy
    <3>4. \A q \in messages' : jobs'[q] \in Active
      BY <1>1, <3>1 DEF Shape, Active
    <3>5. \A q \in Runs : q # r => jobs'[q] = jobs[q] /\ version'[q] = version[q]
      BY <3>1 DEF Shape
    <3>6. \A q \in Runs : q # r /\ jobs[q] \in Active => version'[q] # version'[r]
      BY <3>1, <3>5 DEF Pursued, Active, Shape
    <3>7. \A q \in Runs, p \in Runs : version'[q] = version'[p] /\ jobs'[q] \in Active
                                      /\ jobs'[p] \in Active => q = p
      BY <1>1, <3>5, <3>6
    <3>. QED
      BY <1>1, <3>1, <3>3, <3>4, <3>7 DEF Solo, Busy
  <2>. QED
    BY <1>3, <2>1, <2>2 DEF Asks
<1>4. ASSUME NEW r \in Runs, RetryRun(r)
      PROVE  Solo'
  <2>1. /\ jobs' = [jobs EXCEPT ![r] = "queued"] /\ messages' = messages \cup {r}
        /\ UNCHANGED <<version, extractor, saved, status>> /\ jobs[r] = "failed"
        /\ ~Pursued(version[r])
    BY <1>4 DEF RetryRun
  <2>2. \A e \in Extractors : Busy(e) => extractor[e].run # r /\ extractor[e].run \in Runs
    BY <1>1, <2>1 DEF Bound, Shape, Queued
  <2>3. \A e \in Extractors : Bound(e)' /\ Tallied(e)'
    BY <1>1, <2>1, <2>2 DEF Bound, Tallied, Shape, Busy
  <2>4. \A q \in messages' : jobs'[q] \in Active
    BY <1>1, <2>1 DEF Shape, Active
  <2>5. \A q \in Runs, p \in Runs : version[q] = version[p] /\ jobs'[q] \in Active
                                    /\ jobs'[p] \in Active => q = p
    BY <1>1, <2>1 DEF Shape, Pursued, Active
  <2>. QED
    BY <1>1, <2>1, <2>3, <2>4, <2>5 DEF Solo, Busy
<1>5. ASSUME NEW r \in Runs, Accept(r)
      PROVE  Solo'
  BY <1>2, <1>5 DEF Accept
<1>6. ASSUME Attach \/ Deploy \/ UNCHANGED extractionVars
      PROVE  Solo'
  BY <1>2, <1>6 DEF Attach, Deploy, extractionVars
<1>7. ASSUME NEW e \in Extractors, NEW r \in Runs, TakeRun(e, r)
      PROVE  Solo'
  <2>1. /\ ~Busy(e) /\ r \in messages /\ messages' = messages \ {r} /\ Others(e)
        /\ UNCHANGED <<status, version, saved>> /\ jobs[r] \in Active
    BY <1>1, <1>7, Taken
  <2>2. /\ jobs' = [jobs EXCEPT ![r] = "running"] /\ extractor'[e].run = r
        /\ extractor'[e].at \in {"written", "starting", "restarting"}
        /\ extractor'[e].at = "written" <=> status[r] = "ready"
    BY <1>7, <2>1, Taken DEF Active
  <2>3. \A f \in Extractors : Busy(f) => extractor[f].run # r /\ extractor[f].run \in Runs /\ f # e
    BY <1>1, <2>1 DEF Bound, Shape, Queued
  <2>4. \A f \in Extractors : Bound(f)' /\ Tallied(f)'
    BY SMTT(30), <1>1, <2>1, <2>2, <2>3 DEF Bound, Tallied, Shape, Busy, Others
  <2>5. \A q \in Runs : jobs'[q] \in Active <=> jobs[q] \in Active
    BY <2>1, <2>2 DEF Shape, Active
  <2>6. \A f \in Extractors, g \in Extractors :
          Busy(f)' /\ Busy(g)' /\ extractor'[f].run = extractor'[g].run => f = g
    BY <1>1, <2>1, <2>2, <2>3 DEF Others, Busy
  <2>. QED
    BY <1>1, <2>1, <2>4, <2>5, <2>6 DEF Solo, Busy, Shape
<1>8. ASSUME NEW e \in Extractors, Works(e)
      PROVE  Solo'
  <2>. DEFINE r == extractor[e].run
  <2>1. /\ Busy(e) /\ r \in Runs /\ Others(e) /\ UNCHANGED version
        /\ Quits(e) \/ (extractor'[e].run = r /\ Busy(e)')
        /\ \A q \in Runs : q # r => Kept(q)
        /\ jobs[r] = "running"
    BY <1>1, <1>8, WorkerKeeps DEF Bound, Queued
  <2>2. OwnRun(e)
    BY <1>1, <1>8, OwnSteps
  <2>3. \A f \in Extractors : f # e /\ Busy(f) => extractor[f].run # r /\ extractor[f].run \in Runs
    BY <1>1, <2>1 DEF Shape, Queued
  <2>4. \A f \in Extractors : f # e => Bound(f)' /\ Tallied(f)'
    <3>. SUFFICES ASSUME NEW f \in Extractors, f # e
                  PROVE  Bound(f)' /\ Tallied(f)'
      OBVIOUS
    <3>1. extractor'[f] = extractor[f]
      BY <2>1 DEF Others
    <3>2. CASE Busy(f)
      <4>1. Kept(extractor[f].run)
        BY <2>1, <2>3, <3>2
      <4>. QED
        BY <1>1, <3>1, <4>1 DEF Bound, Tallied, Busy, Kept
    <3>3. CASE ~Busy(f)
      BY <3>1, <3>3 DEF Bound, Tallied, Busy
    <3>. QED
      BY <3>2, <3>3
  <2>5. Bound(e)' /\ Tallied(e)'
    BY <2>1, <2>2 DEF OwnRun, Bound, Tallied, Quits, Free, Busy
  <2>6. \A q \in messages' : jobs'[q] \in Active
    <3>1. \A q \in messages' : q # r => q \in messages /\ jobs'[q] = jobs[q]
      BY <2>1 DEF Kept, Shape
    <3>. QED
      BY <1>1, <2>2, <3>1 DEF OwnRun
  <2>7. \A q \in Runs : jobs'[q] \in Active => jobs[q] \in Active
    BY <2>1 DEF Kept, Active
  <2>8. \A f \in Extractors, g \in Extractors :
          Busy(f)' /\ Busy(g)' /\ extractor'[f].run = extractor'[g].run => f = g
    BY <1>1, <2>1, <2>3 DEF Others, Busy, Quits, Free
  <2>. QED
    BY <1>1, <2>1, <2>4, <2>5, <2>6, <2>7, <2>8 DEF Solo, Busy
<1>. QED
  BY <1>1, <1>3, <1>4, <1>5, <1>6, <1>7, <1>8, Cases DEF Solo, Busy

LEMMA SoloHolds == ExtractionSpec => []Solo
<1>1. ExtractionInit => Solo
  BY DEF ExtractionInit, Solo, Bound, Tallied, Busy, Free, Active
<1>2. Shape /\ Solo /\ [ExtractionNext]_extractionVars => Solo'
  BY SoloStep, ShapeStep
<1>. QED
  BY <1>1, <1>2, ShapeHolds, PTL DEF ExtractionSpec

(* The model is never asked again for a step whose answer is saved, until  *)
(* a message is delivered twice.                                           *)
THEOREM Step_Paid_Once == ExtractionSpec => StepPaidOnce
<1>1. ASSUME Shape, Solo, [ExtractionNext]_extractionVars
      PROVE  [\A e \in Extractors, s \in Steps :
               extractor'[e].at = "answered" /\ extractor'[e].tally[s] # extractor[e].tally[s]
                 => saved[extractor[e].run][s] = "none" \/ "again" \in trouble]_extractionVars
  <2>. SUFFICES ASSUME NEW e \in Extractors, NEW s \in Steps, "again" \notin trouble,
                       extractor'[e].at = "answered", extractor'[e].tally[s] # extractor[e].tally[s],
                       ExtractionNext
                PROVE  saved[extractor[e].run][s] = "none"
    BY <1>1
  <2>1. PICK x \in Steps, answer \in Answers : ReadStep(e, x, answer)
    <3>1. ASSUME NEW f \in Extractors, f # e, Works(f) \/ \E r \in Runs : TakeRun(f, r)
          PROVE  FALSE
      <4>1. extractor'[e] = extractor[e]
        BY <1>1, <3>1, WorkerKeeps, Taken DEF Others
      <4>. QED
        BY <4>1
    <3>2. ASSUME NEW r \in Runs, TakeRun(e, r)
          PROVE  FALSE
      BY <1>1, <3>2, Taken
    <3>3. ASSUME UNCHANGED extractor
          PROVE  FALSE
      BY <3>3
    <3>4. Works(e)
      BY <1>1, <3>1, <3>2, <3>3, Cases, AdminMoves DEF RetryRun, Accept, Attach, Deploy,
         DeliverAgain, extractionVars
    <3>5. extractor \in [Extractors -> Duties]
      BY <1>1 DEF Shape
    <3>6. ASSUME NEW at \in {"starting", "restarting", "started", "reading", "written",
                             "failing", "failed"}, Goes(e, at)
          PROVE  FALSE
      BY <3>5, <3>6, Gone
    <3>7. ~Leaves(e)
      BY <3>5, Left DEF Quits, Free
    <3>8. ~CheckFile(e)
      <4>1. ASSUME NEW at \in {"reading", "failing"}, Turns(e, at, saved[extractor[e].run]), Busy(e)
            PROVE  FALSE
        <5>1. saved[extractor[e].run] \in [Steps -> Answers]
          BY <1>1, <4>1 DEF Shape, Queued
        <5>. QED
          BY <3>5, <4>1, <5>1, Moved
      <4>. QED
        BY <4>1 DEF CheckFile, Turns, At, Busy
    <3>. QED
      BY <3>4, <3>6, <3>7, <3>8 DEF Works, StartRun, SaveStep, WriteItems, NothingRead, Succeed,
         TransientError, Raise, FailRun, FailJob, Die
  <2>2. /\ extractor[e].at = "reading" /\ extractor[e].tally[x] = "none"
        /\ extractor' = [extractor EXCEPT ![e].at = "answered", ![e].tally[x] = answer]
    BY <2>1 DEF ReadStep, NextStep, At
  <2>3. x = s
    <3>1. extractor[e].tally \in [Steps -> Answers] /\ extractor \in [Extractors -> Duties]
      BY <1>1 DEF Shape, Duties
    <3>. DEFINE tally == [extractor[e].tally EXCEPT ![x] = answer]
    <3>2. Turns(e, "answered", tally) /\ tally \in [Steps -> Answers]
      BY <2>2, <3>1 DEF Turns, Duties
    <3>3. extractor'[e].tally = tally
      <4>. HIDE DEF tally
      <4>. QED
        BY <3>1, <3>2, Moved
    <3>. QED
      BY <3>1, <3>3
  <2>. QED
    BY <1>1, <2>2, <2>3 DEF Solo, Tallied
<1>. QED
  BY <1>1, ShapeHolds, SoloHolds, PTL DEF ExtractionSpec, StepPaidOnce
-----------------------------------------------------------------------------
(* Reading once *)

(* A request that asked before the file was read has only runs to queue    *)
(* that count as asked for again; of two runs with one version, one reads  *)
(* after the other has read only if it was asked for again.                *)
Reads ==
  "again" \notin trouble =>
    /\ \A a \in Admins : admin[a].at = "queueing" /\ ~admin[a].force /\ Readable(admin[a].prompt)
                           => \A q \in Runs : status[q] = "none" => q \in reread
    /\ \A q \in Runs, r \in Runs :
         q # r /\ version[q] = version[r] /\ (jobs[q] \in Active \/ status[q] = "ready")
         /\ status[r] = "ready" => q \in reread \/ r \in reread

(* Only writing the items makes a run ready.                               *)
LEMMA OnlyWritten ==
  ASSUME Shape, NEW e \in Extractors, Works(e), ~WriteItems(e)
  PROVE  /\ \A q \in Runs : status'[q] = "ready" => status[q] = "ready"
         /\ \A q \in Runs : status'[q] = "none" <=> status[q] = "none"
         /\ UNCHANGED <<reread, items>>
BY ZenonT(60), WorkerKeeps DEF Works, StartRun, CheckFile, ReadStep, SaveStep, NothingRead, Succeed,
   TransientError, Raise, FailRun, FailJob, Die, Shape, runVars, Queued

LEMMA ReadsStep ==
  ASSUME Shape, Solo, Reads, [ExtractionNext]_extractionVars
  PROVE  Reads'
<1>. USE DEF runVars
<1>. SUFFICES ASSUME "again" \notin trouble'
              PROVE  /\ \A a \in Admins : admin'[a].at = "queueing" /\ ~admin'[a].force
                                          /\ Readable(admin[a].prompt)'
                          => \A q \in Runs : status'[q] = "none" => q \in reread'
                     /\ \A q \in Runs, r \in Runs :
                          q # r /\ version'[q] = version'[r]
                          /\ (jobs'[q] \in Active \/ status'[q] = "ready")
                          /\ status'[r] = "ready" => q \in reread' \/ r \in reread'
  BY DEF Reads
<1>1. /\ \A a \in Admins : admin[a].at = "queueing" /\ ~admin[a].force /\ Readable(admin[a].prompt)
                           => \A q \in Runs : status[q] = "none" => q \in reread
      /\ \A q \in Runs, r \in Runs :
           q # r /\ version[q] = version[r] /\ (jobs[q] \in Active \/ status[q] = "ready")
           /\ status[r] = "ready" => q \in reread \/ r \in reread
      /\ \A e \in Extractors : Bound(e) /\ Tallied(e) /\ ~DeliverAgain(e)
      /\ \A q \in Runs, r \in Runs : version[q] = version[r] /\ jobs[q] \in Active
                                     /\ jobs[r] \in Active => q = r
      /\ \A r \in messages : jobs[r] \in Active
  BY NoSecond DEF Reads, Solo
(* Nothing becomes active, ready or unread.                                *)
<1>2. ASSUME UNCHANGED <<version, reread>>,
             \A a \in Admins : admin'[a] = admin[a] \/ admin'[a].at # "queueing"
                               \/ admin'[a].force \/ ~Readable(admin[a].prompt)',
             \A q \in Runs : /\ status'[q] = "ready" => status[q] = "ready"
                             /\ status'[q] = "none" => status[q] = "none"
                             /\ jobs'[q] \in Active => jobs[q] \in Active
      PROVE  Reads'
  <2>1. \A p : Readable(p)' => Readable(p)
    BY <1>2 DEF Readable
  <2>2. \A a \in Admins : admin'[a].at = "queueing" /\ ~admin'[a].force /\ Readable(admin[a].prompt)'
                            => \A q \in Runs : status'[q] = "none" => q \in reread'
    BY <1>1, <1>2, <2>1 DEF Readable
  <2>3. \A q \in Runs, r \in Runs :
          q # r /\ version'[q] = version'[r] /\ (jobs'[q] \in Active \/ status'[q] = "ready")
          /\ status'[r] = "ready" => q \in reread' \/ r \in reread'
    BY <1>1, <1>2
  <2>. QED
    BY <2>2, <2>3 DEF Reads
<1>3. ASSUME NEW a \in Admins, Asks(a)
      PROVE  Reads'
  <2>1. admin \in [Admins -> Errands]
    BY DEF Shape
  <2>2. CASE AskExtraction(a)
    <3>1. /\ admin' = [admin EXCEPT ![a] = [at |-> "queueing", prompt |-> prompt, force |-> Readable(prompt)]]
          /\ UNCHANGED <<version, jobs, status, reread>>
      BY <2>2 DEF AskExtraction
    <3>2. admin'[a].force = Readable(prompt) /\ admin'[a].prompt = prompt
      BY <2>1, <3>1
    <3>3. Readable(prompt)' <=> Readable(prompt)
      BY <2>2 DEF AskExtraction, Readable
    <3>4. admin'[a].force \/ ~Readable(admin[a].prompt)'
      BY <3>1, <3>2, <3>3 DEF Readable
    <3>5. \A b \in Admins : b # a => admin'[b] = admin[b]
      BY <2>1, <3>1
    <3>. QED
      BY <1>2, <3>1, <3>4, <3>5
  <2>3. CASE CheckDetach(a) \/ Withdraw(a) \/ Detach(a)
    <3>1. /\ UNCHANGED <<version, jobs, status, reread>>
          /\ admin' = [admin EXCEPT ![a] = Away]
             \/ admin' = [admin EXCEPT ![a] = [Away EXCEPT !.at = "detaching"]]
      BY <2>3 DEF CheckDetach, Withdraw, Detach
    <3>2. Away.at # "queueing" /\ [Away EXCEPT !.at = "detaching"].at # "queueing"
      BY DEF Away
    <3>3. admin'[a].at # "queueing" /\ \A b \in Admins : b # a => admin'[b] = admin[b]
      BY <2>1, <3>1, <3>2
    <3>. QED
      BY <1>2, <3>1, <3>3
  <2>4. ASSUME NEW r \in Runs, QueueRun(a, r)
        PROVE  Reads'
    <3>1. /\ status' = [status EXCEPT ![r] = "queued"] /\ jobs' = [jobs EXCEPT ![r] = "queued"]
          /\ version' = [version EXCEPT ![r] = admin[a].prompt] /\ status[r] = "none"
          /\ reread' = IF admin[a].force THEN reread \cup {r} ELSE reread
          /\ admin' = [admin EXCEPT ![a] = Away] /\ admin[a].at = "queueing"
      BY <2>4 DEF QueueRun
    <3>2. /\ \A q \in Runs : q # r => status'[q] = status[q] /\ jobs'[q] = jobs[q] /\ version'[q] = version[q]
          /\ status'[r] = "queued" /\ version'[r] = admin[a].prompt /\ reread \subseteq reread'
      BY <3>1 DEF Shape
    <3>3. \A q \in Runs : status'[q] = "ready" /\ version'[q] = admin[a].prompt => r \in reread'
      <4>1. ASSUME NEW q \in Runs, status'[q] = "ready", version'[q] = admin[a].prompt, ~admin[a].force
            PROVE  r \in reread
        <5>1. Readable(admin[a].prompt)
          BY <3>2, <4>1 DEF Readable
        <5>. QED
          BY <1>1, <3>1, <4>1, <5>1
      <4>. QED
        BY <3>1, <4>1
    <3>4. \A p : Readable(p)' <=> Readable(p)
      BY <3>1, <3>2 DEF Readable
    <3>5. Away.at # "queueing"
      BY DEF Away
    <3>6. \A b \in Admins : admin'[b].at = "queueing" /\ ~admin'[b].force /\ Readable(admin[b].prompt)'
                              => \A q \in Runs : status'[q] = "none" => q \in reread'
      <4>1. ASSUME NEW b \in Admins, admin'[b].at = "queueing", ~admin'[b].force, Readable(admin[b].prompt)'
            PROVE  \A q \in Runs : status'[q] = "none" => q \in reread'
        <5>1. b # a /\ admin'[b] = admin[b]
          BY <2>1, <3>1, <3>5, <4>1
        <5>2. Readable(admin[b].prompt)
          BY <3>4, <4>1, <5>1, <3>2 DEF Readable
        <5>. QED
          BY <1>1, <3>2, <4>1, <5>1, <5>2
      <4>. QED
        BY <4>1
    <3>7. \A q \in Runs, p \in Runs :
            q # p /\ version'[q] = version'[p] /\ (jobs'[q] \in Active \/ status'[q] = "ready")
            /\ status'[p] = "ready" => q \in reread' \/ p \in reread'
      BY <1>1, <3>2, <3>3
    <3>. QED
      BY <3>6, <3>7 DEF Reads
  <2>. QED
    BY <1>3, <2>2, <2>3, <2>4 DEF Asks
<1>4. ASSUME NEW r \in Runs, RetryRun(r)
      PROVE  Reads'
  <2>1. /\ jobs' = [jobs EXCEPT ![r] = "queued"] /\ UNCHANGED <<version, status, admin>>
        /\ reread' = IF Readable(version[r]) THEN reread \cup {r} ELSE reread
    BY <1>4 DEF RetryRun
  <2>2. \A p : Readable(p)' <=> Readable(p)
    BY <2>1 DEF Readable
  <2>3. /\ \A q \in Runs : q # r => jobs'[q] = jobs[q]
        /\ reread \subseteq reread'
        /\ \A q \in Runs : status[q] = "ready" /\ version[q] = version[r] => r \in reread'
    BY <2>1 DEF Shape, Readable
  <2>4. \A q \in Runs, p \in Runs :
          q # p /\ version'[q] = version'[p] /\ (jobs'[q] \in Active \/ status'[q] = "ready")
          /\ status'[p] = "ready" => q \in reread' \/ p \in reread'
    BY <1>1, <2>1, <2>3
  <2>5. \A a \in Admins : admin'[a].at = "queueing" /\ ~admin'[a].force /\ Readable(admin[a].prompt)'
                            => \A q \in Runs : status'[q] = "none" => q \in reread'
    BY <1>1, <2>1, <2>2, <2>3 DEF Readable
  <2>. QED
    BY <2>4, <2>5 DEF Reads
<1>5. ASSUME (\E r \in Runs : Accept(r)) \/ Attach \/ Deploy \/ UNCHANGED extractionVars
      PROVE  Reads'
  <2>1. UNCHANGED <<version, jobs, status, admin, reread>>
    BY <1>5 DEF Accept, Attach, Deploy, extractionVars
  <2>. QED
    BY <1>2, <2>1
<1>6. ASSUME NEW e \in Extractors, NEW r \in Runs, TakeRun(e, r)
      PROVE  Reads'
  <2>1. /\ UNCHANGED <<version, status, admin, reread>> /\ jobs[r] \in Active
        /\ \A q \in Runs : q # r => jobs'[q] = jobs[q]
    BY <1>1, <1>6, Taken DEF Shape
  <2>. QED
    BY <1>2, <2>1
<1>7. ASSUME NEW e \in Extractors, Works(e)
      PROVE  Reads'
  <2>1. /\ UNCHANGED <<version, admin>> /\ extractor[e].run \in Runs /\ Busy(e)
        /\ jobs[extractor[e].run] \in Active
        /\ \A q \in Runs : q # extractor[e].run => Kept(q)
    BY <1>1, <1>7, WorkerKeeps DEF Bound, Queued, Active
  <2>2. \A q \in Runs : jobs'[q] \in Active => jobs[q] \in Active
    BY <2>1 DEF Kept
  <2>3. CASE ~WriteItems(e)
    BY <1>2, <1>7, <2>1, <2>2, <2>3, OnlyWritten
  <2>4. CASE WriteItems(e)
    <3>. DEFINE r == extractor[e].run
    <3>1. /\ status' = [status EXCEPT ![r] = "ready"] /\ jobs' = jobs
          /\ reread' = reread \cup {q \in Runs : status[q] = "none" /\ \E a \in Admins :
                              admin[a].at = "queueing" /\ admin[a].prompt = version[r]}
      BY <2>4 DEF WriteItems
    <3>2. /\ status'[r] = "ready" /\ status[r] # "none"
          /\ \A q \in Runs : q # r => status'[q] = status[q]
          /\ reread \subseteq reread'
      BY <2>1, <3>1, WorkerKeeps, <1>7 DEF Shape, Queued
    <3>3. \A q \in Runs, p \in Runs :
            q # p /\ version'[q] = version'[p] /\ (jobs'[q] \in Active \/ status'[q] = "ready")
            /\ status'[p] = "ready" => q \in reread' \/ p \in reread'
      BY <1>1, <2>1, <3>1, <3>2
    <3>4. \A a \in Admins : admin'[a].at = "queueing" /\ ~admin'[a].force /\ Readable(admin[a].prompt)'
                              => \A q \in Runs : status'[q] = "none" => q \in reread'
      <4>1. ASSUME NEW a \in Admins, admin[a].at = "queueing", ~admin[a].force, Readable(admin[a].prompt)',
                   NEW q \in Runs, status'[q] = "none"
            PROVE  q \in reread'
        <5>1. status[q] = "none"
          BY <3>2, <4>1
        <5>2. CASE version[r] = admin[a].prompt
          BY <3>1, <4>1, <5>1, <5>2
        <5>3. CASE version[r] # admin[a].prompt
          <6>1. Readable(admin[a].prompt)
            BY <2>1, <3>2, <4>1, <5>3 DEF Readable
          <6>. QED
            BY <1>1, <3>2, <4>1, <5>1, <6>1
        <5>. QED
          BY <5>2, <5>3
      <4>. QED
        BY <2>1, <4>1
    <3>. QED
      BY <3>3, <3>4 DEF Reads
  <2>. QED
    BY <2>3, <2>4
<1>. QED
  BY <1>1, <1>3, <1>4, <1>5, <1>6, <1>7, Cases DEF Reads

(* A file is read once with the same prompt and model, unless that is asked*)
(* for again or a message is delivered twice.                              *)
THEOREM Read_Once == ExtractionSpec => []ReadOnce
<1>1. ExtractionInit => Reads
  BY DEF ExtractionInit, Reads, Away
<1>2. Shape /\ Solo /\ Reads /\ [ExtractionNext]_extractionVars => Reads'
  BY ReadsStep
<1>3. Reads => ReadOnce
  BY DEF Reads, ReadOnce
<1>. QED
  BY <1>1, <1>2, <1>3, ShapeHolds, SoloHolds, PTL DEF ExtractionSpec
-----------------------------------------------------------------------------
(* Detaching *)

(* While a detach is under way the latest run is not being read, and once  *)
(* the file has gone its items are superseded and nobody reads it.         *)
Quiet ==
  "again" \notin trouble /\ ~recalled =>
    /\ Detaching => \A r \in Runs : IsLatest(r) => jobs[r] \notin Active \/ status[r] = "ready"
    /\ ~attached => \A r \in Runs : IsLatest(r) =>
         /\ items[r] \notin {"pending", "accepted"}
         /\ \A e \in Extractors : extractor[e].at \in {"reading", "answered"} => extractor[e].run # r

LEMMA QuietStep ==
  ASSUME Shape, Solo, Quiet, [ExtractionNext]_extractionVars
  PROVE  Quiet'
<1>. USE DEF runVars
<1>. SUFFICES ASSUME "again" \notin trouble', ~recalled'
              PROVE  /\ Detaching' => \A r \in Runs : IsLatest(r)' => jobs'[r] \notin Active \/ status'[r] = "ready"
                     /\ ~attached' => \A r \in Runs : IsLatest(r)' =>
                          /\ items'[r] \notin {"pending", "accepted"}
                          /\ \A e \in Extractors : extractor'[e].at \in {"reading", "answered"}
                                                     => extractor'[e].run # r
  BY DEF Quiet
<1>0. ~recalled
  BY ZenonT(60) DEF ExtractionNext, extractionVars, AskExtraction, QueueRun, CheckDetach, Detach, Withdraw,
     RetryRun, Accept, Attach, Deploy, TakeRun, StartRun, CheckFile, ReadStep, SaveStep, WriteItems,
     NothingRead, Succeed, TransientError, Raise, FailRun, FailJob, Die, DeliverAgain
<1>1. /\ Detaching => \A r \in Runs : IsLatest(r) => jobs[r] \notin Active \/ status[r] = "ready"
      /\ ~attached => \A r \in Runs : IsLatest(r) =>
           /\ items[r] \notin {"pending", "accepted"}
           /\ \A e \in Extractors : extractor[e].at \in {"reading", "answered"} => extractor[e].run # r
      /\ \A e \in Extractors : Bound(e) /\ ~DeliverAgain(e)
      /\ \A r \in messages : jobs[r] \in Active
  BY <1>0, NoSecond DEF Quiet, Solo
<1>2. Queued' = Queued => \A r : IsLatest(r)' <=> IsLatest(r)
  BY DEF IsLatest
(* Nothing is queued, started or read, and no request starts to detach.    *)
<1>3. ASSUME Queued' = Queued, Detaching' => Detaching,
             \A r \in Runs : /\ jobs'[r] \in Active => jobs[r] \in Active
                             /\ status[r] = "ready" => status'[r] = "ready"
                             /\ items'[r] \in {"pending", "accepted"} => items[r] \in {"pending", "accepted"},
             attached => attached',
             \A e \in Extractors : extractor'[e].at \in {"reading", "answered"} =>
               extractor[e].at \in {"reading", "answered"} /\ extractor'[e].run = extractor[e].run
      PROVE  Quiet'
  BY <1>1, <1>2, <1>3 DEF Quiet
<1>4. ASSUME NEW a \in Admins, Asks(a)
      PROVE  Quiet'
  <2>0. admin \in [Admins -> Errands] /\ UNCHANGED extractor
    BY <1>4, AdminMoves DEF Shape
  <2>1. CASE AskExtraction(a) \/ Withdraw(a)
    <3>1. /\ UNCHANGED <<attached, status, jobs, items, extractor>>
          /\ \/ admin' = [admin EXCEPT ![a] = [at |-> "queueing", prompt |-> prompt, force |-> Readable(prompt)]]
             \/ admin' = [admin EXCEPT ![a] = Away]
      BY <2>1 DEF AskExtraction, Withdraw
    <3>2. admin'[a].at # "detaching" /\ \A b \in Admins : b # a => admin'[b] = admin[b]
      BY <2>0, <3>1 DEF Away
    <3>3. Detaching' => Detaching
      BY <3>2 DEF Detaching
    <3>. QED
      BY <1>3, <3>1, <3>3 DEF Queued
  <2>2. CASE CheckDetach(a)
    <3>1. /\ UNCHANGED <<attached, status, jobs, items, extractor>> /\ attached
          /\ \A r \in Runs : IsLatest(r) => ~InProgress(r)
      BY <2>2 DEF CheckDetach
    <3>2. \A r \in Runs : IsLatest(r)' => jobs'[r] \notin Active \/ status'[r] = "ready"
      BY <1>2, <3>1 DEF InProgress, Active, Shape, IsLatest, Queued
    <3>. QED
      BY <3>1, <3>2 DEF Quiet
  <2>3. CASE Detach(a)
    <3>1. /\ UNCHANGED <<status, jobs, extractor>> /\ Detaching
          /\ items' = [r \in Runs |-> IF items[r] = "none" THEN "none" ELSE "superseded"]
          /\ admin' = [admin EXCEPT ![a] = Away]
      BY <2>3 DEF Detach, Detaching
    <3>2. Queued' = Queued
      BY <3>1 DEF Queued
    <3>3. \A r \in Runs : items'[r] \notin {"pending", "accepted"}
      BY <3>1
    <3>4. \A e \in Extractors, r \in Runs : IsLatest(r) /\ extractor[e].at \in {"reading", "answered"}
                                              => extractor[e].run # r
      BY <1>1, <3>1 DEF Bound, Busy, Active
    <3>5. Detaching' => Detaching
      BY <3>1
    <3>. QED
      BY <1>1, <1>2, <3>1, <3>2, <3>3, <3>4, <3>5 DEF Quiet
  <2>4. ASSUME NEW r \in Runs, QueueRun(a, r)
        PROVE  Quiet'
    <3>1. /\ status' = [status EXCEPT ![r] = "queued"] /\ status[r] = "none" /\ ~Detaching
          /\ UNCHANGED <<attached, items, extractor>> /\ admin' = [admin EXCEPT ![a] = Away]
      BY <2>4 DEF QueueRun
    <3>2. ~Detaching'
      <4>1. Away.at # "detaching"
        BY DEF Away
      <4>2. \A b \in Admins : admin'[b] = admin[b] \/ admin'[b] = Away
        BY <2>0, <3>1
      <4>. QED
        BY <3>1, <4>1, <4>2 DEF Detaching
    <3>3. Queued' = Queued \cup {r}
      BY <3>1 DEF Queued, Shape
    <3>4. \A q \in Runs : IsLatest(q)' => q = r \/ IsLatest(q)
      BY <3>3 DEF IsLatest
    <3>5. /\ items'[r] = "none"
          /\ \A e \in Extractors : extractor'[e].at \in {"reading", "answered"} => extractor'[e].run # r
      BY <3>1 DEF Shape, Busy, Queued
    <3>. QED
      BY <1>1, <3>1, <3>2, <3>4, <3>5 DEF Quiet
  <2>. QED
    BY <1>4, <2>1, <2>2, <2>3, <2>4 DEF Asks
<1>5. ASSUME NEW r \in Runs, RetryRun(r)
      PROVE  Quiet'
  <2>1. ~Detaching /\ UNCHANGED <<attached, status, items, extractor, admin>>
    BY <1>5 DEF RetryRun
  <2>2. ~Detaching' /\ Queued' = Queued
    BY <2>1 DEF Detaching, Queued
  <2>. QED
    BY <1>1, <1>2, <2>1, <2>2 DEF Quiet
<1>6. ASSUME NEW r \in Runs, Accept(r)
      PROVE  Quiet'
  <2>1. /\ items[r] = "pending" /\ items' = [items EXCEPT ![r] = "accepted"]
        /\ UNCHANGED <<attached, status, jobs, extractor, admin>>
    BY <1>6 DEF Accept
  <2>2. \A q \in Runs : items'[q] \in {"pending", "accepted"} => items[q] \in {"pending", "accepted"}
    BY <2>1 DEF Shape
  <2>. QED
    BY <1>3, <2>1, <2>2 DEF Queued, Detaching
<1>7. ASSUME Attach
      PROVE  Quiet'
  <2>1. attached' /\ ~Detaching /\ UNCHANGED admin
    BY <1>7 DEF Attach
  <2>. QED
    BY <2>1 DEF Quiet, Detaching
<1>8. ASSUME Deploy \/ UNCHANGED extractionVars
      PROVE  Quiet'
  BY <1>3, <1>8 DEF Deploy, extractionVars, Queued, Detaching
<1>9. ASSUME NEW e \in Extractors, NEW r \in Runs, TakeRun(e, r)
      PROVE  Quiet'
  <2>1. /\ UNCHANGED <<attached, status, items, admin>> /\ jobs[r] \in Active /\ Others(e)
        /\ \A q \in Runs : q # r => jobs'[q] = jobs[q]
        /\ extractor'[e].at \in {"written", "starting", "restarting"}
    BY <1>1, <1>9, Taken DEF Shape, Active
  <2>. QED
    BY <1>3, <2>1 DEF Queued, Detaching, Others
<1>10. ASSUME NEW e \in Extractors, Works(e)
       PROVE  Quiet'
  <2>. DEFINE r == extractor[e].run
  <2>1. /\ UNCHANGED <<attached, admin>> /\ r \in Runs /\ Busy(e) /\ Others(e)
        /\ jobs[r] = "running" /\ extractor \in [Extractors -> Duties]
        /\ extractor[e].at = "written" <=> status[r] = "ready"
        /\ \A q \in Runs : q # r => Kept(q)
        /\ Quits(e) \/ extractor'[e].run = r
    BY <1>1, <1>10, WorkerKeeps DEF Bound, Queued, Shape
  <2>2. \A q \in Runs : jobs'[q] \in Active => jobs[q] \in Active
    BY <2>1 DEF Kept, Active
  <2>3. Detaching' <=> Detaching
    BY <2>1 DEF Detaching
  <2>4. /\ Queued' = Queued
        /\ \A q \in Runs : status[q] = "ready" => status'[q] = "ready"
    <3>1. /\ status' \in [Runs -> {"none", "queued", "extracting", "ready", "failed"}]
          /\ \A q \in Runs : status'[q] = "none" <=> status[q] = "none"
          /\ status[r] = "ready" => status'[r] = "ready"
      BY ZenonT(60), <1>10, <2>1, WorkerKeeps DEF Works, StartRun, CheckFile, ReadStep, SaveStep, WriteItems, NothingRead,
         Succeed, TransientError, Raise, FailRun, FailJob, Die, Shape, Queued, At
    <3>. QED
      BY <2>1, <3>1 DEF Queued, Kept
  <2>5. CASE WriteItems(e)
    <3>1. ~Detaching /\ extractor[e].at = "reading" /\ Goes(e, "written")
          /\ items' = [q \in Runs |-> IF q = r THEN "pending"
                                      ELSE IF items[q] = "pending" THEN "superseded" ELSE items[q]]
      BY <2>5 DEF WriteItems, At
    <3>2. extractor'[e].at = "written"
      BY <2>1, <3>1, Gone
    <3>3. ~attached => ~IsLatest(r)
      BY <1>1, <2>1, <3>1
    <3>4. \A q \in Runs : q # r /\ items'[q] \in {"pending", "accepted"} => items[q] \in {"pending", "accepted"}
      BY <3>1
    <3>5. \A f \in Extractors : extractor'[f].at \in {"reading", "answered"}
                                  => f # e /\ extractor'[f] = extractor[f]
      BY <2>1, <3>2 DEF Others
    <3>. QED
      BY <1>1, <1>2, <2>1, <2>3, <2>4, <3>1, <3>3, <3>4, <3>5 DEF Quiet
  <2>6. CASE CheckFile(e)
    <3>1. /\ UNCHANGED items
          /\ \E at \in {"reading", "failing"} : Turns(e, at, saved[r]) /\ (at = "reading" => attached)
      BY <2>6 DEF CheckFile, Turns
    <3>2. saved[r] \in [Steps -> Answers]
      BY <2>1 DEF Shape
    <3>3. extractor'[e].at = "reading" \/ extractor'[e].at = "answered" => attached
      BY <2>1, <3>1, <3>2, Moved
    <3>. QED
      BY <1>1, <1>2, <2>1, <2>2, <2>3, <2>4, <3>1, <3>3 DEF Quiet, Others
  <2>7. CASE ~WriteItems(e) /\ ~CheckFile(e)
    <3>1. UNCHANGED items
      BY <1>10, <2>7, OnlyWritten
    <3>2. extractor'[e].at \in {"reading", "answered"} => extractor[e].at \in {"reading", "answered"}
      <4>1. ASSUME NEW at \in {"started", "failing", "failed"}, Goes(e, at)
            PROVE  extractor'[e].at \notin {"reading", "answered"}
        BY <2>1, <4>1, Gone
      <4>2. Leaves(e) => extractor'[e].at \notin {"reading", "answered"}
        BY <2>1, Left DEF Busy
      <4>. QED
        BY <1>10, <2>7, <4>1, <4>2 DEF Works, StartRun, ReadStep, SaveStep, NothingRead, Succeed,
           TransientError, Raise, FailRun, FailJob, Die, At
    <3>3. extractor'[e].at \in {"reading", "answered"} => extractor'[e].run = r
      BY <2>1 DEF Quits, Free
    <3>. QED
      BY <1>3, <2>1, <2>2, <2>3, <2>4, <3>1, <3>2, <3>3 DEF Others
  <2>. QED
    BY <2>5, <2>6, <2>7
<1>. QED
  BY <1>1, <1>4, <1>5, <1>6, <1>7, <1>8, <1>9, <1>10, Cases DEF Quiet

(* What was read from a file that has left its version is not up for       *)
(* review, unless a message was delivered twice or a job retried inside    *)
(* the detach.                                                             *)
THEOREM Detached_Is_Quiet == ExtractionSpec => []DetachedIsQuiet
<1>1. ExtractionInit => Quiet
  BY DEF ExtractionInit, Quiet, Away, Detaching
<1>2. Shape /\ Solo /\ Quiet /\ [ExtractionNext]_extractionVars => Quiet'
  BY QuietStep
<1>3. Quiet => DetachedIsQuiet
  BY DEF Quiet, DetachedIsQuiet
<1>. QED
  BY <1>1, <1>2, <1>3, ShapeHolds, SoloHolds, PTL DEF ExtractionSpec
=============================================================================
