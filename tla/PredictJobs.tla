----------------------------- MODULE PredictJobs -----------------------------
(***************************************************************************)
(* Asynchronous prediction: POST /predict and GET /predict/<job_id>        *)
(* (services/api/routes/predict.py), the synthetic job of                  *)
(* GET /health/pipeline (services/api/routes/pipeline.py), the inference   *)
(* worker's _handle_predict_job (services/inference/worker.py) inside      *)
(* process_with_retries (shared/broker/retry.py), the alert it persists    *)
(* (services/inference/repository.py) and the result key with its TTL.     *)
(*                                                                         *)
(* The stream hands each job to one worker at most (StreamWorker shows     *)
(* it), so here a job is absent, queued, taken or lost.  A Redis or        *)
(* database call that raises may have been applied or not and spends one   *)
(* of MaxFaults.                                                           *)
(***************************************************************************)
EXTENDS Naturals, FiniteSets

CONSTANTS
    Jobs,        \* job ids
    Probes,      \* those of /health/pipeline
    Failing,     \* jobs whose classification always raises
    Workers,     \* inference worker processes
    MaxRetries,  \* settings.broker_max_retries
    MaxFaults,   \* bound: failed calls
    Expirable,   \* bound: jobs whose result's TTL may run out
    CanCrash,    \* may a worker process end with a job in hand?
    Losable      \* bound: jobs the stream may lose (cap, late group)

ASSUME ConstantsOK ==
    /\ Probes \subseteq Jobs
    /\ Failing \subseteq Jobs
    /\ MaxRetries \in Nat
    /\ MaxFaults \in Nat
    /\ CanCrash \in BOOLEAN
    /\ Expirable \subseteq Jobs
    /\ Losable \subseteq Jobs
    /\ "nobody" \notin Workers

Attempts == IF MaxRetries >= 1 THEN MaxRetries ELSE 1

VARIABLES
    api,       \* where the request handler of each job is
    cache,     \* predict_results:<job_id>: its status, or "none"
    queue,     \* the job's message in predict_jobs
    pc,        \* where each worker is in its job
    job,       \* the job each worker took last, or "none"
    attempt,   \* attempt of process_with_retries
    alerts,    \* rows of attack_logs committed for each job
    faults,    \* failed calls so far
    expired,   \* history: jobs whose result key has run out
    dlq        \* jobs process_with_retries gave up on

vars == <<api, cache, queue, pc, job, attempt, alerts, faults, expired, dlq>>
workerVars == <<pc, job, attempt, alerts, dlq>>

Verdicts == {"ok", "down", "degraded", "error"}
ApiPCs == {"idle", "publishing", "failing", "accepted", "rejected", "probing"}
              \cup Verdicts
Busy == {"classify", "persist", "storeCompleted", "storeFailed", "ack",
         "dlq", "dlqack"}

TypeOK ==
    /\ api \in [Jobs -> ApiPCs]
    /\ cache \in [Jobs -> {"none", "pending", "completed", "failed"}]
    /\ queue \in [Jobs -> {"absent", "queued", "taken", "lost"}]
    /\ pc \in [Workers -> {"reading", "dead"} \cup Busy]
    /\ job \in [Workers -> Jobs \cup {"none"}]
    /\ attempt \in [Workers -> 0..Attempts]
    /\ alerts \in [Jobs -> Nat]
    /\ faults \in 0..MaxFaults
    /\ expired \subseteq Jobs
    /\ dlq \subseteq Jobs

Init ==
    /\ api = [j \in Jobs |-> "idle"]
    /\ cache = [j \in Jobs |-> "none"]
    /\ queue = [j \in Jobs |-> "absent"]
    /\ pc = [w \in Workers |-> "reading"]
    /\ job = [w \in Workers |-> "none"]
    /\ attempt = [w \in Workers |-> 0]
    /\ alerts = [j \in Jobs |-> 0]
    /\ faults = 0
    /\ expired = {}
    /\ dlq = {}

-----------------------------------------------------------------------------
(* Helpers *)

Fault ==
    /\ faults < MaxFaults
    /\ faults' = faults + 1

\* broker.store_result: SET with a TTL; and the same call raising.
Store(j, status) == cache' = [cache EXCEPT ![j] = status]
StoreRaises(j, status) ==
    /\ Fault
    /\ UNCHANGED cache \/ Store(j, status)

\* broker.publish to predict_jobs; and the same call raising.
Enqueue(j) == queue' = [queue EXCEPT ![j] = "queued"]
EnqueueRaises(j) ==
    /\ Fault
    /\ UNCHANGED queue \/ Enqueue(j)

Answer(j, where) == api' = [api EXCEPT ![j] = where]
Goto(w, where) == pc' = [pc EXCEPT ![w] = where]

-----------------------------------------------------------------------------
(* POST /predict *)

\* Store the "pending" placeholder, before anything is published.  If that
\* raises, the request ends with a 500 and no message.
StorePending(j) ==
    /\ api[j] = "idle" /\ j \notin Probes
    /\ \/ Store(j, "pending") /\ Answer(j, "publishing") /\ UNCHANGED faults
       \/ StoreRaises(j, "pending") /\ Answer(j, "rejected")
    /\ UNCHANGED <<queue, workerVars, expired>>

\* Mutant of PublishJob: placeholder and publish are retried together.
RepublishJob(j) ==
    /\ api[j] = "publishing"
    /\ \/ Enqueue(j) /\ Answer(j, "accepted") /\ UNCHANGED <<cache, faults>>
       \/ EnqueueRaises(j) /\ Store(j, "pending") /\ UNCHANGED api
    /\ UNCHANGED <<workerVars, expired>>

\* Publish the job and answer 202.
PublishJob(j) ==
    /\ api[j] = "publishing"
    /\ \/ Enqueue(j) /\ Answer(j, "accepted") /\ UNCHANGED faults
       \/ EnqueueRaises(j) /\ Answer(j, "failing")
    /\ UNCHANGED <<cache, workerVars, expired>>

\* The except clause: store "failed" and answer 500.
StoreEnqueueFailed(j) ==
    /\ api[j] = "failing"
    /\ Answer(j, "rejected")
    /\ \/ Store(j, "failed") /\ UNCHANGED faults
       \/ StoreRaises(j, "failed")
    /\ UNCHANGED <<queue, workerVars, expired>>

-----------------------------------------------------------------------------
(* GET /health/pipeline *)

\* The probe publishes its job without a placeholder.
PublishProbe(j) ==
    /\ api[j] = "idle" /\ j \in Probes
    /\ \/ Enqueue(j) /\ Answer(j, "probing") /\ UNCHANGED faults
       \/ EnqueueRaises(j) /\ Answer(j, "down")
    /\ UNCHANGED <<cache, workerVars, expired>>

\* Mutant of ProbeSeesResult: any result counts as success.
ProbeSeesAnything(j) ==
    /\ api[j] = "probing"
    /\ cache[j] # "none"
    /\ Answer(j, "ok")
    /\ UNCHANGED <<cache, queue, workerVars, faults, expired>>

\* _poll_for_result finds a terminal status in time: an answer from the
\* worker, with or without an alert id.
ProbeSeesResult(j) ==
    /\ api[j] = "probing"
    /\ cache[j] \in {"completed", "failed"}
    /\ Answer(j, IF cache[j] = "completed" THEN "ok" ELSE "down")
    /\ UNCHANGED <<cache, queue, workerVars, faults, expired>>

\* The deadline passes first.  The job is still on its way.
ProbeTimesOut(j) ==
    /\ api[j] = "probing"
    /\ Answer(j, "degraded")
    /\ UNCHANGED <<cache, queue, workerVars, faults, expired>>

\* load_result raises: nothing catches it, the request is a 500.
ProbeRaises(j) ==
    /\ api[j] = "probing"
    /\ Fault
    /\ Answer(j, "error")
    /\ UNCHANGED <<cache, queue, workerVars, expired>>

-----------------------------------------------------------------------------
(* Redis *)

\* The result key runs out.
Expire(j) ==
    /\ j \in Expirable
    /\ cache[j] # "none"
    /\ Store(j, "none")
    /\ expired' = expired \cup {j}
    /\ UNCHANGED <<api, queue, workerVars, faults>>

\* The stream loses a queued job: trimmed before a worker read it, or older
\* than the consumer group.
LoseJob(j) ==
    /\ j \in Losable
    /\ queue[j] = "queued"
    /\ queue' = [queue EXCEPT ![j] = "lost"]
    /\ UNCHANGED <<api, cache, workerVars, faults, expired>>

-----------------------------------------------------------------------------
(* The inference worker *)

\* An exception out of the handler, or out of the ack after it.
NextAttempt(w) ==
    IF attempt[w] < Attempts
    THEN /\ attempt' = [attempt EXCEPT ![w] = @ + 1]
         /\ Goto(w, "classify")
    ELSE /\ Goto(w, "dlq")
         /\ UNCHANGED attempt

\* consume() yields a job.
TakeJob(w, j) ==
    /\ pc[w] = "reading"
    /\ queue[j] = "queued"
    /\ queue' = [queue EXCEPT ![j] = "taken"]
    /\ job' = [job EXCEPT ![w] = j]
    /\ attempt' = [attempt EXCEPT ![w] = 1]
    /\ Goto(w, "classify")
    /\ UNCHANGED <<api, cache, alerts, faults, expired,
                   dlq>>

\* classify_flow.
Classify(w) ==
    /\ pc[w] = "classify"
    /\ Goto(w, IF job[w] \in Failing THEN "storeFailed" ELSE "persist")
    /\ UNCHANGED <<api, cache, queue, job, attempt, alerts, faults, expired,
                   dlq>>

\* persist_alert: one row, committed.  (Its pub/sub push is in AlertStream.)
Persist(w) ==
    /\ pc[w] = "persist"
    /\ alerts' = [alerts EXCEPT ![job[w]] = @ + 1]
    /\ Goto(w, "storeCompleted")
    /\ UNCHANGED <<api, cache, queue, job, attempt, faults, expired, dlq>>

\* Mutant of PersistRaises: persistence is best effort.
PersistRaisesIgnored(w) ==
    /\ pc[w] = "persist"
    /\ Fault
    /\ Goto(w, "storeCompleted")
    /\ UNCHANGED <<api, cache, queue, job, attempt, alerts, expired, dlq>>

\* persist_alert raises: rolled back, or the commit's answer was lost.
PersistRaises(w) ==
    /\ pc[w] = "persist"
    /\ Fault
    /\ \/ UNCHANGED alerts
       \/ alerts' = [alerts EXCEPT ![job[w]] = @ + 1]
    /\ Goto(w, "storeFailed")
    /\ UNCHANGED <<api, cache, queue, job, attempt, expired, dlq>>

\* store_result(completed), the last call of the try.
StoreCompleted(w) ==
    /\ pc[w] = "storeCompleted"
    /\ \/ /\ Store(job[w], "completed")
          /\ Goto(w, "ack")
          /\ UNCHANGED faults
       \/ /\ StoreRaises(job[w], "completed")
          /\ Goto(w, "storeFailed")
    /\ UNCHANGED <<api, queue, job, attempt, alerts, expired, dlq>>

\* Mutant of StoreFailed: the except clause ends in `raise`.
StoreFailedAndRaise(w) ==
    /\ pc[w] = "storeFailed"
    /\ Store(job[w], "failed")
    /\ NextAttempt(w)
    /\ UNCHANGED <<api, queue, job, alerts, faults, expired, dlq>>

\* Mutant of StoreFailed: the failure is only logged.
LogFailure(w) ==
    /\ pc[w] = "storeFailed"
    /\ Goto(w, "ack")
    /\ UNCHANGED <<api, cache, queue, job, attempt, alerts, faults, expired,
                   dlq>>

\* The except clause: store_result(failed) swallows the exception, unless it
\* raises itself.
StoreFailed(w) ==
    /\ pc[w] = "storeFailed"
    /\ \/ /\ Store(job[w], "failed")
          /\ Goto(w, "ack")
          /\ UNCHANGED <<attempt, faults>>
       \/ /\ StoreRaises(job[w], "failed")
          /\ NextAttempt(w)
    /\ UNCHANGED <<api, queue, job, alerts, expired, dlq>>

\* Mutant of Ack: no `return True`, the loop goes on.
AckAndGoOn(w) ==
    /\ pc[w] = "ack"
    /\ NextAttempt(w)
    /\ UNCHANGED <<api, cache, queue, job, alerts, faults, expired, dlq>>

\* broker.ack, in the try of process_with_retries.
Ack(w) ==
    /\ pc[w] = "ack"
    /\ \/ Goto(w, "reading") /\ UNCHANGED <<attempt, faults>>
       \/ Fault /\ NextAttempt(w)
    /\ UNCHANGED <<api, cache, queue, job, alerts, expired, dlq>>

\* publish_dlq (its failure is swallowed): nothing here writes the result key.
PublishDlq(w) ==
    /\ pc[w] = "dlq"
    /\ dlq' = dlq \cup {job[w]}
    /\ Goto(w, "dlqack")
    /\ UNCHANGED <<api, cache, queue, job, attempt, alerts, faults, expired>>

\* The ack after it; if it raises, run() ends.
AckDlq(w) ==
    /\ pc[w] = "dlqack"
    /\ \/ Goto(w, "reading") /\ UNCHANGED faults
       \/ Fault /\ Goto(w, "dead")
    /\ UNCHANGED <<api, cache, queue, job, attempt, alerts, expired, dlq>>

\* The worker is killed, or stops with prefetched jobs: its job stays
\* pending in the group and no one reads it again.
Crash(w) ==
    /\ CanCrash
    /\ pc[w] \in Busy
    /\ Goto(w, "dead")
    /\ UNCHANGED <<api, cache, queue, job, attempt, alerts, faults, expired,
                   dlq>>

Request(j) ==
    \/ StorePending(j) \/ PublishJob(j) \/ StoreEnqueueFailed(j)
    \/ PublishProbe(j) \/ ProbeSeesResult(j) \/ ProbeTimesOut(j)
    \/ ProbeRaises(j)

Work(w) ==
    \/ \E j \in Jobs : TakeJob(w, j)
    \/ Classify(w) \/ Persist(w) \/ PersistRaises(w) \/ StoreCompleted(w)
    \/ StoreFailed(w) \/ Ack(w) \/ PublishDlq(w) \/ AckDlq(w)

Next ==
    \/ \E j \in Jobs : Request(j) \/ Expire(j) \/ LoseJob(j)
    \/ \E w \in Workers : Work(w) \/ Crash(w)

Spec == Init /\ [][Next]_vars

\* Worker processes are scheduled; clients need not come back.
FairSpec == Spec /\ \A w \in Workers : WF_vars(Work(w))
-----------------------------------------------------------------------------
\* A client that reads "completed" finds the alert in the database, and for
\* good: the row is committed before the result is stored, on every attempt
\* and under every failure.
CompletedHasItsAlert ==
    \A j \in Jobs : cache[j] = "completed" => alerts[j] > 0

\* What came of a job: the alerts it left, and whether its client is told it
\* failed.  Everything beyond the first contradicts it.
Outcomes(j) == alerts[j] + (IF cache[j] = "failed" THEN 1 ELSE 0)
Superfluous == UNION {{j} \X (2..Outcomes(j)) : j \in Jobs}

\* Each alert too many, and each alert whose client is told "failed", costs a
\* failed call of its own; without failures a job makes one alert at most and
\* its client is told so.
DivergencePaidByFaults == Cardinality(Superfluous) <= faults

\* A job whose classification or persistence fails is answered, not retried
\* and dead-lettered (the comment in _handle_predict_job): a job in the DLQ
\* lost a Redis call on every one of its attempts.
DlqNeedsAFaultPerAttempt == Attempts * Cardinality(dlq) <= faults

\* What GET /predict/<job_id> has answered with 200 never turns into a 202
\* again, although the request handler and the worker both write the key.
SettledNeverReopens ==
    [][\A j \in Jobs :
          cache[j] \in {"completed", "failed"} => cache'[j] # "pending"]_vars

\* An accepted job is unknown to GET only after its TTL ran out.
NotFoundMeansExpired ==
    \A j \in Jobs : api[j] = "accepted" /\ cache[j] = "none" => j \in expired

\* The probe reports "ok" only if its alert is in the database, and "down"
\* only if something failed, however late or early the worker answers.
ProbeVerdictIsSound ==
    \A j \in Probes :
        /\ api[j] = "ok" => alerts[j] > 0
        /\ api[j] = "down" => faults > 0 \/ j \in Failing

\* What has become of a job's message: nothing but its worker's end strands
\* it, and nothing that a request, a probe, an attempt or a failure does brings
\* it back (see MessageFate, which StreamWorker implements too).
InHand(w, j) == pc[w] \in Busy /\ job[w] = j
HasOwner(j) == \E w \in Workers : InHand(w, j)
FateOf(j) ==
    CASE queue[j] = "absent" -> "absent"
      [] queue[j] = "queued" -> "waiting"
      [] queue[j] = "lost" -> "lost"
      [] queue[j] = "taken" ->
             IF HasOwner(j) THEN "inflight"
             ELSE IF \E w \in Workers : pc[w] = "dead" /\ job[w] = j
                  THEN "stranded" ELSE "settled"
OwnerOf(j) ==
    IF HasOwner(j) THEN CHOOSE w \in Workers : InHand(w, j) ELSE "nobody"
Fate == INSTANCE MessageFate WITH
            Msgs <- Jobs,
            fate <- [j \in Jobs |-> FateOf(j)],
            owner <- [j \in Jobs |-> OwnerOf(j)]
JobIsDeliveredAtMostOnce == Fate!Spec

\* No worker lets go of a job before it is answered: a job that is settled has
\* a terminal answer, unless that ran out, or is in the DLQ.
SettledIsAnswered ==
    \A j \in Jobs :
        FateOf(j) = "settled" =>
            cache[j] \in {"completed", "failed"} \/ j \in expired \cup dlq

\* ... and none keeps it for ever: every step of a worker with a job uses up an
\* attempt, or a stage of the attempt.
Stage ==
    [where \in {"reading", "dead"} \cup Busy |->
        CASE where = "classify" -> 7 [] where = "persist" -> 6
          [] where = "storeCompleted" -> 5 [] where = "storeFailed" -> 4
          [] where = "ack" -> 3 [] where = "dlq" -> 2
          [] where = "dlqack" -> 1 [] OTHER -> 0]
GetsOn(w) ==
    \/ attempt[w] < attempt'[w] /\ attempt'[w] <= Attempts
    \/ attempt'[w] = attempt[w] /\ Stage[pc'[w]] < Stage[pc[w]]
WorkDiminishes ==
    [][\A w \in Workers :
          pc[w] \in Busy =>
              UNCHANGED <<pc[w], job[w], attempt[w]>> \/ GetsOn(w)]_vars

\* The client of an accepted job gets a terminal answer, unless the stream
\* loses the job, its result expires, it is dead-lettered (which takes a
\* failure in each attempt), the worker that took it exits with it, or no
\* worker is left.
AcceptedIsAnswered ==
    \A j \in Jobs :
        api[j] = "accepted" ~>
            \/ queue[j] = "lost" \/ j \in expired \/ j \in dlq
            \/ cache[j] \in {"completed", "failed"}
            \/ \E w \in Workers : pc[w] = "dead" /\ job[w] = j
            \/ \A w \in Workers : pc[w] = "dead"
=============================================================================
