-------------------------- MODULE PredictJobsProofs --------------------------
(***************************************************************************)
(* Proofs about PredictJobs for every set of jobs, probes and workers, any *)
(* number of attempts and failing calls.                                   *)
(*                                                                         *)
(* The request handler and the worker write the same key.  What keeps them *)
(* apart is that the placeholder is written before the message exists, and *)
(* that a job is in the hands of one worker at most: IInv says how far     *)
(* each has come when the other may act.                                   *)
(***************************************************************************)
EXTENDS PredictJobs, FiniteSetTheorems, TLAPS

\* Why a job may have failed.
Excused(j) == faults > 0 \/ j \in Failing

\* How far the request and the message of a job have come.
JobOK(j) ==
    /\ api[j] \in {"idle", "publishing"} => queue[j] = "absent"
    /\ api[j] = "idle" => cache[j] = "none"
    /\ j \in Probes => api[j] \notin {"publishing", "failing", "accepted",
                                      "rejected"}
    /\ api[j] \in {"publishing", "accepted"} /\ cache[j] = "none"
       => j \in expired
    /\ cache[j] = "completed" => alerts[j] > 0
    /\ cache[j] = "failed" => Excused(j)
    /\ api[j] = "ok" => alerts[j] > 0
    /\ api[j] \in {"failing", "down"} => Excused(j)

\* What a worker has in hand.
WorkerOK(w) ==
    /\ pc[w] \in Busy => job[w] \in Jobs /\ queue[job[w]] = "taken"
    /\ pc[w] = "storeCompleted" => alerts[job[w]] > 0
    /\ pc[w] = "storeFailed" => Excused(job[w])

IInv ==
    /\ TypeOK
    /\ \A j \in Jobs : JobOK(j)
    /\ \A w \in Workers : WorkerOK(w)

LEMMA AttemptsOK == Attempts \in Nat \ {0}
BY ConstantsOK DEF Attempts

LEMMA InitIInv == Init => IInv
<1> SUFFICES ASSUME Init PROVE IInv
  OBVIOUS
<1>1. TypeOK
  BY ConstantsOK, AttemptsOK DEF Init, TypeOK, ApiPCs
<1>2. \A j \in Jobs : JobOK(j)
  BY DEF Init, JobOK
<1>3. \A w \in Workers : WorkerOK(w)
  BY DEF Init, WorkerOK, Busy
<1> QED BY <1>1, <1>2, <1>3 DEF IInv

-----------------------------------------------------------------------------
(* Requests *)

\* A step of one job's request, which cannot disturb other jobs or workers.
LEMMA RequestKeepsIInv ==
    ASSUME IInv, NEW j \in Jobs, UNCHANGED workerVars, UNCHANGED expired,
           faults' \in 0..MaxFaults, faults' >= faults,
           api' \in [Jobs -> ApiPCs],
           cache' \in [Jobs -> {"none", "pending", "completed", "failed"}],
           queue' \in [Jobs -> {"absent", "queued", "taken", "lost"}],
           \A k \in Jobs \ {j} : /\ api'[k] = api[k] /\ cache'[k] = cache[k]
                                 /\ queue'[k] = queue[k],
           queue[j] = "taken" => queue'[j] = "taken",
           JobOK(j)'
    PROVE  IInv'
<1> USE DEF workerVars
<1>1. TypeOK'
  BY DEF IInv, TypeOK
<1>2. faults > 0 => faults' > 0
  BY ConstantsOK DEF IInv, TypeOK
<1>3. \A k \in Jobs : JobOK(k)'
  BY <1>2 DEF IInv, JobOK, Excused
<1>4. \A w \in Workers : WorkerOK(w)'
  BY <1>2 DEF IInv, WorkerOK, Excused
<1> QED BY <1>1, <1>3, <1>4 DEF IInv

\* A failing call is counted, and then everything is excused.
LEMMA FaultCounts ==
    ASSUME TypeOK, Fault
    PROVE  faults' \in 0..MaxFaults /\ faults' >= faults /\ faults' > 0
BY ConstantsOK DEF TypeOK, Fault

LEMMA RequestIInv ==
    ASSUME IInv, NEW j \in Jobs, Request(j)
    PROVE  IInv'
<1> USE DEF Answer, Store, Enqueue, IInv, TypeOK, ApiPCs, Verdicts
<1>0. UNCHANGED faults \/ Fault
  BY DEF Request, StorePending, PublishJob, StoreEnqueueFailed, PublishProbe,
         ProbeSeesResult, ProbeTimesOut, ProbeRaises, StoreRaises,
         EnqueueRaises
<1>1. /\ faults' \in 0..MaxFaults /\ faults' >= faults
      /\ Fault => faults' > 0
      /\ faults > 0 => faults' > 0
  BY <1>0, FaultCounts, ConstantsOK
<1>2. CASE StorePending(j)
  <2>1. JobOK(j)'
    BY <1>1, <1>2 DEF StorePending, StoreRaises, JobOK, Excused, workerVars
  <2> QED
    BY <1>1, <1>2, <2>1, RequestKeepsIInv DEF StorePending, StoreRaises
<1>3. CASE PublishJob(j)
  <2>1. JobOK(j)'
    BY <1>1, <1>3 DEF PublishJob, EnqueueRaises, JobOK, Excused, workerVars
  <2>2. queue[j] # "taken"
    BY <1>3 DEF PublishJob, JobOK
  <2> QED
    BY <1>1, <1>3, <2>1, <2>2, RequestKeepsIInv DEF PublishJob, EnqueueRaises
<1>4. CASE StoreEnqueueFailed(j)
  <2>1. JobOK(j)'
    BY <1>1, <1>4
       DEF StoreEnqueueFailed, StoreRaises, JobOK, Excused, workerVars
  <2> QED
    BY <1>1, <1>4, <2>1, RequestKeepsIInv
       DEF StoreEnqueueFailed, StoreRaises
<1>5. CASE PublishProbe(j)
  <2>1. JobOK(j)'
    BY <1>1, <1>5 DEF PublishProbe, EnqueueRaises, JobOK, Excused, workerVars
  <2>2. queue[j] # "taken"
    BY <1>5 DEF PublishProbe, JobOK
  <2> QED
    BY <1>1, <1>5, <2>1, <2>2, RequestKeepsIInv
       DEF PublishProbe, EnqueueRaises
<1>6. CASE ProbeSeesResult(j) \/ ProbeTimesOut(j) \/ ProbeRaises(j)
  <2>1. JobOK(j)'
    BY <1>1, <1>6
       DEF ProbeSeesResult, ProbeTimesOut, ProbeRaises, JobOK, Excused,
           workerVars
  <2> QED
    BY <1>1, <1>6, <2>1, RequestKeepsIInv
       DEF ProbeSeesResult, ProbeTimesOut, ProbeRaises
<1> QED BY <1>2, <1>3, <1>4, <1>5, <1>6 DEF Request

-----------------------------------------------------------------------------
(* Redis and the workers *)

LEMMA RedisIInv ==
    ASSUME IInv, NEW j \in Jobs, Expire(j) \/ LoseJob(j)
    PROVE  IInv'
<1> USE DEF Expire, LoseJob, Store, workerVars
<1>1. TypeOK'
  BY DEF IInv, TypeOK
<1>2. \A k \in Jobs : JobOK(k)'
  BY DEF IInv, TypeOK, JobOK, Excused
<1>3. \A w \in Workers : WorkerOK(w)'
  BY DEF IInv, TypeOK, WorkerOK, Excused
<1> QED BY <1>1, <1>2, <1>3 DEF IInv

\* A step of one worker in one job.
LEMMA WorkKeepsIInv ==
    ASSUME IInv, TypeOK', NEW w \in Workers, NEW j \in Jobs,
           UNCHANGED api, UNCHANGED expired, faults' >= faults,
           \A k \in Jobs \ {j} : /\ cache'[k] = cache[k]
                                 /\ queue'[k] = queue[k]
                                 /\ alerts'[k] = alerts[k],
           alerts'[j] >= alerts[j],
           queue[j] \in {"queued", "taken"}, queue'[j] = "taken",
           cache'[j] = "none" => cache[j] = "none",
           cache'[j] = "completed" => alerts'[j] > 0,
           cache'[j] = "failed" => Excused(j)',
           \A v \in Workers \ {w} : pc'[v] = pc[v] /\ job'[v] = job[v],
           WorkerOK(w)'
    PROVE  IInv'
<1>1. faults > 0 => faults' > 0
  BY ConstantsOK DEF IInv, TypeOK
<1>2. \A k \in Jobs : alerts[k] > 0 => alerts'[k] > 0
  BY DEF IInv, TypeOK
<1>3. \A k \in Jobs \ {j} : JobOK(k)'
  BY <1>1, <1>2 DEF IInv, JobOK, Excused
<1>4. JobOK(j)'
  BY <1>1, <1>2 DEF IInv, JobOK, Excused
<1>5. \A v \in Workers \ {w} : WorkerOK(v)'
  BY <1>1, <1>2 DEF IInv, WorkerOK, Excused, Busy
<1> QED BY <1>3, <1>4, <1>5 DEF IInv

\* A worker moves on with its job and leaves the job's data alone.
LEMMA MoveKeepsIInv ==
    ASSUME IInv, NEW w \in Workers,
           UNCHANGED <<api, cache, queue, job, alerts, expired>>,
           attempt' \in [Workers -> 0..Attempts],
           UNCHANGED faults \/ Fault,
           dlq' \subseteq Jobs,
           NEW where \in {"reading", "dead"} \cup Busy,
           pc[w] \in Busy, Goto(w, where),
           where = "storeCompleted" => alerts[job[w]] > 0,
           where = "storeFailed" => Excused(job[w])'
    PROVE  IInv'
<1> USE DEF Goto
<1>1. faults' \in 0..MaxFaults /\ faults' >= faults
  BY FaultCounts, ConstantsOK DEF IInv, TypeOK
<1>2. /\ pc' \in [Workers -> {"reading", "dead"} \cup Busy]
      /\ pc'[w] = where
      /\ \A v \in Workers \ {w} : pc'[v] = pc[v]
  BY DEF IInv, TypeOK, Busy
<1>3. TypeOK'
  BY <1>1, <1>2 DEF IInv, TypeOK
<1>4. WorkerOK(w)'
  BY <1>2 DEF IInv, WorkerOK
<1>5. job[w] \in Jobs /\ queue[job[w]] = "taken"
  BY DEF IInv, WorkerOK
<1>6. /\ alerts[job[w]] \in Nat
      /\ cache'[job[w]] = "completed" => alerts'[job[w]] > 0
      /\ cache'[job[w]] = "failed" => Excused(job[w])'
  BY <1>1, <1>5, ConstantsOK DEF IInv, TypeOK, JobOK, Excused
<1> QED BY <1>1, <1>2, <1>3, <1>4, <1>5, <1>6, WorkKeepsIInv

LEMMA NextAttemptGoes ==
    ASSUME IInv, NEW w \in Workers, NextAttempt(w)
    PROVE  /\ attempt' \in [Workers -> 0..Attempts]
           /\ Goto(w, "classify") \/ Goto(w, "dlq")
BY AttemptsOK DEF NextAttempt, IInv, TypeOK

LEMMA TakeJobIInv ==
    ASSUME IInv, NEW w \in Workers, NEW j \in Jobs, TakeJob(w, j)
    PROVE  IInv'
<1> USE DEF TakeJob, Goto
<1>1. /\ pc'[w] = "classify" /\ job'[w] = j /\ queue'[j] = "taken"
      /\ \A v \in Workers \ {w} : pc'[v] = pc[v] /\ job'[v] = job[v]
      /\ \A k \in Jobs \ {j} : queue'[k] = queue[k]
  BY DEF IInv, TypeOK
<1>2. TypeOK'
  BY AttemptsOK DEF IInv, TypeOK, Busy
<1>3. WorkerOK(w)'
  BY <1>1 DEF WorkerOK
<1>4. /\ faults' >= faults /\ alerts'[j] >= alerts[j]
      /\ cache'[j] = "completed" => alerts'[j] > 0
      /\ cache'[j] = "failed" => Excused(j)'
  BY ConstantsOK DEF IInv, TypeOK, JobOK, Excused
<1> QED BY <1>1, <1>2, <1>3, <1>4, WorkKeepsIInv

\* The insert, whose commit may be reported as failed or not be made.
LEMMA PersistIInv ==
    ASSUME IInv, NEW w \in Workers, Persist(w) \/ PersistRaises(w)
    PROVE  IInv'
<1> USE DEF Persist, PersistRaises, Goto
<1>1. /\ job[w] \in Jobs /\ queue[job[w]] = "taken"
      /\ JobOK(job[w]) /\ alerts[job[w]] \in Nat
  BY DEF IInv, TypeOK, WorkerOK, Busy
<1>2. /\ faults' \in 0..MaxFaults /\ faults' >= faults
      /\ PersistRaises(w) => faults' > 0
  BY FaultCounts, ConstantsOK DEF IInv, TypeOK
<1>3. /\ alerts' \in [Jobs -> Nat] /\ alerts'[job[w]] >= alerts[job[w]]
      /\ Persist(w) => alerts'[job[w]] > 0
      /\ \A k \in Jobs \ {job[w]} : alerts'[k] = alerts[k]
  BY <1>1 DEF IInv, TypeOK
<1>4. /\ pc' \in [Workers -> {"reading", "dead"} \cup Busy]
      /\ \/ Persist(w) /\ pc'[w] = "storeCompleted"
         \/ PersistRaises(w) /\ pc'[w] = "storeFailed"
      /\ \A v \in Workers \ {w} : pc'[v] = pc[v]
  BY DEF IInv, TypeOK, Busy
<1>5. TypeOK'
  BY <1>2, <1>3, <1>4 DEF IInv, TypeOK
<1>6. WorkerOK(w)'
  BY <1>1, <1>2, <1>3, <1>4 DEF WorkerOK, Excused
<1>7. /\ cache'[job[w]] = "completed" => alerts'[job[w]] > 0
      /\ cache'[job[w]] = "failed" => Excused(job[w])'
  BY <1>1, <1>2, <1>3, ConstantsOK DEF JobOK, Excused, IInv, TypeOK
<1> QED BY <1>1, <1>2, <1>3, <1>4, <1>5, <1>6, <1>7, WorkKeepsIInv

\* The result, whose SET may be reported as failed or not be made.
LEMMA StoreIInv ==
    ASSUME IInv, NEW w \in Workers, StoreCompleted(w) \/ StoreFailed(w)
    PROVE  IInv'
<1> USE DEF StoreCompleted, StoreFailed, Store, StoreRaises, Goto
<1>1. /\ job[w] \in Jobs /\ queue[job[w]] = "taken"
      /\ JobOK(job[w]) /\ WorkerOK(w) /\ alerts[job[w]] \in Nat
  BY DEF IInv, TypeOK, WorkerOK, Busy
<1>2. /\ faults' \in 0..MaxFaults /\ faults' >= faults
      /\ UNCHANGED faults \/ faults' > 0
  BY FaultCounts, ConstantsOK DEF IInv, TypeOK
<1>3. /\ cache' \in [Jobs -> {"none", "pending", "completed", "failed"}]
      /\ \A k \in Jobs \ {job[w]} : cache'[k] = cache[k]
      /\ \/ cache'[job[w]] = cache[job[w]]
         \/ StoreCompleted(w) /\ cache'[job[w]] = "completed"
         \/ StoreFailed(w) /\ cache'[job[w]] = "failed"
  BY <1>1 DEF IInv, TypeOK
<1>4. attempt' \in [Workers -> 0..Attempts]
      /\ pc' \in [Workers -> {"reading", "dead"} \cup Busy]
      /\ \/ pc'[w] \in {"ack", "classify", "dlq"}
         \/ pc'[w] = "storeFailed" /\ faults' > 0
      /\ \A v \in Workers \ {w} : pc'[v] = pc[v]
  BY NextAttemptGoes, FaultCounts DEF IInv, TypeOK, Busy
<1>5. TypeOK'
  BY <1>2, <1>3, <1>4 DEF IInv, TypeOK
<1>6. WorkerOK(w)'
  BY <1>1, <1>4 DEF WorkerOK, Excused
<1>7. /\ cache'[job[w]] = "completed" => alerts'[job[w]] > 0
      /\ cache'[job[w]] = "failed" => Excused(job[w])'
      /\ cache'[job[w]] = "none" => cache[job[w]] = "none"
  BY <1>1, <1>2, <1>3 DEF JobOK, WorkerOK, Excused
<1> QED BY <1>1, <1>2, <1>3, <1>4, <1>5, <1>6, <1>7, WorkKeepsIInv

LEMMA WorkIInv ==
    ASSUME IInv, NEW w \in Workers, Work(w) \/ Crash(w)
    PROVE  IInv'
<1>0. /\ attempt \in [Workers -> 0..Attempts] /\ dlq \subseteq Jobs
      /\ {"persist", "storeFailed", "classify", "dlq", "dlqack", "ack"}
             \subseteq Busy
  BY DEF IInv, TypeOK, Busy
<1>1. ASSUME NEW j \in Jobs, TakeJob(w, j)
      PROVE  IInv'
  BY <1>1, TakeJobIInv
<1>2. CASE Classify(w)
  <2>1. job[w] \in Failing => Excused(job[w])'
    BY <1>2 DEF Classify, Excused
  <2>2. CASE job[w] \in Failing
    BY <1>0, <1>2, <2>1, <2>2, MoveKeepsIInv DEF Classify
  <2>3. CASE job[w] \notin Failing
    BY <1>0, <1>2, <2>3, MoveKeepsIInv DEF Classify
  <2> QED BY <2>2, <2>3
<1>3. CASE Persist(w) \/ PersistRaises(w)
  BY <1>3, PersistIInv
<1>4. CASE StoreCompleted(w) \/ StoreFailed(w)
  BY <1>4, StoreIInv
<1>5. CASE Ack(w)
  <2>1. CASE Goto(w, "reading") /\ UNCHANGED <<attempt, faults>>
    BY <1>0, <1>5, <2>1, MoveKeepsIInv DEF Ack
  <2>2. CASE Fault /\ NextAttempt(w)
    BY <1>0, <1>5, <2>2, NextAttemptGoes, MoveKeepsIInv DEF Ack
  <2> QED BY <1>5, <2>1, <2>2 DEF Ack
<1>6. CASE PublishDlq(w)
  <2>1. dlq' \subseteq Jobs
    BY <1>0, <1>6 DEF PublishDlq, IInv, WorkerOK
  <2> QED BY <1>0, <1>6, <2>1, MoveKeepsIInv DEF PublishDlq
<1>7. CASE AckDlq(w)
  BY <1>0, <1>7, MoveKeepsIInv DEF AckDlq
<1>8. CASE Crash(w)
  BY <1>0, <1>8, MoveKeepsIInv DEF Crash
<1> QED
  BY <1>1, <1>2, <1>3, <1>4, <1>5, <1>6, <1>7, <1>8 DEF Work

-----------------------------------------------------------------------------
(* The theorems *)

LEMMA NextIInv == IInv /\ [Next]_vars => IInv'
<1> SUFFICES ASSUME IInv, [Next]_vars PROVE IInv'
  OBVIOUS
<1>1. ASSUME NEW j \in Jobs, Request(j)
      PROVE  IInv'
  BY <1>1, RequestIInv
<1>2. ASSUME NEW j \in Jobs, Expire(j) \/ LoseJob(j)
      PROVE  IInv'
  BY <1>2, RedisIInv
<1>3. ASSUME NEW w \in Workers, Work(w) \/ Crash(w)
      PROVE  IInv'
  BY <1>3, WorkIInv
<1>4. CASE UNCHANGED vars
  BY <1>4 DEF vars, IInv, TypeOK, JobOK, WorkerOK, Excused
<1> QED BY <1>1, <1>2, <1>3, <1>4 DEF Next

THEOREM Invariant == Spec => []IInv
BY InitIInv, NextIInv, PTL DEF Spec

\* The types of the state of requests, result keys and workers.
THEOREM TypeCorrect == Spec => []TypeOK
<1>1. IInv => TypeOK
  BY DEF IInv
<1> QED BY <1>1, Invariant, PTL

\* Who reads "completed" finds the alert, through every retry and failure.
THEOREM CompletedMeansCommitted == Spec => []CompletedHasItsAlert
<1>1. IInv => CompletedHasItsAlert
  BY DEF IInv, JobOK, CompletedHasItsAlert
<1> QED BY <1>1, Invariant, PTL

\* An accepted job is unknown only after its TTL.
THEOREM UnknownMeansExpired == Spec => []NotFoundMeansExpired
<1>1. IInv => NotFoundMeansExpired
  BY DEF IInv, JobOK, NotFoundMeansExpired
<1> QED BY <1>1, Invariant, PTL

\* The probe's "ok" and "down" are true of the system.
THEOREM ProbesAreSound == Spec => []ProbeVerdictIsSound
<1>1. IInv => ProbeVerdictIsSound
  BY ConstantsOK DEF IInv, JobOK, Excused, ProbeVerdictIsSound
<1> QED BY <1>1, Invariant, PTL

\* A terminal answer never turns into "pending", whoever writes the key: the
\* only write of "pending" comes before the job's message exists.
THEOREM AnswersAreFinal == Spec => SettledNeverReopens
<1>1. IInv /\ [Next]_vars
      => [\A j \in Jobs : cache[j] \in {"completed", "failed"}
                          => cache'[j] # "pending"]_vars
  <2> SUFFICES ASSUME IInv, Next, NEW k \in Jobs,
                      cache[k] \in {"completed", "failed"}
               PROVE  cache'[k] # "pending"
    OBVIOUS
  <2> USE DEF IInv, TypeOK, Store, StoreRaises
  <2>1. ASSUME NEW j \in Jobs, Request(j)
        PROVE  cache'[k] # "pending"
    <3>1. CASE StorePending(j)
      <4>1. cache[j] = "none"
        BY <3>1 DEF StorePending, JobOK
      <4> QED BY <3>1, <4>1 DEF StorePending
    <3>2. CASE StoreEnqueueFailed(j)
      BY <3>2 DEF StoreEnqueueFailed
    <3>3. CASE UNCHANGED cache
      BY <3>3
    <3> QED
      BY <2>1, <3>1, <3>2, <3>3
         DEF Request, PublishJob, PublishProbe, ProbeSeesResult,
             ProbeTimesOut, ProbeRaises
  <2>2. ASSUME NEW j \in Jobs, Expire(j) \/ LoseJob(j)
        PROVE  cache'[k] # "pending"
    BY <2>2 DEF Expire, LoseJob
  <2>3. ASSUME NEW w \in Workers, Work(w) \/ Crash(w)
        PROVE  cache'[k] # "pending"
    <3>1. CASE StoreCompleted(w) \/ StoreFailed(w)
      BY <3>1 DEF StoreCompleted, StoreFailed
    <3>2. CASE UNCHANGED cache
      BY <3>2
    <3> QED
      BY <2>3, <3>1, <3>2
         DEF Work, TakeJob, Classify, Persist, PersistRaises, Ack,
             PublishDlq, AckDlq, Crash
  <2> QED BY <2>1, <2>2, <2>3 DEF Next
<1> QED BY <1>1, Invariant, PTL DEF Spec, SettledNeverReopens

-----------------------------------------------------------------------------
(* One worker per job *)

OneWorker ==
    \A v, w \in Workers :
        v # w /\ pc[v] \in Busy /\ pc[w] \in Busy => job[v] # job[w]

LEMMA OneWorkerKept == IInv /\ OneWorker /\ [Next]_vars => OneWorker'
<1> SUFFICES ASSUME IInv, OneWorker, [Next]_vars PROVE OneWorker'
  OBVIOUS
<1>1. CASE UNCHANGED <<pc, job>>
  BY <1>1 DEF OneWorker
<1>2. ASSUME NEW w \in Workers, NEW j \in Jobs, TakeJob(w, j)
      PROVE  OneWorker'
  <2>1. /\ \A v \in Workers \ {w} : pc'[v] = pc[v] /\ job'[v] = job[v]
        /\ job'[w] = j
    BY <1>2 DEF TakeJob, Goto, IInv, TypeOK
  <2>2. \A v \in Workers \ {w} : pc[v] \in Busy => job[v] # j
    BY <1>2 DEF TakeJob, IInv, WorkerOK
  <2> QED BY <2>1, <2>2 DEF OneWorker
<1>3. ASSUME NEW w \in Workers, pc[w] \in Busy, UNCHANGED job,
             \A v \in Workers \ {w} : pc'[v] = pc[v]
      PROVE  OneWorker'
  BY <1>3 DEF OneWorker
<1>4. ASSUME NEW w \in Workers, Work(w) \/ Crash(w),
             \A j \in Jobs : ~TakeJob(w, j)
      PROVE  OneWorker'
  <2>1. /\ pc[w] \in Busy /\ UNCHANGED job
        /\ \A v \in Workers \ {w} : pc'[v] = pc[v]
    BY <1>4
       DEF Work, Crash, Classify, Persist, PersistRaises, StoreCompleted,
           StoreFailed, Ack, PublishDlq, AckDlq, NextAttempt, Goto, Busy,
           IInv, TypeOK
  <2> QED BY <1>3, <2>1
<1>5. ASSUME NEW j \in Jobs, Request(j) \/ Expire(j) \/ LoseJob(j)
      PROVE  UNCHANGED workerVars
  BY <1>5
     DEF Request, StorePending, PublishJob, StoreEnqueueFailed, PublishProbe,
         ProbeSeesResult, ProbeTimesOut, ProbeRaises, Expire, LoseJob
<1> QED BY <1>1, <1>2, <1>4, <1>5 DEF Next, vars, Work, workerVars

-----------------------------------------------------------------------------
(* Contradicting outcomes are paid for *)

\* The job may still leave an alert, or its client be told that it failed,
\* without a further failed call.
MayPersist(j) ==
    \/ queue[j] \in {"absent", "queued"}
    \/ \E w \in Workers : job[w] = j /\ pc[w] \in {"classify", "persist"}
MayFail(j) ==
    \/ cache[j] = "failed" \/ api[j] = "failing"
    \/ \E w \in Workers : job[w] = j /\ pc[w] = "storeFailed"

\* What has come, and may still come, of a job; and all beyond the first.
Owed(j) == alerts[j] + (IF MayPersist(j) THEN 1 ELSE 0)
                     + (IF MayFail(j) THEN 1 ELSE 0)
Debts == UNION {{j} \X (2..Owed(j)) : j \in Jobs}

PaidInv == IsFiniteSet(Debts) /\ Cardinality(Debts) <= faults

LEMMA OneMore ==
    ASSUME NEW S, IsFiniteSet(S), NEW x, NEW T \in SUBSET (S \cup {x})
    PROVE  /\ IsFiniteSet(T)
           /\ Cardinality(S) \in Nat /\ Cardinality(T) \in Nat
           /\ Cardinality(T) <= Cardinality(S) + 1
           /\ T \subseteq S => Cardinality(T) <= Cardinality(S)
<1>1. /\ IsFiniteSet(S \cup {x})
      /\ Cardinality(S \cup {x}) <= Cardinality(S) + 1
      /\ Cardinality(S) \in Nat /\ Cardinality(S \cup {x}) \in Nat
  BY FS_AddElement, FS_CardinalityType
<1>2. /\ IsFiniteSet(T) /\ Cardinality(T) \in Nat
      /\ Cardinality(T) <= Cardinality(S \cup {x})
  BY <1>1, FS_Subset, FS_CardinalityType
<1>3. T \subseteq S => Cardinality(T) <= Cardinality(S)
  BY FS_Subset
<1> QED BY <1>1, <1>2, <1>3

LEMMA OwedType ==
    ASSUME TypeOK
    PROVE  \A j \in Jobs : Owed(j) \in Nat
BY DEF TypeOK, Owed

\* A step may raise what is owed for one job by one, for a failed call.
LEMMA DebtsArePaid ==
    ASSUME TypeOK, TypeOK', PaidInv, NEW j \in Jobs,
           \A k \in Jobs \ {j} : Owed(k)' <= Owed(k),
           \/ faults' >= faults /\ Owed(j)' <= Owed(j)
           \/ faults' = faults + 1 /\ Owed(j)' <= Owed(j) + 1
    PROVE  PaidInv'
<1> DEFINE x == <<j, Owed(j) + 1>>
<1>1. \A k \in Jobs : Owed(k) \in Nat /\ Owed(k)' \in Nat
  BY DEF TypeOK, Owed
<1>2. Debts' = UNION {{k} \X (2..Owed(k)') : k \in Jobs}
  BY DEF Debts
<1>3. ASSUME NEW d \in Debts'
      PROVE  /\ d \in Debts \cup {x}
             /\ Owed(j)' <= Owed(j) => d \in Debts
  <2> PICK k \in Jobs : d \in {k} \X (2..Owed(k)')
    BY <1>2
  <2> PICK n \in 2..Owed(k)' : d = <<k, n>>
    OBVIOUS
  <2>1. CASE n <= Owed(k)
    BY <1>1, <2>1 DEF Debts
  <2>2. CASE ~(n <= Owed(k))
    BY <1>1, <2>2
  <2> QED BY <2>1, <2>2
<1>4. /\ IsFiniteSet(Debts) /\ Cardinality(Debts) <= faults
      /\ faults \in Nat /\ faults' \in Nat
  BY ConstantsOK DEF PaidInv, TypeOK
<1>5. /\ IsFiniteSet(Debts')
      /\ Cardinality(Debts) \in Nat /\ Cardinality(Debts') \in Nat
      /\ Cardinality(Debts') <= Cardinality(Debts) + 1
      /\ Debts' \subseteq Debts => Cardinality(Debts') <= Cardinality(Debts)
  BY <1>3, <1>4, OneMore
<1>6. CASE faults' >= faults /\ Owed(j)' <= Owed(j)
  <2>1. Debts' \subseteq Debts
    BY <1>3, <1>6
  <2> QED BY <1>4, <1>5, <1>6, <2>1 DEF PaidInv
<1>7. CASE faults' = faults + 1
  BY <1>4, <1>5, <1>7 DEF PaidInv
<1> QED BY <1>6, <1>7

\* The request, or Redis: no worker moves, and no alert is written.
LEMMA RequestIsPaid ==
    ASSUME IInv, TypeOK', PaidInv, NEW j \in Jobs,
           Request(j) \/ Expire(j) \/ LoseJob(j)
    PROVE  PaidInv'
<1> USE DEF Store, StoreRaises, Enqueue, EnqueueRaises, Answer, Fault
<1>0. TypeOK /\ JobOK(j) /\ faults \in Nat
  BY ConstantsOK DEF IInv, TypeOK
<1>1. UNCHANGED workerVars
      /\ \A k \in Jobs \ {j} :
            api'[k] = api[k] /\ cache'[k] = cache[k] /\ queue'[k] = queue[k]
  BY <1>0
     DEF Request, StorePending, PublishJob, StoreEnqueueFailed, PublishProbe,
         ProbeSeesResult, ProbeTimesOut, ProbeRaises, Expire, LoseJob,
         workerVars, TypeOK
<1>2. \A k \in Jobs \ {j} : Owed(k)' = Owed(k)
  BY <1>1 DEF Owed, MayPersist, MayFail, workerVars
<1>3. queue'[j] \in {"absent", "queued"} => queue[j] \in {"absent", "queued"}
  BY <1>0
     DEF Request, StorePending, PublishJob, StoreEnqueueFailed, PublishProbe,
         ProbeSeesResult, ProbeTimesOut, ProbeRaises, Expire, LoseJob,
         TypeOK, JobOK
<1>4. MayPersist(j)' => MayPersist(j)
  BY <1>1, <1>3 DEF MayPersist, workerVars
<1>5. \/ cache'[j] = "failed" \/ api'[j] = "failing"
         => \/ cache[j] = "failed" \/ api[j] = "failing"
      \/ faults' = faults + 1
  BY <1>0
     DEF Request, StorePending, PublishJob, StoreEnqueueFailed, PublishProbe,
         ProbeSeesResult, ProbeTimesOut, ProbeRaises, Expire, LoseJob,
         TypeOK
<1>6. (MayFail(j)' => MayFail(j)) \/ faults' = faults + 1
  BY <1>1, <1>5 DEF MayFail, workerVars
<1>7. faults' >= faults
  BY <1>0
     DEF Request, StorePending, PublishJob, StoreEnqueueFailed, PublishProbe,
         ProbeSeesResult, ProbeTimesOut, ProbeRaises, Expire, LoseJob
<1>8. \/ Owed(j)' <= Owed(j)
      \/ faults' = faults + 1 /\ Owed(j)' <= Owed(j) + 1
  BY <1>0, <1>1, <1>4, <1>6 DEF Owed, TypeOK, workerVars
<1>9. \A k \in Jobs : Owed(k) \in Nat
  BY <1>0 DEF Owed, TypeOK
<1> QED BY <1>0, <1>2, <1>7, <1>8, <1>9, DebtsArePaid

\* What a busy worker alone says of its job, before and after its step.
LEMMA BusyOwes ==
    ASSUME IInv, OneWorker, NEW w \in Workers, pc[w] \in Busy,
           UNCHANGED <<api, queue, job>>,
           \A v \in Workers \ {w} : pc'[v] = pc[v],
           \A k \in Jobs \ {job[w]} :
              alerts'[k] = alerts[k] /\ cache'[k] = cache[k]
    PROVE  /\ job[w] \in Jobs
           /\ MayPersist(job[w]) <=> pc[w] \in {"classify", "persist"}
           /\ MayPersist(job[w])' <=> pc'[w] \in {"classify", "persist"}
           /\ MayFail(job[w]) <=> \/ cache[job[w]] = "failed"
                                  \/ api[job[w]] = "failing"
                                  \/ pc[w] = "storeFailed"
           /\ MayFail(job[w])' <=> \/ cache'[job[w]] = "failed"
                                   \/ api[job[w]] = "failing"
                                   \/ pc'[w] = "storeFailed"
           /\ \A k \in Jobs \ {job[w]} : Owed(k)' = Owed(k)
<1> DEFINE j == job[w]
<1>1. j \in Jobs /\ queue[j] = "taken"
  BY DEF IInv, WorkerOK
<1>2. \A v \in Workers \ {w} : job[v] = j => pc[v] \notin Busy
  BY DEF OneWorker
<1>3. {"classify", "persist", "storeFailed"} \subseteq Busy
  BY DEF Busy
<1>4. /\ MayPersist(j) <=> pc[w] \in {"classify", "persist"}
      /\ MayFail(j) <=> \/ cache[j] = "failed" \/ api[j] = "failing"
                        \/ pc[w] = "storeFailed"
  BY <1>1, <1>2, <1>3 DEF MayPersist, MayFail
<1>5. /\ MayPersist(j)' <=> pc'[w] \in {"classify", "persist"}
      /\ MayFail(j)' <=> \/ cache'[j] = "failed" \/ api[j] = "failing"
                         \/ pc'[w] = "storeFailed"
  BY <1>1, <1>2, <1>3 DEF MayPersist, MayFail
<1>6. ASSUME NEW k \in Jobs \ {j}
      PROVE  Owed(k)' = Owed(k)
  <2>1. MayPersist(k)' <=> MayPersist(k)
    BY DEF MayPersist
  <2>2. MayFail(k)' <=> MayFail(k)
    BY DEF MayFail
  <2>3. alerts'[k] = alerts[k]
    OBVIOUS
  <2> QED BY <2>1, <2>2, <2>3 DEF Owed
<1> QED BY <1>1, <1>4, <1>5, <1>6

\* A worker's step within its job.
LEMMA BusyIsPaid ==
    ASSUME IInv, TypeOK', OneWorker, PaidInv, NEW w \in Workers,
           \/ Classify(w) \/ Persist(w) \/ PersistRaises(w)
           \/ StoreCompleted(w) \/ StoreFailed(w) \/ Ack(w)
           \/ PublishDlq(w) \/ AckDlq(w) \/ Crash(w)
    PROVE  PaidInv'
<1> USE DEF Store, StoreRaises, Fault, Goto
<1>0. TypeOK /\ faults \in Nat /\ alerts \in [Jobs -> Nat]
  BY ConstantsOK DEF IInv, TypeOK
<1>1. pc[w] \in Busy /\ job[w] \in Jobs
  BY DEF Classify, Persist, PersistRaises, StoreCompleted, StoreFailed, Ack,
         PublishDlq, AckDlq, Crash, Busy, IInv, WorkerOK
<1> PICK j \in Jobs : j = job[w]
  BY <1>1
<1>2. /\ UNCHANGED <<api, queue, job>>
      /\ \A v \in Workers \ {w} : pc'[v] = pc[v]
      /\ faults' \in {faults, faults + 1}
      /\ job'[w] = j
  BY <1>0 DEF Classify, Persist, PersistRaises, StoreCompleted, StoreFailed,
              Ack, PublishDlq, AckDlq, Crash, NextAttempt, TypeOK
<1>3. \A k \in Jobs \ {j} : alerts'[k] = alerts[k] /\ cache'[k] = cache[k]
  BY <1>0, <1>1 DEF Classify, Persist, PersistRaises, StoreCompleted,
         StoreFailed, Ack, PublishDlq, AckDlq, Crash, TypeOK
<1>4. /\ MayPersist(j) <=> pc[w] \in {"classify", "persist"}
      /\ MayPersist(j)' <=> pc'[w] \in {"classify", "persist"}
      /\ MayFail(j) <=> \/ cache[j] = "failed" \/ api[j] = "failing"
                        \/ pc[w] = "storeFailed"
      /\ MayFail(j)' <=> \/ cache'[j] = "failed" \/ api[j] = "failing"
                         \/ pc'[w] = "storeFailed"
      /\ \A k \in Jobs \ {j} : Owed(k)' = Owed(k)
  BY <1>1, <1>2, <1>3, BusyOwes DEF TypeOK
<1> DEFINE fine == \/ Owed(j)' <= Owed(j)
                   \/ faults' = faults + 1 /\ Owed(j)' <= Owed(j) + 1
<1>5. ASSUME Classify(w)
      PROVE  fine
  <2>1. pc[w] = "classify" /\ pc'[w] \in {"persist", "storeFailed"}
        /\ alerts' = alerts /\ cache' = cache
    BY <1>0, <1>5 DEF Classify, TypeOK
  <2>2. fine
    BY <1>0, <1>1, <1>4, <2>1 DEF Owed
  <2> QED BY <2>2
<1>6. ASSUME Persist(w) \/ PersistRaises(w)
      PROVE  fine
  <2>1. /\ pc[w] = "persist" /\ cache' = cache
        /\ \/ pc'[w] = "storeCompleted"
           \/ pc'[w] = "storeFailed" /\ faults' = faults + 1
        /\ alerts'[j] \in {alerts[j], alerts[j] + 1}
    BY <1>0, <1>1, <1>6 DEF Persist, PersistRaises, TypeOK
  <2>2. fine
    BY <1>0, <1>1, <1>4, <2>1 DEF Owed
  <2> QED BY <2>2
<1>7. ASSUME StoreCompleted(w)
      PROVE  fine
  <2>1. /\ pc[w] = "storeCompleted" /\ alerts' = alerts
        /\ \/ pc'[w] = "ack"
           \/ pc'[w] = "storeFailed" /\ faults' = faults + 1
        /\ cache'[j] \in {cache[j], "completed"}
    BY <1>0, <1>1, <1>7 DEF StoreCompleted, TypeOK
  <2>2. fine
    BY <1>0, <1>1, <1>4, <2>1 DEF Owed
  <2> QED BY <2>2
<1>8. ASSUME StoreFailed(w) \/ Ack(w)
      PROVE  fine
  <2>1. /\ pc[w] \in {"storeFailed", "ack"} /\ alerts' = alerts
        /\ \/ pc'[w] \in {"ack", "reading"}
           \/ pc'[w] \in {"classify", "dlq"} /\ faults' = faults + 1
        /\ cache'[j] # cache[j] => pc[w] = "storeFailed"
    BY <1>0, <1>1, <1>8 DEF StoreFailed, Ack, NextAttempt, TypeOK
  <2>2. fine
    BY <1>0, <1>1, <1>4, <2>1 DEF Owed
  <2> QED BY <2>2
<1>9. ASSUME PublishDlq(w) \/ AckDlq(w) \/ Crash(w)
      PROVE  fine
  <2>1. /\ alerts' = alerts /\ cache' = cache
        /\ pc'[w] \in {"dlqack", "reading", "dead"}
    BY <1>0, <1>9 DEF PublishDlq, AckDlq, Crash, TypeOK
  <2>2. fine
    BY <1>0, <1>1, <1>4, <2>1 DEF Owed
  <2> QED BY <2>2
<1>10. fine
  BY <1>5, <1>6, <1>7, <1>8, <1>9
<1>11. \A k \in Jobs : Owed(k) \in Nat
  BY <1>0, OwedType
<1>12. /\ faults' >= faults
       /\ \A k \in Jobs \ {j} : Owed(k)' <= Owed(k)
  BY <1>0, <1>2, <1>4, <1>11
<1> QED BY <1>0, <1>1, <1>10, <1>12, DebtsArePaid

\* A job taken from the stream may be persisted as before.
LEMMA TakeJobIsPaid ==
    ASSUME IInv, TypeOK', PaidInv, NEW w \in Workers, NEW j \in Jobs,
           TakeJob(w, j)
    PROVE  PaidInv'
<1>0. TypeOK /\ faults \in Nat
  BY ConstantsOK DEF IInv, TypeOK
<1>1. /\ UNCHANGED <<api, cache, alerts, faults>>
      /\ queue[j] = "queued" /\ pc[w] = "reading" /\ pc'[w] = "classify"
      /\ job'[w] = j
      /\ \A k \in Jobs \ {j} : queue'[k] = queue[k]
      /\ \A v \in Workers \ {w} : pc'[v] = pc[v] /\ job'[v] = job[v]
  BY <1>0 DEF TakeJob, Goto, TypeOK
<1>2. ASSUME NEW k \in Jobs
      PROVE  (MayPersist(k)' => MayPersist(k)) /\ (MayFail(k)' => MayFail(k))
  <2>1. MayPersist(k)' => MayPersist(k)
    BY <1>1 DEF MayPersist
  <2>2. MayFail(k)' => MayFail(k)
    BY <1>1 DEF MayFail
  <2> QED BY <2>1, <2>2
<1>3. \A k \in Jobs : Owed(k)' <= Owed(k)
  BY <1>0, <1>1, <1>2 DEF Owed, TypeOK
<1> QED BY <1>0, <1>1, <1>3, DebtsArePaid

LEMMA NextPaidInv ==
    IInv /\ IInv' /\ OneWorker /\ PaidInv /\ [Next]_vars => PaidInv'
<1> SUFFICES ASSUME IInv, TypeOK', OneWorker, PaidInv, [Next]_vars
             PROVE  PaidInv'
  BY DEF IInv
<1>1. CASE UNCHANGED vars
  <2>1. \A j \in Jobs : Owed(j)' = Owed(j)
    BY <1>1 DEF vars, Owed, MayPersist, MayFail
  <2>2. Debts' = Debts /\ UNCHANGED faults
    BY <1>1, <2>1 DEF Debts, vars
  <2> QED BY <2>2 DEF PaidInv
<1>2. ASSUME NEW j \in Jobs, Request(j) \/ Expire(j) \/ LoseJob(j)
      PROVE  PaidInv'
  BY <1>2, RequestIsPaid
<1>3. ASSUME NEW w \in Workers, Work(w) \/ Crash(w)
      PROVE  PaidInv'
  BY <1>3, BusyIsPaid, TakeJobIsPaid DEF Work
<1> QED BY <1>1, <1>2, <1>3 DEF Next

LEMMA InitPaidInv == Init => PaidInv
<1> SUFFICES ASSUME Init PROVE PaidInv
  OBVIOUS
<1>1. ASSUME NEW j \in Jobs
      PROVE  Owed(j) <= 1 /\ Owed(j) \in Nat
  <2>1. ~MayFail(j) /\ alerts[j] = 0
    BY DEF Init, MayFail
  <2> QED BY <2>1 DEF Owed
<1>2. Debts = {}
  BY <1>1 DEF Debts
<1>3. IsFiniteSet(Debts) /\ Cardinality(Debts) = 0
  BY <1>2, FS_EmptySet
<1> QED BY <1>3 DEF Init, PaidInv

\* However requests, retries and failing calls interleave, each contradicting
\* outcome of a job has a failed call that pays for it.
THEOREM DivergenceIsPaidFor == Spec => []DivergencePaidByFaults
<1>1. IInv /\ PaidInv => DivergencePaidByFaults
  <2> SUFFICES ASSUME IInv, PaidInv PROVE DivergencePaidByFaults
    OBVIOUS
  <2>1. \A j \in Jobs : Outcomes(j) \in Nat /\ Owed(j) \in Nat
                        /\ Outcomes(j) <= Owed(j)
    BY DEF IInv, TypeOK, Outcomes, Owed, MayFail
  <2>2. Superfluous \subseteq Debts
    <3> SUFFICES ASSUME NEW d \in Superfluous PROVE d \in Debts
      OBVIOUS
    <3> PICK j \in Jobs : d \in {j} \X (2..Outcomes(j))
      BY DEF Superfluous
    <3>1. d \in {j} \X (2..Owed(j))
      BY <2>1
    <3> QED BY <3>1 DEF Debts
  <2>3. Cardinality(Superfluous) <= Cardinality(Debts)
        /\ Cardinality(Superfluous) \in Nat /\ Cardinality(Debts) \in Nat
    BY <2>2, FS_Subset, FS_CardinalityType DEF PaidInv
  <2>4. faults \in Nat
    BY ConstantsOK DEF IInv, TypeOK
  <2> QED BY <2>3, <2>4 DEF PaidInv, DivergencePaidByFaults
<1>2. Init => OneWorker
  BY DEF Init, OneWorker, Busy
<1> QED
  BY <1>1, <1>2, InitPaidInv, NextPaidInv, OneWorkerKept, Invariant, PTL
     DEF Spec

-----------------------------------------------------------------------------
(* What the DLQ costs *)

\* The k-th attempt at a job has failed, and the job is in the DLQ or still
\* in some worker's hands.
AttemptFailed(j, k) ==
    \/ j \in dlq
    \/ \E w \in Workers :
          /\ job[w] = j
          /\ \/ pc[w] \in {"dlq", "dlqack"}
             \/ pc[w] \in Busy /\ k < attempt[w]
FailedAttempts ==
    {d \in Jobs \X (1..Attempts) : AttemptFailed(d[1], d[2])}

DlqInv ==
    /\ IsFiniteSet(FailedAttempts) /\ IsFiniteSet(dlq)
    /\ Cardinality(FailedAttempts) <= faults

\* A step adds one failed attempt for a failed call, or none.
LEMMA AttemptsArePaid ==
    ASSUME TypeOK, TypeOK', DlqInv, NEW w \in Workers,
           \/ faults' >= faults
              /\ \A j \in Jobs, k \in 1..Attempts :
                    AttemptFailed(j, k)' => AttemptFailed(j, k)
           \/ faults' = faults + 1
              /\ \A j \in Jobs, k \in 1..Attempts :
                    AttemptFailed(j, k)' => \/ AttemptFailed(j, k)
                                            \/ j = job[w] /\ k = attempt[w],
           dlq' = dlq \/ \E j \in Jobs : dlq' = dlq \cup {j}
    PROVE  DlqInv'
<1> DEFINE x == <<job[w], attempt[w]>>
<1>1. FailedAttempts' = {d \in Jobs \X (1..Attempts) :
                            AttemptFailed(d[1], d[2])'}
  BY DEF FailedAttempts
<1>2. /\ IsFiniteSet(FailedAttempts) /\ Cardinality(FailedAttempts) <= faults
      /\ faults \in Nat /\ faults' \in Nat
  BY ConstantsOK DEF DlqInv, TypeOK
<1>3. IsFiniteSet(dlq)'
  BY FS_AddElement DEF DlqInv
<1>4. CASE faults' >= faults
           /\ \A j \in Jobs, k \in 1..Attempts :
                    AttemptFailed(j, k)' => AttemptFailed(j, k)
  <2>1. FailedAttempts' \subseteq FailedAttempts
    BY <1>1, <1>4 DEF FailedAttempts
  <2>2. /\ IsFiniteSet(FailedAttempts')
        /\ Cardinality(FailedAttempts') <= Cardinality(FailedAttempts)
        /\ Cardinality(FailedAttempts) \in Nat
        /\ Cardinality(FailedAttempts') \in Nat
    BY <1>2, <2>1, FS_Subset, FS_CardinalityType
  <2> QED BY <1>2, <1>3, <1>4, <2>2 DEF DlqInv
<1>5. CASE faults' = faults + 1
           /\ \A j \in Jobs, k \in 1..Attempts :
                    AttemptFailed(j, k)' => \/ AttemptFailed(j, k)
                                            \/ j = job[w] /\ k = attempt[w]
  <2>1. FailedAttempts' \subseteq FailedAttempts \cup {x}
    <3> SUFFICES ASSUME NEW d \in FailedAttempts'
                 PROVE  d \in FailedAttempts \cup {x}
      OBVIOUS
    <3> PICK j \in Jobs, k \in 1..Attempts : d = <<j, k>>
      BY <1>1
    <3>1. AttemptFailed(j, k)'
      BY <1>1
    <3>2. CASE AttemptFailed(j, k)
      BY <3>2 DEF FailedAttempts
    <3>3. CASE j = job[w] /\ k = attempt[w]
      BY <3>3
    <3> QED BY <1>5, <3>1, <3>2, <3>3
  <2>2. /\ IsFiniteSet(FailedAttempts')
        /\ Cardinality(FailedAttempts') <= Cardinality(FailedAttempts) + 1
        /\ Cardinality(FailedAttempts) \in Nat
        /\ Cardinality(FailedAttempts') \in Nat
    BY <1>2, <2>1, OneMore
  <2> QED BY <1>2, <1>3, <1>5, <2>2 DEF DlqInv
<1> QED BY <1>4, <1>5

LEMMA WorkPaysAttempts ==
    ASSUME IInv, TypeOK', DlqInv, NEW w \in Workers, Work(w) \/ Crash(w)
    PROVE  DlqInv'
<1>0. TypeOK /\ faults \in Nat /\ Attempts \in Nat \ {0}
  BY ConstantsOK, AttemptsOK DEF IInv, TypeOK
<1> USE DEF Goto
<1>1. ASSUME NEW j \in Jobs, TakeJob(w, j)
      PROVE  DlqInv'
  <2>1. /\ pc[w] = "reading" /\ pc'[w] = "classify" /\ attempt'[w] = 1
        /\ UNCHANGED <<dlq, faults>>
        /\ \A v \in Workers \ {w} :
              pc'[v] = pc[v] /\ job'[v] = job[v] /\ attempt'[v] = attempt[v]
    BY <1>0, <1>1 DEF TakeJob, TypeOK
  <2>2. \A i \in Jobs, k \in 1..Attempts :
           AttemptFailed(i, k)' => AttemptFailed(i, k)
    BY <2>1 DEF AttemptFailed
  <2> QED BY <1>0, <2>1, <2>2, AttemptsArePaid
<1>2. CASE Fault /\ NextAttempt(w) /\ (StoreFailed(w) \/ Ack(w))
  <2>1. /\ pc[w] \in {"storeFailed", "ack"}
        /\ UNCHANGED <<dlq, job>> /\ faults' = faults + 1
        /\ \/ pc'[w] = "classify" /\ attempt'[w] = attempt[w] + 1
           \/ pc'[w] = "dlq" /\ attempt[w] = Attempts
        /\ attempt[w] \in 0..Attempts
        /\ \A v \in Workers \ {w} :
              pc'[v] = pc[v] /\ attempt'[v] = attempt[v]
    BY <1>0, <1>2 DEF Fault, NextAttempt, StoreFailed, Ack, TypeOK
  <2>2. ASSUME NEW i \in Jobs, NEW k \in 1..Attempts, AttemptFailed(i, k)'
        PROVE  AttemptFailed(i, k) \/ (i = job[w] /\ k = attempt[w])
    <3>1. CASE \E v \in Workers \ {w} :
                  /\ job[v] = i
                  /\ \/ pc[v] \in {"dlq", "dlqack"}
                     \/ pc[v] \in Busy /\ k < attempt[v]
      BY <3>1 DEF AttemptFailed
    <3>2. CASE job[w] = i /\ k <= attempt[w]
      <4>1. pc[w] \in Busy
        BY <2>1 DEF Busy
      <4> QED BY <1>0, <2>1, <3>2, <4>1 DEF AttemptFailed
    <3>3. CASE i \in dlq
      BY <3>3 DEF AttemptFailed
    <3> QED BY <1>0, <2>1, <2>2, <3>1, <3>2, <3>3 DEF AttemptFailed
  <2> QED BY <1>0, <2>1, <2>2, AttemptsArePaid
<1>3. ASSUME Work(w) \/ Crash(w),
             ~(\E j \in Jobs : TakeJob(w, j)),
             ~(Fault /\ NextAttempt(w) /\ (StoreFailed(w) \/ Ack(w)))
      PROVE  DlqInv'
  <2>0. DOMAIN pc = Workers
    BY <1>0 DEF TypeOK
  <2>1. \/ Classify(w) \/ Persist(w) \/ PersistRaises(w)
        \/ StoreCompleted(w)
        \/ StoreFailed(w) /\ Goto(w, "ack") /\ UNCHANGED <<attempt, faults>>
        \/ Ack(w) /\ Goto(w, "reading") /\ UNCHANGED <<attempt, faults>>
        \/ PublishDlq(w) \/ AckDlq(w) \/ Crash(w)
    BY <1>3 DEF Work, StoreFailed, StoreRaises, Ack
  <2>2. /\ pc[w] \in Busy
        /\ pc'[w] \in {"dlq", "dlqack"} => pc[w] \in {"dlq", "dlqack"}
        /\ \A v \in Workers \ {w} : pc'[v] = pc[v]
    BY <2>0, <2>1
       DEF Classify, Persist, PersistRaises, StoreCompleted, StoreFailed, Ack,
           PublishDlq, AckDlq, Crash, Busy
  <2>3. /\ UNCHANGED <<job, attempt>> /\ faults' >= faults
        /\ UNCHANGED dlq \/ (PublishDlq(w) /\ pc[w] = "dlq")
    BY <1>0, <2>1
       DEF Classify, Persist, PersistRaises, StoreCompleted, StoreFailed,
           StoreRaises, Ack, PublishDlq, AckDlq, Crash, Fault
  <2>4. UNCHANGED dlq \/ (pc[w] = "dlq" /\ dlq' = dlq \cup {job[w]})
    BY <2>3 DEF PublishDlq
  <2>5. \A i \in Jobs, k \in 1..Attempts :
           AttemptFailed(i, k)' => AttemptFailed(i, k)
    BY <2>2, <2>3, <2>4 DEF AttemptFailed
  <2>6. job[w] \in Jobs
    BY <2>2 DEF IInv, WorkerOK
  <2> QED BY <1>0, <2>3, <2>4, <2>5, <2>6, AttemptsArePaid
<1> QED BY <1>1, <1>2, <1>3

LEMMA NextDlqInv == IInv /\ IInv' /\ DlqInv /\ [Next]_vars => DlqInv'
<1> SUFFICES ASSUME IInv, TypeOK', DlqInv, [Next]_vars PROVE DlqInv'
  BY DEF IInv
<1>1. CASE UNCHANGED workerVars /\ faults' >= faults
  <2>1. FailedAttempts' = FailedAttempts
    BY <1>1 DEF FailedAttempts, AttemptFailed, workerVars
  <2>2. /\ IsFiniteSet(FailedAttempts)
        /\ Cardinality(FailedAttempts) \in Nat
        /\ faults \in Nat /\ faults' \in Nat
    BY ConstantsOK, FS_CardinalityType DEF DlqInv, IInv, TypeOK
  <2>3. Cardinality(FailedAttempts) <= faults' /\ IsFiniteSet(dlq')
    BY <1>1, <2>2 DEF DlqInv, workerVars
  <2> QED BY <2>1, <2>2, <2>3 DEF DlqInv
<1>2. ASSUME NEW j \in Jobs, Request(j) \/ Expire(j) \/ LoseJob(j)
      PROVE  UNCHANGED workerVars /\ faults' >= faults
  <2>1. faults \in Nat
    BY ConstantsOK DEF IInv, TypeOK
  <2> QED
    BY <1>2, <2>1
       DEF Request, StorePending, PublishJob, StoreEnqueueFailed,
           PublishProbe, ProbeSeesResult, ProbeTimesOut, ProbeRaises, Expire,
           LoseJob, StoreRaises, EnqueueRaises, Fault, workerVars
<1>3. CASE UNCHANGED vars
  <2>1. UNCHANGED workerVars /\ faults' >= faults
    BY <1>3, ConstantsOK DEF vars, workerVars, IInv, TypeOK
  <2> QED BY <1>1, <2>1
<1> QED BY <1>1, <1>2, <1>3, WorkPaysAttempts DEF Next

\* A job in the DLQ lost a Redis call on each of its attempts, and no call
\* counts for two of them.
THEOREM DlqIsPaidFor == Spec => []DlqNeedsAFaultPerAttempt
<1>1. Init => DlqInv
  <2> SUFFICES ASSUME Init PROVE DlqInv
    OBVIOUS
  <2>1. FailedAttempts = {}
    BY DEF Init, FailedAttempts, AttemptFailed, Busy
  <2> QED BY <2>1, FS_EmptySet DEF Init, DlqInv
<1>2. IInv /\ DlqInv => DlqNeedsAFaultPerAttempt
  <2> SUFFICES ASSUME IInv, DlqInv PROVE DlqNeedsAFaultPerAttempt
    OBVIOUS
  <2>1. Attempts \in Nat \ {0} /\ faults \in Nat /\ dlq \subseteq Jobs
    BY AttemptsOK, ConstantsOK DEF IInv, TypeOK
  <2>2. /\ IsFiniteSet(1..Attempts)
        /\ Cardinality(1..Attempts) = Attempts
    BY <2>1, FS_Interval
  <2>3. /\ IsFiniteSet(dlq) /\ Cardinality(dlq) \in Nat
        /\ Cardinality(dlq \X (1..Attempts)) = Cardinality(dlq) * Attempts
    BY <2>2, FS_Product, FS_CardinalityType DEF DlqInv
  <2>4. dlq \X (1..Attempts) \subseteq FailedAttempts
    BY <2>1 DEF FailedAttempts, AttemptFailed
  <2>5. /\ Cardinality(dlq \X (1..Attempts)) <= Cardinality(FailedAttempts)
        /\ Cardinality(FailedAttempts) \in Nat
    BY <2>4, FS_Subset, FS_CardinalityType DEF DlqInv
  <2>6. Cardinality(dlq) * Attempts <= faults
    BY <2>1, <2>3, <2>5 DEF DlqInv
  <2> QED BY <2>1, <2>3, <2>6 DEF DlqNeedsAFaultPerAttempt
<1> QED BY <1>1, <1>2, NextDlqInv, Invariant, PTL DEF Spec

-----------------------------------------------------------------------------
(***************************************************************************)
(* The proof that PredictJobs implements MessageFate, as StreamWorker      *)
(* does: what PredictJobs takes a stream for is what the broker promises.  *)
(***************************************************************************)

\* The fate of j and its owner, without CHOOSE.
FateIs(j) ==
    /\ FateOf(j) \in {"absent", "waiting", "lost", "inflight", "settled",
                      "stranded"}
    /\ OwnerOf(j) \in Workers \cup {"nobody"}
    /\ FateOf(j) = "inflight" <=> OwnerOf(j) # "nobody"
    /\ HasOwner(j) => queue[j] = "taken"
    /\ ~HasOwner(j) => OwnerOf(j) = "nobody"
    /\ \A w \in Workers : InHand(w, j) => OwnerOf(j) = w

LEMMA FateIsKnown ==
    ASSUME IInv, OneWorker, NEW j \in Jobs
    PROVE  FateIs(j)
<1>1. queue[j] \in {"absent", "queued", "taken", "lost"}
  BY DEF IInv, TypeOK
<1>2. HasOwner(j) => queue[j] = "taken"
  BY DEF HasOwner, InHand, IInv, WorkerOK
<1>3. ASSUME NEW w \in Workers, InHand(w, j)
      PROVE  OwnerOf(j) = w /\ HasOwner(j)
  <2> DEFINE o == CHOOSE v \in Workers : InHand(v, j)
  <2>1. o \in Workers /\ InHand(o, j)
    BY <1>3
  <2>2. o = w
    BY <1>3, <2>1 DEF OneWorker, InHand
  <2>3. HasOwner(j)
    BY <1>3 DEF HasOwner
  <2> QED BY <2>2, <2>3 DEF OwnerOf
<1>4. IF HasOwner(j) THEN OwnerOf(j) \in Workers ELSE OwnerOf(j) = "nobody"
  BY <1>3 DEF HasOwner, OwnerOf
<1>5. FateOf(j) = "inflight" <=> HasOwner(j)
  BY <1>1, <1>2 DEF FateOf
<1>6. FateOf(j) \in {"absent", "waiting", "lost", "inflight", "settled",
                     "stranded"}
  BY <1>1 DEF FateOf
<1>7. FateOf(j) = "inflight" <=> OwnerOf(j) # "nobody"
  BY <1>4, <1>5, ConstantsOK DEF ConstantsOK
<1> QED BY <1>2, <1>3, <1>4, <1>6, <1>7 DEF FateIs

\* What MessageFate allows to happen to j in one step.
FateMoves(j) ==
    \/ FateOf(j)' = FateOf(j) /\ OwnerOf(j)' = OwnerOf(j)
    \/ <<FateOf(j), FateOf(j)'>> \in Fate!Moves

\* Requests and Redis move a message on, and no worker's hands.
LEMMA QueueMovesFate ==
    ASSUME NEW j \in Jobs, UNCHANGED workerVars,
           \/ queue'[j] = queue[j]
           \/ queue[j] = "absent" /\ queue'[j] = "queued"
           \/ queue[j] = "queued" /\ queue'[j] = "lost"
    PROVE  FateMoves(j)
<1>1. /\ HasOwner(j)' <=> HasOwner(j)
      /\ OwnerOf(j)' = OwnerOf(j)
  BY DEF workerVars, HasOwner, InHand, OwnerOf
<1>2. CASE queue'[j] = queue[j]
  BY <1>1, <1>2 DEF FateOf, FateMoves, workerVars
<1>3. CASE queue[j] = "absent" /\ queue'[j] = "queued"
  BY <1>3 DEF FateOf, FateMoves, Fate!Moves
<1>4. CASE queue[j] = "queued" /\ queue'[j] = "lost"
  BY <1>4 DEF FateOf, FateMoves, Fate!Moves
<1> QED BY <1>2, <1>3, <1>4

\* A worker goes on with its job, or lets go of it.
LEMMA WorkMovesFate ==
    ASSUME IInv, OneWorker, NEW w \in Workers, pc[w] \in Busy,
           UNCHANGED <<queue, job>>,
           \A v \in Workers \ {w} : pc'[v] = pc[v],
           NEW j \in Jobs, FateIs(j), FateIs(j)'
    PROVE  FateMoves(j)
<1>1. CASE job[w] # j
  <2>1. \A v \in Workers : InHand(v, j)' <=> InHand(v, j)
    BY <1>1 DEF InHand
  <2>2. HasOwner(j)' <=> HasOwner(j)
    BY <2>1 DEF HasOwner
  <2>3. OwnerOf(j)' = OwnerOf(j)
    BY <2>1, <2>2 DEF FateIs, HasOwner
  <2>4. (\E v \in Workers : pc[v] = "dead" /\ job[v] = j)'
            <=> \E v \in Workers : pc[v] = "dead" /\ job[v] = j
    BY <1>1
  <2>5. FateOf(j)' = FateOf(j)
    BY <2>2, <2>4 DEF FateOf
  <2> QED BY <2>3, <2>5 DEF FateMoves
<1>2. CASE job[w] = j
  <2>1. InHand(w, j) /\ HasOwner(j) /\ OwnerOf(j) = w /\ queue[j] = "taken"
    BY <1>2 DEF InHand, HasOwner, FateIs
  <2>2. FateOf(j) = "inflight"
    BY <2>1 DEF FateOf
  <2>3. CASE HasOwner(j)'
    <3>1. InHand(w, j)'
      BY <1>2, <2>3 DEF HasOwner, InHand, OneWorker
    <3>2. OwnerOf(j)' = w /\ FateOf(j)' = "inflight"
      BY <2>1, <2>3, <3>1 DEF FateIs, FateOf
    <3> QED BY <2>1, <2>2, <3>2 DEF FateMoves
  <2>4. CASE ~HasOwner(j)'
    <3>1. FateOf(j)' \in {"settled", "stranded"}
      BY <2>1, <2>4 DEF FateOf
    <3> QED BY <2>2, <3>1 DEF FateMoves, Fate!Moves
  <2> QED BY <2>3, <2>4
<1> QED BY <1>1, <1>2

\* A worker is handed a job, and forgets the one before it, which was settled.
LEMMA TakeJobMovesFate ==
    ASSUME IInv, NEW w \in Workers, NEW k \in Jobs, TakeJob(w, k),
           NEW j \in Jobs, FateIs(j), FateIs(j)'
    PROVE  FateMoves(j)
<1>1. /\ pc[w] = "reading" /\ queue[k] = "queued" /\ queue'[k] = "taken"
      /\ job'[w] = k /\ pc'[w] = "classify"
      /\ \A v \in Workers \ {w} : job'[v] = job[v] /\ pc'[v] = pc[v]
      /\ \A i \in Jobs \ {k} : queue'[i] = queue[i]
  BY DEF TakeJob, Goto, IInv, TypeOK
<1>2. CASE j = k
  <2>1. InHand(w, j)'
    BY <1>1, <1>2 DEF InHand, Busy
  <2>2. HasOwner(j)'
    BY <2>1 DEF HasOwner
  <2>3. FateOf(j) = "waiting" /\ FateOf(j)' = "inflight"
    BY <1>1, <1>2, <2>2 DEF FateOf
  <2> QED BY <2>3 DEF FateMoves, Fate!Moves
<1>3. CASE j # k
  <2>1. \A v \in Workers : InHand(v, j)' <=> InHand(v, j)
    BY <1>1, <1>3 DEF InHand, Busy
  <2>2. HasOwner(j)' <=> HasOwner(j)
    BY <2>1 DEF HasOwner
  <2>3. OwnerOf(j)' = OwnerOf(j)
    BY <2>1, <2>2 DEF FateIs, HasOwner
  <2>4. (\E v \in Workers : pc[v] = "dead" /\ job[v] = j)'
            <=> \E v \in Workers : pc[v] = "dead" /\ job[v] = j
    BY <1>1
  <2>5. FateOf(j)' = FateOf(j)
    BY <1>1, <1>3, <2>2, <2>4 DEF FateOf
  <2> QED BY <2>3, <2>5 DEF FateMoves
<1> QED BY <1>2, <1>3

LEMMA NextMovesFate ==
    ASSUME IInv, IInv', OneWorker, OneWorker', [Next]_vars, NEW j \in Jobs
    PROVE  FateMoves(j)
<1>0. FateIs(j) /\ FateIs(j)'
  <2>1. FateIs(j)
    BY FateIsKnown
  <2>2. (IInv /\ OneWorker => FateIs(j))'
    BY FateIsKnown, PTL
  <2> QED BY <2>1, <2>2
<1>1. ASSUME NEW k \in Jobs, Request(k)
      PROVE  FateMoves(j)
  <2>1. UNCHANGED workerVars
    BY <1>1
       DEF Request, StorePending, PublishJob, StoreEnqueueFailed,
           PublishProbe, ProbeSeesResult, ProbeTimesOut, ProbeRaises
  <2>2. UNCHANGED queue \/ (Enqueue(k) /\ api[k] \in {"idle", "publishing"})
    BY <1>1
       DEF Request, StorePending, PublishJob, StoreEnqueueFailed,
           PublishProbe, ProbeSeesResult, ProbeTimesOut, ProbeRaises,
           EnqueueRaises
  <2>3. Enqueue(k) /\ api[k] \in {"idle", "publishing"}
        => \/ queue'[j] = queue[j]
           \/ queue[j] = "absent" /\ queue'[j] = "queued"
    BY DEF Enqueue, IInv, TypeOK, JobOK
  <2> QED BY <2>1, <2>2, <2>3, QueueMovesFate
<1>2. ASSUME NEW k \in Jobs, Expire(k) \/ LoseJob(k)
      PROVE  FateMoves(j)
  <2>1. UNCHANGED workerVars
    BY <1>2 DEF Expire, LoseJob
  <2>2. \/ queue'[j] = queue[j]
        \/ queue[j] = "queued" /\ queue'[j] = "lost"
    BY <1>2 DEF Expire, LoseJob, IInv, TypeOK
  <2> QED BY <2>1, <2>2, QueueMovesFate
<1>3. ASSUME NEW w \in Workers, Work(w) \/ Crash(w)
      PROVE  FateMoves(j)
  <2>1. CASE \E k \in Jobs : TakeJob(w, k)
    BY <1>0, <2>1, TakeJobMovesFate
  <2>2. CASE \A k \in Jobs : ~TakeJob(w, k)
    <3>1. /\ pc[w] \in Busy /\ UNCHANGED <<queue, job>>
          /\ \A v \in Workers \ {w} : pc'[v] = pc[v]
      BY <1>3, <2>2
         DEF Work, Crash, Classify, Persist, PersistRaises, StoreCompleted,
             StoreFailed, Ack, PublishDlq, AckDlq, NextAttempt, Goto, Busy,
             IInv, TypeOK
    <3> QED BY <1>0, <3>1, WorkMovesFate
  <2> QED BY <2>1, <2>2
<1>4. CASE UNCHANGED vars
  BY <1>4 DEF vars, FateMoves, FateOf, OwnerOf, HasOwner, InHand
<1> QED BY <1>1, <1>2, <1>3, <1>4 DEF Next

\* A job's message is delivered to one worker at most, and settled by it or
\* stranded with it, whatever requests, probes, attempts, the DLQ and failing
\* calls do.
THEOREM JobsImplementMessageFate == Spec => JobIsDeliveredAtMostOnce
<1>1. Init => Fate!Init
  <2> SUFFICES ASSUME Init, NEW j \in Jobs
               PROVE  FateOf(j) = "absent" /\ OwnerOf(j) = "nobody"
    BY DEF Fate!Init
  <2>1. ~HasOwner(j) /\ queue[j] = "absent"
    BY DEF Init, HasOwner, InHand, Busy
  <2> QED BY <2>1 DEF FateOf, OwnerOf
<1>2. Init => OneWorker
  BY DEF Init, OneWorker, Busy
<1>3. IInv /\ IInv' /\ OneWorker /\ OneWorker' /\ [Next]_vars
      => [Fate!Move]_<<[j \in Jobs |-> FateOf(j)],
                       [j \in Jobs |-> OwnerOf(j)]>>
  <2> SUFFICES ASSUME IInv, IInv', OneWorker, OneWorker', [Next]_vars
               PROVE  Fate!Move
    OBVIOUS
  <2>1. ASSUME NEW j \in Jobs
        PROVE  FateMoves(j)
    BY <2>1, NextMovesFate
  <2>2. ASSUME NEW j \in Jobs
        PROVE  /\ FateOf(j)' \in {"absent", "waiting", "lost", "inflight",
                                  "settled", "stranded"}
               /\ OwnerOf(j)' \in Workers \cup {"nobody"}
               /\ FateOf(j)' = "inflight" <=> OwnerOf(j)' # "nobody"
    <3>1. (IInv /\ OneWorker => FateIs(j))'
      BY FateIsKnown, PTL
    <3> QED BY <3>1 DEF FateIs
  <2> QED BY <2>1, <2>2 DEF Fate!Move, FateMoves
<1>4. IInv /\ OneWorker /\ [Next]_vars => OneWorker'
  BY OneWorkerKept
<1> QED
  BY <1>1, <1>2, <1>3, <1>4, Invariant, PTL
     DEF Spec, JobIsDeliveredAtMostOnce, Fate!Spec

-----------------------------------------------------------------------------
(* Jobs are answered before they are let go of *)

Answered(j) ==
    cache[j] \in {"completed", "failed"} \/ j \in expired \cup dlq

AnswersOK ==
    /\ SettledIsAnswered
    /\ \A w \in Workers :
          /\ pc[w] = "ack" => Answered(job[w])
          /\ pc[w] = "dlqack" => job[w] \in dlq

\* An answer stays one, or runs out.
LEMMA AnsweredStays ==
    ASSUME IInv, [Next]_vars, NEW j \in Jobs, queue[j] = "taken", Answered(j)
    PROVE  Answered(j)'
<1> USE DEF Answered
<1>1. cache \in [Jobs -> {"none", "pending", "completed", "failed"}]
  BY DEF IInv, TypeOK
<1>2. ASSUME NEW k \in Jobs, Request(k)
      PROVE  Answered(j)'
  <2>1. UNCHANGED dlq /\ UNCHANGED expired
    BY <1>2
       DEF Request, StorePending, PublishJob, StoreEnqueueFailed,
           PublishProbe, ProbeSeesResult, ProbeTimesOut, ProbeRaises,
           workerVars
  <2>2. CASE StorePending(k)
    <3>1. k # j
      BY <2>2 DEF StorePending, IInv, JobOK
    <3> QED BY <1>1, <2>1, <2>2, <3>1 DEF StorePending, Store, StoreRaises
  <2>3. CASE StoreEnqueueFailed(k)
    BY <1>1, <2>1, <2>3 DEF StoreEnqueueFailed, Store, StoreRaises
  <2>4. CASE UNCHANGED cache
    BY <2>1, <2>4
  <2> QED
    BY <1>2, <2>2, <2>3, <2>4
       DEF Request, PublishJob, PublishProbe, ProbeSeesResult, ProbeTimesOut,
           ProbeRaises
<1>3. ASSUME NEW k \in Jobs, Expire(k) \/ LoseJob(k)
      PROVE  Answered(j)'
  BY <1>1, <1>3 DEF Expire, LoseJob, Store, workerVars
<1>4. ASSUME NEW w \in Workers, Work(w) \/ Crash(w)
      PROVE  Answered(j)'
  <2>1. CASE StoreCompleted(w) \/ StoreFailed(w)
    BY <1>1, <2>1 DEF StoreCompleted, StoreFailed, Store, StoreRaises
  <2>2. CASE UNCHANGED <<cache, expired>> /\ dlq \subseteq dlq'
    BY <2>2
  <2> QED
    BY <1>4, <2>1, <2>2
       DEF Work, TakeJob, Classify, Persist, PersistRaises, Ack, PublishDlq,
           AckDlq, Crash
<1>5. CASE UNCHANGED vars
  BY <1>5 DEF vars
<1> QED BY <1>2, <1>3, <1>4, <1>5 DEF Next

\* A worker lets go of a job by the ack of one of the two kinds, or dies.
LEMMA LettingGo ==
    ASSUME IInv, [Next]_vars, NEW v \in Workers, pc[v] \in Busy,
           pc'[v] \notin Busy
    PROVE  /\ job'[v] = job[v]
           /\ pc'[v] = "dead" \/ pc[v] \in {"ack", "dlqack"}
<1>0. pc \in [Workers -> {"reading", "dead"} \cup Busy]
  BY DEF IInv, TypeOK
<1>1. ASSUME NEW j \in Jobs, Request(j) \/ Expire(j) \/ LoseJob(j)
      PROVE  FALSE
  BY <1>1
     DEF Request, StorePending, PublishJob, StoreEnqueueFailed, PublishProbe,
         ProbeSeesResult, ProbeTimesOut, ProbeRaises, Expire, LoseJob,
         workerVars
<1>2. ASSUME NEW w \in Workers, Work(w) \/ Crash(w)
      PROVE  /\ job'[v] = job[v]
             /\ pc'[v] = "dead" \/ pc[v] \in {"ack", "dlqack"}
  <2>1. CASE \E j \in Jobs : TakeJob(w, j)
    BY <1>0, <2>1 DEF TakeJob, Goto, Busy
  <2>2. CASE Ack(w) \/ AckDlq(w) \/ Crash(w)
    BY <1>0, <2>2 DEF Ack, AckDlq, Crash, NextAttempt, Goto, Busy
  <2>3. CASE \/ Classify(w) \/ Persist(w) \/ PersistRaises(w)
             \/ StoreCompleted(w) \/ StoreFailed(w) \/ PublishDlq(w)
    <3>1. \A u \in Workers : pc[u] \in Busy => pc'[u] \in Busy
      BY <1>0, <2>3
         DEF Classify, Persist, PersistRaises, StoreCompleted, StoreFailed,
             PublishDlq, NextAttempt, Goto, Busy
    <3> QED BY <3>1
  <2> QED BY <1>2, <2>1, <2>2, <2>3 DEF Work
<1>3. ~(UNCHANGED vars)
  BY DEF vars
<1> QED BY <1>1, <1>2, <1>3 DEF Next

\* A worker comes to the ack when it has stored an answer, to that after the
\* DLQ when it has written there.
LEMMA BeforeTheAck ==
    ASSUME IInv, [Next]_vars, NEW v \in Workers,
           pc[v] \notin {"ack", "dlqack"}
    PROVE  /\ pc'[v] = "ack" => Answered(job[v])' /\ job'[v] = job[v]
           /\ pc'[v] = "dlqack" => job'[v] \in dlq'
<1>0. /\ pc \in [Workers -> {"reading", "dead"} \cup Busy]
      /\ cache \in [Jobs -> {"none", "pending", "completed", "failed"}]
      /\ pc[v] \in Busy => job[v] \in Jobs
  BY DEF IInv, TypeOK, WorkerOK
<1>1. CASE pc'[v] = pc[v]
  BY <1>1
<1>2. CASE pc'[v] # pc[v]
  <2>1. ASSUME NEW j \in Jobs, Request(j) \/ Expire(j) \/ LoseJob(j)
        PROVE  FALSE
    BY <1>2, <2>1
       DEF Request, StorePending, PublishJob, StoreEnqueueFailed,
           PublishProbe, ProbeSeesResult, ProbeTimesOut, ProbeRaises, Expire,
           LoseJob, workerVars
  <2>2. ASSUME NEW w \in Workers, Work(w) \/ Crash(w)
        PROVE  /\ pc'[v] = "ack" => Answered(job[v])' /\ job'[v] = job[v]
               /\ pc'[v] = "dlqack" => job'[v] \in dlq'
    <3>1. v = w
      BY <1>0, <1>2, <2>2
         DEF Work, Crash, TakeJob, Classify, Persist, PersistRaises,
             StoreCompleted, StoreFailed, Ack, PublishDlq, AckDlq,
             NextAttempt, Goto
    <3>2. CASE StoreCompleted(w) \/ StoreFailed(w)
      <4>1. pc'[v] # "dlqack" /\ job'[v] = job[v]
        BY <1>0, <3>1, <3>2
           DEF StoreCompleted, StoreFailed, NextAttempt, Goto
      <4>2. pc'[v] = "ack" => cache'[job[v]] \in {"completed", "failed"}
        BY <1>0, <3>1, <3>2
           DEF StoreCompleted, StoreFailed, NextAttempt, Goto, Store, Busy
      <4> QED BY <4>1, <4>2 DEF Answered
    <3>3. CASE PublishDlq(w)
      BY <1>0, <3>1, <3>3 DEF PublishDlq, Goto
    <3>4. CASE \/ Classify(w) \/ Persist(w) \/ PersistRaises(w)
               \/ Crash(w) \/ \E j \in Jobs : TakeJob(w, j)
      BY <1>0, <3>1, <3>4
         DEF Classify, Persist, PersistRaises, Crash, TakeJob, Goto
    <3>5. CASE Ack(w) \/ AckDlq(w)
      BY <3>1, <3>5 DEF Ack, AckDlq
    <3> QED BY <2>2, <3>2, <3>3, <3>4, <3>5 DEF Work
  <2> QED BY <1>2, <2>1, <2>2 DEF Next, vars
<1> QED BY <1>1, <1>2

\* A worker with a job takes no other, and what it gave up on stays in the DLQ.
LEMMA HandStays ==
    ASSUME IInv, [Next]_vars, NEW v \in Workers, pc[v] \in Busy
    PROVE  /\ job'[v] = job[v]
           /\ dlq \subseteq dlq'
           /\ pc[v] = "ack" => pc'[v] # "dlqack"
           /\ pc[v] = "dlqack" => pc'[v] # "ack"
<1>0. /\ pc \in [Workers -> {"reading", "dead"} \cup Busy]
      /\ job \in [Workers -> Jobs \cup {"none"}]
  BY DEF IInv, TypeOK
<1> DEFINE Stays ==
        /\ job'[v] = job[v]
        /\ dlq \subseteq dlq'
        /\ pc[v] = "ack" => pc'[v] # "dlqack"
        /\ pc[v] = "dlqack" => pc'[v] # "ack"
<1>1. ASSUME NEW j \in Jobs, Request(j) \/ Expire(j) \/ LoseJob(j)
      PROVE  Stays
  <2>1. UNCHANGED workerVars
    BY <1>1
       DEF Request, StorePending, PublishJob, StoreEnqueueFailed,
           PublishProbe, ProbeSeesResult, ProbeTimesOut, ProbeRaises, Expire,
           LoseJob
  <2> QED BY <2>1 DEF workerVars
<1>2. ASSUME NEW w \in Workers, Work(w) \/ Crash(w)
      PROVE  Stays
  <2>1. CASE \E j \in Jobs : TakeJob(w, j)
    BY <1>0, <2>1 DEF TakeJob, Goto, Busy
  <2>2. CASE Ack(w) \/ AckDlq(w) \/ Crash(w)
    BY <1>0, <2>2 DEF Ack, AckDlq, Crash, NextAttempt, Goto
  <2>3. CASE Classify(w) \/ Persist(w) \/ PersistRaises(w)
    BY <1>0, <2>3 DEF Classify, Persist, PersistRaises, Goto
  <2>4. CASE StoreCompleted(w) \/ StoreFailed(w) \/ PublishDlq(w)
    BY <1>0, <2>4
       DEF StoreCompleted, StoreFailed, PublishDlq, NextAttempt, Goto
  <2> QED BY <1>2, <2>1, <2>2, <2>3, <2>4 DEF Work
<1>3. CASE UNCHANGED vars
  BY <1>3 DEF vars
<1> QED BY <1>1, <1>2, <1>3 DEF Next

LEMMA AnswersKept ==
    ASSUME IInv, IInv', OneWorker, OneWorker', AnswersOK, [Next]_vars
    PROVE  AnswersOK'
<1>1. ASSUME NEW v \in Workers, pc'[v] = "ack"
      PROVE  Answered(job[v])'
  <2>1. CASE pc[v] \in {"ack", "dlqack"}
    <3>1. job[v] \in Jobs /\ queue[job[v]] = "taken" /\ Answered(job[v])
      BY <2>1 DEF IInv, WorkerOK, Busy, AnswersOK, Answered
    <3>2. PICK j \in Jobs : j = job[v]
      BY <3>1
    <3>3. Answered(j)'
      BY <3>1, <3>2, AnsweredStays
    <3>4. job'[v] = j
      BY <1>1, <2>1, <3>2, HandStays DEF Busy
    <3> QED BY <3>3, <3>4 DEF Answered
  <2>2. CASE pc[v] \notin {"ack", "dlqack"}
    BY <1>1, <2>2, BeforeTheAck
  <2> QED BY <2>1, <2>2
<1>2. ASSUME NEW v \in Workers, pc'[v] = "dlqack"
      PROVE  job'[v] \in dlq'
  <2>1. CASE pc[v] \in {"ack", "dlqack"}
    BY <1>2, <2>1, HandStays DEF AnswersOK, Busy
  <2>2. CASE pc[v] \notin {"ack", "dlqack"}
    BY <1>2, <2>2, BeforeTheAck
  <2> QED BY <2>1, <2>2
<1>3. ASSUME NEW j \in Jobs, FateOf(j)' = "settled"
      PROVE  Answered(j)'
  <2>1. FateMoves(j)
    BY NextMovesFate
  <2>2. FateOf(j) \in {"settled", "inflight"}
    BY <1>3, <2>1 DEF FateMoves, Fate!Moves
  <2>3. queue[j] \in {"absent", "queued", "taken", "lost"}
    BY DEF IInv, TypeOK
  <2>4. queue[j] = "taken"
    BY <2>2, <2>3 DEF FateOf
  <2>5. CASE FateOf(j) = "settled"
    BY <2>4, <2>5, AnsweredStays DEF AnswersOK, SettledIsAnswered, Answered
  <2>6. CASE FateOf(j) = "inflight"
    <3>1. HasOwner(j)
      BY <2>4, <2>6 DEF FateOf
    <3>2. PICK v \in Workers : pc[v] \in Busy /\ job[v] = j
      BY <3>1 DEF HasOwner, InHand
    <3>3. queue'[j] \in {"absent", "queued", "taken", "lost"}
      BY DEF IInv, TypeOK
    <3>4. queue'[j] = "taken" /\ ~HasOwner(j)'
      BY <1>3, <3>3 DEF FateOf
    <3>5. ~(\E w \in Workers : pc'[w] = "dead" /\ job'[w] = j)
      BY <1>3, <3>4 DEF FateOf
    <3>6. ~(pc'[v] \in Busy /\ job'[v] = j)
      BY <3>4 DEF HasOwner, InHand
    <3>7. CASE pc'[v] \in Busy
      <4>1. pc[v] \notin {"ack", "dlqack"} \/ job'[v] = job[v]
        BY HandStays, <3>2, <3>7
      <4> QED BY <3>2, <3>6, <3>7, HandStays
    <3>8. CASE pc'[v] \notin Busy
      <4>1. pc[v] \in {"ack", "dlqack"}
        BY <3>2, <3>5, <3>8, LettingGo
      <4>2. Answered(j)
        BY <3>2, <4>1 DEF AnswersOK, Answered
      <4> QED BY <2>4, <4>2, AnsweredStays
    <3> QED BY <3>7, <3>8
  <2> QED BY <2>2, <2>5, <2>6
<1> QED BY <1>1, <1>2, <1>3 DEF AnswersOK, SettledIsAnswered, Answered

\* Whatever fails, a worker that has let go of a job alive has left its client
\* a terminal answer, or the operator an entry in the DLQ.
THEOREM SettledJobsAreAnswered == Spec => []SettledIsAnswered
<1>1. Init => AnswersOK
  <2> SUFFICES ASSUME Init PROVE AnswersOK
    OBVIOUS
  <2>1. \A j \in Jobs : FateOf(j) = "absent"
    BY DEF Init, FateOf
  <2>2. \A w \in Workers : pc[w] = "reading"
    BY DEF Init
  <2> QED BY <2>1, <2>2 DEF AnswersOK, SettledIsAnswered
<1>2. Init => OneWorker
  BY DEF Init, OneWorker, Busy
<1>3. IInv /\ OneWorker /\ [Next]_vars => OneWorker'
  BY OneWorkerKept
<1>4. /\ IInv /\ IInv' /\ OneWorker /\ OneWorker' /\ AnswersOK
      /\ [Next]_vars
      => AnswersOK'
  BY AnswersKept
<1>5. AnswersOK => SettledIsAnswered
  BY DEF AnswersOK
<1> QED BY <1>1, <1>2, <1>3, <1>4, <1>5, Invariant, PTL DEF Spec

-----------------------------------------------------------------------------
(* No worker keeps a job for ever *)

LEMMA StepGetsOn ==
    ASSUME IInv, NEW w \in Workers, pc[w] \in Busy, Work(w) \/ Crash(w)
    PROVE  GetsOn(w)
<1>0. /\ pc \in [Workers -> {"reading", "dead"} \cup Busy]
      /\ attempt \in [Workers -> 0..Attempts]
      /\ attempt[w] \in Nat /\ Attempts \in Nat
  BY AttemptsOK DEF IInv, TypeOK
<1>1. CASE attempt[w] < Attempts /\ attempt'[w] = attempt[w] + 1
  BY <1>0, <1>1 DEF GetsOn
<1>2. ASSUME attempt'[w] = attempt[w],
             \/ pc'[w] = "dead"
             \/ pc[w] = "classify" /\ pc'[w] \in {"persist", "storeFailed"}
             \/ pc[w] = "persist"
                /\ pc'[w] \in {"storeCompleted", "storeFailed"}
             \/ pc[w] = "storeCompleted" /\ pc'[w] \in {"ack", "storeFailed"}
             \/ pc[w] = "storeFailed" /\ pc'[w] \in {"ack", "dlq"}
             \/ pc[w] = "ack" /\ pc'[w] \in {"reading", "dlq"}
             \/ pc[w] = "dlq" /\ pc'[w] = "dlqack"
             \/ pc[w] = "dlqack" /\ pc'[w] = "reading"
      PROVE  GetsOn(w)
  <2>1. Stage[pc'[w]] < Stage[pc[w]]
    BY <1>2 DEF Stage, Busy
  <2> QED BY <1>2, <2>1 DEF GetsOn
<1>3. CASE Classify(w) \/ Persist(w) \/ PersistRaises(w)
  BY <1>0, <1>2, <1>3 DEF Classify, Persist, PersistRaises, Goto
<1>4. CASE StoreCompleted(w) \/ PublishDlq(w) \/ AckDlq(w) \/ Crash(w)
  BY <1>0, <1>2, <1>4 DEF StoreCompleted, PublishDlq, AckDlq, Crash, Goto
<1>5. CASE StoreFailed(w) \/ Ack(w)
  <2>1. CASE NextAttempt(w)
    BY <1>0, <1>1, <1>2, <1>5, <2>1
       DEF NextAttempt, StoreFailed, Ack, Goto
  <2>2. CASE ~NextAttempt(w)
    BY <1>0, <1>2, <1>5, <2>2 DEF StoreFailed, Ack, Goto
  <2> QED BY <2>1, <2>2
<1>6. ASSUME NEW j \in Jobs
      PROVE  ~TakeJob(w, j)
  BY DEF TakeJob, Busy
<1> QED BY <1>3, <1>4, <1>5, <1>6 DEF Work

\* Every step of a worker on a job uses up an attempt or a stage of one, so it
\* lets go of the job after finitely many of them, however many calls fail: the
\* part of AcceptedIsAnswered that needs no fairness.
THEOREM WorkIsFinite == Spec => WorkDiminishes
<1>1. ASSUME IInv, [Next]_vars, NEW v \in Workers, pc[v] \in Busy
      PROVE  UNCHANGED <<pc[v], job[v], attempt[v]>> \/ GetsOn(v)
  <2>1. CASE UNCHANGED workerVars \/ UNCHANGED vars
    BY <2>1 DEF workerVars, vars
  <2>2. ASSUME NEW j \in Jobs, Request(j) \/ Expire(j) \/ LoseJob(j)
        PROVE  UNCHANGED workerVars
    BY <2>2
       DEF Request, StorePending, PublishJob, StoreEnqueueFailed,
           PublishProbe, ProbeSeesResult, ProbeTimesOut, ProbeRaises, Expire,
           LoseJob
  <2>3. ASSUME NEW w \in Workers, w # v, Work(w) \/ Crash(w)
        PROVE  UNCHANGED <<pc[v], job[v], attempt[v]>>
    <3>0. /\ pc \in [Workers -> {"reading", "dead"} \cup Busy]
          /\ job \in [Workers -> Jobs \cup {"none"}]
          /\ attempt \in [Workers -> 0..Attempts]
      BY <1>1 DEF IInv, TypeOK
    <3>1. CASE Classify(w) \/ Persist(w) \/ PersistRaises(w) \/ PublishDlq(w)
      BY <2>3, <3>0, <3>1
         DEF Classify, Persist, PersistRaises, PublishDlq, Goto
    <3>2. CASE \/ StoreCompleted(w) \/ StoreFailed(w) \/ Ack(w)
               \/ AckDlq(w) \/ Crash(w)
      BY <2>3, <3>0, <3>2
         DEF StoreCompleted, StoreFailed, Ack, AckDlq, Crash, NextAttempt,
             Goto
    <3>3. CASE \E j \in Jobs : TakeJob(w, j)
      BY <2>3, <3>0, <3>3 DEF TakeJob, Goto
    <3> QED BY <2>3, <3>1, <3>2, <3>3 DEF Work
  <2>4. CASE Work(v) \/ Crash(v)
    BY <1>1, <2>4, StepGetsOn
  <2> QED BY <1>1, <2>1, <2>2, <2>3, <2>4 DEF Next
<1>2. IInv /\ [Next]_vars
      => [\A w \in Workers :
             pc[w] \in Busy =>
                 UNCHANGED <<pc[w], job[w], attempt[w]>> \/ GetsOn(w)]_vars
  BY <1>1
<1> QED BY <1>2, Invariant, PTL DEF Spec, WorkDiminishes
=============================================================================
