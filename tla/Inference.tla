------------------------------ MODULE Inference ------------------------------
(***************************************************************************)
(* The inference worker's own life: it checks its settings                 *)
(* (shared/config/settings.py, shared/security/secrets_validation.py),     *)
(* loads the model (services/inference/model_service.py, model_loader.py)  *)
(* and then classifies, one call of classify_flow at a time                *)
(* (services/inference/service.py).  A flagged flow is explained by a pool *)
(* of threads (xai.py) for which the call waits a limited time; the work   *)
(* goes on in the background afterwards.                                   *)
(*                                                                         *)
(* Time passes in units; threads that can run do so before it passes, and  *)
(* a call that can return does.                                            *)
(* What the messages are and what happens to the results is the subject of *)
(* StreamWorker and PredictJobs.                                           *)
(***************************************************************************)
EXTENDS Naturals, Sequences, FiniteSets

CONSTANTS
    Artifacts,  \* files of the model: the classifier, the explainer, others
    MaxCalls,   \* bound: calls of classify_flow
    Threads,    \* max_workers (2)
    Budget,     \* LIME_BUDGET_SECONDS
    MaxWork     \* bound: time an explanation takes, if it ends; one that
                \* does not end misses the budget

ASSUME ConstantsOK ==
    /\ {"classifier", "explainer"} \subseteq Artifacts
    /\ MaxCalls \in Nat
    /\ Threads \in Nat \ {0}
    /\ Budget \in Nat \ {0}
    /\ MaxWork \in Nat
    /\ Budget <= MaxWork + 1

Calls == 1..MaxCalls
Endless == MaxWork + 1   \* the work of an explanation that does not end
Idle == Budget + 1       \* no call is waiting

VARIABLES
    settings,  \* environment, whether its secrets are its own, and
               \* allow_fallback_classifier
    manifest,  \* the SHA-256 manifest can be read
    disk,      \* what each artifact is
    phase,     \* of the process
    loaded,    \* artifacts in use; without "classifier" it is the stub
    calls,     \* calls of classify_flow so far
    wait,      \* how long the present one still waits, or Idle
    result,    \* of each call
    work,      \* how long each explanation takes
    pending,   \* explanations waiting for a thread, in order
    running,   \* explanations being computed
    spent,     \* for how long they have been
    finished   \* what has become of each future

server == <<settings, manifest, disk, phase, loaded>>
pool == <<work, pending, running, spent, finished>>
vars == <<server, calls, wait, result, pool>>

TypeOK ==
    /\ settings \in [env : {"dev", "prod"}, own : BOOLEAN, stub : BOOLEAN]
    /\ manifest \in BOOLEAN
    /\ disk \in [Artifacts -> {"missing", "good", "mismatch", "broken"}]
    /\ phase \in {"starting", "loading", "serving", "refused"}
    /\ loaded \subseteq Artifacts
    /\ calls \in 0..MaxCalls
    /\ wait \in 0..Idle
    /\ result \in [Calls -> {"none", "benign", "plain", "explained"}]
    /\ work \in [Calls -> 0..Endless]
    /\ pending \in Seq(Calls)
    /\ running \subseteq Calls /\ Cardinality(running) <= Threads
    /\ spent \in [Calls -> 0..MaxWork]
    /\ finished \in [Calls -> {"no", "ok", "raised"}]

Init ==
    /\ settings \in [env : {"dev", "prod"}, own : BOOLEAN, stub : BOOLEAN]
    /\ manifest \in BOOLEAN
    /\ disk \in [Artifacts -> {"missing", "good", "mismatch", "broken"}]
    /\ phase = "starting"
    /\ loaded = {}
    /\ calls = 0 /\ wait = Idle
    /\ result = [n \in Calls |-> "none"]
    /\ work = [n \in Calls |-> 0]
    /\ pending = <<>> /\ running = {}
    /\ spent = [n \in Calls |-> 0]
    /\ finished = [n \in Calls |-> "no"]

-----------------------------------------------------------------------------
(* Start *)

\* validate_runtime_secrets
PlaceholderSecrets == settings.env = "prod" /\ ~settings.own

\* Mutant of StubInProduction: the posture is left to the secrets check.
StubWithPlaceholders ==
    settings.env = "prod" /\ settings.stub /\ ~settings.own

\* _validate_runtime_posture
StubInProduction == settings.env = "prod" /\ settings.stub

\* get_settings, the first call of run(), builds and validates or raises.
Configure ==
    /\ phase = "starting"
    /\ phase' = IF PlaceholderSecrets \/ StubInProduction
                THEN "refused" ELSE "loading"
    /\ UNCHANGED <<settings, manifest, disk, loaded, calls, wait, result,
                   pool>>

\* _verify: the manifest is read for the first file that exists, and each
\* file must have its hash in it ("mismatch": another one, or none).
FailsVerification(a) ==
    disk[a] # "missing" /\ (disk[a] = "mismatch" \/ ~manifest)

\* _load_from_disk.  A file that fails its verification is fatal; one that
\* cannot be unpickled ("broken") counts as missing.  The classifier has the
\* stub for a replacement, if that is allowed; the others can be missed.
Load ==
    /\ phase = "loading"
    /\ IF \/ \E a \in Artifacts : FailsVerification(a)
          \/ disk["classifier"] # "good" /\ ~settings.stub
       THEN /\ phase' = "refused"
            /\ UNCHANGED loaded
       ELSE /\ phase' = "serving"
            /\ loaded' = {a \in Artifacts : disk[a] = "good"}
    /\ UNCHANGED <<settings, manifest, disk, calls, wait, result, pool>>

-----------------------------------------------------------------------------
(* classify_flow *)

Call ==
    /\ phase = "serving" /\ wait = Idle
    /\ calls < MaxCalls
    /\ calls' = calls + 1

\* A flow that needs no explanation, or can have none.
Classify ==
    /\ Call
    /\ \E r \in {"benign", "plain"} :
          /\ r = "plain" => "explainer" \notin loaded
          /\ result' = [result EXCEPT ![calls'] = r]
    /\ UNCHANGED <<server, wait, pool>>

\* A flagged flow: its explanation is submitted to the pool.
Submit ==
    /\ Call
    /\ "explainer" \in loaded
    /\ wait' = Budget
    /\ pending' = Append(pending, calls')
    /\ \E w \in 0..Endless : work' = [work EXCEPT ![calls'] = w]
    /\ UNCHANGED <<server, result, running, spent, finished>>

\* The future is done in time: its list, or [] if it raised.
GetResult ==
    /\ wait # Idle
    /\ finished[calls] # "no"
    /\ wait' = Idle
    /\ result' = [result EXCEPT ![calls] =
                      IF finished[calls] = "ok" THEN "explained" ELSE "plain"]
    /\ UNCHANGED <<server, calls, pool>>

\* Mutant of TimesOut: the future is awaited without its timeout.
TimesOutWhenDone ==
    /\ wait = 0
    /\ finished[calls] = "raised"
    /\ wait' = Idle
    /\ result' = [result EXCEPT ![calls] = "plain"]
    /\ UNCHANGED <<server, calls, pool>>

\* It is not: the call goes on without, the task is not cancelled.
TimesOut ==
    /\ wait = 0
    /\ finished[calls] = "no"
    /\ wait' = Idle
    /\ result' = [result EXCEPT ![calls] = "plain"]
    /\ UNCHANGED <<server, calls, pool>>

-----------------------------------------------------------------------------
(* The pool *)

\* Mutant of FreeThread: one thread.
FreeSingleThread == running = {}

FreeThread == Cardinality(running) < Threads

\* A free thread takes the task that has waited longest.
StartTask ==
    /\ pending # <<>> /\ FreeThread
    /\ running' = running \cup {Head(pending)}
    /\ pending' = Tail(pending)
    /\ UNCHANGED <<server, calls, wait, result, work, spent, finished>>

\* _run_lime_explanation returns or raises.
EndTask(n) ==
    /\ n \in running /\ spent[n] = work[n]
    /\ running' = running \ {n}
    /\ \E r \in {"ok", "raised"} : finished' = [finished EXCEPT ![n] = r]
    /\ UNCHANGED <<server, calls, wait, result, work, pending, spent>>

\* Time passes, for tasks and for the call that waits; when neither is under
\* way that would change, it is not looked at.
Tick ==
    /\ pending = <<>> \/ ~FreeThread
    /\ \A n \in running : spent[n] # work[n]
    /\ IF wait = Idle THEN \E n \in running : work[n] # Endless
       ELSE wait > 0 /\ finished[calls] = "no"
    /\ wait' = IF wait = Idle THEN Idle ELSE wait - 1
    /\ spent' = [n \in Calls |-> IF n \in running /\ work[n] # Endless
                                 THEN spent[n] + 1 ELSE spent[n]]
    /\ UNCHANGED <<server, calls, result, work, pending, running, finished>>

Next ==
    \/ Configure \/ Load
    \/ Classify \/ Submit \/ GetResult \/ TimesOut
    \/ StartTask \/ (\E n \in Calls : EndTask(n)) \/ Tick

Spec == Init /\ [][Next]_vars

\* The process runs, its threads run, and time passes; messages need not come.
FairSpec ==
    /\ Spec
    /\ WF_vars(Configure) /\ WF_vars(Load)
    /\ WF_vars(GetResult \/ TimesOut)
    /\ WF_vars(StartTask) /\ \A n \in Calls : WF_vars(EndTask(n))
    /\ WF_vars(Tick)

-----------------------------------------------------------------------------
\* A worker that classifies uses nothing but files that were verified; every
\* file that is there was; and only development goes without a classifier.
OnlyVerifiedServes ==
    phase = "serving" =>
        /\ \A a \in Artifacts : disk[a] # "mismatch"
        /\ \A a \in loaded : disk[a] = "good" /\ manifest
        /\ "classifier" \notin loaded =>
               settings.env = "dev" /\ settings.stub

\* A flagged flow goes without its explanation when that raised or took
\* longer than the budget, or when as many earlier ones as there are threads
\* did: never because an explanation in time had to wait for another one.
MissingExplanationHasACause ==
    \A n \in Calls :
        result[n] = "plain" /\ "explainer" \in loaded =>
            \/ finished[n] = "raised"
            \/ work[n] >= Budget
            \/ Cardinality({k \in 1..(n - 1) : work[k] >= Budget}) >= Threads

\* classify_flow always returns, whatever explanations do.
EveryCallReturns == wait # Idle ~> wait = Idle
=============================================================================
