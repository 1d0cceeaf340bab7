--------------------------- MODULE InferenceProofs ----------------------------
(***************************************************************************)
(* Proofs about the inference worker for every number of calls, threads    *)
(* and artifacts.                                                          *)
(*                                                                         *)
(* That a missing explanation has a cause needs more than the results: at  *)
(* every moment each task in the pool whose call has gone on was slow or   *)
(* is crowded out by slow ones, and the task of the present call runs      *)
(* since the call began to wait, or is crowded out.  Time can pass with a  *)
(* task waiting for a thread only while all threads are taken by earlier   *)
(* ones, and those are slow or crowded out themselves.                     *)
(***************************************************************************)
EXTENDS Inference, FiniteSetTheorems, TLAPS

\* Somewhere in the pool.
Waiting(n) == \E i \in 1..Len(pending) : pending[i] = n
Submitted(n) == n \in running \/ Waiting(n)

\* As many earlier explanations as there are threads miss the budget.
SlowBefore(n) == {k \in 1..(n - 1) : work[k] >= Budget}
Crowded(n) == Cardinality(SlowBefore(n)) >= Threads

\* Before it serves, a worker has loaded nothing and was called for nothing;
\* its settings were checked before it loads.
StartOK ==
    /\ phase # "serving" => calls = 0 /\ loaded = {}
    /\ phase = "loading" => ~StubInProduction

\* Calls to come have left nothing yet.
CallsOK ==
    /\ wait # Idle => calls >= 1
    /\ \A n \in Calls : n > calls =>
           result[n] = "none" /\ finished[n] = "no" /\ spent[n] = 0

\* A task is in the pool once, of a call that was made, and not finished.
PoolOK ==
    /\ \A i \in 1..Len(pending) :
           /\ pending[i] <= calls /\ pending[i] \notin running
           /\ finished[pending[i]] = "no" /\ spent[pending[i]] = 0
    /\ \A i, j \in 1..Len(pending) : pending[i] = pending[j] => i = j
    /\ \A n \in running :
           n <= calls /\ finished[n] = "no" /\ spent[n] <= work[n]

\* A task whose call has gone on is slow or crowded out.
PastOK ==
    \A n \in Calls :
        Submitted(n) /\ (n # calls \/ wait = Idle) =>
            work[n] >= Budget \/ Crowded(n)

\* The task of the present call is on time or crowded out.
PresentOK ==
    wait # Idle /\ finished[calls] = "no" =>
        \/ Crowded(calls)
        \/ /\ calls \in running
           /\ work[calls] = Endless \/ spent[calls] = Budget - wait
        \/ wait = Budget /\ Waiting(calls)

\* The inductive invariant.
IInv ==
    /\ TypeOK /\ StartOK /\ CallsOK /\ PoolOK /\ PastOK /\ PresentOK
    /\ OnlyVerifiedServes /\ MissingExplanationHasACause

-----------------------------------------------------------------------------
\* Every step of the worker keeps the types of TypeOK.
LEMMA TypeStep ==
  ASSUME TypeOK, CallsOK, PoolOK, [Next]_vars
  PROVE  TypeOK'
<1>f. IsFiniteSet(running)
  <2>1. IsFiniteSet(Calls)
    BY ConstantsOK, FS_Interval DEF ConstantsOK, Calls
  <2> QED BY <2>1, FS_Subset DEF TypeOK
<1> USE ConstantsOK DEF ConstantsOK, Calls, Idle, Endless
<1>1. CASE Configure
  BY <1>1 DEF Configure, TypeOK, pool
<1>2. CASE Load
  BY <1>2 DEF Load, TypeOK, pool
<1>3. CASE Classify
  BY <1>3 DEF Classify, Call, TypeOK, server, pool
<1>4. CASE Submit
  BY <1>4 DEF Submit, Call, TypeOK, server
<1>5. CASE GetResult
  BY <1>5 DEF GetResult, CallsOK, TypeOK, server, pool
<1>6. CASE TimesOut
  BY <1>6 DEF TimesOut, CallsOK, TypeOK, server, pool
<1>7. CASE StartTask
  <2> DEFINE h == Head(pending)
  <2>1. h \in Calls /\ Tail(pending) \in Seq(Calls)
    BY <1>7 DEF StartTask, TypeOK
  <2>2. running \cup {h} \subseteq Calls
    BY <2>1 DEF TypeOK
  <2>3. Cardinality(running \cup {h}) <= Threads
    <3>1. Cardinality(running) \in Nat /\ Cardinality(running) < Threads
      BY <1>f, <1>7, FS_CardinalityType DEF StartTask, FreeThread
    <3>2. \/ Cardinality(running \cup {h}) = Cardinality(running)
          \/ Cardinality(running \cup {h}) = Cardinality(running) + 1
      BY <1>f, FS_AddElement
    <3> QED BY <3>1, <3>2
  <2> QED BY <1>7, <2>1, <2>2, <2>3 DEF StartTask, TypeOK, server
<1>8. ASSUME NEW n \in Calls, EndTask(n) PROVE TypeOK'
  <2>1. Cardinality(running \ {n}) <= Threads
    <3>2. /\ Cardinality(running) \in Nat /\ Cardinality(running) <= Threads
          /\ Cardinality(running \ {n}) <= Cardinality(running)
          /\ Cardinality(running \ {n}) \in Nat
      BY <1>f, FS_CardinalityType, FS_Subset DEF TypeOK
    <3> QED BY <3>2
  <2> QED BY <1>8, <2>1 DEF EndTask, TypeOK, server
<1>9. CASE Tick
  <2>1. wait' \in 0..Idle
    BY <1>9 DEF Tick, TypeOK
  <2>2. spent' \in [Calls -> 0..MaxWork]
    <3>1. ASSUME NEW n \in running, work[n] # Endless
          PROVE  spent[n] + 1 \in 0..MaxWork
      <4>1. work[n] \in 0..(MaxWork + 1) /\ spent[n] \in 0..MaxWork
        BY DEF TypeOK
      <4>2. spent[n] <= work[n] /\ spent[n] # work[n]
        BY <1>9 DEF Tick, PoolOK
      <4> QED BY <3>1, <4>1, <4>2
    <3> QED BY <1>9, <3>1 DEF Tick, TypeOK
  <2> QED BY <1>9, <2>1, <2>2 DEF Tick, TypeOK, server
<1>10. CASE UNCHANGED vars
  BY <1>10 DEF vars, TypeOK, server, pool
<1> QED
  BY <1>1, <1>2, <1>3, <1>4, <1>5, <1>6, <1>7, <1>8, <1>9, <1>10 DEF Next

\* Only what was verified is loaded, and nothing is before that.
LEMMA StartStep ==
  ASSUME TypeOK, StartOK, OnlyVerifiedServes, [Next]_vars
  PROVE  StartOK' /\ OnlyVerifiedServes'
<1>1. CASE Configure
  BY <1>1 DEF Configure, StubInProduction, StartOK, OnlyVerifiedServes
<1>2. CASE Load
  BY <1>2, ConstantsOK
  DEF Load, FailsVerification, StubInProduction, StartOK,
      OnlyVerifiedServes, TypeOK, ConstantsOK
<1>3. CASE Classify \/ Submit
  BY <1>3 DEF Classify, Submit, Call, StubInProduction, StartOK,
              OnlyVerifiedServes, server
<1>4. CASE UNCHANGED <<server, calls>>
  BY <1>4 DEF StubInProduction, StartOK, OnlyVerifiedServes, server
<1> QED
  BY <1>1, <1>2, <1>3, <1>4
  DEF Next, GetResult, TimesOut, StartTask, EndTask, Tick, vars

\* Calls to come are touched by nothing.
LEMMA CallsStep ==
  ASSUME TypeOK, CallsOK, PoolOK, [Next]_vars
  PROVE  CallsOK'
<1> USE ConstantsOK DEF ConstantsOK, Calls, CallsOK
<1>1. CASE Classify
  BY <1>1 DEF Classify, Call, TypeOK, pool
<1>6. CASE Submit
  BY <1>6 DEF Submit, Call, TypeOK
<1>2. CASE GetResult \/ TimesOut
  BY <1>2 DEF GetResult, TimesOut, TypeOK, pool, Idle
<1>3. CASE StartTask \/ Configure \/ Load \/ UNCHANGED vars
  BY <1>3 DEF StartTask, Configure, Load, vars, TypeOK, pool
<1>4. ASSUME NEW n \in Calls, EndTask(n) PROVE CallsOK'
  BY <1>4 DEF EndTask, TypeOK, PoolOK
<1>5. CASE Tick
  <2>1. \A n \in Calls : n > calls => n \notin running
    BY DEF PoolOK, TypeOK
  <2> QED BY <1>5, <2>1 DEF Tick, TypeOK, Idle
<1> QED BY <1>1, <1>2, <1>3, <1>4, <1>5, <1>6 DEF Next

\* Tasks go through the pool one by one and once.
LEMMA PoolStep ==
  ASSUME TypeOK, CallsOK, PoolOK, [Next]_vars
  PROVE  PoolOK'
<1> USE ConstantsOK DEF ConstantsOK, Calls
<1>0. \A i \in 1..Len(pending) :
          pending[i] \in Calls /\ pending[i] <= calls /\ pending[i] \in Nat
  <2>1. \A i \in 1..Len(pending) : pending[i] \in Calls
    BY DEF TypeOK
  <2>2. \A i \in 1..Len(pending) : pending[i] <= calls
    BY DEF PoolOK
  <2> QED BY <2>1, <2>2
<1>1. CASE \/ Configure \/ Load \/ Classify \/ GetResult \/ TimesOut
           \/ UNCHANGED vars
  <2>1. UNCHANGED pool /\ calls' \in Nat /\ calls' >= calls
    BY <1>1
    DEF Configure, Load, Classify, Call, GetResult, TimesOut, vars, TypeOK
  <2>2. \A n \in running : n <= calls'
    BY <2>1 DEF PoolOK, TypeOK
  <2>3. \A i \in 1..Len(pending) : pending[i] <= calls'
    <3> SUFFICES ASSUME NEW i \in 1..Len(pending)
                 PROVE  pending[i] <= calls'
      OBVIOUS
    <3>1. pending[i] <= calls /\ pending[i] \in Nat
      BY <1>0
    <3>2. calls \in Nat
      BY DEF TypeOK
    <3>3. calls' \in Nat /\ calls <= calls'
      BY <2>1
    <3> QED BY <3>1, <3>2, <3>3
  <2> QED BY <2>1, <2>2, <2>3 DEF pool, PoolOK
<1>2. CASE Submit
  <2>1. /\ Len(pending') = Len(pending) + 1
        /\ \A i \in 1..Len(pending) : pending'[i] = pending[i]
        /\ pending'[Len(pending) + 1] = calls'
    BY <1>2 DEF Submit, Call, TypeOK
  <2>2. /\ calls' = calls + 1 /\ calls' \in Calls
        /\ UNCHANGED <<running, spent, finished>>
        /\ \A n \in Calls : n # calls' => work'[n] = work[n]
    BY <1>2 DEF Submit, Call, TypeOK
  <2>3. finished[calls'] = "no" /\ spent[calls'] = 0
    BY <2>2 DEF CallsOK, TypeOK
  <2>4. \A n \in running :
            n <= calls' /\ finished'[n] = "no" /\ spent'[n] <= work'[n]
    BY <2>2 DEF PoolOK, TypeOK
  <2>5. ASSUME NEW i \in 1..Len(pending')
        PROVE  /\ pending'[i] <= calls' /\ pending'[i] \notin running'
               /\ finished'[pending'[i]] = "no" /\ spent'[pending'[i]] = 0
    <3>1. CASE i = Len(pending) + 1
      BY <2>1, <2>2, <2>3, <3>1 DEF PoolOK, TypeOK
    <3>2. CASE i \in 1..Len(pending)
      <4>1. /\ pending'[i] = pending[i] /\ pending[i] <= calls
            /\ pending[i] \notin running /\ finished[pending[i]] = "no"
            /\ spent[pending[i]] = 0 /\ pending[i] \in Nat
        BY <1>0, <2>1, <3>2 DEF PoolOK
      <4> QED BY <2>2, <4>1 DEF TypeOK
    <3> QED BY <2>1, <3>1, <3>2 DEF TypeOK
  <2>6. ASSUME NEW i \in 1..Len(pending'), NEW j \in 1..Len(pending'),
               pending'[i] = pending'[j]
        PROVE  i = j
    <3>1. \A k \in 1..Len(pending) : pending'[k] # calls'
      <4>1. ASSUME NEW k \in 1..Len(pending) PROVE pending'[k] # calls'
        <5>1. pending'[k] = pending[k] /\ pending[k] <= calls
              /\ pending[k] \in Nat
          BY <1>0, <2>1
        <5>2. calls \in Nat
          BY DEF TypeOK
        <5> QED BY <2>2, <5>1, <5>2
      <4> QED BY <4>1
    <3>2. Len(pending) \in Nat
      BY DEF TypeOK
    <3>3. \A k \in 1..Len(pending') :
              k = Len(pending) + 1 \/ k \in 1..Len(pending)
      BY <2>1, <3>2
    <3>4. \A k, l \in 1..Len(pending) :
              pending'[k] = pending'[l] => k = l
      BY <2>1 DEF PoolOK
    <3> QED BY <2>1, <2>6, <3>1, <3>3, <3>4
  <2> QED BY <2>2, <2>4, <2>5, <2>6 DEF PoolOK
<1>3. CASE StartTask
  <2>1. /\ pending # <<>> /\ Len(pending') = Len(pending) - 1
        /\ \A i \in 1..Len(pending') : pending'[i] = pending[i + 1]
        /\ running' = running \cup {pending[1]}
        /\ UNCHANGED <<calls, work, spent, finished>>
    BY <1>3 DEF StartTask, TypeOK
  <2>2. Len(pending) \in Nat /\ 1 \in 1..Len(pending)
    BY <2>1 DEF TypeOK
  <2>3. /\ pending[1] <= calls /\ finished[pending[1]] = "no"
        /\ spent[pending[1]] = 0 /\ pending[1] \in Calls
    <3>1. /\ pending[1] <= calls /\ finished[pending[1]] = "no"
          /\ spent[pending[1]] = 0
      BY <2>2 DEF PoolOK
    <3> QED BY <1>0, <2>2, <3>1
  <2>4. spent[pending[1]] <= work[pending[1]]
    BY <2>3 DEF TypeOK, Endless
  <2>5. \A i \in 1..Len(pending') : pending'[i] \notin running'
    BY <2>1, <2>2 DEF PoolOK
  <2> QED BY <2>1, <2>2, <2>3, <2>4, <2>5 DEF PoolOK
<1>4. ASSUME NEW n \in Calls, EndTask(n) PROVE PoolOK'
  <2>1. n \in running /\ \A i \in 1..Len(pending) : pending[i] # n
    BY <1>4 DEF EndTask, PoolOK
  <2>2. \A k \in Calls \ {n} : finished'[k] = finished[k]
    BY <1>4 DEF EndTask, TypeOK
  <2>3. \A i \in 1..Len(pending) : pending[i] \in Calls
    BY DEF TypeOK
  <2> QED BY <1>4, <2>1, <2>2, <2>3 DEF EndTask, PoolOK, TypeOK
<1>5. CASE Tick
  <2>1. \A n \in Calls : n \notin running => spent'[n] = spent[n]
    BY <1>5 DEF Tick, TypeOK
  <2>2. ASSUME NEW n \in running PROVE spent'[n] <= work[n]
    <3>1. /\ n \in Calls /\ work[n] \in Nat /\ spent[n] \in Nat
          /\ spent[n] <= work[n] /\ spent[n] # work[n]
      BY <1>5 DEF Tick, PoolOK, TypeOK, Endless
    <3>2. spent'[n] \in {spent[n], spent[n] + 1}
      BY <1>5, <3>1 DEF Tick
    <3> QED BY <3>1, <3>2
  <2>3. \A i \in 1..Len(pending) : pending[i] \in Calls
    BY DEF TypeOK
  <2> QED BY <1>5, <2>1, <2>2, <2>3 DEF Tick, PoolOK
<1> QED BY <1>1, <1>2, <1>3, <1>4, <1>5 DEF Next

-----------------------------------------------------------------------------
\* SlowBefore is a finite set that grows with its argument.
LEMMA SlowOnes ==
  ASSUME NEW m \in Nat, NEW n \in Nat, m <= n
  PROVE  /\ IsFiniteSet(SlowBefore(n)) /\ Cardinality(SlowBefore(n)) \in Nat
         /\ Crowded(m) => Crowded(n)
<1>1. IsFiniteSet(1..(n - 1))
  BY FS_Interval
<1>2. SlowBefore(n) \subseteq 1..(n - 1)
  BY DEF SlowBefore
<1>3. IsFiniteSet(SlowBefore(n))
  BY <1>1, <1>2, FS_Subset
<1>4. SlowBefore(m) \subseteq SlowBefore(n)
  BY DEF SlowBefore
<1>5. /\ Cardinality(SlowBefore(m)) <= Cardinality(SlowBefore(n))
      /\ Cardinality(SlowBefore(m)) \in Nat
      /\ Cardinality(SlowBefore(n)) \in Nat
  BY <1>3, <1>4, FS_Subset, FS_CardinalityType
<1> QED BY <1>3, <1>5, ConstantsOK DEF Crowded, ConstantsOK

\* Whether n is crowded out depends on the work of earlier tasks alone.
LEMMA CrowdedKept ==
  ASSUME NEW n, \A k \in 1..(n - 1) : work'[k] = work[k]
  PROVE  Crowded(n)' <=> Crowded(n)
<1>1. SlowBefore(n)' = SlowBefore(n)
  BY DEF SlowBefore
<1> QED BY <1>1 DEF Crowded

\* When time passes while the present call's task waits for a thread, it is
\* crowded out.
LEMMA WaitingIsCrowded ==
  ASSUME TypeOK, CallsOK, PoolOK, PastOK, Tick, wait # Idle, Waiting(calls)
  PROVE  Crowded(calls)
<1>1. calls \in Calls /\ calls \in Nat /\ Threads \in Nat
  BY ConstantsOK DEF ConstantsOK, CallsOK, TypeOK, Calls
<1>2. calls \notin running /\ ~FreeThread
  BY DEF Tick, Waiting, PoolOK, TypeOK
<1>3. ASSUME NEW k \in running
      PROVE  k \in 1..(calls - 1) /\ (work[k] >= Budget \/ Crowded(k))
  <2>1. k \in Calls /\ k <= calls /\ k # calls
    BY <1>2 DEF PoolOK, TypeOK
  <2> QED BY <1>1, <2>1 DEF PastOK, Submitted, Calls
<1>4. CASE \E k \in running : Crowded(k)
  BY <1>1, <1>3, <1>4, SlowOnes
<1>5. CASE \A k \in running : work[k] >= Budget
  <2>1. running \subseteq SlowBefore(calls)
    BY <1>3, <1>5 DEF SlowBefore
  <2>2. IsFiniteSet(SlowBefore(calls))
    BY <1>1, SlowOnes
  <2>3. /\ Cardinality(running) <= Cardinality(SlowBefore(calls))
        /\ Cardinality(running) \in Nat
        /\ Cardinality(SlowBefore(calls)) \in Nat
    BY <2>1, <2>2, FS_Subset, FS_CardinalityType
  <2> QED BY <1>1, <1>2, <2>3 DEF FreeThread, Crowded
<1> QED BY <1>3, <1>4, <1>5

\* A call that gives up has a slow task or one that is crowded out.
LEMMA GivingUp ==
  ASSUME TypeOK, CallsOK, PoolOK, PresentOK, TimesOut
  PROVE  work[calls] >= Budget \/ Crowded(calls)
<1>1. calls \in Calls /\ Budget \in Nat \ {0} /\ Budget <= Endless
  BY ConstantsOK DEF ConstantsOK, TimesOut, CallsOK, TypeOK, Calls, Idle,
                     Endless
<1>2. \/ Crowded(calls)
      \/ /\ calls \in running
         /\ work[calls] = Endless \/ spent[calls] = Budget
  BY <1>1 DEF TimesOut, PresentOK, Idle
<1>3. calls \in running =>
          /\ spent[calls] <= work[calls]
          /\ spent[calls] \in Nat /\ work[calls] \in Nat
  BY <1>1, ConstantsOK DEF PoolOK, TypeOK, ConstantsOK, Endless
<1> QED BY <1>1, <1>2, <1>3

-----------------------------------------------------------------------------
\* Tasks that wait or run after a step were in the pool before it, but for
\* the one that is submitted.
LEMMA PoolKept ==
  ASSUME TypeOK, [Next]_vars, ~Submit, NEW n \in Calls, Submitted(n)'
  PROVE  Submitted(n) /\ work' = work
<1>1. CASE UNCHANGED <<pending, running, work>>
  BY <1>1 DEF Submitted, Waiting
<1>2. CASE StartTask
  <2>1. /\ pending # <<>> /\ Len(pending') = Len(pending) - 1
        /\ \A i \in 1..Len(pending') : pending'[i] = pending[i + 1]
        /\ running' = running \cup {pending[1]} /\ work' = work
    BY <1>2 DEF StartTask, TypeOK
  <2>2. Len(pending) \in Nat /\ 1 \in 1..Len(pending)
    BY <2>1 DEF TypeOK
  <2> QED BY <2>1, <2>2 DEF Submitted, Waiting
<1>3. ASSUME NEW k \in Calls, EndTask(k)
      PROVE  Submitted(n) /\ work' = work
  BY <1>3 DEF EndTask, Submitted, Waiting
<1> QED
  BY <1>1, <1>2, <1>3
  DEF Next, Configure, Load, Classify, GetResult, TimesOut, Tick, vars, pool

\* A task that is submitted is the present call's, behind the others.
LEMMA Submission ==
  ASSUME TypeOK, PoolOK, CallsOK, Submit
  PROVE  /\ calls' = calls + 1 /\ calls' \in Calls /\ wait' = Budget
         /\ Waiting(calls)' /\ wait = Idle /\ wait' # Idle
         /\ \A n \in Calls : n # calls' => work'[n] = work[n]
         /\ \A n \in Calls :
               Submitted(n)' => n = calls' \/ (n <= calls /\ Submitted(n))
<1>1. /\ Len(pending') = Len(pending) + 1
      /\ \A i \in 1..Len(pending) : pending'[i] = pending[i]
      /\ pending'[Len(pending) + 1] = calls'
      /\ Len(pending) \in Nat /\ running' = running
  BY ConstantsOK DEF Submit, Call, TypeOK, Calls, ConstantsOK
<1>2. /\ calls' = calls + 1 /\ calls' \in Calls /\ wait' = Budget
      /\ wait = Idle /\ wait' # Idle
      /\ \A n \in Calls : n # calls' => work'[n] = work[n]
  BY ConstantsOK DEF Submit, Call, TypeOK, Calls, ConstantsOK, Idle
<1>3. Waiting(calls)'
  BY <1>1 DEF Waiting
<1>4. ASSUME NEW n \in Calls, Submitted(n)', n # calls'
      PROVE  n <= calls /\ Submitted(n)
  <2>1. Submitted(n)
    BY <1>1, <1>4 DEF Submitted, Waiting
  <2> QED BY <2>1 DEF Submitted, Waiting, PoolOK
<1> QED BY <1>2, <1>3, <1>4

\* A task whose call goes on is slow or crowded out from then on.
LEMMA PastStep ==
  ASSUME TypeOK, CallsOK, PoolOK, PastOK, PresentOK, [Next]_vars
  PROVE  PastOK'
<1> SUFFICES ASSUME NEW n \in Calls, Submitted(n)',
                    n # calls' \/ wait' = Idle
             PROVE  (work[n] >= Budget \/ Crowded(n))'
  BY DEF PastOK
<1>n. n \in Nat /\ MaxCalls \in Nat
  BY ConstantsOK DEF ConstantsOK, Calls
<1>1. CASE Submit
  <2>1. n # calls' /\ n <= calls /\ Submitted(n) /\ wait = Idle
    BY <1>1, Submission
  <2>2. work[n] >= Budget \/ Crowded(n)
    BY <2>1 DEF PastOK
  <2>3. calls' = calls + 1 /\ calls \in Nat
    BY <1>1, Submission DEF TypeOK
  <2>4. \A k \in 1..n : k \in Calls /\ k # calls'
    BY <1>n, <2>1, <2>3 DEF Calls
  <2>5. \A k \in 1..n : work'[k] = work[k]
    BY <1>1, <2>4, Submission
  <2>6. \A k \in 1..(n - 1) : work'[k] = work[k]
    BY <1>n, <2>5
  <2>7. work'[n] = work[n]
    BY <2>5 DEF Calls
  <2>8. Crowded(n)' <=> Crowded(n)
    BY <2>6, CrowdedKept
  <2> QED BY <2>2, <2>7, <2>8
<1>2. CASE ~Submit
  <2>1. Submitted(n) /\ work' = work
    BY <1>2, PoolKept
  <2>2. Crowded(n)' <=> Crowded(n)
    BY <2>1, CrowdedKept
  <2>3. work[n] >= Budget \/ Crowded(n)
    <3>1. CASE n # calls \/ wait = Idle
      BY <2>1, <3>1 DEF PastOK
    <3>2. CASE n = calls /\ wait # Idle
      <4>1. finished[n] = "no"
        BY <2>1 DEF Submitted, Waiting, PoolOK
      <4>2. TimesOut
        BY <1>2, <3>2, <4>1
        DEF Next, Configure, Load, Classify, Call, GetResult, StartTask,
            EndTask, Tick, vars, TypeOK
      <4> QED BY <3>2, <4>2, GivingUp
    <3> QED BY <3>1, <3>2
  <2> QED BY <2>1, <2>2, <2>3
<1> QED BY <1>1, <1>2

\* The present call's task stays on time, or is crowded out.
LEMMA PresentStep ==
  ASSUME TypeOK, CallsOK, PoolOK, PastOK, PresentOK, [Next]_vars
  PROVE  PresentOK'
<1>1. CASE Submit
  BY <1>1, Submission DEF PresentOK
<1>2. CASE GetResult \/ TimesOut
  BY <1>2 DEF GetResult, TimesOut, PresentOK
<1>3. CASE Classify
  BY <1>3 DEF Classify, Call, PresentOK
<1>4. ASSUME UNCHANGED <<calls, wait, work>>, wait # Idle,
             finished'[calls] = "no", finished[calls] = "no",
             \/ Crowded(calls)
             \/ /\ calls \in running'
                /\ work[calls] = Endless \/ spent'[calls] = Budget - wait
             \/ wait = Budget /\ Waiting(calls)'
      PROVE  PresentOK'
  <2>1. Crowded(calls) => Crowded(calls)'
    BY <1>4, CrowdedKept
  <2> QED BY <1>4, <2>1 DEF PresentOK, Endless
<1>5. CASE Configure \/ Load \/ UNCHANGED vars
  <2>1. UNCHANGED <<calls, wait, work, pending, running, spent, finished>>
    BY <1>5 DEF Configure, Load, vars, pool
  <2> QED BY <2>1, <1>4 DEF PresentOK, Waiting
<1>6. ASSUME NEW n \in Calls, EndTask(n), wait # Idle,
             finished'[calls] = "no"
      PROVE  PresentOK'
  <2>1. calls \in Calls
    BY <1>6, ConstantsOK DEF CallsOK, TypeOK, Calls, ConstantsOK
  <2>2. n # calls /\ finished[calls] = "no"
    BY <1>6, <2>1 DEF EndTask, TypeOK
  <2> QED BY <1>4, <1>6, <2>1, <2>2 DEF EndTask, PresentOK, Waiting
<1>7. CASE StartTask
  <2>1. /\ pending # <<>> /\ Len(pending') = Len(pending) - 1
        /\ \A i \in 1..Len(pending') : pending'[i] = pending[i + 1]
        /\ running' = running \cup {pending[1]}
        /\ UNCHANGED <<calls, wait, work, spent, finished>>
    BY <1>7 DEF StartTask, TypeOK
  <2>2. Len(pending) \in Nat /\ Budget - Budget = 0
    BY ConstantsOK DEF TypeOK, ConstantsOK
  <2>3. ASSUME Waiting(calls)
        PROVE  Waiting(calls)' \/ (calls \in running' /\ spent[calls] = 0)
    <3>1. PICK i \in 1..Len(pending) : pending[i] = calls
      BY <2>3 DEF Waiting
    <3>2. CASE i = 1
      BY <2>1, <3>1, <3>2 DEF PoolOK
    <3>3. CASE i # 1
      <4>1. i - 1 \in 1..Len(pending') /\ pending'[i - 1] = calls'
        BY <2>1, <2>2, <3>1, <3>3
      <4> QED BY <4>1 DEF Waiting
    <3> QED BY <3>2, <3>3
  <2> QED BY <1>4, <2>1, <2>2, <2>3 DEF PresentOK
<1>8. CASE Tick /\ wait # Idle
  <2>1. /\ calls \in Calls /\ wait \in 1..Budget /\ wait' = wait - 1
        /\ Budget \in Nat
    BY <1>8, ConstantsOK
    DEF Tick, CallsOK, TypeOK, Calls, ConstantsOK, Idle
  <2>2. UNCHANGED <<calls, work, running, finished>>
    BY <1>8 DEF Tick
  <2>3. Crowded(calls) => Crowded(calls)'
    BY <2>2, CrowdedKept
  <2>4. CASE Crowded(calls) \/ (wait = Budget /\ Waiting(calls))
    BY <1>8, <2>3, <2>4, WaitingIsCrowded DEF PresentOK
  <2>5. CASE /\ calls \in running
             /\ work[calls] = Endless \/ spent[calls] = Budget - wait
    <3>1. work[calls] # Endless => spent'[calls] = spent[calls] + 1
      BY <1>8, <2>1, <2>5 DEF Tick
    <3> QED BY <2>1, <2>2, <2>5, <3>1 DEF PresentOK, Endless
  <2> QED BY <1>8, <2>4, <2>5 DEF Tick, PresentOK
<1>9. CASE Tick /\ wait = Idle
  BY <1>9 DEF Tick, PresentOK, Idle
<1>10. CASE wait' = Idle \/ finished'[calls'] # "no"
  BY <1>10 DEF PresentOK, Idle
<1> QED
  BY <1>1, <1>2, <1>3, <1>5, <1>6, <1>7, <1>8, <1>9, <1>10
  DEF Next, EndTask

\* A result without its explanation keeps its cause.
LEMMA CauseStep ==
  ASSUME IInv, [Next]_vars
  PROVE  MissingExplanationHasACause'
<1> DEFINE Cause(n) == \/ finished[n] = "raised"
                       \/ work[n] >= Budget
                       \/ Crowded(n)
<1>0. /\ TypeOK /\ StartOK /\ CallsOK /\ PoolOK /\ PresentOK
      /\ \A n \in Calls :
             result[n] = "plain" /\ "explainer" \in loaded => Cause(n)
  BY DEF IInv, MissingExplanationHasACause, Crowded, SlowBefore
<1>1. ASSUME NEW n \in Calls, result'[n] = "plain", "explainer" \in loaded'
      PROVE  Cause(n)'
  <2>1. CASE UNCHANGED <<result, loaded, work>>
    <3>1. result[n] = "plain" /\ Cause(n) /\ work' = work
      BY <1>0, <1>1, <2>1
    <3>2. Crowded(n)' <=> Crowded(n)
      BY <3>1, CrowdedKept
    <3>3. finished[n] = "raised" => finished'[n] = "raised"
      BY <1>0
      DEF Next, Configure, Load, Classify, Submit, GetResult, TimesOut,
          StartTask, EndTask, Tick, vars, pool, TypeOK, PoolOK
    <3> QED BY <3>1, <3>2, <3>3
  <2>2. CASE Load
    <3>1. calls = 0 /\ result[n] = "plain"
      BY <1>0, <1>1, <2>2 DEF Load, StartOK
    <3> QED BY <1>0, <3>1, ConstantsOK DEF CallsOK, Calls, ConstantsOK
  <2>3. CASE Submit
    <3>1. result[n] = "plain" /\ Cause(n) /\ finished' = finished
      BY <1>0, <1>1, <2>3 DEF Submit, server
    <3>2. n <= calls /\ calls \in Nat /\ n \in Nat /\ MaxCalls \in Nat
      BY <1>0, <3>1, ConstantsOK DEF CallsOK, TypeOK, Calls, ConstantsOK
    <3>3. calls' = calls + 1
             /\ \A k \in Calls : k # calls' => work'[k] = work[k]
      BY <1>0, <2>3, Submission
    <3>4. \A k \in 1..n : k \in Calls /\ k # calls'
      BY <3>2, <3>3 DEF Calls
    <3>5. \A k \in 1..n : work'[k] = work[k]
      BY <3>3, <3>4
    <3>6. work'[n] = work[n] /\ \A k \in 1..(n - 1) : work'[k] = work[k]
      BY <3>2, <3>5 DEF Calls
    <3>7. Crowded(n)' <=> Crowded(n)
      BY <3>6, CrowdedKept
    <3> QED BY <3>1, <3>6, <3>7
  <2>4. ASSUME UNCHANGED <<loaded, work, finished>>, Cause(n)
        PROVE  Cause(n)'
    <3>1. Crowded(n)' <=> Crowded(n)
      BY <2>4, CrowdedKept
    <3> QED BY <2>4, <3>1
  <2>5. CASE Classify
    <3>1. result[n] = "plain" /\ UNCHANGED <<loaded, work, finished>>
      BY <1>0, <1>1, <2>5 DEF Classify, Call, TypeOK, server, pool
    <3> QED BY <1>0, <1>1, <2>4, <3>1
  <2>6. CASE GetResult
    <3>1. UNCHANGED <<loaded, work, finished>>
      BY <2>6 DEF GetResult, server, pool
    <3>2. result[n] = "plain" \/ finished[n] = "raised"
      BY <1>0, <1>1, <2>6 DEF GetResult, TypeOK
    <3> QED BY <1>0, <1>1, <2>4, <3>1, <3>2
  <2>7. CASE TimesOut
    <3>1. UNCHANGED <<loaded, work, finished>>
      BY <2>7 DEF TimesOut, server, pool
    <3>2. result[n] = "plain" \/ n = calls
      BY <1>0, <1>1, <2>7 DEF TimesOut, TypeOK
    <3>3. Cause(n)
      BY <1>0, <1>1, <2>7, <3>1, <3>2, GivingUp
    <3> QED BY <2>4, <3>1, <3>3
  <2> QED
    BY <2>1, <2>2, <2>3, <2>5, <2>6, <2>7
    DEF Next, Configure, StartTask, EndTask, Tick, vars, server, pool
<1> QED BY <1>1 DEF MissingExplanationHasACause, Crowded, SlowBefore

-----------------------------------------------------------------------------
\* The inductive invariant holds in every state of the worker.
LEMMA IInvHolds == Spec => []IInv
<1>1. Init => IInv
  <2> SUFFICES ASSUME Init PROVE IInv
    OBVIOUS
  <2>1. TypeOK
    <3>1. Cardinality({}) = 0
      BY FS_EmptySet
    <3> QED
      BY <3>1, ConstantsOK
      DEF Init, TypeOK, ConstantsOK, Calls, Idle, Endless
  <2>2. StartOK /\ CallsOK /\ PoolOK /\ OnlyVerifiedServes
    BY DEF Init, StartOK, CallsOK, PoolOK, OnlyVerifiedServes
  <2>3. PastOK /\ PresentOK /\ MissingExplanationHasACause
    BY DEF Init, PastOK, PresentOK, Submitted, Waiting,
           MissingExplanationHasACause
  <2> QED BY <2>1, <2>2, <2>3 DEF IInv
<1>2. IInv /\ [Next]_vars => IInv'
  BY TypeStep, StartStep, CallsStep, PoolStep, PastStep, PresentStep,
     CauseStep
  DEF IInv
<1> QED BY <1>1, <1>2, PTL DEF Spec

\* Type correctness of the worker: its state stays in TypeOK, at most
\* Threads explanations run at a time included.
THEOREM TypeCorrect == Spec => []TypeOK
BY IInvHolds, PTL DEF IInv

\* Whatever lies on the disk and in the environment, a worker that serves
\* uses verified artifacts only, and production has its classifier.
THEOREM VerifiedServe == Spec => []OnlyVerifiedServes
BY IInvHolds, PTL DEF IInv

\* A flagged flow is never left without its explanation only because one
\* that is in time had to wait for another.
THEOREM MissingHasCause == Spec => []MissingExplanationHasACause
BY IInvHolds, PTL DEF IInv
=============================================================================
