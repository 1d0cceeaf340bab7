-------------------------- MODULE StreamWorkerProofs --------------------------
(***************************************************************************)
(* Proofs about StreamWorker for every set of workers, number of messages, *)
(* batch size, number of attempts, cap and number of failing calls.        *)
(*                                                                         *)
(* The inductive invariant IInv ties what a process has in hand to what    *)
(* Redis has: everything held or pending was delivered and lies behind the *)
(* group, so the next batch is new to every worker; a batch exists only    *)
(* while it is worked on; an ack is reached only with an outcome.  All     *)
(* actions but Publish, Start and the two reads touch one worker only and  *)
(* take nothing new in hand (Local); they are treated together.            *)
(***************************************************************************)
EXTENDS StreamWorker, FiniteSetTheorems, TLAPS

\* What a message may be acknowledged with.
Outcome(m) == handled[m] > 0 \/ dlq[m] > 0 \/ m \in Malformed \cup dlqLost

\* What holds of each worker.
WorkerOK(w) ==
    /\ Held(w) \cup pel[w] \subseteq delivered
    /\ cur[w] = 0 \/ cur[w] \in delivered
    /\ batch[w] # {} => pc[w] \in {"yield"} \cup Working
    /\ pc[w] = "off" => pel[w] = {}
    /\ pc[w] \in Working => cur[w] # 0
    /\ \A m \in batch[w] : m > cur[w]
    /\ pc[w] \in {"acking", "dlqack"} => Outcome(cur[w])
    /\ pc[w] \in Live => pel[w] \subseteq Held(w)

IInv ==
    /\ TypeOK
    /\ \A m \in delivered : m <= groupAt
    /\ \A w \in Workers : WorkerOK(w)
    /\ OneOwner
    /\ AckOnlyAfterOutcome
    /\ NothingSkipped

\* A step of w that takes nothing new in hand and forgets no outcome.
Local(w) ==
    /\ UNCHANGED <<server, delivered>>
    /\ \A v \in Workers \ {w} :
          /\ pel'[v] = pel[v] /\ batch'[v] = batch[v]
          /\ cur'[v] = cur[v] /\ pc'[v] = pc[v]
    /\ pel'[w] \subseteq pel[w]
    /\ Held(w)' \subseteq Held(w)
    /\ \A m \in Msgs : Outcome(m) => Outcome(m)'
    /\ \A m \in pel[w] \ pel'[w] : m \in Held(w) /\ Outcome(m)'

LEMMA AttemptsOK == Attempts \in Nat \ {0}
BY ConstantsOK DEF Attempts

LEMMA InitIInv == Init => IInv
<1> SUFFICES ASSUME Init PROVE IInv
  OBVIOUS
<1>1. TypeOK
  BY ConstantsOK, AttemptsOK
     DEF Init, TypeOK, PCs, Live, Working, NoGroup, Msgs
<1>2. \A w \in Workers : WorkerOK(w)
  BY DEF Init, WorkerOK, Held, Working, Live
<1>3. OneOwner /\ AckOnlyAfterOutcome /\ NothingSkipped
  BY DEF Init, OneOwner, AckOnlyAfterOutcome, NothingSkipped, Held, Working
<1> QED BY <1>1, <1>2, <1>3 DEF IInv, Init

\* A local step keeps the invariant of all if it keeps that of its worker.
LEMMA LocalKeepsIInv ==
    ASSUME IInv, NEW w \in Workers, Local(w), TypeOK', WorkerOK(w)'
    PROVE  IInv'
<1> USE DEF Local, server
<1>1. \A v \in Workers \ {w} : Held(v)' = Held(v)
  BY DEF Held
<1>2. \A v \in Workers : WorkerOK(v)'
  <2>1. ASSUME NEW v \in Workers \ {w}
        PROVE  WorkerOK(v)'
    <3>1. WorkerOK(v) /\ Held(v)' = Held(v)
      BY <1>1, <2>1 DEF IInv
    <3>2. pc[v] \in {"acking", "dlqack"} => Outcome(cur[v])'
      <4>1. pc[v] \in {"acking", "dlqack"} => cur[v] \in Msgs
        BY <3>1 DEF WorkerOK, Working, IInv, TypeOK
      <4>2. cur'[v] = cur[v]
        BY <2>1
      <4>3. Outcome(cur[v]) /\ cur[v] \in Msgs => Outcome(cur[v])'
        BY <4>2 DEF Outcome
      <4> QED BY <3>1, <4>1, <4>3 DEF WorkerOK
    <3> QED BY <2>1, <3>1, <3>2 DEF WorkerOK
  <2> QED BY <2>1
<1>3. OneOwner'
  BY <1>1 DEF IInv, OneOwner
<1>4. AckOnlyAfterOutcome'
  <2> SUFFICES ASSUME NEW m \in delivered, PendingFor(m)' = {}
               PROVE  Outcome(m)'
    BY DEF AckOnlyAfterOutcome, Outcome
  <2>1. m \in Msgs
    BY DEF IInv, TypeOK
  <2>2. CASE m \in pel[w]
    <3>1. m \notin pel'[w]
      BY DEF PendingFor
    <3> QED BY <2>2, <3>1
  <2>3. CASE m \notin pel[w]
    <3>1. PendingFor(m) = {}
      BY <2>3 DEF PendingFor
    <3>2. Outcome(m)
      BY <3>1 DEF IInv, AckOnlyAfterOutcome, Outcome
    <3> QED BY <2>1, <3>2
  <2> QED BY <2>2, <2>3
<1>5. NothingSkipped' /\ \A m \in delivered' : m <= groupAt'
  BY DEF IInv, NothingSkipped
<1> QED BY <1>2, <1>3, <1>4, <1>5 DEF IInv

-----------------------------------------------------------------------------
(* The steps of one worker *)

\* What the type invariant and the invariant of w give for an action of w.
LEMMA Here ==
    ASSUME IInv, NEW w \in Workers
    PROVE  /\ TypeOK /\ WorkerOK(w)
           /\ Attempts \in Nat \ {0}
           /\ Msgs \subseteq Nat /\ 0 \notin Msgs
BY AttemptsOK DEF IInv, Msgs

LEMMA ExitIsLocal ==
    ASSUME IInv, NEW w \in Workers, NEW how \in {"stopped", "dead"},
           Exit(w, how), UNCHANGED <<server, cur, attempt, dlq, history>>,
           shutdown' \in [Workers -> BOOLEAN], faults' \in 0..MaxFaults,
           \/ UNCHANGED pel
           \/ \E m \in Held(w) : Outcome(m) /\ Acked(w, m)
    PROVE  TypeOK' /\ Local(w) /\ WorkerOK(w)'
<1> USE Here DEF Exit, Goto, Acked, server, history
<1>1. /\ pel' \in [Workers -> SUBSET Msgs]
      /\ pel'[w] \subseteq pel[w]
      /\ \A v \in Workers \ {w} : pel'[v] = pel[v]
      /\ \A m \in pel[w] \ pel'[w] : m \in Held(w) /\ Outcome(m)
  BY DEF TypeOK
<1>2. /\ pc' \in [Workers -> PCs] /\ pc'[w] = how
      /\ batch' \in [Workers -> SUBSET Msgs] /\ batch'[w] = {}
      /\ \A v \in Workers \ {w} : pc'[v] = pc[v] /\ batch'[v] = batch[v]
  BY DEF TypeOK, PCs
<1>3. Held(w)' = {}
  BY <1>2 DEF Held, Working
<1>4. TypeOK'
  BY <1>1, <1>2 DEF TypeOK
<1>5. Local(w)
  BY <1>1, <1>2, <1>3 DEF Local, Outcome
<1>6. WorkerOK(w)'
  BY <1>1, <1>2, <1>3 DEF WorkerOK, Working, Live
<1> QED BY <1>4, <1>5, <1>6

LEMMA SigtermIsLocal ==
    ASSUME IInv, NEW w \in Workers, Sigterm(w)
    PROVE  TypeOK' /\ Local(w) /\ WorkerOK(w)'
<1> USE Here DEF Sigterm, server, history
<1>1. Held(w)' = Held(w)
  BY DEF Held
<1>2. TypeOK'
  BY DEF TypeOK
<1> QED BY <1>1, <1>2 DEF Local, WorkerOK, Outcome

LEMMA BatchDoneIsLocal ==
    ASSUME IInv, NEW w \in Workers, BatchDone(w)
    PROVE  TypeOK' /\ Local(w) /\ WorkerOK(w)'
<1> USE Here DEF BatchDone, Goto, server, history
<1>1. /\ pc' \in [Workers -> PCs] /\ pc'[w] = "reading"
      /\ \A v \in Workers \ {w} : pc'[v] = pc[v]
  BY DEF TypeOK, PCs, Live
<1>2. Held(w)' = Held(w)
  BY <1>1 DEF Held, Working
<1>3. TypeOK'
  BY <1>1 DEF TypeOK
<1> QED BY <1>1, <1>2, <1>3 DEF Local, WorkerOK, Outcome, Working, Live

LEMMA DropMalformedIsLocal ==
    ASSUME IInv, NEW w \in Workers, DropMalformed(w)
    PROVE  TypeOK' /\ Local(w) /\ WorkerOK(w)'
<1> USE Here
<1> PICK m \in Malformed :
          /\ IsFirst(m, batch[w])
          /\ \/ /\ Acked(w, m)
                /\ batch' = [batch EXCEPT ![w] = @ \ {m}]
                /\ UNCHANGED <<pc, faults>>
             \/ /\ AckRaises(w, m)
                /\ Exit(w, "dead")
  BY DEF DropMalformed
<1>1. m \in Held(w) /\ Outcome(m)
  BY DEF IsFirst, Held, Outcome
<1>2. CASE AckRaises(w, m) /\ Exit(w, "dead")
  <2>1. faults' \in 0..MaxFaults
    BY <1>2, ConstantsOK DEF AckRaises, Fault, TypeOK
  <2> QED
    BY <1>1, <1>2, <2>1, ExitIsLocal
       DEF DropMalformed, AckRaises, TypeOK
<1>3. CASE Acked(w, m) /\ batch' = [batch EXCEPT ![w] = @ \ {m}]
           /\ UNCHANGED <<pc, faults>>
  <2> USE <1>3 DEF DropMalformed, server, history
  <2>1. /\ pel' \in [Workers -> SUBSET Msgs] /\ pel'[w] = pel[w] \ {m}
        /\ batch' \in [Workers -> SUBSET Msgs]
        /\ batch'[w] = batch[w] \ {m}
        /\ \A v \in Workers \ {w} :
              pel'[v] = pel[v] /\ batch'[v] = batch[v]
    BY DEF Acked, TypeOK
  <2>2. Held(w)' = batch[w] \ {m} /\ Held(w) = batch[w]
    BY <2>1 DEF Held, Working
  <2>3. TypeOK'
    BY <2>1 DEF TypeOK
  <2>4. Local(w)
    BY <1>1, <2>1, <2>2 DEF Local, Outcome
  <2>5. WorkerOK(w)'
    BY <2>1, <2>2 DEF WorkerOK, Working, Live
  <2> QED BY <2>3, <2>4, <2>5
<1> QED BY <1>2, <1>3

LEMMA TakeIsLocal ==
    ASSUME IInv, NEW w \in Workers, Take(w)
    PROVE  TypeOK' /\ Local(w) /\ WorkerOK(w)'
<1> USE Here
<1> PICK m \in Msgs \ Malformed :
          /\ IsFirst(m, batch[w])
          /\ batch' = [batch EXCEPT ![w] = @ \ {m}]
          /\ cur' = [cur EXCEPT ![w] = m]
  BY DEF Take
<1> USE DEF Take, Goto, server, history
<1>1. /\ batch' \in [Workers -> SUBSET Msgs] /\ batch'[w] = batch[w] \ {m}
      /\ cur' \in [Workers -> {0} \cup Msgs] /\ cur'[w] = m
      /\ pc' \in [Workers -> PCs] /\ pc'[w] = "handling"
      /\ attempt' \in [Workers -> 0..Attempts]
      /\ \A v \in Workers \ {w} :
            batch'[v] = batch[v] /\ cur'[v] = cur[v] /\ pc'[v] = pc[v]
  BY DEF TypeOK, PCs, Live, Working
<1>2. Held(w)' = batch[w] /\ Held(w) = batch[w] /\ m \in batch[w]
  BY <1>1 DEF Held, Working, IsFirst
<1>3. TypeOK'
  BY <1>1 DEF TypeOK
<1>4. Local(w)
  BY <1>1, <1>2 DEF Local, Outcome
<1>5. \A n \in batch'[w] : n > m
  BY <1>1, <1>2 DEF IsFirst, TypeOK
<1>6. WorkerOK(w)'
  BY <1>1, <1>2, <1>5 DEF WorkerOK, Working, Live
<1> QED BY <1>3, <1>4, <1>6

\* Between two points of process_with_retries nothing is taken or acked.
LEMMA OnwardIsLocal ==
    ASSUME IInv, NEW w \in Workers, pc[w] \in Working,
           NEW where \in Working, Goto(w, where),
           UNCHANGED server, UNCHANGED batch, UNCHANGED cur,
           UNCHANGED delivered,
           \/ UNCHANGED pel
           \/ Acked(w, cur[w]) /\ Outcome(cur[w]),
           \A m \in Msgs : Outcome(m) => Outcome(m)',
           where \in {"acking", "dlqack"} => Outcome(cur[w])'
    PROVE  Local(w) /\ WorkerOK(w)' /\ pc' \in [Workers -> PCs]
           /\ pel' \in [Workers -> SUBSET Msgs]
<1> USE Here DEF Goto, Acked, server
<1>1. /\ pc' \in [Workers -> PCs] /\ pc'[w] = where
      /\ \A v \in Workers \ {w} : pc'[v] = pc[v]
  BY DEF TypeOK, PCs, Live
<1>2. /\ pel' \in [Workers -> SUBSET Msgs]
      /\ pel'[w] \subseteq pel[w]
      /\ \A v \in Workers \ {w} : pel'[v] = pel[v]
      /\ \A m \in pel[w] \ pel'[w] : m = cur[w] /\ Outcome(m)
  BY DEF TypeOK
<1>3. Held(w)' = Held(w) /\ cur[w] \in Held(w)
  BY <1>1 DEF Held
<1>4. Local(w)
  BY <1>1, <1>2, <1>3 DEF Local, TypeOK
<1>5. WorkerOK(w)'
  BY <1>1, <1>2, <1>3 DEF WorkerOK, Live, Working, Outcome
<1> QED BY <1>1, <1>2, <1>4, <1>5

\* Which the next attempt, or giving up, is a case of.
LEMMA NextAttemptGoes ==
    ASSUME IInv, NEW w \in Workers, NextAttempt(w)
    PROVE  /\ attempt' \in [Workers -> 0..Attempts]
           /\ Goto(w, "handling") \/ Goto(w, "dlq")
BY Here DEF NextAttempt, TypeOK

\* A history counter of m goes up, or nothing changes.
LEMMA OutcomesGrow ==
    ASSUME IInv, NEW m \in Msgs,
           UNCHANGED dlqLost \/ dlqLost' = dlqLost \cup {m},
           UNCHANGED handled \/ handled' = [handled EXCEPT ![m] = @ + 1],
           UNCHANGED dlq \/ dlq' = [dlq EXCEPT ![m] = @ + 1]
    PROVE  /\ \A n \in Msgs : Outcome(n) => Outcome(n)'
           /\ handled' \in [Msgs -> Nat]
           /\ dlq' \in [Msgs -> Nat]
           /\ dlqLost' \subseteq Msgs
<1> USE DEF IInv, TypeOK
<1>1. /\ handled' \in [Msgs -> Nat]
      /\ \A n \in Msgs : handled'[n] >= handled[n]
  OBVIOUS
<1>2. /\ dlq' \in [Msgs -> Nat]
      /\ \A n \in Msgs : dlq'[n] >= dlq[n]
  OBVIOUS
<1>3. dlqLost \subseteq dlqLost' /\ dlqLost' \subseteq Msgs
  OBVIOUS
<1>4. ASSUME NEW n \in Msgs, Outcome(n)
      PROVE  Outcome(n)'
  BY <1>1, <1>2, <1>3, <1>4 DEF Outcome
<1> QED BY <1>1, <1>2, <1>3, <1>4

LEMMA HandlerReturnsIsLocal ==
    ASSUME IInv, NEW w \in Workers, HandlerReturns(w)
    PROVE  TypeOK' /\ Local(w) /\ WorkerOK(w)'
<1> USE Here DEF HandlerReturns
<1>1. cur[w] \in Msgs
  BY DEF TypeOK, WorkerOK, Working
<1>2. /\ \A n \in Msgs : Outcome(n) => Outcome(n)'
      /\ handled' \in [Msgs -> Nat]
  BY <1>1, OutcomesGrow
<1>3. Outcome(cur[w])'
  BY <1>1 DEF Outcome, TypeOK
<1>4. Local(w) /\ WorkerOK(w)' /\ pc' \in [Workers -> PCs]
  <2>1. "acking" \in Working /\ pc[w] \in Working
    BY DEF Working
  <2>2. /\ UNCHANGED server /\ UNCHANGED batch /\ UNCHANGED cur
        /\ UNCHANGED delivered /\ UNCHANGED pel
    OBVIOUS
  <2> QED BY <1>2, <1>3, <2>1, <2>2, OnwardIsLocal
<1>5. TypeOK'
  BY <1>2, <1>4 DEF TypeOK, server
<1> QED BY <1>4, <1>5

LEMMA HandlerRaisesIsLocal ==
    ASSUME IInv, NEW w \in Workers, HandlerRaises(w)
    PROVE  TypeOK' /\ Local(w) /\ WorkerOK(w)'
<1> USE Here DEF HandlerRaises
<1>1. cur[w] \in Msgs
  BY DEF TypeOK, WorkerOK, Working
<1>2. /\ \A n \in Msgs : Outcome(n) => Outcome(n)'
      /\ handled' \in [Msgs -> Nat]
  <2>1. UNCHANGED handled \/ handled' = [handled EXCEPT ![cur[w]] = @ + 1]
    OBVIOUS
  <2> QED BY <1>1, <2>1, OutcomesGrow
<1>3. /\ attempt' \in [Workers -> 0..Attempts]
      /\ Goto(w, "handling") \/ Goto(w, "dlq")
  BY NextAttemptGoes
<1>4. Local(w) /\ WorkerOK(w)' /\ pc' \in [Workers -> PCs]
  <2>1. {"handling", "dlq"} \subseteq Working /\ pc[w] \in Working
    BY DEF Working
  <2>2. /\ UNCHANGED server /\ UNCHANGED batch /\ UNCHANGED cur
        /\ UNCHANGED delivered /\ UNCHANGED pel
    OBVIOUS
  <2> QED BY <1>2, <1>3, <2>1, <2>2, OnwardIsLocal
<1>5. faults' \in 0..MaxFaults
  BY ConstantsOK DEF Fault, TypeOK
<1>6. TypeOK'
  BY <1>2, <1>3, <1>4, <1>5 DEF TypeOK, server
<1> QED BY <1>4, <1>6

LEMMA PublishDlqIsLocal ==
    ASSUME IInv, NEW w \in Workers, PublishDlq(w)
    PROVE  TypeOK' /\ Local(w) /\ WorkerOK(w)'
<1> USE Here DEF PublishDlq
<1>1. cur[w] \in Msgs
  BY DEF TypeOK, WorkerOK, Working
<1>2. /\ \A n \in Msgs : Outcome(n) => Outcome(n)'
      /\ dlq' \in [Msgs -> Nat]
      /\ dlqLost' \subseteq Msgs
  <2>1. /\ UNCHANGED handled
        /\ UNCHANGED dlq \/ dlq' = [dlq EXCEPT ![cur[w]] = @ + 1]
        /\ UNCHANGED dlqLost \/ dlqLost' = dlqLost \cup {cur[w]}
    OBVIOUS
  <2> QED BY <1>1, <2>1, OutcomesGrow
<1>3. Outcome(cur[w])'
  BY <1>1 DEF Outcome, TypeOK
<1>4. Local(w) /\ WorkerOK(w)' /\ pc' \in [Workers -> PCs]
  <2>1. "dlqack" \in Working /\ pc[w] \in Working
    BY DEF Working
  <2>2. /\ UNCHANGED server /\ UNCHANGED batch /\ UNCHANGED cur
        /\ UNCHANGED delivered /\ UNCHANGED pel
    OBVIOUS
  <2> QED BY <1>2, <1>3, <2>1, <2>2, OnwardIsLocal
<1>5. faults' \in 0..MaxFaults
  BY ConstantsOK DEF Fault, TypeOK
<1>6. TypeOK'
  BY <1>2, <1>4, <1>5 DEF TypeOK, server
<1> QED BY <1>4, <1>6

LEMMA AckFailsIsLocal ==
    ASSUME IInv, NEW w \in Workers, AckFails(w)
    PROVE  TypeOK' /\ Local(w) /\ WorkerOK(w)'
<1> USE Here DEF AckFails, AckRaises
<1>1. cur[w] \in Msgs /\ Outcome(cur[w])
  BY DEF TypeOK, WorkerOK, Working
<1>2. \A n \in Msgs : Outcome(n) => Outcome(n)'
  BY DEF Outcome, history
<1>3. /\ attempt' \in [Workers -> 0..Attempts]
      /\ Goto(w, "handling") \/ Goto(w, "dlq")
  BY NextAttemptGoes
<1>4. /\ Local(w) /\ WorkerOK(w)' /\ pc' \in [Workers -> PCs]
      /\ pel' \in [Workers -> SUBSET Msgs]
  <2>1. {"handling", "dlq"} \subseteq Working /\ pc[w] \in Working
    BY DEF Working
  <2>2. /\ UNCHANGED server /\ UNCHANGED batch /\ UNCHANGED cur
        /\ UNCHANGED delivered
        /\ UNCHANGED pel \/ (Acked(w, cur[w]) /\ Outcome(cur[w]))
    BY <1>1 DEF history
  <2> QED BY <1>2, <1>3, <2>1, <2>2, OnwardIsLocal
<1>5. faults' \in 0..MaxFaults
  BY ConstantsOK DEF Fault, TypeOK
<1>6. TypeOK'
  BY <1>3, <1>4, <1>5 DEF TypeOK, server, history
<1> QED BY <1>4, <1>6

\* The message is acked and the loop goes on with the batch, or ends.
LEMMA AckedIsLocal ==
    ASSUME IInv, NEW w \in Workers, pc[w] \in {"acking", "dlqack"},
           Acked(w, cur[w]), AfterMessage(w),
           UNCHANGED <<server, cur, attempt, shutdown, dlq, faults, history>>
    PROVE  TypeOK' /\ Local(w) /\ WorkerOK(w)'
<1> USE Here
<1>1. cur[w] \in Held(w) /\ Outcome(cur[w])
  BY DEF Held, Working, WorkerOK
<1>2. CASE Exit(w, "stopped")
  <2>1. shutdown' \in [Workers -> BOOLEAN] /\ faults' \in 0..MaxFaults
    BY DEF TypeOK
  <2> QED BY <1>1, <1>2, <2>1, ExitIsLocal
<1>3. CASE Goto(w, "yield") /\ UNCHANGED batch
  <2> USE <1>3 DEF Goto, Acked, server, history
  <2>1. /\ pel' \in [Workers -> SUBSET Msgs]
        /\ pel'[w] = pel[w] \ {cur[w]}
        /\ pc' \in [Workers -> PCs] /\ pc'[w] = "yield"
        /\ \A v \in Workers \ {w} : pel'[v] = pel[v] /\ pc'[v] = pc[v]
    BY DEF TypeOK, PCs, Live
  <2>2. Held(w)' = batch[w] /\ Held(w) = batch[w] \cup {cur[w]}
    BY <2>1 DEF Held, Working
  <2>3. TypeOK'
    BY <2>1 DEF TypeOK
  <2>4. Local(w)
    BY <1>1, <2>1, <2>2 DEF Local, Outcome
  <2>5. WorkerOK(w)'
    BY <2>1, <2>2 DEF WorkerOK, Working, Live
  <2> QED BY <2>3, <2>4, <2>5
<1> QED BY <1>2, <1>3 DEF AfterMessage

LEMMA AckDlqRaisesIsLocal ==
    ASSUME IInv, NEW w \in Workers, AckDlqRaises(w)
    PROVE  TypeOK' /\ Local(w) /\ WorkerOK(w)'
<1> USE Here DEF AckDlqRaises, AckRaises
<1>1. cur[w] \in Held(w) /\ Outcome(cur[w])
  BY DEF Held, Working, WorkerOK
<1>2. faults' \in 0..MaxFaults /\ shutdown' \in [Workers -> BOOLEAN]
  BY ConstantsOK DEF Fault, TypeOK
<1> QED BY <1>1, <1>2, ExitIsLocal

\* The process ends between two messages, or anywhere.
LEMMA EndIsLocal ==
    ASSUME IInv, NEW w \in Workers,
           \/ StopAtRead(w) \/ Crash(w)
           \/ ReadRaises(w) /\ UNCHANGED <<pel, groupAt, delivered>>
    PROVE  TypeOK' /\ Local(w) /\ WorkerOK(w)'
<1> USE Here
<1>1. CASE StopAtRead(w) \/ Crash(w)
  <2>1. shutdown' \in [Workers -> BOOLEAN] /\ faults' \in 0..MaxFaults
    BY <1>1 DEF StopAtRead, Crash, TypeOK
  <2> QED BY <1>1, <2>1, ExitIsLocal DEF StopAtRead, Crash
<1>2. CASE ReadRaises(w) /\ UNCHANGED <<pel, groupAt, delivered>>
  <2>1. faults' \in 0..MaxFaults /\ shutdown' \in [Workers -> BOOLEAN]
    BY <1>2, ConstantsOK DEF ReadRaises, Fault, TypeOK
  <2> QED
    BY <1>2, <2>1, ExitIsLocal DEF ReadRaises, server, history
<1> QED BY <1>1, <1>2

-----------------------------------------------------------------------------
(* The steps that concern the stream *)

\* A read hands out entries behind which nothing deliverable is left, none of
\* which any worker knows.
LEMMA Delivering ==
    ASSUME IInv, NEW w \in Workers, DeliverTo(w)
    PROVE  /\ NextBatch \subseteq Msgs \cap stream
           /\ groupAt' \in NextBatch
           /\ \A m \in NextBatch : groupAt < m /\ m <= groupAt'
           /\ \A m \in stream : groupAt < m /\ m <= groupAt' => m \in NextBatch
           /\ \A v \in Workers : (Held(v) \cup pel[v]) \cap NextBatch = {}
           /\ NextBatch \cap delivered = {}
           /\ pel' \in [Workers -> SUBSET Msgs]
           /\ pel'[w] = pel[w] \cup NextBatch
           /\ \A v \in Workers \ {w} : pel'[v] = pel[v]
<1> PICK last \in NextBatch :
          (\A m \in NextBatch : m <= last) /\ groupAt' = last
  BY DEF DeliverTo
<1>1. /\ groupAt \in Int /\ stream \subseteq Msgs
      /\ IsFiniteSet(Undelivered)
  <2>1. stream \subseteq 1..published /\ published \in 0..MaxMsgs
        /\ groupAt \in Int
    BY ConstantsOK DEF IInv, TypeOK, NoGroup
  <2>2. IsFiniteSet(1..published)
    BY <2>1, FS_Interval, ConstantsOK
  <2>3. Undelivered \subseteq 1..published
    BY <2>1 DEF Undelivered
  <2>4. IsFiniteSet(Undelivered)
    BY <2>2, <2>3, FS_Subset
  <2>5. stream \subseteq Msgs
    BY <2>1, ConstantsOK DEF Msgs
  <2> QED BY <2>1, <2>4, <2>5
<1>2. NextBatch \subseteq Msgs \cap stream
      /\ \A m \in NextBatch : groupAt < m /\ m <= last
  BY <1>1 DEF NextBatch, Undelivered, Msgs
<1>3. ASSUME NEW m \in stream, groupAt < m, m <= last
      PROVE  m \in NextBatch
  <2> DEFINE upTo(n) == {k \in Undelivered : k <= n}
  <2>1. m \in Undelivered /\ last \in Undelivered /\ m \in Int /\ last \in Int
    BY <1>1, <1>2, <1>3 DEF Undelivered, Msgs
  <2>2. IsFiniteSet(upTo(last)) /\ upTo(m) \subseteq upTo(last)
    <3>1. \A k \in Undelivered : k \in Int
      BY <1>1, ConstantsOK DEF Undelivered, Msgs
    <3>2. upTo(m) \subseteq upTo(last)
      <4>1. \A k \in Int : k <= m => k <= last
        BY <1>3, <2>1
      <4> QED BY <3>1, <4>1
    <3>3. IsFiniteSet(upTo(last))
      <4>1. upTo(last) \subseteq Undelivered
        OBVIOUS
      <4> QED BY <1>1, <4>1, FS_Subset
    <3> QED BY <3>2, <3>3
  <2>3. /\ Cardinality(upTo(m)) <= Cardinality(upTo(last))
        /\ IsFiniteSet(upTo(m))
    BY <2>2, FS_Subset
  <2>4. Cardinality(upTo(m)) \in Nat /\ Cardinality(upTo(last)) \in Nat
    BY <2>2, <2>3, FS_CardinalityType
  <2>5. Cardinality(upTo(last)) <= BatchSize
    BY DEF NextBatch
  <2>6. Cardinality(upTo(m)) <= BatchSize
    BY <2>3, <2>4, <2>5, ConstantsOK
  <2> QED BY <2>1, <2>6 DEF NextBatch
<1>4. NextBatch \cap delivered = {}
  BY <1>1, <1>2 DEF IInv, TypeOK, Msgs
<1>5. \A v \in Workers : (Held(v) \cup pel[v]) \cap NextBatch = {}
  BY <1>4 DEF IInv, WorkerOK
<1>6. /\ pel' \in [Workers -> SUBSET Msgs]
      /\ pel'[w] = pel[w] \cup NextBatch
      /\ \A v \in Workers \ {w} : pel'[v] = pel[v]
  BY <1>2 DEF DeliverTo, IInv, TypeOK
<1> QED BY <1>2, <1>3, <1>4, <1>5, <1>6

LEMMA ReadKeepsIInv ==
    ASSUME IInv, NEW w \in Workers,
           pc[w] = "reading", DeliverTo(w),
           delivered' = delivered \cup NextBatch,
           UNCHANGED <<published, stream, cur, attempt, shutdown, dlq,
                       handled, dlqLost>>,
           faults' \in 0..MaxFaults,
           \/ Exit(w, "dead")
           \/ Goto(w, "yield") /\ batch' = [batch EXCEPT ![w] = NextBatch]
    PROVE  IInv'
<1> USE Here, Delivering
<1>1. /\ pc' \in [Workers -> PCs] /\ batch' \in [Workers -> SUBSET Msgs]
      /\ \/ pc'[w] = "dead" /\ batch'[w] = {}
         \/ pc'[w] = "yield" /\ batch'[w] = NextBatch
      /\ \A v \in Workers \ {w} : pc'[v] = pc[v] /\ batch'[v] = batch[v]
  BY DEF Exit, Goto, TypeOK, PCs, Live
<1>2. /\ Held(w) = {} /\ pel[w] = {}
      /\ Held(w)' = batch'[w] /\ batch'[w] \subseteq NextBatch
      /\ \A v \in Workers \ {w} : Held(v)' = Held(v)
  BY <1>1 DEF Held, Working, WorkerOK, Live
<1>3. /\ published \in Nat /\ groupAt \in Int /\ groupAt' \in 1..published
      /\ groupAt < groupAt'
      /\ \A m \in delivered : m \in Msgs /\ m <= groupAt
  BY ConstantsOK DEF IInv, TypeOK, NoGroup
<1>4. TypeOK'
  <2>1. delivered' \subseteq Msgs
    BY DEF TypeOK
  <2>2. published' \in 0..MaxMsgs /\ stream' \subseteq 1..published'
        /\ groupAt' \in {NoGroup} \cup 0..published'
    BY <1>3 DEF TypeOK
  <2> QED BY <1>1, <2>1, <2>2 DEF TypeOK
<1>5. ASSUME NEW v \in Workers
      PROVE  WorkerOK(v)'
  <2>1. CASE v = w
    <3>1. \A m \in batch'[w] : m > cur'[w]
      BY <1>2, <1>3 DEF WorkerOK, TypeOK
    <3>2. Held(w)' \cup pel'[w] \subseteq delivered'
      BY <1>2
    <3>3. pc'[w] \in Live => pel'[w] \subseteq Held(w)'
      BY <1>1, <1>2 DEF Live, Working
    <3> QED BY <1>1, <2>1, <3>1, <3>2, <3>3 DEF WorkerOK, Working
  <2>2. CASE v # w
    BY <1>1, <1>2, <2>2 DEF IInv, WorkerOK, Outcome
  <2> QED BY <2>1, <2>2
<1>6. OneOwner'
  <2> SUFFICES ASSUME NEW u \in Workers, NEW v \in Workers, u # v
               PROVE  (Held(u)' \cup pel'[u]) \cap (Held(v)' \cup pel'[v]) = {}
    BY DEF OneOwner
  <2>1. CASE u # w /\ v # w
    BY <1>2, <2>1 DEF IInv, OneOwner
  <2>2. CASE u = w
    BY <1>2, <2>2
  <2>3. CASE v = w
    BY <1>2, <2>3
  <2> QED BY <2>1, <2>2, <2>3
<1>7. AckOnlyAfterOutcome'
  <2> SUFFICES ASSUME NEW m \in delivered', PendingFor(m)' = {}
               PROVE  Outcome(m)'
    BY DEF AckOnlyAfterOutcome, Outcome
  <2>1. m \notin NextBatch
    BY DEF PendingFor
  <2>2. PendingFor(m) = {}
    BY DEF PendingFor
  <2> QED BY <2>1, <2>2 DEF IInv, AckOnlyAfterOutcome, Outcome
<1>8. NothingSkipped'
  <2> SUFFICES ASSUME NEW m \in stream, m <= groupAt', m \notin delivered',
                      NEW n \in delivered'
               PROVE  n > m
    BY DEF NothingSkipped
  <2>1. m \in Nat /\ m <= groupAt
    BY <1>3 DEF TypeOK
  <2>2. CASE n \in delivered
    BY <2>1, <2>2 DEF IInv, NothingSkipped
  <2>3. CASE n \in NextBatch
    BY <1>3, <2>1, <2>3
  <2> QED BY <2>2, <2>3
<1>9. \A m \in delivered' : m <= groupAt'
  BY <1>3
<1> QED BY <1>4, <1>5, <1>6, <1>7, <1>8, <1>9 DEF IInv

\* What a trimmed stream keeps: a part of it, its last entry included.
LEMMA Trimming ==
    ASSUME NEW S \in SUBSET Nat, NEW last \in S, \A m \in S : m <= last,
           NEW T \in Trimmed(S)
    PROVE  T \subseteq S /\ last \in T
<1> PICK c \in 0..MaxMsgs : T = {m \in S : m > c}
  BY DEF Trimmed
<1>1. CASE T = S
  BY <1>1
<1>2. CASE MaxLen > 0 /\ Cardinality(T) >= MaxLen
  <2>1. T # {}
    <3>1. Cardinality({}) = 0
      BY FS_EmptySet
    <3> QED BY <1>2, <3>1, ConstantsOK
  <2>2. PICK n \in T : TRUE
    BY <2>1
  <2>3. n \in S /\ n > c /\ n <= last /\ last \in Nat
    BY <2>2
  <2>4. last > c
    BY <2>3, ConstantsOK
  <2> QED BY <2>4
<1> QED BY <1>1, <1>2 DEF Trimmed

\* A new entry is behind everything delivered, and the cap takes old ones.
LEMMA Publishing ==
    ASSUME IInv, Publish
    PROVE  /\ stream' \subseteq stream \cup {published + 1}
           /\ published + 1 \in stream'
           /\ published' \in 0..MaxMsgs
           /\ published \in Nat
<1> DEFINE S == stream \cup {published + 1}
<1>1. /\ published \in Nat /\ MaxMsgs \in Nat
      /\ stream \subseteq 1..published
      /\ published' = published + 1 /\ published < MaxMsgs
  BY ConstantsOK DEF IInv, TypeOK, Publish
<1>2. /\ S \in SUBSET Nat /\ published + 1 \in S
      /\ \A m \in S : m <= published + 1
  BY <1>1
<1>3. stream' \in Trimmed(S)
  BY DEF Publish
<1>4. stream' \subseteq S /\ published + 1 \in stream'
  BY <1>2, <1>3, Trimming
<1> QED BY <1>1, <1>4

LEMMA PublishKeepsIInv == IInv /\ Publish => IInv'
<1> SUFFICES ASSUME IInv, Publish PROVE IInv'
  OBVIOUS
<1>1. /\ stream' \subseteq stream \cup {published + 1}
      /\ published' \in 0..MaxMsgs /\ published \in Nat
      /\ published' = published + 1
      /\ UNCHANGED <<groupAt, pel, pc, batch, cur, attempt, shutdown, dlq,
                     faults, delivered, handled, dlqLost>>
  BY Publishing DEF Publish, history
<1>2. groupAt \in {NoGroup} \cup 0..published /\ stream \subseteq 1..published
  BY DEF IInv, TypeOK
<1>3. TypeOK'
  <2>1. /\ stream' \subseteq 1..published'
        /\ groupAt' \in {NoGroup} \cup 0..published'
    BY <1>1, <1>2
  <2> QED BY <1>1, <2>1 DEF IInv, TypeOK
<1>4. \A w \in Workers : WorkerOK(w)' /\ Held(w)' = Held(w)
  BY <1>1 DEF IInv, WorkerOK, Outcome, Held
<1>5. OneOwner' /\ AckOnlyAfterOutcome'
  BY <1>1, <1>4 DEF IInv, OneOwner, AckOnlyAfterOutcome, PendingFor
<1>6. NothingSkipped'
  BY <1>1, <1>2 DEF IInv, NothingSkipped, NoGroup
<1> QED BY <1>1, <1>3, <1>4, <1>5, <1>6 DEF IInv

\* The group is created before anything can have been delivered.
LEMMA StartKeepsIInv ==
    ASSUME IInv, NEW w \in Workers, Start(w)
    PROVE  IInv'
<1> USE Here DEF Start, Goto, history
<1>1. /\ pc' \in [Workers -> PCs] /\ pc'[w] = "reading"
      /\ \A v \in Workers \ {w} : pc'[v] = pc[v]
  BY DEF TypeOK, PCs, Live
<1>2. \A v \in Workers : Held(v)' = Held(v)
  BY <1>1 DEF Held, Working
<1>3. published \in Nat /\ groupAt \in Int /\ groupAt' \in 0..published
      /\ (groupAt' = groupAt \/ groupAt = NoGroup)
  BY ConstantsOK DEF TypeOK, NoGroup
<1>4. groupAt = NoGroup => delivered = {}
  BY DEF IInv, TypeOK, NoGroup
<1>5. TypeOK'
  BY <1>1, <1>3 DEF TypeOK
<1>6. \A v \in Workers : WorkerOK(v)'
  BY <1>1, <1>2 DEF IInv, WorkerOK, Outcome, Working, Live
<1>7. OneOwner' /\ AckOnlyAfterOutcome'
  BY <1>2 DEF IInv, OneOwner, AckOnlyAfterOutcome, PendingFor
<1>8. NothingSkipped' /\ \A m \in delivered' : m <= groupAt'
  BY <1>3, <1>4 DEF IInv, NothingSkipped
<1> QED BY <1>5, <1>6, <1>7, <1>8 DEF IInv

-----------------------------------------------------------------------------
(* The theorems *)

\* Every action either is a local step of one worker, or a read that hands
\* something out, or concerns the stream or the group.
LEMMA StepsOfWorkers ==
    ASSUME IInv, NEW w \in Workers,
           \/ Proceed(w)
           \/ ReadRaises(w) \/ AckFails(w) \/ AckDlqRaises(w)
           \/ Sigterm(w) \/ Crash(w)
    PROVE  \/ TypeOK' /\ Local(w) /\ WorkerOK(w)'
           \/ Start(w)
           \/ Read(w)
           \/ ReadRaises(w) /\ DeliverTo(w)
                            /\ delivered' = delivered \cup NextBatch
<1>1. CASE StopAtRead(w) \/ Crash(w)
  BY <1>1, EndIsLocal
<1>2. CASE ReadRaises(w)
  BY <1>2, EndIsLocal DEF ReadRaises
<1>3. CASE BatchDone(w) \/ DropMalformed(w) \/ Take(w) \/ Sigterm(w)
  BY <1>3, BatchDoneIsLocal, DropMalformedIsLocal, TakeIsLocal, SigtermIsLocal
<1>4. CASE HandlerReturns(w) \/ HandlerRaises(w) \/ PublishDlq(w)
  BY <1>4, HandlerReturnsIsLocal, HandlerRaisesIsLocal, PublishDlqIsLocal
<1>5. CASE AckFails(w) \/ AckDlqRaises(w)
  BY <1>5, AckFailsIsLocal, AckDlqRaisesIsLocal
<1>6. CASE Ack(w)
  <2>1. pc[w] \in {"acking", "dlqack"} /\ Acked(w, cur[w]) /\ AfterMessage(w)
    BY <1>6 DEF Ack
  <2> QED BY <1>6, <2>1, AckedIsLocal DEF Ack
<1>7. CASE AckDlq(w)
  <2>1. pc[w] \in {"acking", "dlqack"} /\ Acked(w, cur[w]) /\ AfterMessage(w)
    BY <1>7 DEF AckDlq
  <2> QED BY <1>7, <2>1, AckedIsLocal DEF AckDlq
<1>8. CASE Start(w) \/ Read(w)
  BY <1>8
<1> QED
  BY <1>1, <1>2, <1>3, <1>4, <1>5, <1>6, <1>7, <1>8 DEF Proceed

LEMMA StutterKeepsIInv ==
    ASSUME IInv, UNCHANGED vars
    PROVE  IInv'
<1> USE DEF vars, server, history
<1>1. TypeOK'
  BY DEF IInv, TypeOK
<1>2. \A w \in Workers : WorkerOK(w)' /\ Held(w)' = Held(w)
  BY DEF IInv, WorkerOK, Outcome, Held
<1>3. OneOwner' /\ AckOnlyAfterOutcome' /\ NothingSkipped'
  BY <1>2 DEF IInv, OneOwner, AckOnlyAfterOutcome, PendingFor, NothingSkipped
<1> QED BY <1>1, <1>2, <1>3 DEF IInv

LEMMA NextIInv == IInv /\ [Next]_vars => IInv'
<1> SUFFICES ASSUME IInv, [Next]_vars PROVE IInv'
  OBVIOUS
<1>1. CASE Publish
  BY <1>1, PublishKeepsIInv
<1>2. ASSUME NEW w \in Workers,
             \/ Proceed(w)
             \/ ReadRaises(w) \/ AckFails(w) \/ AckDlqRaises(w)
             \/ Sigterm(w) \/ Crash(w)
      PROVE  IInv'
  <2>1. CASE TypeOK' /\ Local(w) /\ WorkerOK(w)'
    BY <2>1, LocalKeepsIInv
  <2>2. CASE Start(w)
    BY <2>2, StartKeepsIInv
  <2>3. CASE Read(w)
    <3>1. faults' \in 0..MaxFaults
      BY <2>3 DEF Read, IInv, TypeOK
    <3> QED BY <2>3, <3>1, ReadKeepsIInv DEF Read
  <2>4. CASE ReadRaises(w) /\ DeliverTo(w)
                           /\ delivered' = delivered \cup NextBatch
    <3>1. faults' \in 0..MaxFaults
      BY <2>4, ConstantsOK DEF ReadRaises, Fault, IInv, TypeOK
    <3> QED BY <2>4, <3>1, ReadKeepsIInv DEF ReadRaises
  <2> QED BY <1>2, <2>1, <2>2, <2>3, <2>4, StepsOfWorkers
<1>3. CASE UNCHANGED vars
  BY <1>3, StutterKeepsIInv
<1> QED BY <1>1, <1>2, <1>3 DEF Next

THEOREM Invariant == Spec => []IInv
BY InitIInv, NextIInv, PTL DEF Spec

\* The types of the stream's and the workers' state.
THEOREM TypeCorrect == Spec => []TypeOK
<1>1. IInv => TypeOK
  BY DEF IInv
<1> QED BY <1>1, Invariant, PTL

\* XREADGROUP ">" and what the workers do with it give every entry to one
\* worker at most, for any number of workers, crashes and failing calls.
THEOREM EntriesHaveOneOwner == Spec => []OneOwner
<1>1. IInv => OneOwner
  BY DEF IInv
<1> QED BY <1>1, Invariant, PTL

\* A live worker has in hand all that is pending for it: entries are stranded
\* by processes that exit, and by nothing else.
THEOREM PendingIsInHand == Spec => []LiveWorkerHoldsItsPending
<1>1. IInv => LiveWorkerHoldsItsPending
  BY DEF IInv, WorkerOK, LiveWorkerHoldsItsPending
<1> QED BY <1>1, Invariant, PTL

\* No delivered message is acknowledged before it is handled, dead-lettered,
\* found malformed, or given up by a failing DLQ write.
THEOREM AcksFollowOutcomes == Spec => []AckOnlyAfterOutcome
<1>1. IInv => AckOnlyAfterOutcome
  BY DEF IInv
<1> QED BY <1>1, Invariant, PTL

\* The group skips nothing that came after its first delivery.
THEOREM GroupSkipsNothing == Spec => []NothingSkipped
<1>1. IInv => NothingSkipped
  BY DEF IInv
<1> QED BY <1>1, Invariant, PTL

\* Each worker takes messages in the order of the stream.
THEOREM MessagesAreTakenInOrder == Spec => TakenInOrder
<1>1. IInv /\ [Next]_vars
          => [\A w \in Workers : cur'[w] # cur[w] => cur'[w] > cur[w]]_vars
  <2> SUFFICES ASSUME IInv, Next, NEW v \in Workers, cur'[v] # cur[v]
               PROVE  cur'[v] > cur[v]
    OBVIOUS
  <2>1. ASSUME NEW w \in Workers, Take(w)
        PROVE  cur'[v] > cur[v]
    <3>1. v = w /\ cur'[v] \in batch[v]
      BY <2>1 DEF Take, IsFirst, IInv, TypeOK
    <3> QED BY <3>1 DEF IInv, WorkerOK
  <2>2. ASSUME NEW w \in Workers, Proceed(w), ~Take(w)
        PROVE  FALSE
    BY <2>2
       DEF Proceed, Start, StopAtRead, Read, BatchDone, DropMalformed,
           HandlerReturns, HandlerRaises, Ack, PublishDlq, AckDlq, history
  <2>3. CASE Publish
    BY <2>3 DEF Publish
  <2>4. ASSUME NEW w \in Workers,
               \/ ReadRaises(w) \/ AckFails(w) \/ AckDlqRaises(w)
               \/ Sigterm(w) \/ Crash(w)
        PROVE  FALSE
    BY <2>4 DEF ReadRaises, AckFails, AckDlqRaises, Sigterm, Crash
  <2> QED BY <2>1, <2>2, <2>3, <2>4 DEF Next
<1> QED BY <1>1, Invariant, PTL DEF Spec, TakenInOrder

-----------------------------------------------------------------------------
(***************************************************************************)
(* The proof that StreamWorker implements MessageFate: at-most-once        *)
(* delivery.  The refinement mapping reads the fate of a message off the   *)
(* stream, the group, the pending lists and what live workers have in      *)
(* hand; the invariant above makes it a function of the message, because a *)
(* message in hand has one owner and lies behind the group.                *)
(***************************************************************************)

\* The fate of m, in the order in which it can change, and its owner.
FateIs(m) ==
    /\ FateOf(m) =
           IF m \in delivered
           THEN IF HeldLive(m) THEN "inflight"
                ELSE IF PendingFor(m) = {} THEN "settled" ELSE "stranded"
           ELSE IF m > published THEN "absent"
                ELSE IF m \in stream /\ m > groupAt THEN "waiting" ELSE "lost"
    /\ HeldLive(m) => m \in delivered
    /\ m \in delivered => m <= published
    /\ IF HeldLive(m) THEN OwnerOf(m) \in Workers ELSE OwnerOf(m) = "nobody"
    /\ \A w \in Workers : pc[w] \in Live /\ m \in Held(w) => OwnerOf(m) = w

LEMMA FateIsKnown == IInv => \A m \in Msgs : FateIs(m)
<1> SUFFICES ASSUME IInv, NEW m \in Msgs PROVE FateIs(m)
  OBVIOUS
<1>1. HeldLive(m) => m \in delivered
  BY DEF IInv, WorkerOK, HeldLive
<1>2. m \in delivered => m <= published
  <2>1. groupAt \in Int /\ published \in Nat /\ groupAt <= published
        /\ m \in Nat
    BY ConstantsOK DEF IInv, TypeOK, NoGroup, Msgs
  <2> QED BY <2>1 DEF IInv
<1>3. m \in Nat /\ published \in Nat
  BY ConstantsOK DEF IInv, TypeOK, Msgs
<1>4. FateOf(m) =
           IF m \in delivered
           THEN IF HeldLive(m) THEN "inflight"
                ELSE IF PendingFor(m) = {} THEN "settled" ELSE "stranded"
           ELSE IF m > published THEN "absent"
                ELSE IF m \in stream /\ m > groupAt THEN "waiting" ELSE "lost"
  <2>1. m \in stream => ~(m > published)
    BY <1>3 DEF IInv, TypeOK
  <2> QED BY <2>1 DEF FateOf, Settled
<1>5. ASSUME NEW w \in Workers, pc[w] \in Live, m \in Held(w)
      PROVE  OwnerOf(m) = w
  <2> DEFINE o == CHOOSE v \in Workers : pc[v] \in Live /\ m \in Held(v)
  <2>1. o \in Workers /\ m \in Held(o)
    BY <1>5
  <2>2. o = w
    BY <1>5, <2>1 DEF IInv, OneOwner
  <2>3. HeldLive(m)
    BY <1>5 DEF HeldLive
  <2> QED BY <2>2, <2>3 DEF OwnerOf
<1>6. IF HeldLive(m) THEN OwnerOf(m) \in Workers ELSE OwnerOf(m) = "nobody"
  BY <1>5 DEF HeldLive, OwnerOf
<1> QED BY <1>1, <1>2, <1>4, <1>5, <1>6 DEF FateIs

\* What MessageFate allows to happen to m in one step.
FateMoves(m) ==
    \/ FateOf(m)' = FateOf(m) /\ OwnerOf(m)' = OwnerOf(m)
    \/ <<FateOf(m), FateOf(m)'>> \in Fate!Moves

\* A local step settles or strands what it lets go of.
LEMMA LocalMovesFate ==
    ASSUME IInv, NEW w \in Workers, Local(w), NEW m \in Msgs,
           FateIs(m), FateIs(m)'
    PROVE  FateMoves(m)
<1>1. /\ published' = published /\ stream' = stream /\ groupAt' = groupAt
      /\ delivered' = delivered
      /\ \A v \in Workers \ {w} :
            pel'[v] = pel[v] /\ pc'[v] = pc[v] /\ Held(v)' = Held(v)
  BY DEF Local, server, Held
<1>2. Held(w) # {} => pc[w] \in Live
  BY DEF IInv, WorkerOK, Held, Live
<1>3. CASE m \notin Held(w)
  <2>1. m \in pel'[w] <=> m \in pel[w]
    BY <1>3 DEF Local
  <2>2. m \notin Held(w)'
    BY <1>3 DEF Local
  <2>3. PendingFor(m)' = PendingFor(m)
    BY <1>1, <2>1 DEF PendingFor
  <2>4. HeldLive(m)' <=> HeldLive(m)
    BY <1>1, <1>3, <2>2 DEF HeldLive
  <2>5. OwnerOf(m)' = OwnerOf(m)
    <3>1. CASE HeldLive(m)
      <4>1. PICK v \in Workers : pc[v] \in Live /\ m \in Held(v)
        BY <3>1 DEF HeldLive
      <4>2. v # w /\ pc'[v] \in Live /\ m \in Held(v)'
        BY <1>1, <1>3, <4>1
      <4> QED BY <4>1, <4>2 DEF FateIs
    <3>2. CASE ~HeldLive(m)
      BY <2>4, <3>2 DEF FateIs
    <3> QED BY <3>1, <3>2
  <2> QED BY <1>1, <2>3, <2>4, <2>5 DEF FateIs, FateMoves
<1>4. CASE m \in Held(w)
  <2>1. /\ pc[w] \in Live /\ HeldLive(m) /\ OwnerOf(m) = w
        /\ FateOf(m) = "inflight"
    BY <1>2, <1>4 DEF HeldLive, FateIs
  <2>2. CASE pc'[w] \in Live /\ m \in Held(w)'
    <3>1. HeldLive(m)' /\ OwnerOf(m)' = w
      BY <2>2 DEF HeldLive, FateIs
    <3> QED BY <1>1, <2>1, <3>1 DEF FateIs, FateMoves
  <2>3. CASE ~(pc'[w] \in Live /\ m \in Held(w)')
    <3>1. ~HeldLive(m)'
      BY <1>1, <1>4, <2>3 DEF HeldLive, IInv, OneOwner
    <3>2. FateOf(m)' \in {"settled", "stranded"}
      BY <1>1, <2>1, <3>1 DEF FateIs
    <3> QED BY <2>1, <3>2 DEF FateMoves, Fate!Moves
  <2> QED BY <2>2, <2>3
<1> QED BY <1>3, <1>4

\* Nothing about m changes as long as it is delivered, held and pending as
\* before, or is not delivered and as far from it as before.
LEMMA SameFate ==
    ASSUME NEW m \in Msgs, FateIs(m), FateIs(m)',
           m \in delivered, m \in delivered',
           HeldLive(m)' <=> HeldLive(m),
           PendingFor(m)' = PendingFor(m),
           \A w \in Workers :
              pc[w] \in Live /\ m \in Held(w)
              => pc'[w] \in Live /\ m \in Held(w)'
    PROVE  FateMoves(m)
<1>1. FateOf(m)' = FateOf(m)
  BY DEF FateIs
<1>2. CASE HeldLive(m)
  <2>1. PICK w \in Workers : pc[w] \in Live /\ m \in Held(w)
    BY <1>2 DEF HeldLive
  <2>2. OwnerOf(m) = w /\ OwnerOf(m)' = w
    BY <2>1 DEF FateIs
  <2> QED BY <1>1, <2>2 DEF FateMoves
<1>3. CASE ~HeldLive(m)
  BY <1>1, <1>3 DEF FateIs, FateMoves
<1> QED BY <1>2, <1>3

\* XADD and its trimming.
LEMMA PublishMovesFate ==
    ASSUME IInv, Publish, NEW m \in Msgs, FateIs(m), FateIs(m)'
    PROVE  FateMoves(m)
<1>1. /\ stream' \subseteq stream \cup {published + 1}
      /\ published + 1 \in stream'
      /\ published \in Nat /\ m \in Nat
      /\ published' = published + 1
      /\ UNCHANGED <<groupAt, pel, pc, batch, cur, delivered>>
  BY Publishing, ConstantsOK DEF Publish, history, Msgs
<1>2. groupAt \in Int /\ groupAt <= published
  BY <1>1 DEF IInv, TypeOK, NoGroup
<1>3. /\ \A w \in Workers : Held(w)' = Held(w)
      /\ HeldLive(m)' <=> HeldLive(m)
      /\ PendingFor(m)' = PendingFor(m)
  BY <1>1 DEF Held, HeldLive, PendingFor
<1>4. CASE m \in delivered
  BY <1>1, <1>3, <1>4, SameFate
<1>5. CASE m \notin delivered
  <2>1. OwnerOf(m) = "nobody" /\ OwnerOf(m)' = "nobody"
    BY <1>1, <1>3, <1>5 DEF FateIs
  <2>2. CASE m > published
    <3>1. FateOf(m) = "absent"
      BY <1>5, <2>2 DEF FateIs
    <3>2. FateOf(m)' = IF m > published + 1 THEN "absent" ELSE "waiting"
      BY <1>1, <1>2, <1>5, <2>2 DEF FateIs
    <3> QED BY <2>1, <3>1, <3>2 DEF FateMoves, Fate!Moves
  <2>3. CASE ~(m > published)
    <3>1. FateOf(m) =
              IF m \in stream /\ m > groupAt THEN "waiting" ELSE "lost"
      BY <1>5, <2>3 DEF FateIs
    <3>2. FateOf(m)' =
              IF m \in stream' /\ m > groupAt THEN "waiting" ELSE "lost"
      BY <1>1, <1>5, <2>3 DEF FateIs
    <3>3. m \in stream' => m \in stream
      BY <1>1, <2>3
    <3> QED BY <2>1, <3>1, <3>2, <3>3 DEF FateMoves, Fate!Moves
  <2> QED BY <2>2, <2>3
<1> QED BY <1>4, <1>5

\* XGROUP CREATE at "$".
LEMMA StartMovesFate ==
    ASSUME IInv, NEW w \in Workers, Start(w),
           NEW m \in Msgs, FateIs(m), FateIs(m)'
    PROVE  FateMoves(m)
<1> USE DEF Start, Goto, history
<1>1. /\ published' = published /\ stream' = stream /\ delivered' = delivered
      /\ published \in Nat /\ groupAt \in Int /\ m \in Nat
      /\ groupAt <= groupAt'
  BY ConstantsOK DEF IInv, TypeOK, NoGroup, Msgs
<1>2. /\ \A v \in Workers \ {w} : pc'[v] = pc[v] /\ Held(v)' = Held(v)
      /\ Held(w) = {} /\ Held(w)' = {}
      /\ PendingFor(m)' = PendingFor(m)
  BY DEF IInv, TypeOK, WorkerOK, Held, Working, PendingFor
<1>3. HeldLive(m)' <=> HeldLive(m)
  BY <1>2 DEF HeldLive
<1>4. CASE m \in delivered
  BY <1>1, <1>2, <1>3, <1>4, SameFate
<1>5. CASE m \notin delivered
  <2>1. OwnerOf(m) = "nobody" /\ OwnerOf(m)' = "nobody"
    BY <1>1, <1>3, <1>5 DEF FateIs
  <2>2. \/ FateOf(m)' = FateOf(m)
        \/ FateOf(m) = "waiting" /\ FateOf(m)' = "lost"
    BY <1>1, <1>5 DEF FateIs
  <2> QED BY <2>1, <2>2 DEF FateMoves, Fate!Moves
<1> QED BY <1>4, <1>5

\* XREADGROUP, whose reply reaches the worker or not.
LEMMA ReadMovesFate ==
    ASSUME IInv, NEW w \in Workers,
           pc[w] = "reading", DeliverTo(w),
           delivered' = delivered \cup NextBatch,
           UNCHANGED <<published, stream, cur>>,
           \/ Exit(w, "dead")
           \/ Goto(w, "yield") /\ batch' = [batch EXCEPT ![w] = NextBatch],
           NEW m \in Msgs, FateIs(m), FateIs(m)'
    PROVE  FateMoves(m)
<1> USE Here, Delivering
<1>1. /\ \/ pc'[w] = "dead" /\ batch'[w] = {}
         \/ pc'[w] = "yield" /\ batch'[w] = NextBatch
      /\ \A v \in Workers \ {w} : pc'[v] = pc[v] /\ batch'[v] = batch[v]
  BY DEF Exit, Goto, TypeOK
<1>2. /\ Held(w) = {} /\ Held(w)' = batch'[w]
      /\ \A v \in Workers \ {w} : Held(v)' = Held(v)
  BY <1>1 DEF Held, Working, WorkerOK
<1>3. groupAt \in Int /\ groupAt' \in Int /\ groupAt < groupAt' /\ m \in Int
      /\ published \in Int
  BY ConstantsOK DEF IInv, TypeOK, NoGroup
<1>4. CASE m \in delivered
  <2>1. m \notin NextBatch
    BY <1>4
  <2>2. PendingFor(m)' = PendingFor(m)
    BY <2>1 DEF PendingFor
  <2>3. HeldLive(m)' <=> HeldLive(m)
    BY <1>1, <1>2, <2>1 DEF HeldLive
  <2> QED BY <1>1, <1>2, <1>4, <2>2, <2>3, SameFate
<1>5. CASE m \in NextBatch
  <2>1. FateOf(m) = "waiting"
    <3>1. m \notin delivered /\ m \in stream /\ m > groupAt
      BY <1>5
    <3>2. ~(m > published)
      BY <1>3, <3>1 DEF TypeOK
    <3> QED BY <3>1, <3>2 DEF FateIs
  <2>2. FateOf(m)' \in {"inflight", "stranded"}
    <3>1. w \in PendingFor(m)' /\ m \in delivered'
      BY <1>5 DEF PendingFor
    <3> QED BY <3>1 DEF FateIs
  <2> QED BY <2>1, <2>2 DEF FateMoves, Fate!Moves
<1>6. CASE m \notin delivered \cup NextBatch
  <2>1. ~HeldLive(m) /\ ~HeldLive(m)'
    BY <1>6 DEF FateIs
  <2>2. OwnerOf(m) = "nobody" /\ OwnerOf(m)' = "nobody"
    BY <2>1 DEF FateIs
  <2>3. m \in stream => (m > groupAt <=> m > groupAt')
    BY <1>3, <1>6
  <2>4. FateOf(m)' = FateOf(m)
    BY <1>6, <2>3 DEF FateIs
  <2> QED BY <2>2, <2>4 DEF FateMoves
<1> QED BY <1>4, <1>5, <1>6

\* Delivery is at most once: what the broker and the retry helper do to each
\* message is what MessageFate promises, through all interleavings, crashes,
\* signals, trimming and failing calls.
THEOREM ImplementsMessageFate == Spec => DeliversAtMostOnce
<1>1. Init => Fate!Init
  <2> SUFFICES ASSUME Init, NEW m \in Msgs
               PROVE  FateOf(m) = "absent" /\ OwnerOf(m) = "nobody"
    BY DEF Fate!Init
  <2>1. ~HeldLive(m) /\ m \notin delivered /\ m > published
    BY ConstantsOK DEF Init, HeldLive, Live, Working, Msgs
  <2>2. m \notin stream
    BY DEF Init
  <2> QED BY <2>1, <2>2 DEF FateOf, OwnerOf
<1>2. IInv /\ IInv' /\ (\A m \in Msgs : FateIs(m))
           /\ (\A m \in Msgs : FateIs(m))' /\ [Next]_vars
      => [Fate!Move]_<<[m \in Msgs |-> FateOf(m)],
                       [m \in Msgs |-> OwnerOf(m)]>>
  <2> SUFFICES ASSUME IInv, [Next]_vars,
                      \A m \in Msgs : FateIs(m) /\ FateIs(m)'
               PROVE  [Fate!Move]_<<[m \in Msgs |-> FateOf(m)],
                                    [m \in Msgs |-> OwnerOf(m)]>>
    OBVIOUS
  <2>1. ASSUME NEW m \in Msgs
        PROVE  FateMoves(m)
    <3> USE <2>1
    <3>1. CASE Publish
      BY <3>1, PublishMovesFate
    <3>2. ASSUME NEW w \in Workers,
                 \/ Proceed(w)
                 \/ ReadRaises(w) \/ AckFails(w) \/ AckDlqRaises(w)
                 \/ Sigterm(w) \/ Crash(w)
          PROVE  FateMoves(m)
      <4>1. CASE Local(w)
        BY <4>1, LocalMovesFate
      <4>2. CASE Start(w)
        BY <4>2, StartMovesFate
      <4>3. CASE Read(w)
        BY <4>3, ReadMovesFate DEF Read
      <4>4. CASE ReadRaises(w) /\ DeliverTo(w)
                               /\ delivered' = delivered \cup NextBatch
        BY <4>4, ReadMovesFate DEF ReadRaises
      <4> QED BY <3>2, <4>1, <4>2, <4>3, <4>4, StepsOfWorkers
    <3>3. CASE UNCHANGED vars
      BY <3>3
         DEF FateMoves, FateOf, OwnerOf, HeldLive, Held, Settled, PendingFor,
             vars, server, history
    <3> QED BY <3>1, <3>2, <3>3 DEF Next
  <2>2. ASSUME NEW m \in Msgs
        PROVE  /\ FateOf(m)' \in {"absent", "waiting", "lost", "inflight",
                                  "settled", "stranded"}
               /\ OwnerOf(m)' \in Workers \cup {"nobody"}
               /\ FateOf(m)' = "inflight" <=> OwnerOf(m)' # "nobody"
    BY <2>2, ConstantsOK DEF FateIs
  <2>3. Fate!Move
    BY <2>1, <2>2 DEF Fate!Move, FateMoves
  <2> QED BY <2>3
<1>3. IInv => \A m \in Msgs : FateIs(m)
  BY FateIsKnown
<1> QED
  BY <1>1, <1>2, <1>3, Invariant, PTL
     DEF Spec, DeliversAtMostOnce, Fate!Spec

-----------------------------------------------------------------------------
(* Repetitions are paid for *)

\* A message whose handler will run once more, or which is given up.
Retried(m) == \E w \in Workers : cur[w] = m /\ pc[w] \in {"handling", "dlq"}

\* What has come, and may still come without a further failure, of a message;
\* and everything beyond the first.
Owed(m) == handled[m] + (IF dlq[m] > 0 \/ Retried(m) THEN 1 ELSE 0)
Debts == UNION {{m} \X (2..Owed(m)) : m \in Msgs}

Fresh(m) == handled[m] = 0 /\ dlq[m] = 0

\* A message is handled once per attempt at most, and fresh until it is taken.
TriesOK(w) ==
    /\ pc[w] \in {"handling", "acking", "dlq"} => dlq[cur[w]] = 0
    /\ pc[w] = "handling" => handled[cur[w]] < attempt[w]
    /\ pc[w] = "acking" => handled[cur[w]] <= attempt[w]
    /\ \A m \in batch[w] : Fresh(m)

PaidInv ==
    /\ IsFiniteSet(Debts)
    /\ Cardinality(Debts) <= faults
    /\ \A m \in Msgs : handled[m] <= Attempts
    /\ \A m \in Msgs \ delivered : Fresh(m)
    /\ \A w \in Workers : TriesOK(w)

LEMMA OneMore ==
    ASSUME NEW S, IsFiniteSet(S), NEW x, NEW T \in SUBSET (S \cup {x})
    PROVE  /\ IsFiniteSet(T)
           /\ Cardinality(S) \in Nat /\ Cardinality(T) \in Nat
           /\ Cardinality(T) <= Cardinality(S) + 1
           /\ T \subseteq S => Cardinality(T) <= Cardinality(S)
<1>1. /\ IsFiniteSet(S \cup {x})
      /\ Cardinality(S \cup {x}) <= Cardinality(S) + 1
      /\ Cardinality(S) \in Nat /\ Cardinality(S \cup {x}) \in Nat
  BY FS_AddElement, FS_CardinalityType
<1>2. /\ IsFiniteSet(T) /\ Cardinality(T) \in Nat
      /\ Cardinality(T) <= Cardinality(S \cup {x})
  BY <1>1, FS_Subset, FS_CardinalityType
<1>3. T \subseteq S => Cardinality(T) <= Cardinality(S)
  BY FS_Subset
<1> QED BY <1>1, <1>2, <1>3

\* A step may raise what is owed for one message by one, for a failed call.
LEMMA DebtsArePaid ==
    ASSUME TypeOK, TypeOK', PaidInv, NEW m \in Msgs,
           \A n \in Msgs \ {m} : Owed(n)' <= Owed(n),
           \/ faults' >= faults /\ (Owed(m)' <= Owed(m) \/ Owed(m)' <= 1)
           \/ faults' = faults + 1 /\ Owed(m)' <= Owed(m) + 1
    PROVE  IsFiniteSet(Debts)' /\ Cardinality(Debts)' <= faults'
<1> DEFINE x == <<m, Owed(m) + 1>>
<1>1. /\ \A n \in Msgs : Owed(n) \in Nat
      /\ \A n \in Msgs : Owed(n)' \in Nat
  BY DEF TypeOK, Owed
<1>2. Debts' = UNION {{n} \X (2..Owed(n)') : n \in Msgs}
  BY DEF Debts
<1>3. ASSUME NEW d \in Debts'
      PROVE  d \in Debts \cup {x}
  <2> PICK n \in Msgs : d \in {n} \X (2..Owed(n)')
    BY <1>2
  <2> PICK k \in 2..Owed(n)' : d = <<n, k>>
    OBVIOUS
  <2>1. CASE k <= Owed(n)
    BY <1>1, <2>1 DEF Debts
  <2>2. CASE ~(k <= Owed(n))
    BY <1>1, <2>2
  <2> QED BY <2>1, <2>2
<1>4. ASSUME Owed(m)' <= Owed(m) \/ Owed(m)' <= 1, NEW d \in Debts'
      PROVE  d \in Debts
  <2> PICK n \in Msgs : d \in {n} \X (2..Owed(n)')
    BY <1>2
  <2> PICK k \in 2..Owed(n)' : d = <<n, k>>
    OBVIOUS
  <2>1. k <= Owed(n)
    BY <1>1, <1>4
  <2> QED BY <1>1, <2>1 DEF Debts
<1>5. IsFiniteSet(Debts) /\ Cardinality(Debts) <= faults
      /\ faults \in Nat /\ faults' \in Nat
  BY ConstantsOK DEF PaidInv, TypeOK
<1>6. /\ IsFiniteSet(Debts')
      /\ Cardinality(Debts) \in Nat /\ Cardinality(Debts') \in Nat
      /\ Cardinality(Debts') <= Cardinality(Debts) + 1
      /\ Debts' \subseteq Debts => Cardinality(Debts') <= Cardinality(Debts)
  BY <1>3, <1>5, OneMore
<1>7. CASE Owed(m)' <= Owed(m) \/ Owed(m)' <= 1
  <2>1. Debts' \subseteq Debts
    BY <1>4, <1>7
  <2>2. faults' >= faults
    BY <1>5
  <2> QED BY <1>5, <1>6, <2>1, <2>2
<1>8. CASE faults' = faults + 1
  BY <1>5, <1>6, <1>8
<1> QED BY <1>7, <1>8

\* Nothing came of any message, and no handler starts or runs again.
LEMMA QuietKeepsPaid ==
    ASSUME IInv, TypeOK', PaidInv, NEW w \in Workers,
           UNCHANGED <<cur, attempt, dlq, handled>>,
           \A v \in Workers \ {w} : pc'[v] = pc[v] /\ batch'[v] = batch[v],
           pc'[w] = pc[w] \/ pc'[w] \notin {"handling", "acking", "dlq"},
           \A n \in batch'[w] : n \in batch[w] \/ n \in Msgs \ delivered,
           delivered \subseteq delivered', faults' >= faults
    PROVE  PaidInv'
<1>0. TypeOK
  BY DEF IInv
<1>1. \A n \in Msgs : Owed(n)' <= Owed(n)
  <2> SUFFICES ASSUME NEW n \in Msgs PROVE Owed(n)' <= Owed(n)
    OBVIOUS
  <2>1. Retried(n)' => Retried(n)
    BY DEF Retried
  <2> QED BY <1>0, <2>1 DEF Owed, TypeOK
<1>2. IsFiniteSet(Debts)' /\ Cardinality(Debts)' <= faults'
  <2>1. CASE Msgs = {}
    <3>1. Debts' = {}
      BY <2>1 DEF Debts
    <3>2. Cardinality({}) = 0 /\ IsFiniteSet({})
      BY FS_EmptySet
    <3>3. faults' \in Nat
      BY ConstantsOK DEF TypeOK
    <3> QED BY <3>1, <3>2, <3>3
  <2>2. CASE Msgs # {}
    <3> PICK m \in Msgs : TRUE
      BY <2>2
    <3> QED BY <1>0, <1>1, DebtsArePaid
  <2> QED BY <2>1, <2>2
<1>3. \A m \in Msgs : handled'[m] <= Attempts
  BY DEF PaidInv
<1>4. \A m \in Msgs \ delivered' : Fresh(m)'
  BY DEF PaidInv, Fresh
<1>5. ASSUME NEW v \in Workers
      PROVE  TriesOK(v)'
  <2>1. TriesOK(v)
    BY DEF PaidInv
  <2>2. \A n \in batch'[v] : Fresh(n)'
    BY <2>1 DEF TriesOK, PaidInv, Fresh
  <2>3. pc'[v] = pc[v] \/ pc'[v] \notin {"handling", "acking", "dlq"}
    OBVIOUS
  <2> QED BY <2>1, <2>2, <2>3 DEF TriesOK
<1> QED BY <1>2, <1>3, <1>4, <1>5 DEF PaidInv

\* The message in hand is in nobody else's hands, and was delivered.
LEMMA InHand ==
    ASSUME IInv, NEW w \in Workers, pc[w] \in Working
    PROVE  /\ cur[w] \in Msgs /\ cur[w] \in delivered
           /\ \A v \in Workers : cur[w] \notin batch[v]
           /\ \A v \in Workers \ {w} : pc[v] \in Working => cur[v] # cur[w]
<1>1. TypeOK /\ WorkerOK(w) /\ OneOwner
  BY DEF IInv
<1>2. cur[w] \in Msgs /\ cur[w] \in delivered
  BY <1>1 DEF TypeOK, WorkerOK
<1>3. cur[w] \notin batch[w]
  BY <1>1, <1>2 DEF WorkerOK, Msgs
<1>4. \A v \in Workers \ {w} : Held(v) \cap Held(w) = {}
  BY <1>1 DEF OneOwner
<1>5. cur[w] \in Held(w)
  BY DEF Held
<1>6. ASSUME NEW v \in Workers \ {w}
      PROVE  cur[w] \notin batch[v] /\ (pc[v] \in Working => cur[v] # cur[w])
  BY <1>4, <1>5 DEF Held
<1> QED BY <1>2, <1>3, <1>6

\* A step of process_with_retries that concerns the message in hand.
LEMMA TryKeepsPaid ==
    ASSUME IInv, TypeOK', PaidInv, NEW w \in Workers, pc[w] \in Working,
           NEW where \in Working, Goto(w, where),
           UNCHANGED cur, UNCHANGED batch, UNCHANGED delivered,
           \A v \in Workers \ {w} : attempt'[v] = attempt[v],
           \A n \in Msgs \ {cur[w]} :
              handled'[n] = handled[n] /\ dlq'[n] = dlq[n],
           handled'[cur[w]] <= Attempts,
           TriesOK(w)',
           \/ faults' >= faults /\ Owed(cur[w])' <= Owed(cur[w])
           \/ faults' = faults + 1 /\ Owed(cur[w])' <= Owed(cur[w]) + 1
    PROVE  PaidInv'
<1> DEFINE m == cur[w]
<1>1. /\ TypeOK /\ m \in Msgs /\ m \in delivered
      /\ \A v \in Workers : m \notin batch[v]
      /\ \A v \in Workers \ {w} : pc[v] \in Working => cur[v] # m
  BY InHand DEF IInv
<1>2. /\ pc'[w] = where
      /\ \A v \in Workers \ {w} : pc'[v] = pc[v]
  BY <1>1 DEF Goto, TypeOK
<1>3. \A n \in Msgs \ {m} : Owed(n)' <= Owed(n)
  <2> SUFFICES ASSUME NEW n \in Msgs \ {m} PROVE Owed(n)' <= Owed(n)
    OBVIOUS
  <2>1. Retried(n)' => Retried(n)
    BY <1>2 DEF Retried
  <2> QED BY <1>1, <2>1 DEF Owed, TypeOK
<1>4. IsFiniteSet(Debts)' /\ Cardinality(Debts)' <= faults'
  BY <1>1, <1>3, DebtsArePaid
<1>5. \A n \in Msgs : handled'[n] <= Attempts
  BY DEF PaidInv
<1>6. \A n \in Msgs \ delivered' : Fresh(n)'
  BY <1>1 DEF PaidInv, Fresh
<1>7. ASSUME NEW v \in Workers \ {w}
      PROVE  TriesOK(v)'
  <2>1. TriesOK(v) /\ pc'[v] = pc[v] /\ cur'[v] = cur[v]
        /\ attempt'[v] = attempt[v] /\ batch'[v] = batch[v]
    BY <1>2 DEF PaidInv
  <2>2. pc[v] \in {"handling", "acking", "dlq"}
        => /\ handled'[cur[v]] = handled[cur[v]]
           /\ dlq'[cur[v]] = dlq[cur[v]]
    <3>1. pc[v] \in {"handling", "acking", "dlq"} => pc[v] \in Working
      BY DEF Working
    <3>2. pc[v] \in Working => cur[v] \in Msgs /\ cur[v] # m
      BY <1>1, InHand
    <3> QED BY <3>1, <3>2
  <2>3. \A n \in batch[v] : Fresh(n)'
    BY <1>1, <2>1 DEF TriesOK, Fresh, TypeOK
  <2> QED BY <2>1, <2>2, <2>3 DEF TriesOK
<1> QED BY <1>4, <1>5, <1>6, <1>7 DEF PaidInv

\* What NextAttempt does to the worker's own part.
LEMMA NextTry ==
    ASSUME IInv, NEW w \in Workers, NextAttempt(w)
    PROVE  \E where \in {"handling", "dlq"} :
              /\ Goto(w, where)
              /\ where = "handling" => attempt'[w] = attempt[w] + 1
              /\ \A v \in Workers \ {w} : attempt'[v] = attempt[v]
BY DEF NextAttempt, IInv, TypeOK

LEMMA HandlerReturnsIsPaid ==
    ASSUME IInv, TypeOK', PaidInv, NEW w \in Workers, HandlerReturns(w)
    PROVE  PaidInv'
<1> DEFINE m == cur[w]
<1> USE DEF HandlerReturns
<1>1. pc[w] \in Working /\ "acking" \in Working
  BY DEF Working
<1>2. /\ TypeOK /\ m \in Msgs /\ \A v \in Workers : m \notin batch[v]
      /\ \A v \in Workers \ {w} : pc[v] \in Working => cur[v] # m
      /\ TriesOK(w) /\ attempt[w] \in 0..Attempts /\ Attempts \in Nat
  BY <1>1, InHand, AttemptsOK DEF IInv, TypeOK, PaidInv
<1>3. /\ handled'[m] = handled[m] + 1 /\ dlq[m] = 0 /\ dlq'[m] = 0
      /\ handled[m] \in Nat /\ handled[m] < attempt[w]
      /\ \A n \in Msgs \ {m} : handled'[n] = handled[n] /\ dlq'[n] = dlq[n]
  BY <1>2 DEF TypeOK, TriesOK
<1>4. pc'[w] = "acking" /\ \A v \in Workers \ {w} : pc'[v] = pc[v]
  BY <1>2 DEF Goto, TypeOK
<1>5. Owed(m)' <= Owed(m)
  <2>1. Retried(m)
    BY DEF Retried
  <2>2. ~Retried(m)'
    BY <1>2, <1>4 DEF Retried, Working
  <2> QED BY <1>3, <2>1, <2>2 DEF Owed
<1>6. TriesOK(w)'
  BY <1>2, <1>3, <1>4 DEF TriesOK, Fresh, TypeOK
<1>7. handled'[m] <= Attempts
  BY <1>2, <1>3
<1>8. faults' >= faults
  BY ConstantsOK, <1>2 DEF TypeOK
<1>9. /\ UNCHANGED cur /\ UNCHANGED batch /\ UNCHANGED delivered
      /\ \A v \in Workers \ {w} : attempt'[v] = attempt[v]
      /\ Goto(w, "acking")
  OBVIOUS
<1> QED BY <1>1, <1>3, <1>5, <1>6, <1>7, <1>8, <1>9, TryKeepsPaid

LEMMA HandlerRaisesIsPaid ==
    ASSUME IInv, TypeOK', PaidInv, NEW w \in Workers, HandlerRaises(w)
    PROVE  PaidInv'
<1> DEFINE m == cur[w]
<1> USE DEF HandlerRaises
<1>1. pc[w] \in Working /\ {"handling", "dlq"} \subseteq Working
  BY DEF Working
<1>2. /\ TypeOK /\ m \in Msgs /\ \A v \in Workers : m \notin batch[v]
      /\ TriesOK(w) /\ attempt[w] \in 0..Attempts /\ Attempts \in Nat
  BY <1>1, InHand, AttemptsOK DEF IInv, TypeOK, PaidInv
<1> PICK where \in {"handling", "dlq"} :
              /\ Goto(w, where)
              /\ where = "handling" => attempt'[w] = attempt[w] + 1
              /\ \A v \in Workers \ {w} : attempt'[v] = attempt[v]
  BY NextTry
<1>3. /\ handled[m] \in Nat /\ handled[m] < attempt[w]
      /\ \/ /\ faults' = faults + 1
            /\ handled'[m] \in {handled[m], handled[m] + 1}
         \/ faults' = faults /\ handled'[m] = handled[m]
      /\ dlq[m] = 0 /\ dlq'[m] = 0
      /\ \A n \in Msgs \ {m} : handled'[n] = handled[n] /\ dlq'[n] = dlq[n]
  BY <1>2 DEF TypeOK, TriesOK, Fault
<1>4. pc'[w] = where
  BY <1>2 DEF Goto, TypeOK
<1>5. Owed(m) = handled[m] + 1 /\ Owed(m)' = handled'[m] + 1
  <2>1. Retried(m) /\ Retried(m)'
    BY <1>4 DEF Retried
  <2> QED BY <1>3, <2>1 DEF Owed
<1>6. TriesOK(w)'
  BY <1>2, <1>3, <1>4 DEF TriesOK, Fresh, TypeOK
<1>7. handled'[m] <= Attempts
  BY <1>2, <1>3
<1>8. \/ faults' >= faults /\ Owed(m)' <= Owed(m)
      \/ faults' = faults + 1 /\ Owed(m)' <= Owed(m) + 1
  BY ConstantsOK, <1>2, <1>3, <1>5 DEF TypeOK
<1>9. UNCHANGED cur /\ UNCHANGED batch /\ UNCHANGED delivered
  OBVIOUS
<1> QED BY <1>1, <1>3, <1>6, <1>7, <1>8, <1>9, TryKeepsPaid

LEMMA AckFailsIsPaid ==
    ASSUME IInv, TypeOK', PaidInv, NEW w \in Workers, AckFails(w)
    PROVE  PaidInv'
<1> DEFINE m == cur[w]
<1> USE DEF AckFails, AckRaises, history
<1>1. pc[w] \in Working /\ {"handling", "dlq"} \subseteq Working
  BY DEF Working
<1>2. /\ TypeOK /\ m \in Msgs /\ \A v \in Workers : m \notin batch[v]
      /\ TriesOK(w) /\ attempt[w] \in 0..Attempts /\ Attempts \in Nat
  BY <1>1, InHand, AttemptsOK DEF IInv, TypeOK, PaidInv
<1> PICK where \in {"handling", "dlq"} :
              /\ Goto(w, where)
              /\ where = "handling" => attempt'[w] = attempt[w] + 1
              /\ \A v \in Workers \ {w} : attempt'[v] = attempt[v]
  BY NextTry
<1>3. /\ handled[m] \in Nat /\ handled[m] <= attempt[w]
      /\ faults' = faults + 1 /\ handled'[m] = handled[m]
      /\ dlq[m] = 0 /\ dlq'[m] = 0
      /\ \A n \in Msgs \ {m} : handled'[n] = handled[n] /\ dlq'[n] = dlq[n]
  BY <1>2 DEF TypeOK, TriesOK, Fault
<1>4. pc'[w] = where
  BY <1>2 DEF Goto, TypeOK
<1>5. Owed(m)' <= Owed(m) + 1
  BY <1>3 DEF Owed
<1>6. TriesOK(w)'
  BY <1>2, <1>3, <1>4 DEF TriesOK, Fresh, TypeOK
<1>7. handled'[m] <= Attempts
  BY <1>2, <1>3
<1>8. UNCHANGED cur /\ UNCHANGED batch /\ UNCHANGED delivered
  OBVIOUS
<1> QED BY <1>1, <1>3, <1>5, <1>6, <1>7, <1>8, TryKeepsPaid

LEMMA PublishDlqIsPaid ==
    ASSUME IInv, TypeOK', PaidInv, NEW w \in Workers, PublishDlq(w)
    PROVE  PaidInv'
<1> DEFINE m == cur[w]
<1> USE DEF PublishDlq
<1>1. pc[w] \in Working /\ "dlqack" \in Working
  BY DEF Working
<1>2. /\ TypeOK /\ m \in Msgs /\ \A v \in Workers : m \notin batch[v]
      /\ TriesOK(w) /\ handled[m] \in Nat /\ handled[m] <= Attempts
  BY <1>1, InHand DEF IInv, TypeOK, PaidInv
<1>3. /\ handled'[m] = handled[m] /\ faults' >= faults
      /\ \A n \in Msgs \ {m} : handled'[n] = handled[n] /\ dlq'[n] = dlq[n]
  BY <1>2, ConstantsOK DEF TypeOK, Fault
<1>4. pc'[w] = "dlqack"
  BY <1>2 DEF Goto, TypeOK
<1>5. Owed(m)' <= Owed(m)
  <2>1. Retried(m)
    BY DEF Retried
  <2> QED BY <1>2, <1>3, <2>1 DEF Owed
<1>6. TriesOK(w)'
  BY <1>2, <1>3, <1>4 DEF TriesOK, Fresh, TypeOK
<1>7. /\ UNCHANGED cur /\ UNCHANGED batch /\ UNCHANGED delivered
      /\ \A v \in Workers \ {w} : attempt'[v] = attempt[v]
      /\ Goto(w, "dlqack")
  OBVIOUS
<1> QED BY <1>1, <1>2, <1>3, <1>5, <1>6, <1>7, TryKeepsPaid

\* A message that is taken is fresh: nothing is owed for it yet.
LEMMA TakeIsPaid ==
    ASSUME IInv, TypeOK', PaidInv, NEW w \in Workers, Take(w)
    PROVE  PaidInv'
<1> PICK m \in Msgs \ Malformed :
          /\ IsFirst(m, batch[w])
          /\ batch' = [batch EXCEPT ![w] = @ \ {m}]
          /\ cur' = [cur EXCEPT ![w] = m]
  BY DEF Take
<1> USE DEF Take, history
<1>1. TypeOK /\ TriesOK(w) /\ m \in Msgs /\ m \in batch[w]
  BY DEF IInv, PaidInv, IsFirst
<1>2. Fresh(m) /\ \A n \in batch[w] : Fresh(n)
  BY <1>1 DEF TriesOK
<1>3. /\ pc'[w] = "handling" /\ cur'[w] = m /\ attempt'[w] = 1
      /\ batch'[w] = batch[w] \ {m}
      /\ \A v \in Workers \ {w} :
            /\ pc'[v] = pc[v] /\ cur'[v] = cur[v]
            /\ attempt'[v] = attempt[v] /\ batch'[v] = batch[v]
  BY <1>1 DEF TypeOK, Goto
<1>4. \A n \in Msgs \ {m} : Owed(n)' <= Owed(n)
  <2> SUFFICES ASSUME NEW n \in Msgs \ {m} PROVE Owed(n)' <= Owed(n)
    OBVIOUS
  <2>1. Retried(n)' => Retried(n)
    BY <1>3 DEF Retried
  <2> QED BY <1>1, <2>1 DEF Owed, TypeOK
<1>5. Owed(m)' <= 1
  BY <1>1, <1>2 DEF Owed, Fresh
<1>6. faults' >= faults
  BY ConstantsOK, <1>1 DEF TypeOK
<1>7. IsFiniteSet(Debts)' /\ Cardinality(Debts)' <= faults'
  BY <1>1, <1>4, <1>5, <1>6, DebtsArePaid
<1>8. TriesOK(w)'
  BY <1>2, <1>3 DEF TriesOK, Fresh
<1>9. ASSUME NEW v \in Workers \ {w}
      PROVE  TriesOK(v)'
  BY <1>3, <1>9 DEF PaidInv, TriesOK, Fresh
<1> QED BY <1>7, <1>8, <1>9 DEF PaidInv, Fresh

\* Every other step of a worker: it reads, stops, dies or acknowledges.
LEMMA OtherStepsArePaid ==
    ASSUME IInv, TypeOK', PaidInv, NEW w \in Workers,
           \/ Start(w) \/ StopAtRead(w) \/ Read(w) \/ BatchDone(w)
           \/ DropMalformed(w) \/ Ack(w) \/ AckDlq(w)
           \/ ReadRaises(w) \/ AckDlqRaises(w) \/ Sigterm(w) \/ Crash(w)
    PROVE  PaidInv'
<1> USE DEF Exit, Goto, AfterMessage, server, history
<1>0. TypeOK /\ faults \in Nat
  BY ConstantsOK DEF IInv, TypeOK
<1>1. CASE Start(w) \/ StopAtRead(w) \/ BatchDone(w) \/ Sigterm(w) \/ Crash(w)
  BY <1>0, <1>1, QuietKeepsPaid
     DEF Start, StopAtRead, BatchDone, Sigterm, Crash, TypeOK
<1>2. CASE Ack(w) \/ AckDlq(w)
  BY <1>0, <1>2, QuietKeepsPaid DEF Ack, AckDlq, TypeOK
<1>3. CASE AckDlqRaises(w)
  BY <1>0, <1>3, QuietKeepsPaid DEF AckDlqRaises, AckRaises, Fault, TypeOK
<1>4. CASE DropMalformed(w)
  <2> PICK m \in Malformed :
          /\ IsFirst(m, batch[w])
          /\ \/ /\ Acked(w, m)
                /\ batch' = [batch EXCEPT ![w] = @ \ {m}]
                /\ UNCHANGED <<pc, faults>>
             \/ /\ AckRaises(w, m)
                /\ Exit(w, "dead")
    BY <1>4 DEF DropMalformed
  <2>1. /\ UNCHANGED <<cur, attempt, dlq, handled, delivered>>
        /\ faults' >= faults
    BY <1>0, <1>4 DEF DropMalformed, AckRaises, Fault
  <2>2. /\ \A v \in Workers \ {w} : pc'[v] = pc[v] /\ batch'[v] = batch[v]
        /\ pc'[w] = pc[w] \/ pc'[w] = "dead"
        /\ batch'[w] \subseteq batch[w]
    BY <1>0 DEF TypeOK
  <2> QED BY <2>1, <2>2, QuietKeepsPaid
<1>5. CASE Read(w) \/ ReadRaises(w)
  <2>1. /\ UNCHANGED <<cur, attempt, dlq, handled>>
        /\ faults' >= faults
        /\ delivered \subseteq delivered'
    BY <1>0, <1>5 DEF Read, ReadRaises, Fault
  <2>2. /\ \A v \in Workers \ {w} : pc'[v] = pc[v] /\ batch'[v] = batch[v]
        /\ pc'[w] \in {"yield", "dead"}
        /\ batch'[w] = {} \/ (Read(w) /\ batch'[w] = NextBatch)
    BY <1>0, <1>5 DEF Read, ReadRaises, TypeOK
  <2>3. Read(w) => \A n \in NextBatch : n \in Msgs \ delivered
    BY Delivering DEF Read
  <2> QED BY <2>1, <2>2, <2>3, QuietKeepsPaid
<1> QED BY <1>1, <1>2, <1>3, <1>4, <1>5

LEMMA NextPaidInv == IInv /\ IInv' /\ PaidInv /\ [Next]_vars => PaidInv'
<1> SUFFICES ASSUME IInv, TypeOK', PaidInv, [Next]_vars PROVE PaidInv'
  BY DEF IInv
<1>1. CASE Publish \/ UNCHANGED vars
  <2>1. UNCHANGED <<pc, batch, cur, attempt, dlq, faults, delivered, handled>>
    BY <1>1 DEF Publish, vars, history
  <2>2. \A m \in Msgs : Owed(m)' = Owed(m) /\ Fresh(m)' = Fresh(m)
    BY <2>1 DEF Owed, Retried, Fresh
  <2>3. Debts' = Debts
    BY <2>2 DEF Debts
  <2>4. \A w \in Workers : TriesOK(w)' = TriesOK(w)
    BY <2>1 DEF TriesOK, Fresh
  <2> QED BY <2>1, <2>2, <2>3, <2>4 DEF PaidInv
<1>2. ASSUME NEW w \in Workers,
             \/ Proceed(w)
             \/ ReadRaises(w) \/ AckFails(w) \/ AckDlqRaises(w)
             \/ Sigterm(w) \/ Crash(w)
      PROVE  PaidInv'
  <2>1. CASE HandlerReturns(w)
    BY <2>1, HandlerReturnsIsPaid
  <2>2. CASE HandlerRaises(w)
    BY <2>2, HandlerRaisesIsPaid
  <2>3. CASE AckFails(w)
    BY <2>3, AckFailsIsPaid
  <2>4. CASE PublishDlq(w)
    BY <2>4, PublishDlqIsPaid
  <2>5. CASE Take(w)
    BY <2>5, TakeIsPaid
  <2> QED
    BY <1>2, <2>1, <2>2, <2>3, <2>4, <2>5, OtherStepsArePaid DEF Proceed
<1> QED BY <1>1, <1>2 DEF Next

LEMMA InitPaidInv == Init => PaidInv
<1> SUFFICES ASSUME Init PROVE PaidInv
  OBVIOUS
<1>1. \A m \in Msgs : Owed(m) = 0
  BY DEF Init, Owed, Retried
<1>2. Debts = {}
  BY <1>1 DEF Debts
<1>3. IsFiniteSet(Debts) /\ Cardinality(Debts) = 0
  BY <1>2, FS_EmptySet
<1> QED BY <1>3, AttemptsOK DEF Init, PaidInv, Fresh, TriesOK

\* However calls fail, processes come and go and messages are handed out,
\* each superfluous outcome of a message has a failed call that pays for it.
THEOREM DuplicatesArePaidFor == Spec => []DuplicatesPaidByFaults
<1>1. IInv /\ PaidInv => DuplicatesPaidByFaults
  <2> SUFFICES ASSUME IInv, PaidInv PROVE DuplicatesPaidByFaults
    OBVIOUS
  <2>1. \A m \in Msgs : Outcomes(m) \in Nat /\ Owed(m) \in Nat
                        /\ Outcomes(m) <= Owed(m)
    BY DEF IInv, TypeOK, Outcomes, Owed
  <2>2. Superfluous \subseteq Debts
    <3> SUFFICES ASSUME NEW d \in Superfluous PROVE d \in Debts
      OBVIOUS
    <3> PICK m \in Msgs : d \in {m} \X (2..Outcomes(m))
      BY DEF Superfluous
    <3>1. d \in {m} \X (2..Owed(m))
      BY <2>1
    <3> QED BY <3>1 DEF Debts
  <2>3. Cardinality(Superfluous) <= Cardinality(Debts)
        /\ Cardinality(Superfluous) \in Nat /\ Cardinality(Debts) \in Nat
    BY <2>2, FS_Subset, FS_CardinalityType DEF PaidInv
  <2>4. faults \in Nat
    BY ConstantsOK DEF IInv, TypeOK
  <2> QED BY <2>3, <2>4 DEF PaidInv, DuplicatesPaidByFaults
<1> QED
  BY <1>1, InitPaidInv, NextPaidInv, Invariant, PTL DEF Spec

-----------------------------------------------------------------------------
(* A worker uses up what a read gave it *)

\* An exit empties the batch and ends the work.
LEMMA ExitGetsOn ==
    ASSUME TypeOK, NEW w \in Workers, NEW how \in {"stopped", "dead"},
           pc[w] \in {"yield"} \cup Working, Exit(w, how),
           attempt'[w] = attempt[w]
    PROVE  GetsOn(w)
<1>1. pc'[w] = how /\ batch'[w] = {}
  BY DEF Exit, Goto, TypeOK
<1>2. Stage[how] < Stage[pc[w]]
  BY DEF Stage, PCs, Live, Working
<1>3. CASE batch[w] = {}
  BY <1>1, <1>2, <1>3 DEF GetsOn
<1>4. CASE batch[w] # {}
  BY <1>1, <1>4 DEF GetsOn
<1> QED BY <1>3, <1>4

\* After a message, its batch stays unless the worker stops.
LEMMA AfterMessageGetsOn ==
    ASSUME TypeOK, NEW w \in Workers, pc[w] \in {"acking", "dlqack"},
           AfterMessage(w), UNCHANGED attempt
    PROVE  GetsOn(w)
<1>1. pc[w] \in {"yield"} \cup Working
  BY DEF Working
<1>2. CASE shutdown[w]
  BY <1>1, <1>2, ExitGetsOn DEF AfterMessage
<1>3. CASE ~shutdown[w]
  <2>1. pc'[w] = "yield" /\ batch'[w] = batch[w]
    BY <1>3 DEF AfterMessage, Goto, TypeOK
  <2>2. Stage["yield"] < Stage[pc[w]]
    BY DEF Stage, PCs, Live, Working
  <2> QED BY <2>1, <2>2 DEF GetsOn
<1> QED BY <1>2, <1>3

\* A failed attempt is one of finitely many, or leads to the DLQ.
LEMMA NextAttemptGetsOn ==
    ASSUME TypeOK, NEW w \in Workers, pc[w] \in {"handling", "acking"},
           NextAttempt(w), UNCHANGED batch
    PROVE  GetsOn(w)
<1>0. attempt[w] \in Nat /\ Attempts \in Nat
  BY AttemptsOK DEF TypeOK
<1>1. CASE attempt[w] < Attempts
  <2>1. attempt'[w] = attempt[w] + 1
    BY <1>1 DEF NextAttempt, TypeOK
  <2> QED BY <1>0, <1>1, <2>1 DEF GetsOn
<1>2. CASE ~(attempt[w] < Attempts)
  <2>1. attempt'[w] = attempt[w] /\ pc'[w] = "dlq"
    BY <1>2 DEF NextAttempt, Goto, TypeOK
  <2>2. Stage["dlq"] < Stage[pc[w]]
    BY DEF Stage, PCs, Live, Working
  <2> QED BY <2>1, <2>2 DEF GetsOn
<1> QED BY <1>1, <1>2

\* The first of a batch leaves it.
LEMMA FirstLeaves ==
    ASSUME TypeOK, NEW w \in Workers, NEW m, IsFirst(m, batch[w]),
           batch' = [batch EXCEPT ![w] = @ \ {m}]
    PROVE  GetsOn(w)
BY DEF TypeOK, IsFirst, GetsOn

LEMMA StepGetsOn ==
    ASSUME TypeOK, NEW w \in Workers, pc[w] \in {"yield"} \cup Working,
           \/ Proceed(w) \/ ReadRaises(w) \/ AckFails(w) \/ AckDlqRaises(w)
           \/ Crash(w)
    PROVE  GetsOn(w)
<1>1. CASE BatchDone(w)
  <2>1. /\ pc[w] = "yield" /\ pc'[w] = "reading"
        /\ batch'[w] = batch[w] /\ attempt'[w] = attempt[w]
    BY <1>1 DEF BatchDone, Goto, TypeOK
  <2>2. Stage["reading"] < Stage["yield"]
    BY DEF Stage, PCs, Live, Working
  <2> QED BY <2>1, <2>2 DEF GetsOn
<1>2. CASE DropMalformed(w)
  <2>1. PICK m \in Malformed :
            /\ IsFirst(m, batch[w])
            /\ \/ batch' = [batch EXCEPT ![w] = @ \ {m}]
               \/ Exit(w, "dead")
    BY <1>2 DEF DropMalformed
  <2>2. UNCHANGED attempt
    BY <1>2 DEF DropMalformed
  <2> QED BY <2>1, <2>2, FirstLeaves, ExitGetsOn
<1>3. CASE Take(w)
  <2>1. PICK m \in Msgs : /\ IsFirst(m, batch[w])
                          /\ batch' = [batch EXCEPT ![w] = @ \ {m}]
    BY <1>3 DEF Take
  <2> QED BY <2>1, FirstLeaves
<1>4. CASE HandlerReturns(w)
  <2>1. /\ pc[w] = "handling" /\ pc'[w] = "acking"
        /\ batch'[w] = batch[w] /\ attempt'[w] = attempt[w]
    BY <1>4 DEF HandlerReturns, Goto, TypeOK
  <2>2. Stage["acking"] < Stage["handling"]
    BY DEF Stage, PCs, Live, Working
  <2> QED BY <2>1, <2>2 DEF GetsOn
<1>5. CASE PublishDlq(w)
  <2>1. /\ pc[w] = "dlq" /\ pc'[w] = "dlqack"
        /\ batch'[w] = batch[w] /\ attempt'[w] = attempt[w]
    BY <1>5 DEF PublishDlq, Goto, TypeOK
  <2>2. Stage["dlqack"] < Stage["dlq"]
    BY DEF Stage, PCs, Live, Working
  <2> QED BY <2>1, <2>2 DEF GetsOn
<1>6. CASE HandlerRaises(w) \/ AckFails(w)
  BY <1>6, NextAttemptGetsOn DEF HandlerRaises, AckFails
<1>7. CASE Ack(w) \/ AckDlq(w)
  BY <1>7, AfterMessageGetsOn DEF Ack, AckDlq
<1>8. CASE AckDlqRaises(w) \/ Crash(w)
  <2>1. Exit(w, "dead") /\ attempt'[w] = attempt[w]
    BY <1>8 DEF AckDlqRaises, Crash
  <2> QED BY <2>1, ExitGetsOn
<1>9. CASE Start(w) \/ StopAtRead(w) \/ Read(w) \/ ReadRaises(w)
  BY <1>9 DEF Start, StopAtRead, Read, ReadRaises, Working
<1> QED
  BY <1>1, <1>2, <1>3, <1>4, <1>5, <1>6, <1>7, <1>8, <1>9 DEF Proceed

\* Whatever fails, a worker is through with what a read gave it after finitely
\* many of its own steps: the part of InflightEnds and SigtermEndsWorker that
\* needs no fairness.
THEOREM WorkIsFinite == Spec => WorkDiminishes
<1>1. ASSUME IInv, [Next]_vars, NEW v \in Workers,
             pc[v] \in {"yield"} \cup Working
      PROVE  \/ UNCHANGED <<pc[v], batch[v], cur[v], attempt[v], pel[v]>>
             \/ GetsOn(v)
  <2>0. TypeOK
    BY <1>1 DEF IInv
  <2>1. CASE UNCHANGED vars \/ Publish
    BY <2>1 DEF vars, server, history, Publish
  <2>2. ASSUME NEW w \in Workers, w # v,
               \/ Proceed(w) \/ ReadRaises(w) \/ AckFails(w)
               \/ AckDlqRaises(w) \/ Sigterm(w) \/ Crash(w)
        PROVE  UNCHANGED <<pc[v], batch[v], cur[v], attempt[v], pel[v]>>
    <3> DEFINE same == UNCHANGED <<pc[v], batch[v], cur[v], attempt[v],
                                   pel[v]>>
    <3> USE DEF Exit, Goto, Acked, AckRaises, server, history
    <3>1. Start(w) \/ StopAtRead(w) \/ Sigterm(w) \/ Crash(w) => same
      BY <2>0, <2>2 DEF Start, StopAtRead, Sigterm, Crash, TypeOK
    <3>2. Read(w) \/ ReadRaises(w) => same
      BY <2>0, <2>2 DEF Read, ReadRaises, DeliverTo, TypeOK
    <3>3. BatchDone(w) \/ DropMalformed(w) \/ Take(w) => same
      BY <2>0, <2>2 DEF BatchDone, DropMalformed, Take, TypeOK
    <3>4. HandlerReturns(w) \/ HandlerRaises(w) \/ AckFails(w) => same
      BY <2>0, <2>2
         DEF HandlerReturns, HandlerRaises, AckFails, NextAttempt, TypeOK
    <3>5. Ack(w) \/ AckDlq(w) \/ PublishDlq(w) \/ AckDlqRaises(w) => same
      BY <2>0, <2>2
         DEF Ack, AckDlq, PublishDlq, AckDlqRaises, AfterMessage, TypeOK
    <3> QED BY <2>2, <3>1, <3>2, <3>3, <3>4, <3>5 DEF Proceed
  <2>3. CASE Sigterm(v)
    BY <2>3 DEF Sigterm
  <2>4. CASE \/ Proceed(v) \/ ReadRaises(v) \/ AckFails(v)
             \/ AckDlqRaises(v) \/ Crash(v)
    BY <1>1, <2>0, <2>4, StepGetsOn
  <2> QED BY <1>1, <2>1, <2>2, <2>3, <2>4 DEF Next
<1>2. IInv /\ [Next]_vars
      => [\A w \in Workers :
             pc[w] \in {"yield"} \cup Working =>
                 \/ UNCHANGED <<pc[w], batch[w], cur[w], attempt[w], pel[w]>>
                 \/ GetsOn(w)]_vars
  BY <1>1
<1> QED BY <1>2, Invariant, PTL DEF Spec, WorkDiminishes
=============================================================================
