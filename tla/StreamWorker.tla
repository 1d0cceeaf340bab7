---------------------------- MODULE StreamWorker ----------------------------
(***************************************************************************)
(* One Redis stream read through a consumer group by worker processes:     *)
(* RedisStreamsBroker.publish/_ensure_group/consume/ack/publish_dlq        *)
(* (shared/broker/redis_streams.py), process_with_retries                  *)
(* (shared/broker/retry.py) and the loop both workers put around them      *)
(* (services/inference/worker.py, services/flow_builder/worker.py).        *)
(*                                                                         *)
(* A message is the number Redis gives its entry, so "stream order" is <.  *)
(* A worker is one process with one consumer name; a restart is another    *)
(* process of Workers coming up.  What a handler does is abstracted to     *)
(* "it returned, its effect in place" (handled counts effects), "it        *)
(* raised", or "it raised although its effect is in place" (a commit or a  *)
(* reply lost on the way).                                                 *)
(* A Redis call may fail having been applied or not; every such failure    *)
(* spends one of MaxFaults.                                                *)
(***************************************************************************)
EXTENDS Integers, FiniteSets

CONSTANTS
    Workers,     \* worker processes of the consumer group
    MaxMsgs,     \* bound: messages ever published
    BatchSize,   \* XREADGROUP COUNT (64 in the code)
    MaxRetries,  \* settings.broker_max_retries
    MaxLen,      \* XADD MAXLEN; 0 publishes without a cap
    Malformed,   \* messages without a JSON "data" field
    Poison,      \* messages whose handler always raises
    MaxFaults,   \* bound: failed calls
    CanCrash,    \* may a worker process be killed?
    CanStop      \* may a worker process get SIGTERM?

Msgs == 1..MaxMsgs
NoGroup == -1

ASSUME ConstantsOK ==
    /\ MaxMsgs \in Nat
    /\ BatchSize \in Nat \ {0}
    /\ MaxRetries \in Nat
    /\ MaxLen \in Nat
    /\ Malformed \subseteq Msgs
    /\ Poison \subseteq Msgs
    /\ MaxFaults \in Nat
    /\ CanCrash \in BOOLEAN
    /\ CanStop \in BOOLEAN
    /\ "nobody" \notin Workers

\* max_retries = max(max_retries, 1): the total number of attempts.
Attempts == IF MaxRetries >= 1 THEN MaxRetries ELSE 1

VARIABLES
    published,  \* the last entry id Redis has given out
    stream,     \* entries still in the stream
    groupAt,    \* the group's last-delivered id, NoGroup before XGROUP CREATE
    pel,        \* pel[w]: entries delivered to w and not acknowledged
    pc,         \* where each worker process is
    batch,      \* entries of the last XREADGROUP reply not yet yielded
    cur,        \* the message last taken from a batch, 0 before the first
    attempt,    \* the attempt number of process_with_retries
    shutdown,   \* the flag the signal handler sets
    dlq,        \* dlq[m]: copies of m written to the dead-letter stream
    faults,     \* failed calls so far
    delivered,  \* history: entries a worker received
    handled,    \* history: how often the effect of m's handler took place
    dlqLost     \* history: messages whose DLQ write raised

server == <<published, stream, groupAt>>
history == <<delivered, handled, dlqLost>>
vars ==
    <<server, pel, pc, batch, cur, attempt, shutdown, dlq, faults, history>>

Working == {"handling", "acking", "dlq", "dlqack"}
Live == {"reading", "yield"} \cup Working
PCs == {"off", "stopped", "dead"} \cup Live

TypeOK ==
    /\ published \in 0..MaxMsgs
    /\ stream \subseteq 1..published
    /\ groupAt \in {NoGroup} \cup 0..published
    /\ pel \in [Workers -> SUBSET Msgs]
    /\ pc \in [Workers -> PCs]
    /\ batch \in [Workers -> SUBSET Msgs]
    /\ cur \in [Workers -> {0} \cup Msgs]
    /\ attempt \in [Workers -> 0..Attempts]
    /\ shutdown \in [Workers -> BOOLEAN]
    /\ dlq \in [Msgs -> Nat]
    /\ faults \in 0..MaxFaults
    /\ delivered \subseteq Msgs
    /\ handled \in [Msgs -> Nat]
    /\ dlqLost \subseteq Msgs

Init ==
    /\ published = 0
    /\ stream = {}
    /\ groupAt = NoGroup
    /\ pel = [w \in Workers |-> {}]
    /\ pc = [w \in Workers |-> "off"]
    /\ batch = [w \in Workers |-> {}]
    /\ cur = [w \in Workers |-> 0]
    /\ attempt = [w \in Workers |-> 0]
    /\ shutdown = [w \in Workers |-> FALSE]
    /\ dlq = [m \in Msgs |-> 0]
    /\ faults = 0
    /\ delivered = {}
    /\ handled = [m \in Msgs |-> 0]
    /\ dlqLost = {}

-----------------------------------------------------------------------------
(* Helpers *)

\* One more failed call.
Fault ==
    /\ faults < MaxFaults
    /\ faults' = faults + 1

\* XADD MAXLEN ~: Redis drops whole nodes of the oldest entries and never
\* goes below the cap; how far above it the stream stays is its own choice.
Trimmed(S) ==
    {T \in {{m \in S : m > c} : c \in 0..MaxMsgs} :
        \/ T = S
        \/ MaxLen > 0 /\ Cardinality(T) >= MaxLen}

\* Entries that ">" stands for, and the first COUNT of them.
Undelivered == {m \in stream : m > groupAt}
NextBatch ==
    {m \in Undelivered :
        Cardinality({n \in Undelivered : n <= m}) <= BatchSize}

\* The entry at the head of a batch.
IsFirst(m, S) == m \in S /\ \A n \in S : m <= n

\* XACK: the entry leaves the worker's pending list.
Acked(w, m) == pel' = [pel EXCEPT ![w] = @ \ {m}]

\* A failed XACK: Redis may have executed it before the connection broke.
AckRaises(w, m) ==
    /\ Fault
    /\ UNCHANGED pel \/ Acked(w, m)

Goto(w, where) == pc' = [pc EXCEPT ![w] = where]

\* The process is gone, and with it the batch it had prefetched.
Exit(w, how) ==
    /\ Goto(w, how)
    /\ batch' = [batch EXCEPT ![w] = {}]

\* Mutant of AfterMessage: a new read after every message.
ReadAfterMessage(w) ==
    IF shutdown[w] THEN Exit(w, "stopped")
                   ELSE Goto(w, "reading") /\ batch' = [batch EXCEPT ![w] = {}]

\* `if shutdown["requested"]: break` after each message: leaving the loop
\* closes the generator and drops what is left of the batch.
AfterMessage(w) ==
    IF shutdown[w] THEN Exit(w, "stopped")
                   ELSE Goto(w, "yield") /\ UNCHANGED batch

\* Mutant of NextAttempt: the attempts are not counted.
RetryForever(w) == Goto(w, "handling") /\ UNCHANGED attempt

\* Mutant of NextAttempt: out of attempts, ack without a DLQ write.
GiveUpSilently(w) ==
    IF attempt[w] < Attempts
    THEN /\ attempt' = [attempt EXCEPT ![w] = @ + 1]
         /\ Goto(w, "handling")
    ELSE /\ Goto(w, "dlqack")
         /\ UNCHANGED attempt

\* An exception inside the try of process_with_retries.
NextAttempt(w) ==
    IF attempt[w] < Attempts
    THEN /\ attempt' = [attempt EXCEPT ![w] = @ + 1]
         /\ Goto(w, "handling")
    ELSE /\ Goto(w, "dlq")
         /\ UNCHANGED attempt

-----------------------------------------------------------------------------
(* Producers *)

\* RedisStreamsBroker.publish.
Publish ==
    /\ published < MaxMsgs
    /\ published' = published + 1
    /\ stream' \in Trimmed(stream \cup {published + 1})
    /\ UNCHANGED <<groupAt, pel, pc, batch, cur, attempt, shutdown, dlq,
                   faults, history>>

-----------------------------------------------------------------------------
(* Workers *)

\* run() up to the first poll: _ensure_group creates the group at "$", the
\* end of the stream, unless another process already did (BUSYGROUP).
Start(w) ==
    /\ pc[w] = "off"
    /\ groupAt' = IF groupAt = NoGroup THEN published ELSE groupAt
    /\ Goto(w, "reading")
    /\ UNCHANGED <<published, stream, pel, batch, cur, attempt, shutdown,
                   dlq, faults, history>>

\* Mutant of StopAtRead: the flag is looked at only when a message is there.
StopAtNextMessage(w) ==
    /\ pc[w] = "reading"
    /\ shutdown[w]
    /\ Undelivered # {}
    /\ Exit(w, "stopped")
    /\ UNCHANGED <<server, pel, cur, attempt, shutdown, dlq, faults, history>>

\* should_stop() is polled before each blocking read.
StopAtRead(w) ==
    /\ pc[w] = "reading"
    /\ shutdown[w]
    /\ Exit(w, "stopped")
    /\ UNCHANGED <<server, pel, cur, attempt, shutdown, dlq, faults, history>>

\* Mutant of DeliverTo: an explicit id for ">", the group does not move.
DeliverAgain(w) ==
    /\ NextBatch # {}
    /\ pel' = [pel EXCEPT ![w] = @ \cup NextBatch]
    /\ UNCHANGED groupAt

\* What XREADGROUP does on the server: the batch becomes pending for w and
\* the group moves past it.
DeliverTo(w) ==
    /\ NextBatch # {}
    /\ pel' = [pel EXCEPT ![w] = @ \cup NextBatch]
    /\ \E last \in NextBatch :
          /\ \A m \in NextBatch : m <= last
          /\ groupAt' = last

\* XREADGROUP returned entries.  (An empty reply only polls again.)
Read(w) ==
    /\ pc[w] = "reading"
    /\ ~shutdown[w]
    /\ DeliverTo(w)
    /\ batch' = [batch EXCEPT ![w] = NextBatch]
    /\ delivered' = delivered \cup NextBatch
    /\ Goto(w, "yield")
    /\ UNCHANGED <<published, stream, cur, attempt, shutdown, dlq, faults,
                   handled, dlqLost>>

\* XREADGROUP raised: nothing catches it and run() ends.  The reply may have
\* been lost after the entries were assigned to this consumer.
ReadRaises(w) ==
    /\ pc[w] = "reading"
    /\ ~shutdown[w]
    /\ Fault
    /\ \/ UNCHANGED <<pel, groupAt, delivered>>
       \/ DeliverTo(w) /\ delivered' = delivered \cup NextBatch
    /\ Exit(w, "dead")
    /\ UNCHANGED <<published, stream, cur, attempt, shutdown, dlq, handled,
                   dlqLost>>

\* The batch is used up: back to the read.
BatchDone(w) ==
    /\ pc[w] = "yield"
    /\ batch[w] = {}
    /\ Goto(w, "reading")
    /\ UNCHANGED <<server, pel, batch, cur, attempt, shutdown, dlq, faults,
                   history>>

\* Mutant of DropMalformed: the entry is acked and looked at again.
AckMalformedOnly(w) ==
    /\ pc[w] = "yield"
    /\ \E m \in Malformed :
          /\ IsFirst(m, batch[w])
          /\ Acked(w, m)
    /\ UNCHANGED <<server, pc, batch, cur, attempt, shutdown, dlq, faults,
                   history>>

\* No data field or not JSON: consume() acks the entry and goes on.  A
\* failing ack is not caught.
DropMalformed(w) ==
    /\ pc[w] = "yield"
    /\ \E m \in Malformed :
          /\ IsFirst(m, batch[w])
          /\ \/ /\ Acked(w, m)
                /\ batch' = [batch EXCEPT ![w] = @ \ {m}]
                /\ UNCHANGED <<pc, faults>>
             \/ /\ AckRaises(w, m)
                /\ Exit(w, "dead")
    /\ UNCHANGED <<server, cur, attempt, shutdown, dlq, history>>

\* consume() yields a message and process_with_retries begins with it.
Take(w) ==
    /\ pc[w] = "yield"
    /\ \E m \in Msgs \ Malformed :
          /\ IsFirst(m, batch[w])
          /\ batch' = [batch EXCEPT ![w] = @ \ {m}]
          /\ cur' = [cur EXCEPT ![w] = m]
    /\ attempt' = [attempt EXCEPT ![w] = 1]
    /\ Goto(w, "handling")
    /\ UNCHANGED <<server, pel, shutdown, dlq, faults, history>>

\* handler(message) returned.
HandlerReturns(w) ==
    /\ pc[w] = "handling"
    /\ cur[w] \notin Poison
    /\ handled' = [handled EXCEPT ![cur[w]] = @ + 1]
    /\ Goto(w, "acking")
    /\ UNCHANGED <<server, pel, batch, cur, attempt, shutdown, dlq, faults,
                   delivered, dlqLost>>

\* handler(message) raised: always for a poison message, and for any other
\* when one of its calls failed, perhaps after its effect was in place.
HandlerRaises(w) ==
    /\ pc[w] = "handling"
    /\ \/ cur[w] \in Poison /\ UNCHANGED <<faults, handled>>
       \/ /\ cur[w] \notin Poison
          /\ Fault
          /\ \/ UNCHANGED handled
             \/ handled' = [handled EXCEPT ![cur[w]] = @ + 1]
    /\ NextAttempt(w)
    /\ UNCHANGED <<server, pel, batch, cur, shutdown, dlq, delivered,
                   dlqLost>>

\* Mutant of Ack: no `return True`, the loop goes on.
AckAndGoOn(w) ==
    /\ pc[w] = "acking"
    /\ Acked(w, cur[w])
    /\ NextAttempt(w)
    /\ UNCHANGED <<server, batch, cur, shutdown, dlq, faults, history>>

\* broker.ack after the handler, inside the same try.
Ack(w) ==
    /\ pc[w] = "acking"
    /\ Acked(w, cur[w])
    /\ AfterMessage(w)
    /\ UNCHANGED <<server, cur, attempt, shutdown, dlq, faults, history>>

\* That ack raised: the except clause counts it as a failed attempt, so the
\* handler runs again or the message goes to the DLQ.
AckFails(w) ==
    /\ pc[w] = "acking"
    /\ AckRaises(w, cur[w])
    /\ NextAttempt(w)
    /\ UNCHANGED <<server, batch, cur, shutdown, dlq, history>>

\* publish_dlq: a failure is logged and swallowed.
PublishDlq(w) ==
    /\ pc[w] = "dlq"
    /\ \/ /\ dlq' = [dlq EXCEPT ![cur[w]] = @ + 1]
          /\ UNCHANGED <<faults, dlqLost>>
       \/ /\ Fault
          /\ UNCHANGED dlq \/ dlq' = [dlq EXCEPT ![cur[w]] = @ + 1]
          /\ dlqLost' = dlqLost \cup {cur[w]}
    /\ Goto(w, "dlqack")
    /\ UNCHANGED <<server, pel, batch, cur, attempt, shutdown, delivered,
                   handled>>

\* The ack after the DLQ write.
AckDlq(w) ==
    /\ pc[w] = "dlqack"
    /\ Acked(w, cur[w])
    /\ AfterMessage(w)
    /\ UNCHANGED <<server, cur, attempt, shutdown, dlq, faults, history>>

\* That ack raised: it is outside the try, so run() ends.
AckDlqRaises(w) ==
    /\ pc[w] = "dlqack"
    /\ AckRaises(w, cur[w])
    /\ Exit(w, "dead")
    /\ UNCHANGED <<server, cur, attempt, shutdown, dlq, history>>

\* SIGTERM or SIGINT: the handler only sets the flag.
Sigterm(w) ==
    /\ CanStop
    /\ pc[w] \in Live
    /\ ~shutdown[w]
    /\ shutdown' = [shutdown EXCEPT ![w] = TRUE]
    /\ UNCHANGED <<server, pel, pc, batch, cur, attempt, dlq, faults, history>>

\* The process is killed.  Redis keeps its pending list.
Crash(w) ==
    /\ CanCrash
    /\ pc[w] \in Live
    /\ Exit(w, "dead")
    /\ UNCHANGED <<server, pel, cur, attempt, shutdown, dlq, faults, history>>

\* What a worker does of itself, without anything failing.
Proceed(w) ==
    \/ Start(w) \/ StopAtRead(w) \/ Read(w) \/ BatchDone(w)
    \/ DropMalformed(w) \/ Take(w)
    \/ HandlerReturns(w) \/ HandlerRaises(w) \/ Ack(w)
    \/ PublishDlq(w) \/ AckDlq(w)

Next ==
    \/ Publish
    \/ \E w \in Workers :
          \/ Proceed(w)
          \/ ReadRaises(w) \/ AckFails(w) \/ AckDlqRaises(w)
          \/ Sigterm(w) \/ Crash(w)

Spec == Init /\ [][Next]_vars

\* Every process is scheduled: the loop never waits for anything but Redis.
FairSpec == Spec /\ \A w \in Workers : WF_vars(Proceed(w))

-----------------------------------------------------------------------------
(* What a live worker still has in hand, and what Redis has acknowledged. *)
Held(w) ==
    batch[w] \cup (IF pc[w] \in Working THEN {cur[w]} ELSE {})
HeldLive(m) == \E w \in Workers : pc[w] \in Live /\ m \in Held(w)
PendingFor(m) == {w \in Workers : m \in pel[w]}
Settled(m) == m \in delivered /\ PendingFor(m) = {} /\ ~HeldLive(m)

\* A message is in the hands, and on the pending list, of one worker at most,
\* whatever processes come, die or read concurrently: XREADGROUP ">" hands
\* out every entry once.
OneOwner ==
    \A v, w \in Workers :
        v # w => (Held(v) \cup pel[v]) \cap (Held(w) \cup pel[w]) = {}

\* A worker that keeps running never forgets a delivered message: all it has
\* pending is in its batch or in process_with_retries.  Only a worker that
\* exits leaves entries pending that nobody works on.
LiveWorkerHoldsItsPending ==
    \A w \in Workers : pc[w] \in Live => pel[w] \subseteq Held(w)

\* consume() and process_with_retries never acknowledge a message that came
\* to nothing: its handler completed, or it is in the DLQ, or it was
\* malformed, or its DLQ write failed (publish_dlq accepts that loss).
AckOnlyAfterOutcome ==
    \A m \in delivered :
        PendingFor(m) = {} =>
            \/ handled[m] > 0
            \/ dlq[m] > 0
            \/ m \in Malformed \cup dlqLost

\* What came of a message: how often its handler took effect, and whether it
\* is in the DLQ.  Everything beyond the first is one too many.
Outcomes(m) == handled[m] + (IF dlq[m] > 0 THEN 1 ELSE 0)
Superfluous == UNION {{m} \X (2..Outcomes(m)) : m \in Msgs}

\* Every needless repetition, and every message that is both handled and
\* dead-lettered, is paid for by a failed call of its own: without failures
\* processing is exactly once, and however calls fail, a handler's effect
\* takes place at most `attempts` times, over all workers and restarts.
DuplicatesPaidByFaults ==
    /\ Cardinality(Superfluous) <= faults
    /\ \A m \in Msgs : handled[m] <= Attempts

\* A worker goes through the stream in order: what it takes next was
\* published after everything it took before.  (The flow builder's packets
\* reach the flow table in capture order because of it.)
TakenInOrder ==
    [][\A w \in Workers : cur'[w] # cur[w] => cur'[w] > cur[w]]_vars

\* The group never moves past an entry it could have delivered: what lies
\* behind it undelivered, yet still in the stream, was published before the
\* group was created at "$".
NothingSkipped ==
    \A m \in stream :
        m <= groupAt /\ m \notin delivered => \A n \in delivered : n > m

\* Each message is delivered to one worker once, and what became of it then
\* is final (see MessageFate).
FateOf(m) ==
    IF m \in delivered
    THEN CASE HeldLive(m) -> "inflight"
           [] Settled(m) -> "settled"
           [] OTHER -> "stranded"
    ELSE CASE m > published -> "absent"
           [] m \in stream /\ m > groupAt -> "waiting"
           [] OTHER -> "lost"
OwnerOf(m) ==
    IF HeldLive(m)
    THEN CHOOSE w \in Workers : pc[w] \in Live /\ m \in Held(w)
    ELSE "nobody"
Fate == INSTANCE MessageFate WITH
            fate <- [m \in Msgs |-> FateOf(m)],
            owner <- [m \in Msgs |-> OwnerOf(m)]
DeliversAtMostOnce == Fate!Spec

\* A message the existing group can deliver is delivered, unless the cap takes
\* it or no worker is left.
EligibleIsDelivered ==
    \A m \in Msgs :
        (groupAt # NoGroup /\ m \in Undelivered) ~>
            \/ m \in delivered \/ m \notin stream
            \/ \A w \in Workers : pc[w] \in {"stopped", "dead"}

\* A message some live worker has in hand is settled, or that worker exits:
\* no handler, retry, DLQ write or ack keeps a worker for ever.
InflightEnds ==
    \A m \in Msgs : HeldLive(m) ~> (Settled(m) \/ ~HeldLive(m))

\* What that rests on: between two reads every step of a worker, failing or
\* not, uses up something of which a read gave it finitely much: a message
\* of its batch, else an attempt, else a stage of the attempt.
Stage ==
    [where \in PCs |->
        CASE where = "handling" -> 5 [] where = "acking" -> 4
          [] where = "dlq" -> 3 [] where = "dlqack" -> 2
          [] where = "yield" -> 1 [] OTHER -> 0]
GetsOn(w) ==
    \/ batch'[w] \subseteq batch[w] /\ batch'[w] # batch[w]
    \/ /\ batch'[w] = batch[w]
       /\ \/ attempt[w] < attempt'[w] /\ attempt'[w] <= Attempts
          \/ attempt'[w] = attempt[w] /\ Stage[pc'[w]] < Stage[pc[w]]
WorkDiminishes ==
    [][\A w \in Workers :
          pc[w] \in {"yield"} \cup Working =>
              \/ UNCHANGED <<pc[w], batch[w], cur[w], attempt[w], pel[w]>>
              \/ GetsOn(w)]_vars

\* A signalled worker exits, wherever it is and whether or not messages come
\* (services/inference/worker.py: "exits cleanly within one read window").
SigtermEndsWorker ==
    \A w \in Workers : shutdown[w] ~> pc[w] \in {"stopped", "dead"}

\* README.md: "Workers can crash mid-flight and a peer picks up where they
\* left off": while some worker is up, a message that was delivered and not
\* yet handled is handled in the end.
PeerPicksUp ==
    \A m \in Msgs :
        (/\ m \in delivered /\ handled[m] = 0
         /\ \E w \in Workers : pc[w] \in Live) ~>
            \/ handled[m] > 0
            \/ \A w \in Workers : pc[w] \notin Live
=============================================================================
