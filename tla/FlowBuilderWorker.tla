-------------------------- MODULE FlowBuilderWorker --------------------------
(***************************************************************************)
(* One flow builder process: the loop of services/flow_builder/worker.py,  *)
(* whose _dispatch folds a packet into the FlowTable and publishes the     *)
(* resulting events to flow_inference, inside process_with_retries         *)
(* (shared/broker/retry.py).  A retry folds the same packet again, into a  *)
(* table that already holds what the failed attempt did to it.             *)
(*                                                                         *)
(* Messages reach a worker once and in order (StreamWorker), so here one   *)
(* message is in hand at a time.  An event is the set of calls of          *)
(* process_packet its flow was built from: the packet numbers of           *)
(* FlowTable.                                                              *)
(***************************************************************************)
EXTENDS FlowTable, Sequences

CONSTANTS
    MaxRetries,   \* settings.broker_max_retries
    MaxMessages,  \* bound: packets read from packet_ingest
    MaxFaults     \* bound: failing publishes and acks

ASSUME WorkerConstantsOK ==
    /\ Keys # {}
    /\ MaxRetries \in Nat
    /\ MaxMessages \in Nat
    /\ MaxFaults \in Nat

Attempts == IF MaxRetries >= 1 THEN MaxRetries ELSE 1

VARIABLES
    pc,        \* where the loop is
    packet,    \* the packet in hand
    taken,     \* messages taken so far; the one in hand is the last
    attempt,   \* attempt of process_with_retries
    event,     \* the event process_packet returned last, {} for none
    sent,      \* events in flow_inference, in order
    dlq,       \* messages dead-lettered
    faults,    \* failed calls so far
    messageOf, \* history: the message each call of process_packet was for
    events     \* history: events process_packet returned

loopVars == <<pc, packet, taken, attempt, event, sent, dlq, faults>>
workerVars == <<vars, loopVars, messageOf, events>>

Packet == [key : Keys, time : 0..MaxTime, ends : BOOLEAN]

WorkerTypeOK ==
    /\ pc \in {"yield", "fold", "publish", "ack", "dlq", "dlqack", "dead"}
    /\ packet \in Packet
    /\ taken \in 0..MaxMessages
    /\ attempt \in 0..Attempts
    /\ event \subseteq 1..packetsSeen
    /\ sent \in Seq(SUBSET (1..packetsSeen))
    /\ dlq \subseteq 1..taken
    /\ faults \in 0..MaxFaults
    /\ messageOf \in [1..packetsSeen -> 1..taken]
    /\ events \subseteq SUBSET (1..packetsSeen)

WorkerInit ==
    /\ Init
    /\ pc = "yield"
    /\ packet = CHOOSE p \in Packet : TRUE
    /\ taken = 0
    /\ attempt = 0
    /\ event = {}
    /\ sent = <<>>
    /\ dlq = {}
    /\ faults = 0
    /\ messageOf = <<>>
    /\ events = {}

Fault ==
    /\ faults < MaxFaults
    /\ faults' = faults + 1

\* An exception out of _dispatch or out of the ack after it.
NextAttempt ==
    IF attempt < Attempts
    THEN pc' = "fold" /\ attempt' = attempt + 1
    ELSE pc' = "dlq" /\ UNCHANGED attempt

-----------------------------------------------------------------------------
\* consume() yields a packet.
Take(p) ==
    /\ pc = "yield"
    /\ taken < MaxMessages
    /\ newest <= p.time + Skew
    /\ packet' = p
    /\ taken' = taken + 1
    /\ attempt' = 1
    /\ pc' = "fold"
    /\ UNCHANGED <<vars, event, sent, dlq, faults, messageOf, events>>

\* process_packet; with nothing to publish, _dispatch returns.
Fold ==
    /\ pc = "fold"
    /\ ProcessPacket(packet.key, packet.time, packet.ends)
    /\ messageOf' = Append(messageOf, taken)
    /\ event' = emitted' \ emitted
    /\ IF output' = {}
       THEN pc' = "ack" /\ UNCHANGED events
       ELSE pc' = "publish" /\ events' = events \cup {event'}
    /\ UNCHANGED <<packet, taken, attempt, sent, dlq, faults>>

\* Mutant of Publish: only the events of FIN and RST are published.
PublishEnded ==
    /\ pc = "publish"
    /\ sent' = IF packet.ends THEN Append(sent, event) ELSE sent
    /\ pc' = "ack"
    /\ UNCHANGED <<vars, packet, taken, attempt, event, dlq, faults,
                   messageOf, events>>

\* The publish of the event.
Publish ==
    /\ pc = "publish"
    /\ sent' = Append(sent, event)
    /\ pc' = "ack"
    /\ UNCHANGED <<vars, packet, taken, attempt, event, dlq, faults,
                   messageOf, events>>

\* Mutant of PublishRaises: the publish alone is retried.
PublishRetried ==
    /\ pc = "publish"
    /\ Fault
    /\ UNCHANGED sent \/ sent' = Append(sent, event)
    /\ UNCHANGED <<vars, pc, attempt, packet, taken, event, dlq, messageOf,
                   events>>

\* Mutant of PublishRaises: the packet's flow is dropped before the retry.
PublishRaisesAndForget ==
    /\ pc = "publish"
    /\ Fault
    /\ NextAttempt
    /\ flows' = Without(flows, {packet.key})
    /\ UNCHANGED <<packetsSeen, output, newest, emitted, dropped, closing,
                   sent, packet, taken, event, dlq, messageOf, events>>

\* It raises, applied or not.
PublishRaises ==
    /\ pc = "publish"
    /\ Fault
    /\ UNCHANGED sent \/ sent' = Append(sent, event)
    /\ NextAttempt
    /\ UNCHANGED <<vars, packet, taken, event, dlq, messageOf, events>>

\* Mutant of Ack: no `return True`, the loop goes on.
AckAndGoOn ==
    /\ pc = "ack"
    /\ NextAttempt
    /\ UNCHANGED <<vars, packet, taken, event, sent, dlq, faults, messageOf,
                   events>>

\* The ack.
Ack ==
    /\ pc = "ack"
    /\ pc' = "yield"
    /\ UNCHANGED <<vars, packet, taken, attempt, event, sent, dlq, faults,
                   messageOf, events>>

\* It raises, inside the same try.
AckRaises ==
    /\ pc = "ack"
    /\ Fault
    /\ NextAttempt
    /\ UNCHANGED <<vars, packet, taken, event, sent, dlq, messageOf, events>>

\* publish_dlq.  (Its failure is swallowed.)
PublishDlq ==
    /\ pc = "dlq"
    /\ dlq' = dlq \cup {taken}
    /\ pc' = "dlqack"
    /\ UNCHANGED <<vars, packet, taken, attempt, event, sent, faults,
                   messageOf, events>>

\* The ack after it; if that raises, run() ends.
AckDlq ==
    /\ pc = "dlqack"
    /\ \/ pc' = "yield" /\ UNCHANGED faults
       \/ pc' = "dead" /\ Fault
    /\ UNCHANGED <<vars, packet, taken, attempt, event, sent, dlq, messageOf,
                   events>>

WorkerNext ==
    \/ \E p \in Packet : Take(p)
    \/ Fold \/ Publish \/ PublishRaises \/ Ack \/ AckRaises
    \/ PublishDlq \/ AckDlq

WorkerSpec == WorkerInit /\ [][WorkerNext]_workerVars
-----------------------------------------------------------------------------
Sent == {sent[n] : n \in 1..Len(sent)}

\* What a retry folds a second time never comes out a second time: the events
\* of flow_inference share no packet, although a publish that raised may have
\* been applied and its message is processed again.
SentOnce ==
    \A a, b \in 1..Len(sent) : a # b => sent[a] \cap sent[b] = {}

\* Every event that was built and never published cost a failed publish.
LossPaidByFaults ==
    Cardinality({e \in events \ Sent : ~(pc = "publish" /\ e = event)})
        <= faults

\* A packet is folded into the table once, and once more for each failed
\* call, but never more often than there are attempts.
FoldsPaidByFaults ==
    /\ packetsSeen <= taken + faults
    /\ \A m \in 1..taken :
          Cardinality({n \in 1..packetsSeen : messageOf[n] = m}) <= Attempts

\* Whatever is retried, the table goes through steps of FlowTable only, so
\* all that holds of the table holds of a worker's table.
TableKeepsItsSpec == Spec

\* The docstring of services/flow_builder/service.py: the flow builder "emits
\* a FlowFeatureEvent when a flow terminates"; and process_with_retries
\* returns True only "if the handler succeeded".  So once every message is
\* dealt with, and none was dead-lettered, every event is in the stream.
EveryEventIsSent == pc = "yield" /\ dlq = {} => events \subseteq Sent
=============================================================================
