------------------------------- MODULE Capture -------------------------------
(***************************************************************************)
(* The ingestion process (services/ingestion/run_sniffer.py, sniffer.py,   *)
(* publisher.py): one coroutine that forwards what a capture adapter       *)
(* yields to the ingest stream.  In live mode a sniffer thread hands       *)
(* packets to the event loop as callbacks, the callbacks fill a bounded    *)
(* queue, and the coroutine empties it; a watchdog starts a new adapter    *)
(* when the coroutine raises.  A replayed file or a tcpdump subprocess is  *)
(* read by the coroutine itself and has no watchdog.                       *)
(*                                                                         *)
(* A packet is its number in the order in which the source hands it over.  *)
(* What passes by while no sniffer runs has no number.                     *)
(***************************************************************************)
EXTENDS Naturals, Sequences, FiniteSets, Functions

CONSTANTS
    MaxPackets,   \* bound: packets of the source
    QueueSize,    \* maxsize of the queue (10_000)
    Skipped,      \* packets that are not IP, lines that are not JSON
    MaxFaults     \* bound: failing publishes, sources and sniffer threads

ASSUME ConstantsOK ==
    /\ MaxPackets \in Nat
    /\ QueueSize \in Nat \ {0}
    /\ Skipped \subseteq Nat
    /\ MaxFaults \in Nat

Packets == 1..MaxPackets

VARIABLES
    mode,       \* mode of main()
    main,       \* where the coroutine is
    sniffer,    \* the sniffer thread of the present adapter
    taken,      \* packets the source has handed over
    scheduled,  \* _enqueue callbacks waiting for the event loop
    queue,      \* the bounded queue of the present adapter
    hand,       \* the packet being published, or 0
    dropped,    \* dropped, the present adapter's counter
    lastMetric, \* last_metric_drops
    metric,     \* packets_dropped_total
    stream,     \* entries added to the ingest stream, in order
    overflown,  \* history: packets that met a full queue
    lost,       \* history: packets a failing publish has cost
    unreported, \* history: drops that went with their adapter
    faults      \* failures so far

adapterVars == <<sniffer, scheduled, queue, dropped>>
books == <<overflown, unreported, metric, lastMetric>>
vars == <<mode, main, sniffer, taken, scheduled, queue, hand, dropped,
          lastMetric, metric, stream, overflown, lost, unreported, faults>>

\* main(): a command comes before a file, a file before an interface, which
\* must exist; without any of them it raises.
ModeOf(configured) ==
    CASE "cmd" \in configured -> "tcpdump_subprocess"
      [] "pcap" \in configured \ {"cmd"} -> "pcap_replay"
      [] configured = {"interface"} -> "scapy_live"
      [] OTHER -> "none"

Live == mode = "scapy_live"

TypeOK ==
    /\ mode \in {"tcpdump_subprocess", "pcap_replay", "scapy_live", "none"}
    /\ main \in {"reading", "publishing", "closing", "sleeping", "ended",
                 "failed"}
    /\ sniffer \in {"off", "running", "dead"}
    /\ taken \in 0..MaxPackets
    /\ scheduled \in Seq(Packets)
    /\ queue \in Seq(Packets) /\ Len(queue) <= QueueSize
    /\ hand \in 0..MaxPackets /\ (hand # 0 <=> main = "publishing")
    /\ dropped \in Nat
    /\ lastMetric \in Nat
    /\ metric \in Nat
    /\ stream \in Seq(Packets)
    /\ overflown \subseteq Packets /\ lost \subseteq Packets
    /\ unreported \in Nat
    /\ faults \in 0..MaxFaults

Init ==
    /\ \E configured \in SUBSET {"cmd", "pcap", "interface"} :
          mode = ModeOf(configured)
    /\ main = IF mode = "none" THEN "failed" ELSE "reading"
    /\ sniffer = IF Live THEN "running" ELSE "off"
    /\ taken = 0
    /\ scheduled = <<>> /\ queue = <<>>
    /\ hand = 0
    /\ dropped = 0 /\ lastMetric = 0 /\ metric = 0
    /\ stream = <<>>
    /\ overflown = {} /\ lost = {} /\ unreported = 0
    /\ faults = 0

Fault ==
    /\ faults < MaxFaults
    /\ faults' = faults + 1

-----------------------------------------------------------------------------
(* The sniffer thread and the callbacks of ScapyLiveAdapter *)

\* _convert_packet gives an event for what is IP.
Converted(p) == p \notin Skipped

\* on_packet, in the thread: convert, hop to the event loop.
Capture ==
    /\ sniffer = "running"
    /\ taken < MaxPackets
    /\ taken' = taken + 1
    /\ scheduled' = IF Converted(taken') THEN Append(scheduled, taken')
                    ELSE scheduled
    /\ UNCHANGED <<mode, main, sniffer, queue, hand, dropped, stream, lost,
                   books, faults>>

\* The thread ends (the interface is gone); nobody is told.
SnifferDies ==
    /\ sniffer = "running"
    /\ Fault
    /\ sniffer' = "dead"
    /\ UNCHANGED <<mode, main, taken, scheduled, queue, hand, dropped, stream,
                   lost, books>>

\* Mutant of Enqueue: a full queue raises in the callback.
EnqueueRaises ==
    /\ scheduled # <<>>
    /\ scheduled' = Tail(scheduled)
    /\ queue' = IF Len(queue) < QueueSize
                THEN Append(queue, Head(scheduled)) ELSE queue
    /\ UNCHANGED <<mode, main, sniffer, taken, hand, dropped, stream, lost,
                   books, faults>>

\* _enqueue, in the event loop: the newest packet is dropped at the limit.
Enqueue ==
    /\ scheduled # <<>>
    /\ scheduled' = Tail(scheduled)
    /\ IF Len(queue) < QueueSize
       THEN /\ queue' = Append(queue, Head(scheduled))
            /\ UNCHANGED <<dropped, overflown>>
       ELSE /\ dropped' = dropped + 1
            /\ overflown' = overflown \cup {Head(scheduled)}
            /\ UNCHANGED queue
    /\ UNCHANGED <<mode, main, sniffer, taken, hand, stream, lost, unreported,
                   metric, lastMetric, faults>>

-----------------------------------------------------------------------------
(* The coroutine: _run_capture_loop and main *)

\* The next packet of the queue.
Get ==
    /\ main = "reading" /\ Live
    /\ queue # <<>>
    /\ hand' = Head(queue)
    /\ queue' = Tail(queue)
    /\ main' = "publishing"
    /\ UNCHANGED <<mode, sniffer, taken, scheduled, dropped, stream, lost,
                   books, faults>>

\* The next packet of the file or line of the subprocess.
ReadSource ==
    /\ main = "reading" /\ ~Live
    /\ taken < MaxPackets
    /\ taken' = taken + 1
    /\ \/ /\ ~Converted(taken')
          /\ UNCHANGED <<main, hand>>
       \/ /\ Converted(taken')
          /\ hand' = taken'
          /\ main' = "publishing"
    /\ UNCHANGED <<mode, adapterVars, stream, lost, books, faults>>

\* The end of the file, or of the subprocess' output.
SourceEnds ==
    /\ main = "reading" /\ ~Live
    /\ main' = "ended"
    /\ UNCHANGED <<mode, adapterVars, taken, hand, stream, lost, books,
                   faults>>

\* A broken file, or a line whose fields are no numbers: main() ends.
SourceRaises ==
    /\ main = "reading" /\ ~Live
    /\ Fault
    /\ main' = "failed"
    /\ UNCHANGED <<mode, adapterVars, taken, hand, stream, lost, books>>

\* The entry is added, and the drops since the last report are reported.
Publish ==
    /\ main = "publishing"
    /\ stream' = Append(stream, hand)
    /\ hand' = 0
    /\ main' = "reading"
    /\ metric' = metric + (dropped - lastMetric)
    /\ lastMetric' = dropped
    /\ UNCHANGED <<mode, adapterVars, taken, overflown, lost, unreported,
                   faults>>

\* Mutant of PublishRaises: the packet is published again.
PublishRaisesAndRetries ==
    /\ main = "publishing"
    /\ Fault
    /\ \/ stream' = Append(stream, hand)
       \/ UNCHANGED stream
    /\ UNCHANGED <<mode, main, hand, adapterVars, taken, lost, books>>

\* XADD raises, applied or not: the loop over the adapter is left.  The
\* process ends, or in live mode the watchdog comes in.
PublishRaises ==
    /\ main = "publishing"
    /\ Fault
    /\ \/ stream' = Append(stream, hand) /\ UNCHANGED lost
       \/ lost' = lost \cup {hand} /\ UNCHANGED stream
    /\ hand' = 0
    /\ main' = IF Live THEN "closing" ELSE "failed"
    /\ UNCHANGED <<mode, adapterVars, taken, books>>

\* Mutant of StopSniffer: the report's state outlives the adapter.
StopSnifferKeepReported ==
    /\ main = "closing"
    /\ main' = "sleeping"
    /\ sniffer' = "off"
    /\ lost' = lost \cup Range(queue) \cup Range(scheduled)
    /\ queue' = <<>> /\ scheduled' = <<>>
    /\ unreported' = unreported + (dropped - lastMetric)
    /\ dropped' = 0
    /\ UNCHANGED <<mode, taken, hand, stream, overflown, metric, lastMetric,
                   faults>>

\* The abandoned generator is finalized by the event loop: the sniffer stops,
\* and what it had in its queue or under way goes nowhere.
StopSniffer ==
    /\ main = "closing"
    /\ main' = "sleeping"
    /\ sniffer' = "off"
    /\ lost' = lost \cup Range(queue) \cup Range(scheduled)
    /\ queue' = <<>> /\ scheduled' = <<>>
    /\ unreported' = unreported + (dropped - lastMetric)
    /\ dropped' = 0 /\ lastMetric' = 0
    /\ UNCHANGED <<mode, taken, hand, stream, overflown, metric, faults>>

\* After SNIFFER_RESTART_DELAY_S: a new adapter, with its sniffer.
Restart ==
    /\ main = "sleeping"
    /\ main' = "reading"
    /\ sniffer' = "running"
    /\ UNCHANGED <<mode, taken, scheduled, queue, hand, dropped, stream, lost,
                   books, faults>>

Coroutine ==
    \/ Get \/ ReadSource \/ SourceEnds \/ SourceRaises
    \/ Publish \/ PublishRaises \/ StopSniffer \/ Restart

Next == Capture \/ SnifferDies \/ Enqueue \/ Coroutine

Spec == Init /\ [][Next]_vars

\* The event loop runs its callbacks and the coroutine; what the sources do
\* is up to them.
FairSpec == Spec /\ WF_vars(Enqueue) /\ WF_vars(Coroutine)

-----------------------------------------------------------------------------
\* The ingest stream holds packets in the order of their capture, each once:
\* through the callbacks, the queue, restarts, and publishes that raise after
\* having been applied.  (The flow builder folds them in this order.)
Ascending(s) == \A i, j \in 1..Len(s) : i < j => s[i] < s[j]
StreamInOrder == Ascending(stream)

\* packets_dropped_total is what met a full queue, except for drops after the
\* last publish of their adapter: a restart neither hides nor repeats others.
DropsAreCounted ==
    /\ lastMetric <= dropped
    /\ metric + unreported + (dropped - lastMetric) = Cardinality(overflown)

\* A captured packet gets into the stream, unless it met a full queue or a
\* publish failed before its turn.
CapturedIsForwarded ==
    \A p \in Packets :
        taken >= p /\ Converted(p) ~>
            \/ p \in Range(stream) \cup overflown
            \/ p \in lost /\ faults > 0
=============================================================================
