------------------------------ MODULE FlowTable ------------------------------
(***************************************************************************)
(* The flow table of services/flow_builder/service.py: FlowBuilderService  *)
(* folds packets into conversations and bounds the table by a periodic     *)
(* sweep of idle flows and by eviction of the least recently touched one.  *)
(*                                                                         *)
(* Keys are the directed flow ids of flow/PacketInfo.py; Reverse[k] is the *)
(* id of the opposite direction.  current_flows is an OrderedDict whose    *)
(* order is that of the last insertion or move_to_end of each key.  One    *)
(* packet touches one key at most, so that order is the order of the       *)
(* packet numbers that touched the keys last: "touched".  A flow keeps,    *)
(* like Flow.packetInfos, the packets it was built from, here as a set of  *)
(* packet numbers; times are whole units.                                  *)
(***************************************************************************)
EXTENDS Naturals, FiniteSets

CONSTANTS
    Keys,        \* directed flow ids
    Reverse,     \* [Keys -> Keys], getFwdID to getBwdID
    MaxFlows,    \* max_flows (50 000)
    Timeout,     \* flow_timeout_seconds (600)
    SweepEvery,  \* packets between two sweeps (1000)
    Skew,        \* how far a timestamp may lie behind the newest one
    MaxTime,     \* bound: timestamps
    MaxPackets   \* bound: packets processed

ASSUME ConstantsOK ==
    /\ IsFiniteSet(Keys)
    /\ Reverse \in [Keys -> Keys]
    /\ \A k \in Keys : Reverse[Reverse[k]] = k
    /\ MaxFlows \in Nat
    /\ Timeout \in Nat \ {0}
    /\ SweepEvery \in Nat \ {0}
    /\ Skew \in Nat
    /\ MaxTime \in Nat
    /\ MaxPackets \in Nat

VARIABLES
    flows,        \* current_flows; an absent key has touched = 0
    packetsSeen,  \* _packets_seen
    output,       \* the flows of the events the last call returned
    newest,       \* history: the newest timestamp so far
    emitted,      \* history: packets that went out in events
    dropped,      \* history: packets of flows dropped without an event
    closing       \* history: packets that only closed a flow

vars == <<flows, packetsSeen, output, newest, emitted, dropped, closing>>

Flow == [touched : Nat, lastSeen : Nat, packets : SUBSET Nat]
NoFlow == [touched |-> 0, lastSeen |-> 0, packets |-> {}]

Tracked(F) == {k \in Keys : F[k].touched # 0}

TypeOK ==
    /\ flows \in [Keys -> Flow]
    /\ packetsSeen \in Nat
    /\ output \subseteq Keys
    /\ newest \in Nat
    /\ emitted \subseteq Nat
    /\ dropped \subseteq Nat
    /\ closing \subseteq Nat

Init ==
    /\ flows = [k \in Keys |-> NoFlow]
    /\ packetsSeen = 0
    /\ output = {}
    /\ newest = 0
    /\ emitted = {}
    /\ dropped = {}
    /\ closing = {}

-----------------------------------------------------------------------------
Without(F, S) == [k \in Keys |-> IF k \in S THEN NoFlow ELSE F[k]]

\* The packets of the flows of S.
Packets(F, S) == UNION {F[k].packets : k \in S}

\* lastSeen <= now - timeout, without going below zero.
Idle(F, k, now) == F[k].lastSeen + Timeout <= now

\* Mutant of Stale: the sweep pops one flow and returns.
StaleHead(F, now) ==
    {k \in Tracked(F) :
        Idle(F, k, now) /\ \A j \in Tracked(F) : F[k].touched <= F[j].touched}

\* _evict_stale_flows: from the head of the dictionary, stop at the first
\* flow that is not idle.
Stale(F, now) ==
    {k \in Tracked(F) :
        \A j \in Tracked(F) : F[j].touched <= F[k].touched => Idle(F, j, now)}

\* process_packet calls it on every SweepEvery-th packet, before the lookup.
Swept(now) ==
    IF (packetsSeen + 1) % SweepEvery = 0 THEN Stale(flows, now) ELSE {}

\* Mutant of IsOldest: popitem() without last=False.
IsNewest(F, k) ==
    k \in Tracked(F) /\ \A j \in Tracked(F) : F[j].touched <= F[k].touched

\* The head of the dictionary: what popitem(last=False) removes.
IsOldest(F, k) ==
    k \in Tracked(F) /\ \A j \in Tracked(F) : F[k].touched <= F[j].touched

\* Flow(packet): put at the end of the dictionary under the packet's own id.
Started(now) ==
    [touched |-> packetsSeen + 1, lastSeen |-> now,
     packets |-> {packetsSeen + 1}]

\* Mutant of Extended: Flow.new is not called.
ExtendedByNothing(flow, now) ==
    [flow EXCEPT !.touched = packetsSeen + 1, !.lastSeen = now]

\* Flow.new(packet) on a tracked flow, and move_to_end.
Extended(flow, now) ==
    [touched |-> packetsSeen + 1, lastSeen |-> now,
     packets |-> flow.packets \cup {packetsSeen + 1}]

\* What every packet does first; F is the table it goes on with.
Arrive(now, F) ==
    /\ packetsSeen < MaxPackets
    /\ newest <= now + Skew
    /\ newest' = IF now > newest THEN now ELSE newest
    /\ packetsSeen' = packetsSeen + 1
    /\ F = Without(flows, Swept(now))

SweptPackets(now) == Packets(flows, Swept(now))

\* active_key: the forward id if it is tracked, else the backward id.
ActiveKey(F, k) == IF k \in Tracked(F) THEN k ELSE Reverse[k]

\* timed_out, for the flow under the active key.
TimedOut(F, a, now) == now > F[a].lastSeen + Timeout

\* Neither direction of the packet is tracked.
Unknown(F, k) == k \notin Tracked(F) /\ Reverse[k] \notin Tracked(F)

\* len(current_flows) >= max_flows; an empty table has nothing to evict.
Full(F) == Cardinality(Tracked(F)) >= MaxFlows /\ Tracked(F) # {}

\* The call returns the event of flow a.
Emit(F, a) ==
    /\ output' = {a}
    /\ emitted' = emitted \cup F[a].packets

-----------------------------------------------------------------------------
\* No flow for either direction: start one, whatever its flags are, and
\* make room for it first if the table is full.
StartFlow(k, now) ==
    LET F == Without(flows, Swept(now)) IN
    /\ Arrive(now, F)
    /\ Unknown(F, k)
    /\ \/ /\ ~Full(F)
          /\ flows' = [F EXCEPT ![k] = Started(now)]
          /\ dropped' = dropped \cup SweptPackets(now)
       \/ /\ Full(F)
          /\ \E old \in Keys :
                /\ IsOldest(F, old)
                /\ flows' = [Without(F, {old}) EXCEPT ![k] = Started(now)]
                /\ dropped' =
                       dropped \cup SweptPackets(now) \cup F[old].packets
    /\ output' = {}
    /\ UNCHANGED <<emitted, closing>>

\* A packet of a tracked flow: Flow.new and move_to_end.
ExtendFlow(k, now) ==
    LET F == Without(flows, Swept(now))
        a == ActiveKey(F, k)
    IN
    /\ Arrive(now, F)
    /\ a \in Tracked(F)
    /\ ~TimedOut(F, a, now)
    /\ flows' = [F EXCEPT ![a] = Extended(@, now)]
    /\ dropped' = dropped \cup SweptPackets(now)
    /\ output' = {}
    /\ UNCHANGED <<emitted, closing>>

\* A packet with FIN or RST: the flow goes out without it.
CloseFlow(k, now) ==
    LET F == Without(flows, Swept(now))
        a == ActiveKey(F, k)
    IN
    /\ Arrive(now, F)
    /\ a \in Tracked(F)
    /\ flows' = Without(F, {a})
    /\ Emit(F, a)
    /\ dropped' = dropped \cup SweptPackets(now)
    /\ closing' = closing \cup {packetsSeen + 1}

\* A packet after the timeout: the flow goes out and the packet starts the
\* next one, under its own direction.
RestartFlow(k, now) ==
    LET F == Without(flows, Swept(now))
        a == ActiveKey(F, k)
    IN
    /\ Arrive(now, F)
    /\ a \in Tracked(F)
    /\ TimedOut(F, a, now)
    /\ flows' = [Without(F, {a}) EXCEPT ![k] = Started(now)]
    /\ Emit(F, a)
    /\ dropped' = dropped \cup SweptPackets(now)
    /\ UNCHANGED closing

\* process_packet(packet_event); terminated = FIN or RST.
ProcessPacket(k, now, terminated) ==
    \/ StartFlow(k, now)
    \/ ~terminated /\ ExtendFlow(k, now)
    \/ terminated /\ CloseFlow(k, now)
    \/ ~terminated /\ RestartFlow(k, now)

Next ==
    \E k \in Keys, now \in 0..MaxTime, terminated \in BOOLEAN :
        ProcessPacket(k, now, terminated)

Spec == Init /\ [][Next]_vars

-----------------------------------------------------------------------------
\* The table never outgrows max_flows (a max_flows of 0 still holds one
\* flow: there is nothing to evict when the first one comes).
Capacity == IF MaxFlows = 0 THEN 1 ELSE MaxFlows
BoundedTable == Cardinality(Tracked(flows)) <= Capacity

\* A conversation is tracked under one of its two ids only, so no packet of
\* it is ever attributed to a second flow: not by the sweep between two
\* lookups, nor when a timed-out flow restarts in the other direction.
OneDirectionIn(F) ==
    \A k \in Tracked(F) : Reverse[k] \in Tracked(F) => Reverse[k] = k
OneDirection == OneDirectionIn(flows)

\* The dictionary is ordered by last-seen time up to the disorder of the
\* timestamps: what the sweep's early stop and the O(1) eviction rely on.
RoughlyLRUIn(F) ==
    \A j, k \in Tracked(F) :
        F[j].touched < F[k].touched => F[j].lastSeen <= F[k].lastSeen + Skew
RoughlyLRU == RoughlyLRUIn(flows)

\* What keeps the order: a touch is a packet number already given out, of
\* one key only, and no flow was last seen after the newest timestamp.
TouchesIn(F, seen, last) ==
    /\ \A k \in Tracked(F) : F[k].touched <= seen /\ F[k].lastSeen <= last
    /\ \A j, k \in Tracked(F) : F[j].touched = F[k].touched => j = k
Touches == TouchesIn(flows, packetsSeen, newest)

\* Every packet is in a tracked flow, or went out in an event, or was dropped
\* with its flow, or closed a flow: none is counted twice or forgotten.
PacketsAccountedIn(F, em, dr, cl, seen) ==
    /\ 1..seen = Packets(F, Keys) \cup em \cup dr \cup cl
    /\ em \cap dr = {} /\ em \cap cl = {} /\ dr \cap cl = {}
    /\ \A k \in Keys : F[k].packets \cap (em \cup dr \cup cl) = {}
    /\ \A j, k \in Keys : j # k => F[j].packets \cap F[k].packets = {}
PacketsAccounted ==
    PacketsAccountedIn(flows, emitted, dropped, closing, packetsSeen)

\* A flow that leaves the table without an event was at least as idle as
\* every flow that stays as it is, up to the disorder of the timestamps.
DropsTheIdlest ==
    [][\A j \in Tracked(flows) \ Tracked(flows') :
          \/ j \in output'
          \/ \A k \in Tracked(flows) :
                flows'[k] = flows[k] =>
                flows[j].lastSeen <= flows[k].lastSeen + Skew]_vars

\* A sweep is complete: what it leaves was seen, up to the disorder of the
\* timestamps, less than a timeout before the packet that triggered it.
SweepIsComplete ==
    [][packetsSeen' # packetsSeen /\ packetsSeen' % SweepEvery = 0 =>
          \A k \in Tracked(flows') :
              flows'[k].lastSeen + Timeout + 2 * Skew > newest']_vars
=============================================================================
