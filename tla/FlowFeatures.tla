---------------------------- MODULE FlowFeatures ----------------------------
(***************************************************************************)
(* One flow and its features: Flow.__init__, new and terminated in         *)
(* flow/Flow.py over the fields of flow/FlowFeature.py.  FlowBuilderService *)
(* makes a flow of a conversation's first packet, adds the packets that do *)
(* not close it (FlowTable models which), and takes the features when it   *)
(* does.                                                                   *)
(*                                                                         *)
(* Packets come in the order of the stream, their timestamps up to Skew    *)
(* behind the newest one.  A packet is its time, its direction, its        *)
(* payload size (also its packet_size, see _packet_info_from_event) and    *)
(* its TCP flags.  Of a list of numbers the features hold the mean, the    *)
(* extremes and the deviation: here its sum, its length and its extremes.  *)
(* Times are whole units; the factor of a million and the rounding of the  *)
(* duration are left out.                                                  *)
(***************************************************************************)
EXTENDS Integers, FiniteSets, SequencesExt

CONSTANTS
    Threshold,  \* threshold (5 s): a longer silence is idle time
    Sizes,      \* payload sizes
    FlagSets,   \* flags a packet may carry: sets of "FIN", "SYN", "RST",
                \* "PSH", "ACK", "URG"
    Skew,       \* how far a timestamp may lie behind the newest one
    MaxGap,     \* bound: how far it may lie before it
    MaxPackets  \* bound: packets of the flow

ASSUME ConstantsOK ==
    /\ Threshold \in Nat
    /\ Sizes \subseteq Nat
    /\ FlagSets \subseteq SUBSET {"FIN", "SYN", "RST", "PSH", "ACK", "URG"}
    /\ Skew \in Nat
    /\ MaxGap \in Nat
    /\ MaxPackets \in Nat

VARIABLES
    flow,    \* the flow
    newest   \* history: the newest timestamp so far

vars == <<flow, newest>>

Packet == [time : Int, fwd : BOOLEAN, size : Sizes, flags : FlagSets]

\* Counted flags: FINFlagCount to URGFlagCount.
Counted == {"FIN", "SYN", "PSH", "ACK", "URG"}

Flow == [packets : Seq(Packet), bwdPackets : Seq(Packet), maxSize : Sizes,
         flags : SUBSET Counted, fwdPsh : BOOLEAN,
         bwdMax : Nat, bwdMin : Nat, fwdCount : Nat, bwdCount : Nat,
         lastSeen : Int, fwdLast : Int, bwdLast : Int,
         startActive : Int, endActive : Int,
         iat : Seq(Int), fwdIat : Seq(Int), bwdIat : Seq(Int),
         active : Seq(Int), idle : Seq(Int)]

TypeOK == flow \in Flow /\ newest \in Int

-----------------------------------------------------------------------------
\* Flow(packet): the first packet is a forward one by definition.
NewFlow(p) ==
    [packets |-> <<p>>, bwdPackets |-> <<>>, maxSize |-> p.size,
     flags |-> p.flags \cap Counted, fwdPsh |-> "URG" \in p.flags,
     bwdMax |-> 0, bwdMin |-> 0, fwdCount |-> 1, bwdCount |-> 0,
     lastSeen |-> p.time, fwdLast |-> p.time, bwdLast |-> 0,
     startActive |-> p.time, endActive |-> p.time,
     iat |-> <<>>, fwdIat |-> <<>>, bwdIat |-> <<>>,
     active |-> <<>>, idle |-> <<>>]

Larger(m, n) == IF m >= n THEN m ELSE n
Smaller(m, n) == IF m <= n THEN m ELSE n

\* Mutant of Backward: no special first packet.
BackwardAlike(f, p) ==
    [f EXCEPT !.bwdPackets = Append(@, p),
              !.bwdMax = Larger(@, p.size), !.bwdMin = Smaller(@, p.size),
              !.bwdIat = Append(@, p.time - f.bwdLast),
              !.bwdCount = @ + 1, !.bwdLast = p.time]

\* new(), a backward packet; the first one sets the extremes.
Backward(f, p) ==
    IF f.bwdCount = 0
    THEN [f EXCEPT !.bwdPackets = Append(@, p),
                   !.bwdMax = p.size, !.bwdMin = p.size,
                   !.bwdCount = 1, !.bwdLast = p.time]
    ELSE [f EXCEPT !.bwdPackets = Append(@, p),
                   !.bwdMax = Larger(@, p.size),
                   !.bwdMin = Smaller(@, p.size),
                   !.bwdIat = Append(@, p.time - f.bwdLast),
                   !.bwdCount = @ + 1, !.bwdLast = p.time]

\* ... and a forward one; its "PSH" feature is taken from URG, as the model
\* was trained.
Forward(f, p) ==
    [f EXCEPT !.fwdIat = Append(@, p.time - f.fwdLast),
              !.fwdPsh = @ \/ "URG" \in p.flags,
              !.fwdCount = @ + 1, !.fwdLast = p.time]

\* Mutant of Activity: the next active period begins where the last one did.
ActivityWithoutRestart(f, t) ==
    IF t - f.endActive > Threshold
    THEN [f EXCEPT !.active = IF f.endActive > f.startActive
                              THEN Append(@, f.endActive - f.startActive)
                              ELSE @,
                   !.idle = Append(@, t - f.endActive),
                   !.endActive = t]
    ELSE [f EXCEPT !.endActive = t]

\* A silence longer than the threshold ends the active period.
Activity(f, t) ==
    IF t - f.endActive > Threshold
    THEN [f EXCEPT !.active = IF f.endActive > f.startActive
                              THEN Append(@, f.endActive - f.startActive)
                              ELSE @,
                   !.idle = Append(@, t - f.endActive),
                   !.startActive = t, !.endActive = t]
    ELSE [f EXCEPT !.endActive = t]

\* new(packet, direction)
Extended(f, p) ==
    LET g == IF p.fwd THEN Forward(f, p) ELSE Backward(f, p)
    IN  [Activity(g, p.time) EXCEPT
            !.packets = Append(@, p),
            !.maxSize = Larger(@, p.size),
            !.flags = @ \cup (p.flags \cap Counted),
            !.iat = Append(@, p.time - f.lastSeen),
            !.lastSeen = p.time]

-----------------------------------------------------------------------------
(* terminated() *)

\* sum(s), which statistics.mean divides by len(s)
SumOf(s) ==
    LET sum[n \in 0..Len(s)] == IF n = 0 THEN 0 ELSE sum[n - 1] + s[n]
    IN  sum[Len(s)]

NumbersOf(s) == [n |-> Len(s), total |-> SumOf(s),
                 max |-> IF s = <<>> THEN 0 ELSE Max(ToSet(s)),
                 min |-> IF s = <<>> THEN 0 ELSE Min(ToSet(s))]

SizesOf(s) == [i \in DOMAIN s |-> s[i].size]

\* flowLastSeen - flowStartTime
Duration(f) == f.lastSeen - Head(f.packets).time

\* The features, with the names of flow/FlowFeature.py; fwd_packets_s is a
\* count over the duration, 0 if that is 0.
Features(f) ==
    [flow_duration |-> Duration(f),
     bwd_packet_len |-> [max |-> f.bwdMax, min |-> f.bwdMin],
     bwd_lens |-> NumbersOf(SizesOf(f.bwdPackets)),
     flow_IAT |-> NumbersOf(f.iat),
     fwd_IAT |-> NumbersOf(f.fwdIat),
     bwd_IAT |-> NumbersOf(f.bwdIat),
     fwd_PSH_flags |-> f.fwdPsh,
     fwd_packets_s |-> IF Duration(f) = 0 THEN 0 ELSE f.fwdCount,
     max_packet_len |-> f.maxSize,
     packet_len |-> NumbersOf(SizesOf(f.packets)),
     flag_counts |-> f.flags,
     avg_bwd_segment_over |-> f.bwdCount,
     active_min |-> NumbersOf(f.active).min,
     idle |-> NumbersOf(f.idle)]

-----------------------------------------------------------------------------
Init ==
    \E z \in Sizes, F \in FlagSets :
        /\ flow = NewFlow([time |-> 0, fwd |-> TRUE, size |-> z,
                           flags |-> F])
        /\ newest = 0

\* FIN and RST close a flow: no such packet is added to it.
New ==
    /\ Len(flow.packets) < MaxPackets
    /\ \E t \in (newest - Skew)..(newest + MaxGap), d \in BOOLEAN,
          z \in Sizes, F \in FlagSets :
          /\ F \cap {"FIN", "RST"} = {}
          /\ flow' = Extended(flow, [time |-> t, fwd |-> d, size |-> z,
                                     flags |-> F])
          /\ newest' = Larger(newest, t)

Next == New

Spec == Init /\ [][Next]_vars

-----------------------------------------------------------------------------
\* The timestamps of the flow came in order.
InOrder(f) ==
    \A i \in 1..(Len(f.packets) - 1) :
        f.packets[i].time <= f.packets[i + 1].time

\* Sizes and flags are those of the set of the flow's packets, whatever the
\* order they came in; the counts by direction add up.
SizesForgetTheOrder ==
    LET f == Features(flow)
        all == ToSet(flow.packets)
        bwd == {p \in all : ~p.fwd}
    IN  /\ f.max_packet_len = Max({p.size : p \in all})
        /\ f.packet_len.max = f.max_packet_len
        /\ f.bwd_packet_len =
               [max |-> f.bwd_lens.max, min |-> f.bwd_lens.min]
        /\ bwd # {} => f.bwd_packet_len.min = Min({p.size : p \in bwd})
        /\ f.avg_bwd_segment_over = f.bwd_lens.n
        /\ flow.fwdCount + flow.bwdCount = f.packet_len.n
        /\ f.fwd_IAT.n = flow.fwdCount - 1
        /\ f.flag_counts = (UNION {p.flags : p \in all}) \cap Counted
        /\ f.fwd_PSH_flags <=> \E p \in all : p.fwd /\ "URG" \in p.flags

\* The inter-arrival times add up to the duration, and so do the active and
\* the idle periods with the one that is still going on; only out of order is
\* an active period of negative length left out, or a feature negative.
TimesAddUp ==
    LET f == Features(flow)
        periods == SumOf(flow.active) + f.idle.total
                       + (flow.endActive - flow.startActive)
    IN  /\ f.flow_IAT.total = f.flow_duration
        /\ f.fwd_IAT.total = flow.fwdLast - Head(flow.packets).time
        /\ periods >= f.flow_duration
        /\ flow.idle # <<>> => f.idle.min > Threshold
        /\ InOrder(flow) =>
               /\ periods = f.flow_duration
               /\ \A x \in {f.flow_IAT, f.fwd_IAT, f.bwd_IAT} : x.min >= 0

\* The duration is the span of the timestamps but for the disorder of the
\* first packet and of the last.
DurationIsTheSpan ==
    \A p \in ToSet(flow.packets), q \in ToSet(flow.packets) :
        p.time - q.time <= Duration(flow) + 2 * Skew
=============================================================================
