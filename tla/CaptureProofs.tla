---------------------------- MODULE CaptureProofs ----------------------------
(***************************************************************************)
(* Proofs about Capture for any number of packets and faults and any size  *)
(* of the queue.                                                           *)
(*                                                                         *)
(* A packet goes through the callbacks, the queue, the coroutine's hand    *)
(* and the stream.  The inductive invariant says that these places are in  *)
(* order: whatever is further on was captured earlier (OrderOK).  What met *)
(* a full queue came before the callbacks still waiting, so each drop is a *)
(* new packet and the counters add up (DropsAreCounted).                   *)
(***************************************************************************)
EXTENDS Capture, FiniteSetTheorems, TLAPS

Below(S, T) == \A a \in S, b \in T : a < b
InHand == {hand} \ {0}

OrderOK ==
    /\ Ascending(stream) /\ Ascending(queue) /\ Ascending(scheduled)
    /\ Below(Range(stream), InHand \cup Range(queue) \cup Range(scheduled))
    /\ Below(InHand, Range(queue) \cup Range(scheduled))
    /\ Below(Range(queue), Range(scheduled))
    /\ Below(overflown, Range(scheduled))
    /\ \A p \in Range(stream) \cup InHand \cup Range(queue)
               \cup Range(scheduled) \cup overflown : p <= taken
    /\ ~Live => /\ sniffer = "off" /\ queue = <<>> /\ scheduled = <<>>
                /\ main \notin {"closing", "sleeping"}

IInv == TypeOK /\ OrderOK /\ DropsAreCounted

-----------------------------------------------------------------------------
(* Sequences *)

LEMMA Appending ==
  ASSUME NEW s \in Seq(Packets), NEW p \in Packets
  PROVE  /\ Append(s, p) \in Seq(Packets)
         /\ Range(Append(s, p)) = Range(s) \cup {p}
         /\ Ascending(s) /\ Below(Range(s), {p}) => Ascending(Append(s, p))
<1> DEFINE t == Append(s, p)
<1>1. /\ t \in Seq(Packets)
      /\ Len(t) = Len(s) + 1 /\ DOMAIN t = 1..Len(t) /\ DOMAIN s = 1..Len(s)
      /\ \A i \in 1..Len(s) : t[i] = s[i]
      /\ t[Len(s) + 1] = p
  OBVIOUS
<1> HIDE DEF t
<1>2. Len(s) \in Nat
  OBVIOUS
<1>3. 1..Len(t) = (1..Len(s)) \cup {Len(s) + 1}
  BY <1>1, <1>2
<1>4. Range(t) = Range(s) \cup {p}
  BY <1>1, <1>3 DEF Range
<1>5. ASSUME Ascending(s), Below(Range(s), {p}) PROVE Ascending(t)
  <2> SUFFICES ASSUME NEW i \in 1..Len(t), NEW j \in 1..Len(t), i < j
               PROVE  t[i] < t[j]
    BY DEF Ascending
  <2>1. i \in 1..Len(s)
    BY <1>1, <1>2
  <2>2. CASE j \in 1..Len(s)
    BY <1>1, <1>5, <2>1, <2>2 DEF Ascending
  <2>3. CASE j = Len(s) + 1
    BY <1>1, <1>5, <2>1, <2>3 DEF Below, Range
  <2> QED
    BY <1>3, <2>2, <2>3
<1> QED
  BY <1>1, <1>4, <1>5 DEF t

LEMMA Taking ==
  ASSUME NEW s \in Seq(Packets), s # <<>>
  PROVE  /\ Head(s) \in Packets /\ Tail(s) \in Seq(Packets)
         /\ Len(Tail(s)) = Len(s) - 1
         /\ Head(s) \in Range(s) /\ Range(Tail(s)) \subseteq Range(s)
         /\ Ascending(s) => /\ Ascending(Tail(s))
                            /\ Below({Head(s)}, Range(Tail(s)))
<1> DEFINE t == Tail(s)
<1>1. /\ t \in Seq(Packets) /\ Len(t) = Len(s) - 1 /\ Len(s) \in Nat \ {0}
      /\ DOMAIN t = 1..Len(t) /\ DOMAIN s = 1..Len(s)
      /\ \A i \in 1..Len(t) : i + 1 \in 1..Len(s) /\ t[i] = s[i + 1]
      /\ \A i \in 1..Len(s) : s[i] \in Packets
      /\ Head(s) = s[1] /\ 1 \in 1..Len(s)
  OBVIOUS
<1> HIDE DEF t
<1>2. /\ Head(s) \in Packets
      /\ Head(s) \in Range(s) /\ Range(t) \subseteq Range(s)
  BY <1>1 DEF Range
<1>3. ASSUME Ascending(s)
      PROVE  Ascending(t) /\ Below({Head(s)}, Range(t))
  BY <1>1, <1>3 DEF Ascending, Below, Range
<1> QED
  BY <1>1, <1>2, <1>3 DEF t

LEMMA Empty == Range(<<>>) = {} /\ Ascending(<<>>)
BY DEF Range, Ascending

LEMMA RangeOfPackets ==
  ASSUME NEW s \in Seq(Packets)
  PROVE  Range(s) \subseteq Packets
<1>1. DOMAIN s = 1..Len(s) /\ \A i \in 1..Len(s) : s[i] \in Packets
  OBVIOUS
<1> QED
  BY <1>1 DEF Range

LEMMA OverflownIsFinite == TypeOK => IsFiniteSet(overflown)
<1>1. IsFiniteSet(1..MaxPackets)
  BY ConstantsOK, FS_Interval
<1> QED
  BY <1>1, FS_Subset DEF TypeOK, Packets

\* What is under way, or was dropped, is a number.
LEMMA PlacesHoldPackets ==
  TypeOK => /\ Range(stream) \cup InHand \cup Range(queue)
               \cup Range(scheduled) \cup overflown \subseteq Packets
<1> SUFFICES ASSUME TypeOK
             PROVE  /\ Range(stream) \cup InHand \cup Range(queue)
                       \cup Range(scheduled) \cup overflown \subseteq Packets
  OBVIOUS
<1>1. InHand \subseteq Packets
  BY ConstantsOK DEF TypeOK, InHand, Packets
<1>2. /\ Range(stream) \subseteq Packets /\ Range(queue) \subseteq Packets
      /\ Range(scheduled) \subseteq Packets /\ overflown \subseteq Packets
  BY RangeOfPackets DEF TypeOK
<1> QED
  BY <1>1, <1>2

-----------------------------------------------------------------------------
(* The invariant *)

LEMMA InitIInv == Init => IInv
<1> SUFFICES ASSUME Init PROVE IInv
  OBVIOUS
<1>1. TypeOK
  BY ConstantsOK DEF Init, TypeOK, ModeOf, Live
<1>2. OrderOK
  BY Empty DEF Init, OrderOK, Below, InHand
<1>3. DropsAreCounted
  BY FS_EmptySet DEF Init, DropsAreCounted
<1> QED
  BY <1>1, <1>2, <1>3 DEF IInv

\* The sniffer thread and its callbacks.
LEMMA ThreadKeepsIInv ==
  IInv /\ (Capture \/ SnifferDies \/ Enqueue) => IInv'
<1> SUFFICES ASSUME IInv, Capture \/ SnifferDies \/ Enqueue PROVE IInv'
  OBVIOUS
<1> USE ConstantsOK DEF Packets
<1>1. CASE Capture
  <2>1. taken + 1 \in 1..MaxPackets /\ taken' = taken + 1 /\ Live
    BY <1>1 DEF Capture, IInv, TypeOK, OrderOK
  <2>2. Below(Range(scheduled), {taken'})
    BY <2>1, PlacesHoldPackets DEF IInv, OrderOK, TypeOK, Below
  <2>3. /\ scheduled' \in Seq(Packets)
        /\ Range(scheduled') \subseteq Range(scheduled) \cup {taken'}
        /\ Ascending(scheduled')
    <3>1. taken' \in Packets
      BY <2>1
    <3>2. /\ scheduled \in Seq(Packets) /\ Ascending(scheduled)
          /\ scheduled' \in {scheduled, Append(scheduled, taken')}
      BY <1>1 DEF Capture, IInv, TypeOK, OrderOK
    <3> QED
      BY <2>2, <3>1, <3>2, Appending
  <2>4. TypeOK'
    BY <1>1, <2>1, <2>3 DEF Capture, books, IInv, TypeOK
  <2>5. OrderOK'
    <3> DEFINE Before == Range(stream) \cup InHand \cup Range(queue)
                         \cup Range(scheduled) \cup overflown
    <3>1. Before \subseteq Packets /\ taken \in Nat
          /\ \A p \in Before : p <= taken
      BY PlacesHoldPackets DEF IInv, TypeOK, OrderOK
    <3>2. \A p \in Before : p < taken' /\ p <= taken'
      BY <2>1, <3>1
    <3>3. taken' <= taken'
      BY <2>1
    <3>4. UNCHANGED <<stream, queue, hand, overflown, mode, main, sniffer>>
      BY <1>1 DEF Capture, books
    <3>5. ~Live' => FALSE
      BY <2>1, <3>4 DEF Live
    <3> QED
      BY <2>3, <3>2, <3>3, <3>4, <3>5 DEF IInv, OrderOK, Below, InHand
  <2>6. DropsAreCounted'
    BY <1>1 DEF Capture, books, IInv, DropsAreCounted
  <2> QED
    BY <2>4, <2>5, <2>6 DEF IInv
<1>2. CASE SnifferDies
  <2>1. TypeOK'
    BY <1>2 DEF SnifferDies, Fault, books, IInv, TypeOK
  <2>2. OrderOK'
    BY <1>2 DEF SnifferDies, books, IInv, OrderOK, InHand, Live
  <2>3. DropsAreCounted'
    BY <1>2 DEF SnifferDies, books, IInv, DropsAreCounted
  <2> QED
    BY <2>1, <2>2, <2>3 DEF IInv
<1>3. CASE Enqueue
  <2> DEFINE p == Head(scheduled)
  <2>1. /\ scheduled' = Tail(scheduled) /\ scheduled' \in Seq(Packets)
        /\ p \in Packets /\ p \in Range(scheduled)
        /\ Range(scheduled') \subseteq Range(scheduled)
        /\ Ascending(scheduled') /\ Below({p}, Range(scheduled'))
    BY <1>3, Taking DEF Enqueue, IInv, TypeOK, OrderOK
  <2> HIDE DEF p
  <2>2. CASE /\ Len(queue) < QueueSize /\ queue' = Append(queue, p)
             /\ UNCHANGED <<dropped, overflown>>
    <3>1. Below(Range(queue), {p})
      BY <2>1 DEF IInv, OrderOK, Below
    <3>2. /\ queue' \in Seq(Packets) /\ Range(queue') = Range(queue) \cup {p}
          /\ Ascending(queue')
      BY <2>1, <2>2, <3>1, Appending DEF IInv, TypeOK, OrderOK
    <3>3. Len(queue') = Len(queue) + 1
      BY <2>1, <2>2 DEF IInv, TypeOK
    <3>4. TypeOK'
      BY <1>3, <2>1, <2>2, <3>2, <3>3 DEF Enqueue, IInv, TypeOK
    <3>5. OrderOK'
      BY <1>3, <2>1, <2>2, <3>2, Empty
         DEF Enqueue, IInv, OrderOK, Below, InHand, Live
    <3>6. DropsAreCounted'
      BY <1>3, <2>2 DEF Enqueue, IInv, DropsAreCounted
    <3> QED
      BY <3>4, <3>5, <3>6 DEF IInv
  <2>3. CASE /\ dropped' = dropped + 1 /\ overflown' = overflown \cup {p}
             /\ UNCHANGED queue
    <3>1. TypeOK'
      BY <1>3, <2>1, <2>3 DEF Enqueue, IInv, TypeOK
    <3>2. OrderOK'
      BY <1>3, <2>1, <2>3, Empty
         DEF Enqueue, IInv, OrderOK, Below, InHand, Live
    <3>3. p \notin overflown
      BY <2>1 DEF IInv, OrderOK, Below
    <3>4. Cardinality(overflown') = Cardinality(overflown) + 1
      BY <2>3, <3>3, OverflownIsFinite, FS_AddElement DEF IInv
    <3>5. DropsAreCounted'
      BY <1>3, <2>3, <3>4
         DEF Enqueue, IInv, TypeOK, DropsAreCounted
    <3> QED
      BY <3>1, <3>2, <3>5 DEF IInv
  <2> QED
    BY <1>3, <2>2, <2>3 DEF Enqueue, p
<1> QED
  BY <1>1, <1>2, <1>3

\* The coroutine.
LEMMA CoroutineKeepsIInv == IInv /\ Coroutine => IInv'
<1> SUFFICES ASSUME IInv, Coroutine PROVE IInv'
  OBVIOUS
<1> USE ConstantsOK DEF Packets
<1>1. CASE Get
  <2> DEFINE p == Head(queue)
  <2>1. /\ queue' = Tail(queue) /\ queue' \in Seq(Packets)
        /\ Len(queue') <= QueueSize
        /\ p \in Packets /\ p \in Range(queue)
        /\ Range(queue') \subseteq Range(queue)
        /\ Ascending(queue') /\ Below({p}, Range(queue'))
    <3>1. /\ queue \in Seq(Packets) /\ queue # <<>> /\ queue' = Tail(queue)
          /\ Len(queue) <= QueueSize /\ Ascending(queue)
      BY <1>1 DEF Get, IInv, TypeOK, OrderOK
    <3>2. /\ p \in Packets /\ p \in Range(queue)
          /\ queue' \in Seq(Packets) /\ Len(queue') = Len(queue) - 1
          /\ Range(queue') \subseteq Range(queue)
          /\ Ascending(queue') /\ Below({p}, Range(queue'))
      BY ONLY <3>1, Taking
    <3>3. Len(queue) \in Nat
      BY <3>1
    <3> HIDE DEF p
    <3>4. Len(queue') <= QueueSize
      BY <3>1, <3>2, <3>3
    <3> QED
      BY <3>1, <3>2, <3>4
  <2>2. hand' = p /\ InHand' = {p}
    BY <1>1, <2>1 DEF Get, InHand
  <2> HIDE DEF p
  <2>3. TypeOK'
    <3>1. hand' \in 0..MaxPackets /\ hand' # 0 /\ main' = "publishing"
      BY <1>1, <2>1, <2>2 DEF Get
    <3>2. UNCHANGED <<mode, sniffer, taken, scheduled, dropped, stream, lost,
                      books, faults>>
      BY <1>1 DEF Get
    <3>3. TypeOK
      BY DEF IInv
    <3> QED
      BY ONLY <2>1, <3>1, <3>2, <3>3 DEF books, TypeOK
  <2>4. OrderOK'
    <3>1. UNCHANGED <<mode, sniffer, taken, scheduled, stream, overflown>>
      BY <1>1 DEF Get, books
    <3>2. Live /\ main' = "publishing"
      BY <1>1 DEF Get
    <3>3. Live'
      BY <3>1, <3>2 DEF Live
    <3>4. IInv
      OBVIOUS
    <3> QED
      BY ONLY <2>1, <2>2, <3>1, <3>3, <3>4 DEF IInv, OrderOK, Below
  <2>5. DropsAreCounted'
    BY <1>1 DEF Get, books, IInv, DropsAreCounted
  <2> QED
    BY <2>3, <2>4, <2>5 DEF IInv
<1>2. CASE ReadSource
  <2>1. /\ taken' = taken + 1 /\ taken' \in 1..MaxPackets /\ taken \in Nat
        /\ queue = <<>> /\ scheduled = <<>> /\ hand = 0
        /\ UNCHANGED <<stream, queue, scheduled, overflown, mode, sniffer>>
    BY <1>2 DEF ReadSource, adapterVars, books, IInv, TypeOK, OrderOK, Live
  <2>2. /\ hand' \in {0, taken'}
        /\ main' \in {"reading", "publishing"}
        /\ hand' # 0 <=> main' = "publishing"
    BY <1>2, <2>1 DEF ReadSource, IInv, TypeOK
  <2>3. TypeOK'
    BY <1>2, <2>1, <2>2 DEF ReadSource, adapterVars, books, IInv, TypeOK
  <2>4. OrderOK'
    <3> DEFINE Before == Range(stream) \cup overflown
    <3>1. Before \subseteq Packets /\ \A p \in Before : p <= taken
      BY PlacesHoldPackets DEF IInv, OrderOK
    <3>2. \A p \in Before : p < taken' /\ p <= taken'
      BY <2>1, <3>1
    <3>3. InHand' \subseteq {taken'} /\ taken' <= taken'
      BY <2>1, <2>2 DEF InHand
    <3> QED
      BY <2>1, <2>2, <3>2, <3>3, Empty DEF IInv, OrderOK, Below, Live
  <2>5. DropsAreCounted'
    BY <1>2 DEF ReadSource, adapterVars, books, IInv, DropsAreCounted
  <2> QED
    BY <2>3, <2>4, <2>5 DEF IInv
<1>3. CASE SourceEnds \/ SourceRaises
  <2>1. /\ main' \in {"ended", "failed"} /\ main = "reading"
        /\ faults' \in 0..MaxFaults
        /\ UNCHANGED <<mode, adapterVars, taken, hand, stream, lost, books>>
    BY <1>3 DEF SourceEnds, SourceRaises, Fault, IInv, TypeOK
  <2>2. TypeOK'
    BY <2>1 DEF adapterVars, books, IInv, TypeOK
  <2>3. OrderOK'
    BY <2>1 DEF adapterVars, books, IInv, OrderOK, InHand, Live
  <2>4. DropsAreCounted'
    BY <2>1 DEF adapterVars, books, IInv, DropsAreCounted
  <2> QED
    BY <2>2, <2>3, <2>4 DEF IInv
<1>4. CASE Publish \/ PublishRaises
  <2>1. hand \in Packets /\ InHand = {hand} /\ hand' = 0 /\ InHand' = {}
    BY <1>4 DEF Publish, PublishRaises, IInv, TypeOK, InHand
  <2>2. /\ Append(stream, hand) \in Seq(Packets)
        /\ Range(Append(stream, hand)) = Range(stream) \cup {hand}
        /\ Ascending(Append(stream, hand))
    BY <2>1, Appending DEF IInv, TypeOK, OrderOK, Below
  <2>3. /\ stream' \in Seq(Packets) /\ Ascending(stream')
        /\ Range(stream') \subseteq Range(stream) \cup {hand}
    BY <1>4, <2>2 DEF Publish, PublishRaises, IInv, TypeOK, OrderOK
  <2>4. /\ UNCHANGED <<mode, adapterVars, taken, overflown>>
        /\ main' \in {"reading", "closing", "failed"}
        /\ main' = "closing" => Live
    BY <1>4 DEF Publish, PublishRaises, books
  <2>5. /\ metric' \in Nat /\ lastMetric' \in Nat
        /\ unreported' \in Nat /\ faults' \in 0..MaxFaults
        /\ lost' \subseteq Packets
    <3>1. metric + (dropped - lastMetric) \in Nat
      BY DEF IInv, TypeOK, DropsAreCounted
    <3>2. CASE Publish
      BY <3>1, <3>2 DEF Publish, IInv, TypeOK
    <3>3. CASE PublishRaises
      <4>1. lost' \in {lost, lost \cup {hand}}
        BY <3>3 DEF PublishRaises
      <4>2. lost' \subseteq Packets
        BY <2>1, <4>1 DEF IInv, TypeOK
      <4>3. UNCHANGED books
        BY <3>3 DEF PublishRaises
      <4>4. faults' \in 0..MaxFaults
        BY <3>3 DEF PublishRaises, Fault, IInv, TypeOK
      <4> QED
        BY <4>2, <4>3, <4>4 DEF books, IInv, TypeOK
    <3> QED
      BY <1>4, <3>2, <3>3
  <2>6. TypeOK'
    BY <2>1, <2>3, <2>4, <2>5 DEF adapterVars, IInv, TypeOK
  <2>7. OrderOK'
    BY <2>1, <2>3, <2>4 DEF adapterVars, IInv, OrderOK, Below, Live
  <2>8. DropsAreCounted'
    BY <1>4 DEF Publish, PublishRaises, adapterVars, books, IInv, TypeOK,
                DropsAreCounted
  <2> QED
    BY <2>6, <2>7, <2>8 DEF IInv
<1>5. CASE StopSniffer
  <2>1. Range(queue) \subseteq Packets /\ Range(scheduled) \subseteq Packets
    BY PlacesHoldPackets DEF IInv
  <2>2. TypeOK'
    <3>1. unreported + (dropped - lastMetric) \in Nat
      BY DEF IInv, TypeOK, DropsAreCounted
    <3>2. <<>> \in Seq(Packets) /\ Len(<<>>) <= QueueSize
      OBVIOUS
    <3>3. lost \cup Range(queue) \cup Range(scheduled) \subseteq Packets
      BY <2>1 DEF IInv, TypeOK
    <3> QED
      BY <1>5, <3>1, <3>2, <3>3 DEF StopSniffer, IInv, TypeOK
  <2>3. OrderOK'
    BY <1>5, Empty DEF StopSniffer, IInv, OrderOK, Below, InHand, Live
  <2>4. DropsAreCounted'
    BY <1>5 DEF StopSniffer, IInv, TypeOK, DropsAreCounted
  <2> QED
    BY <2>2, <2>3, <2>4 DEF IInv
<1>6. CASE Restart
  <2>1. TypeOK'
    BY <1>6 DEF Restart, books, IInv, TypeOK
  <2>2. OrderOK'
    BY <1>6 DEF Restart, books, IInv, OrderOK, InHand, Live
  <2>3. DropsAreCounted'
    BY <1>6 DEF Restart, books, IInv, DropsAreCounted
  <2> QED
    BY <2>1, <2>2, <2>3 DEF IInv
<1> QED
  BY <1>1, <1>2, <1>3, <1>4, <1>5, <1>6 DEF Coroutine

LEMMA Invariance == Spec => []IInv
<1>1. IInv /\ [Next]_vars => IInv'
  <2> SUFFICES ASSUME IInv, [Next]_vars PROVE IInv'
    OBVIOUS
  <2>1. CASE UNCHANGED vars
    BY <2>1 DEF vars, books, IInv, TypeOK, OrderOK, DropsAreCounted, InHand,
                Live
  <2> QED
    BY <2>1, ThreadKeepsIInv, CoroutineKeepsIInv DEF Next
<1> QED
  BY InitIInv, <1>1, PTL DEF Spec

-----------------------------------------------------------------------------
\* The types of the ingestion process' state.
THEOREM TypeCorrect == Spec => []TypeOK
BY Invariance, PTL DEF IInv

\* The ingest stream is in the order of the capture and repeats nothing,
\* whatever is dropped, lost, or published by a call that then raises.
THEOREM StreamIsInOrder == Spec => []StreamInOrder
<1>1. IInv => StreamInOrder
  BY DEF IInv, OrderOK, StreamInOrder
<1> QED
  BY <1>1, Invariance, PTL

\* The drop counter is right, up to what went unreported with an adapter.
THEOREM DropsCount == Spec => []DropsAreCounted
BY Invariance, PTL DEF IInv
=============================================================================
