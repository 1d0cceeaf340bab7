-------------------------- MODULE FlowFeaturesProofs --------------------------
(***************************************************************************)
(* What holds of one flow for any sizes, flags, times and number of        *)
(* packets.                                                                *)
(*                                                                         *)
(* A sum is a recursive function of the length of its sequence.  That it   *)
(* grows by what is appended is an induction, made here on the least       *)
(* number for which it would fail.                                         *)
(***************************************************************************)
EXTENDS FlowFeatures, WellFoundedInduction, TLAPS

\* The packets lie within Skew of the order, the last one too.
Spread ==
    /\ flow.packets # <<>>
    /\ newest - Skew <= flow.lastSeen
    /\ \A i \in 1..Len(flow.packets) :
           /\ flow.packets[i].time <= newest
           /\ flow.packets[1].time - Skew <= flow.packets[i].time

-----------------------------------------------------------------------------
(* Sums *)

\* f[n] is the sum of the first n numbers of s, for n up to m.
Adds(f, s, m) ==
    f = [n \in 0..m |-> IF n = 0 THEN 0 ELSE f[n - 1] + s[n]]

\* A set of natural numbers has a least one: what an induction rests on.
LEMMA LeastNumber ==
  ASSUME NEW T \in SUBSET Nat, T # {}
  PROVE  \E n \in T : \A k \in T : n <= k
<1> DEFINE R == {p \in Nat \X Nat : p[1] < p[2]}
<1>1. IsWellFoundedOn(R, Nat)
  BY NatLessThanWellFounded DEF OpToRel
<1> HIDE DEF R
<1>2. PICK n \in T : \A k \in T : ~(<<k, n>> \in R)
  BY <1>1, WFMin
<1>3. ASSUME NEW k \in T PROVE n <= k
  <2>1. ~(<<k, n>> \in R) /\ k \in Nat /\ n \in Nat
    BY <1>2
  <2>2. ~(k < n)
    BY <2>1 DEF R
  <2> QED BY <2>1, <2>2
<1> QED BY <1>3

\* There are such partial sums.
LEMMA AddsExists ==
  ASSUME NEW s, NEW m \in Nat
  PROVE  \E f : Adds(f, s, m)
<1> DEFINE T == {n \in Nat : ~\E f : Adds(f, s, n)}
<1>1. SUFFICES ASSUME T # {} PROVE FALSE
  OBVIOUS
<1>2. PICK n \in T : \A k \in T : n <= k
  <2>1. T \in SUBSET Nat
    OBVIOUS
  <2> HIDE DEF T
  <2> QED BY <1>1, <2>1, LeastNumber
<1>3. n \in Nat /\ ~\E f : Adds(f, s, n)
  OBVIOUS
<1>4. CASE n = 0
  <2>1. Adds([k \in 0..n |-> 0], s, n)
    BY <1>4 DEF Adds
  <2> QED BY <1>3, <2>1
<1>5. CASE n # 0
  <2>1. n - 1 \in Nat /\ n - 1 \notin T
    BY <1>2, <1>3, <1>5
  <2>2. PICK g : Adds(g, s, n - 1)
    BY <2>1
  <2> DEFINE f == [k \in 0..n |-> IF k = n THEN g[n - 1] + s[n] ELSE g[k]]
  <2>3. \A k \in 0..(n - 1) : g[k] = IF k = 0 THEN 0 ELSE g[k - 1] + s[k]
    BY <2>2 DEF Adds
  <2>4. /\ f[n] = g[n - 1] + s[n]
        /\ \A k \in 0..(n - 1) : f[k] = g[k] /\ k \in 0..n
    BY <1>3
  <2>5. \A k \in 0..n : f[k] = IF k = 0 THEN 0 ELSE f[k - 1] + s[k]
    <3> HIDE DEF f
    <3> SUFFICES ASSUME NEW k \in 0..n
                 PROVE  f[k] = IF k = 0 THEN 0 ELSE f[k - 1] + s[k]
      OBVIOUS
    <3>1. CASE k = n
      <4>1. n - 1 \in 0..(n - 1)
        BY <2>1
      <4> QED BY <1>5, <2>4, <3>1, <4>1
    <3>2. CASE k # n
      <4>1. k \in 0..(n - 1) /\ (k # 0 => k - 1 \in 0..(n - 1))
        BY <1>3, <3>2
      <4> QED BY <2>3, <2>4, <4>1
    <3> QED BY <3>1, <3>2
  <2>6. f = [k \in 0..n |-> f[k]]
    OBVIOUS
  <2>7. Adds(f, s, n)
    <3> HIDE DEF f
    <3> QED BY <2>5, <2>6 DEF Adds
  <2> QED BY <1>3, <2>7
<1> QED BY <1>4, <1>5

\* They are integers, and only depend on the numbers before.
LEMMA AddsUnique ==
  ASSUME NEW s, NEW t, NEW m \in Nat, NEW f, NEW g,
         Adds(f, s, m), NEW j \in Nat, m <= j, Adds(g, t, j),
         \A n \in 1..m : s[n] = t[n] /\ s[n] \in Int
  PROVE  \A n \in 0..m : f[n] = g[n] /\ f[n] \in Int
<1> DEFINE T == {n \in 0..m : ~(f[n] = g[n] /\ f[n] \in Int)}
<1>1. SUFFICES ASSUME T # {} PROVE FALSE
  OBVIOUS
<1>2. PICK n \in T : \A k \in T : n <= k
  <2>1. T \in SUBSET Nat
    OBVIOUS
  <2> HIDE DEF T
  <2> QED BY <1>1, <2>1, LeastNumber
<1>3. n \in 0..m /\ n \in 0..j /\ ~(f[n] = g[n] /\ f[n] \in Int)
  OBVIOUS
<1>4. /\ f[n] = IF n = 0 THEN 0 ELSE f[n - 1] + s[n]
      /\ g[n] = IF n = 0 THEN 0 ELSE g[n - 1] + t[n]
  BY <1>3 DEF Adds
<1>5. n # 0
  BY <1>3, <1>4
<1>6. n - 1 \in 0..m /\ n - 1 \notin T
  BY <1>2, <1>3, <1>5
<1>7. f[n - 1] = g[n - 1] /\ f[n - 1] \in Int
  BY <1>6
<1>8. s[n] = t[n] /\ s[n] \in Int
  BY <1>3, <1>5
<1> QED BY <1>3, <1>4, <1>5, <1>7, <1>8

\* The loop's result is the last partial sum.
LEMMA SumIsLast ==
  ASSUME NEW s \in Seq(Int)
  PROVE  \E f : Adds(f, s, Len(s)) /\ SumOf(s) = f[Len(s)]
<1>1. \E f : Adds(f, s, Len(s))
  <2>1. Len(s) \in Nat
    OBVIOUS
  <2> QED BY <2>1, AddsExists
<1>2. SumOf(s) = (CHOOSE f : Adds(f, s, Len(s)))[Len(s)]
  BY DEF SumOf, Adds
<1>3. Adds(CHOOSE f : Adds(f, s, Len(s)), s, Len(s))
  BY <1>1
<1> QED BY <1>2, <1>3

\* What a loop that adds up computes.
LEMMA SumEmpty == SumOf(<<>>) = 0
<1>1. <<>> \in Seq(Int) /\ Len(<<>>) = 0
  OBVIOUS
<1>2. PICK f : Adds(f, <<>>, 0) /\ SumOf(<<>>) = f[0]
  BY <1>1, SumIsLast
<1> QED BY <1>2 DEF Adds

LEMMA SumAppend ==
  ASSUME NEW s \in Seq(Int), NEW x \in Int
  PROVE  SumOf(s) \in Int /\ SumOf(Append(s, x)) = SumOf(s) + x
<1> DEFINE t == Append(s, x)
<1>1. /\ t \in Seq(Int) /\ Len(s) \in Nat /\ Len(t) = Len(s) + 1
      /\ t[Len(s) + 1] = x
      /\ \A n \in 1..Len(s) : s[n] = t[n] /\ s[n] \in Int
  OBVIOUS
<1> HIDE DEF t
<1>2. PICK f : Adds(f, s, Len(s)) /\ SumOf(s) = f[Len(s)]
  BY SumIsLast
<1>3. PICK g : Adds(g, t, Len(t)) /\ SumOf(t) = g[Len(t)]
  BY <1>1, SumIsLast
<1>4. f[Len(s)] = g[Len(s)] /\ f[Len(s)] \in Int
  <2>1. Len(t) \in Nat /\ Len(s) <= Len(t)
    BY <1>1
  <2>2. \A n \in 0..Len(s) : f[n] = g[n] /\ f[n] \in Int
    BY <1>1, <1>2, <1>3, <2>1, AddsUnique
  <2> QED BY <1>1, <2>2
<1>5. g[Len(t)] = g[Len(s)] + x
  <2>1. Len(t) \in 0..Len(t) /\ Len(t) # 0 /\ Len(t) - 1 = Len(s)
    BY <1>1
  <2>2. \A n \in 0..Len(t) : g[n] = IF n = 0 THEN 0 ELSE g[n - 1] + t[n]
    BY <1>3 DEF Adds
  <2> QED BY <1>1, <2>1, <2>2
<1> QED BY <1>2, <1>3, <1>4, <1>5 DEF t

-----------------------------------------------------------------------------
(* Types *)

\* The larger and the smaller of two numbers are one of them.
LEMMA Extremes ==
  ASSUME NEW S, NEW m \in S, NEW n \in S
  PROVE  Larger(m, n) \in S /\ Smaller(m, n) \in S
BY DEF Larger, Smaller

\* A forward packet keeps the types of the fields.
LEMMA ForwardType ==
  ASSUME NEW f \in Flow, NEW p \in Packet
  PROVE  Forward(f, p) \in Flow
<1>1. f.fwdIat \in Seq(Int) /\ p.time - f.fwdLast \in Int
  BY DEF Flow, Packet
<1>2. Append(f.fwdIat, p.time - f.fwdLast) \in Seq(Int)
  BY <1>1
<1>3. /\ (f.fwdPsh \/ "URG" \in p.flags) \in BOOLEAN
      /\ f.fwdCount + 1 \in Nat /\ p.time \in Int
  BY DEF Flow, Packet
<1> QED BY <1>2, <1>3 DEF Forward, Flow

\* So does a backward one.
LEMMA BackwardType ==
  ASSUME NEW f \in Flow, NEW p \in Packet
  PROVE  Backward(f, p) \in Flow
<1>1. f.bwdIat \in Seq(Int) /\ p.time - f.bwdLast \in Int
  BY DEF Flow, Packet
<1>2. Append(f.bwdIat, p.time - f.bwdLast) \in Seq(Int)
  BY <1>1
<1>3. /\ p.size \in Nat /\ f.bwdMax \in Nat /\ f.bwdMin \in Nat
      /\ f.bwdCount + 1 \in Nat /\ 1 \in Nat /\ p.time \in Int
  <2>1. p.size \in Sizes /\ p.time \in Int /\ Sizes \subseteq Nat
    BY ConstantsOK DEF Packet, ConstantsOK
  <2>2. /\ f.bwdMax \in Nat /\ f.bwdMin \in Nat /\ f.bwdCount \in Nat
    BY DEF Flow
  <2>3. p.size \in Nat
    BY <2>1
  <2>4. f.bwdCount + 1 \in Nat
    BY <2>2
  <2> QED BY <2>1, <2>2, <2>3, <2>4
<1>4. Larger(f.bwdMax, p.size) \in Nat /\ Smaller(f.bwdMin, p.size) \in Nat
  BY <1>3, Extremes
<1>5. Append(f.bwdPackets, p) \in Seq(Packet)
  <2>1. f.bwdPackets \in Seq(Packet)
    BY DEF Flow
  <2> QED BY <2>1
<1>6. CASE f.bwdCount = 0
  BY <1>3, <1>5, <1>6 DEF Backward, Flow
<1>7. CASE f.bwdCount # 0
  BY <1>2, <1>3, <1>4, <1>5, <1>7 DEF Backward, Flow
<1> QED BY <1>6, <1>7

\* So does the account of active and idle periods.
LEMMA ActivityType ==
  ASSUME NEW f \in Flow, NEW t \in Int
  PROVE  Activity(f, t) \in Flow
<1>1. /\ f.active \in Seq(Int) /\ f.idle \in Seq(Int)
      /\ f.endActive - f.startActive \in Int /\ t - f.endActive \in Int
  BY DEF Flow
<1>2. /\ Append(f.active, f.endActive - f.startActive) \in Seq(Int)
      /\ Append(f.idle, t - f.endActive) \in Seq(Int)
  BY <1>1
<1>3. CASE t - f.endActive > Threshold /\ f.endActive > f.startActive
  BY <1>2, <1>3 DEF Activity, Flow
<1>4. CASE t - f.endActive > Threshold /\ ~(f.endActive > f.startActive)
  BY <1>2, <1>4 DEF Activity, Flow
<1>5. CASE ~(t - f.endActive > Threshold)
  BY <1>5 DEF Activity, Flow
<1> QED BY <1>3, <1>4, <1>5

\* So does Flow.new as a whole.
LEMMA ExtendedType ==
  ASSUME NEW f \in Flow, NEW p \in Packet
  PROVE  Extended(f, p) \in Flow
<1> DEFINE g == IF p.fwd THEN Forward(f, p) ELSE Backward(f, p)
           h == Activity(g, p.time)
<1>1. h \in Flow
  <2>1. g \in Flow
    BY ForwardType, BackwardType
  <2>2. p.time \in Int
    BY DEF Packet
  <2> HIDE DEF g
  <2> QED BY <2>1, <2>2, ActivityType
<1>2. Extended(f, p) =
          [h EXCEPT !.packets = Append(h.packets, p),
                    !.maxSize = Larger(h.maxSize, p.size),
                    !.flags = h.flags \cup (p.flags \cap Counted),
                    !.iat = Append(h.iat, p.time - f.lastSeen),
                    !.lastSeen = p.time]
  BY DEF Extended
<1> HIDE DEF h
<1>3. /\ h.packets \in Seq(Packet) /\ h.iat \in Seq(Int)
      /\ p.time - f.lastSeen \in Int /\ p.time \in Int
      /\ h.maxSize \in Sizes /\ p.size \in Sizes
      /\ h.flags \cup (p.flags \cap Counted) \in SUBSET Counted
  <2>1. /\ h.packets \in Seq(Packet) /\ h.iat \in Seq(Int)
        /\ h.maxSize \in Sizes /\ h.flags \in SUBSET Counted
    BY <1>1 DEF Flow
  <2>2. f.lastSeen \in Int
    BY DEF Flow
  <2>3. p.time \in Int /\ p.size \in Sizes
    BY DEF Packet
  <2> QED BY <2>1, <2>2, <2>3
<1>4. /\ Append(h.packets, p) \in Seq(Packet)
      /\ Append(h.iat, p.time - f.lastSeen) \in Seq(Int)
      /\ Larger(h.maxSize, p.size) \in Sizes
  BY <1>3, Extremes
<1> QED BY <1>1, <1>2, <1>3, <1>4 DEF Flow

\* Every packet keeps the types of the flow.
LEMMA TypeStep ==
  ASSUME TypeOK, [Next]_vars
  PROVE  TypeOK'
<1>1. CASE Next
  <2>1. PICK t \in (newest - Skew)..(newest + MaxGap), d \in BOOLEAN,
             z \in Sizes, F \in FlagSets :
          /\ flow' = Extended(flow, [time |-> t, fwd |-> d, size |-> z,
                                     flags |-> F])
          /\ newest' = Larger(newest, t)
    BY <1>1 DEF Next, New
  <2>2. [time |-> t, fwd |-> d, size |-> z, flags |-> F] \in Packet
    BY DEF Packet
  <2>3. newest' \in Int
    BY <2>1, Extremes DEF TypeOK
  <2> QED BY <2>1, <2>2, <2>3, ExtendedType DEF TypeOK
<1>2. CASE UNCHANGED vars
  BY <1>2 DEF vars, TypeOK
<1> QED BY <1>1, <1>2

\* A flow of one packet has them.
LEMMA InitType == Init => TypeOK
<1> SUFFICES ASSUME NEW z \in Sizes, NEW F \in FlagSets,
                    flow = NewFlow([time |-> 0, fwd |-> TRUE, size |-> z,
                                    flags |-> F]),
                    newest = 0
             PROVE  TypeOK
  BY DEF Init
<1> DEFINE p == [time |-> 0, fwd |-> TRUE, size |-> z, flags |-> F]
<1>1. p \in Packet
  BY DEF Packet
<1>2. /\ <<p>> \in Seq(Packet) /\ <<>> \in Seq(Int) /\ <<>> \in Seq(Packet)
      /\ F \cap Counted \in SUBSET Counted
  BY <1>1
<1> QED BY <1>2 DEF NewFlow, TypeOK, Flow

\* Type correctness of a flow, whatever packets it is made of.
THEOREM TypeCorrect == Spec => []TypeOK
BY InitType, TypeStep, PTL DEF Spec

\* Every packet lies within Skew of the newest timestamp when it comes.
LEMMA SpreadStep ==
  ASSUME TypeOK, Spread, [Next]_vars
  PROVE  Spread'
<1> USE ConstantsOK DEF ConstantsOK
<1>1. CASE Next
  <2>1. PICK t \in (newest - Skew)..(newest + MaxGap), d \in BOOLEAN,
             z \in Sizes, F \in FlagSets :
          /\ flow' = Extended(flow, [time |-> t, fwd |-> d, size |-> z,
                                     flags |-> F])
          /\ newest' = Larger(newest, t)
    BY <1>1 DEF Next, New
  <2> DEFINE p == [time |-> t, fwd |-> d, size |-> z, flags |-> F]
  <2>2. flow'.packets = Append(flow.packets, p) /\ flow'.lastSeen = t
    BY <2>1 DEF Extended, Activity, Forward, Backward, TypeOK, Flow
  <2>3. /\ flow.packets \in Seq(Packet) /\ newest \in Int
        /\ p \in Packet /\ p.time = t
    BY DEF TypeOK, Flow, Packet
  <2>4. /\ newest <= newest' /\ t <= newest' /\ newest' - Skew <= t
        /\ newest' \in Int /\ t \in Int
    BY <2>1, <2>3 DEF Larger
  <2>5. /\ Len(flow'.packets) = Len(flow.packets) + 1
        /\ flow'.packets[Len(flow.packets) + 1].time = t
        /\ \A i \in 1..Len(flow.packets) :
               /\ flow'.packets[i] = flow.packets[i]
               /\ flow.packets[i].time \in Int
        /\ Len(flow.packets) \in Nat /\ 1 \in 1..Len(flow.packets)
    <3>1. /\ Len(flow'.packets) = Len(flow.packets) + 1
          /\ flow'.packets[Len(flow.packets) + 1] = p
          /\ \A i \in 1..Len(flow.packets) :
                 flow'.packets[i] = flow.packets[i]
          /\ Len(flow.packets) \in Nat /\ 1 \in 1..Len(flow.packets)
      BY <2>2, <2>3 DEF Spread
    <3>2. \A i \in 1..Len(flow.packets) : flow.packets[i] \in Packet
      BY <2>3
    <3> QED BY <2>3, <3>1, <3>2 DEF Packet
  <2>6. flow'.packets[1].time - Skew <= t
    <3>1. /\ flow.packets[1].time <= newest
          /\ flow.packets[1].time \in Int
          /\ flow'.packets[1] = flow.packets[1]
      BY <2>5 DEF Spread
    <3>2. newest - Skew <= t
      BY <2>1, <2>3
    <3> QED BY <2>3, <2>4, <3>1, <3>2
  <2>7. ASSUME NEW i \in 1..Len(flow'.packets)
        PROVE  /\ flow'.packets[i].time <= newest'
               /\ flow'.packets[1].time - Skew <= flow'.packets[i].time
    <3>1. CASE i = Len(flow.packets) + 1
      <4>1. flow'.packets[i].time = t
        BY <2>5, <3>1
      <4> QED BY <2>4, <2>6, <4>1
    <3>2. CASE i \in 1..Len(flow.packets)
      <4>1. /\ flow.packets[i].time <= newest /\ newest \in Int
            /\ flow.packets[1].time - Skew <= flow.packets[i].time
        BY <2>3, <3>2 DEF Spread
      <4>2. /\ flow'.packets[i] = flow.packets[i]
            /\ flow'.packets[1] = flow.packets[1]
            /\ flow.packets[i].time \in Int
        BY <2>5, <3>2
      <4> QED BY <2>4, <4>1, <4>2
    <3> QED BY <2>5, <3>1, <3>2
  <2>8. flow'.packets # <<>>
    BY <2>2, <2>3
  <2> QED BY <2>2, <2>4, <2>7, <2>8 DEF Spread
<1>2. CASE UNCHANGED vars
  BY <1>2 DEF vars, Spread
<1> QED BY <1>1, <1>2

\* flow_duration is the span of the timestamps of the flow's packets, but for
\* the disorder of the first one and of the last.
THEOREM DurationIsSpan == Spec => []DurationIsTheSpan
<1>1. Init => Spread
  BY ConstantsOK DEF Init, NewFlow, Spread, ConstantsOK
<1>2. TypeOK /\ Spread /\ [Next]_vars => Spread'
  BY SpreadStep
<1>3. TypeOK /\ Spread => DurationIsTheSpan
  <2> SUFFICES ASSUME TypeOK, Spread,
                      NEW p \in ToSet(flow.packets),
                      NEW q \in ToSet(flow.packets)
               PROVE  p.time - q.time <= Duration(flow) + 2 * Skew
    BY DEF DurationIsTheSpan
  <2>1. /\ flow.packets \in Seq(Packet) /\ newest \in Int
        /\ flow.lastSeen \in Int /\ Skew \in Nat
    BY ConstantsOK DEF TypeOK, Flow, ConstantsOK
  <2>2. PICK i \in 1..Len(flow.packets), j \in 1..Len(flow.packets) :
          p = flow.packets[i] /\ q = flow.packets[j]
    BY <2>1 DEF ToSet
  <2>3. Head(flow.packets) = flow.packets[1] /\ 1 \in 1..Len(flow.packets)
    BY <2>1 DEF Spread
  <2>4. /\ p.time \in Int /\ q.time \in Int
        /\ flow.packets[1].time \in Int
    <3>1. \A k \in 1..Len(flow.packets) : flow.packets[k] \in Packet
      BY <2>1
    <3> QED BY <2>2, <2>3, <3>1 DEF Packet
  <2>5. /\ p.time <= newest /\ newest - Skew <= flow.lastSeen
        /\ flow.packets[1].time - Skew <= q.time
    BY <2>2 DEF Spread
  <2> QED BY <2>1, <2>3, <2>4, <2>5 DEF Duration
<1> QED BY <1>1, <1>2, <1>3, TypeCorrect, PTL DEF Spec

-----------------------------------------------------------------------------
(* What a packet adds *)

\* What Append does to what a sequence holds.
LEMMA Appending ==
  ASSUME NEW S, NEW s \in Seq(S), NEW x \in S
  PROVE  /\ Append(s, x) \in Seq(S) /\ Append(s, x) # <<>>
         /\ ToSet(Append(s, x)) = ToSet(s) \cup {x}
         /\ Len(s) \in Nat /\ Len(Append(s, x)) = Len(s) + 1
         /\ Append(s, x)[Len(s) + 1] = x
         /\ \A n \in 1..Len(s) : Append(s, x)[n] = s[n]
         /\ s # <<>> => Head(Append(s, x)) = Head(s)
<1>1. /\ Append(s, x) \in Seq(S) /\ Len(s) \in Nat
      /\ Len(Append(s, x)) = Len(s) + 1
      /\ Append(s, x)[Len(s) + 1] = x
      /\ \A n \in 1..Len(s) : Append(s, x)[n] = s[n]
      /\ s # <<>> => Head(Append(s, x)) = Head(s)
  OBVIOUS
<1>2. /\ DOMAIN s = 1..Len(s)
      /\ DOMAIN Append(s, x) = 1..(Len(s) + 1)
  BY <1>1
<1>3. ToSet(Append(s, x)) = ToSet(s) \cup {x}
  BY <1>1, <1>2 DEF ToSet
<1> QED BY <1>1, <1>3

\* Flow.new, field by field: what every packet changes, ...
LEMMA EveryPacket ==
  ASSUME NEW f \in Flow, NEW p \in Packet, NEW g, g = Extended(f, p)
  PROVE  /\ g.packets = Append(f.packets, p)
         /\ g.maxSize = Larger(f.maxSize, p.size)
         /\ g.flags = f.flags \cup (p.flags \cap Counted)
         /\ g.iat = Append(f.iat, p.time - f.lastSeen)
         /\ g.lastSeen = p.time /\ g.endActive = p.time
BY DEF Extended, Activity, Forward, Backward, Flow

\* ... what a forward one does, ...
LEMMA ForwardPacket ==
  ASSUME NEW f \in Flow, NEW p \in Packet, NEW g, g = Extended(f, p), p.fwd
  PROVE  /\ g.fwdIat = Append(f.fwdIat, p.time - f.fwdLast)
         /\ g.fwdPsh = (f.fwdPsh \/ "URG" \in p.flags)
         /\ g.fwdCount = f.fwdCount + 1 /\ g.fwdLast = p.time
         /\ g.bwdPackets = f.bwdPackets /\ g.bwdCount = f.bwdCount
         /\ g.bwdMax = f.bwdMax /\ g.bwdMin = f.bwdMin
         /\ g.bwdIat = f.bwdIat /\ g.bwdLast = f.bwdLast
BY DEF Extended, Activity, Forward, Flow

\* ... a backward one, ...
LEMMA BackwardPacket ==
  ASSUME NEW f \in Flow, NEW p \in Packet, NEW g, g = Extended(f, p), ~p.fwd
  PROVE  /\ g.bwdPackets = Append(f.bwdPackets, p)
         /\ g.bwdCount = f.bwdCount + 1 /\ g.bwdLast = p.time
         /\ f.bwdCount = 0 => /\ g.bwdMax = p.size /\ g.bwdMin = p.size
                              /\ g.bwdIat = f.bwdIat
         /\ f.bwdCount # 0 =>
                /\ g.bwdMax = Larger(f.bwdMax, p.size)
                /\ g.bwdMin = Smaller(f.bwdMin, p.size)
                /\ g.bwdIat = Append(f.bwdIat, p.time - f.bwdLast)
         /\ g.fwdIat = f.fwdIat /\ g.fwdPsh = f.fwdPsh
         /\ g.fwdCount = f.fwdCount /\ g.fwdLast = f.fwdLast
BY DEF Extended, Activity, Backward, Flow

\* ... and a silence.
LEMMA Silence ==
  ASSUME NEW f \in Flow, NEW p \in Packet, NEW g, g = Extended(f, p)
  PROVE  IF p.time - f.endActive > Threshold
         THEN /\ g.active = IF f.endActive > f.startActive
                            THEN Append(f.active, f.endActive - f.startActive)
                            ELSE f.active
              /\ g.idle = Append(f.idle, p.time - f.endActive)
              /\ g.startActive = p.time
         ELSE g.active = f.active /\ g.idle = f.idle
              /\ g.startActive = f.startActive
BY DEF Extended, Activity, Forward, Backward, Flow

-----------------------------------------------------------------------------
(* Sizes, flags and counts *)

\* What the fields say of the packets.
SizesOK(f) ==
    LET all == ToSet(f.packets)
        bwd == {p \in all : ~p.fwd}
    IN  /\ f.packets # <<>>
        /\ f.maxSize \in {p.size : p \in all}
        /\ \A p \in all : p.size <= f.maxSize
        /\ ToSet(f.bwdPackets) = bwd /\ Len(f.bwdPackets) = f.bwdCount
        /\ bwd = {} => f.bwdMax = 0 /\ f.bwdMin = 0
        /\ bwd # {} => {f.bwdMax, f.bwdMin} \subseteq {p.size : p \in bwd}
        /\ \A p \in bwd : f.bwdMin <= p.size /\ p.size <= f.bwdMax
        /\ f.fwdCount + f.bwdCount = Len(f.packets)
        /\ Len(f.fwdIat) = f.fwdCount - 1
        /\ f.flags = (UNION {p.flags : p \in all}) \cap Counted
        /\ f.fwdPsh <=> \E p \in all : p.fwd /\ "URG" \in p.flags

\* A sequence with nothing in it is empty.
LEMMA NothingInIt ==
  ASSUME NEW S, NEW s \in Seq(S)
  PROVE  /\ Len(s) \in Nat
         /\ Len(s) = 0 <=> ToSet(s) = {}
         /\ ToSet(s) \subseteq S
<1>1. Len(s) \in Nat /\ DOMAIN s = 1..Len(s) /\ \A n \in 1..Len(s) : s[n] \in S
  OBVIOUS
<1>2. Len(s) # 0 => 1 \in DOMAIN s
  BY <1>1
<1>3. Len(s) = 0 => DOMAIN s = {}
  BY <1>1
<1> QED BY <1>1, <1>2, <1>3 DEF ToSet

\* A further packet keeps them right.
LEMMA SizesStep ==
  ASSUME NEW f \in Flow, NEW p \in Packet, SizesOK(f)
  PROVE  SizesOK(Extended(f, p))
<1> DEFINE all == ToSet(f.packets)
           bwd == {q \in all : ~q.fwd}
<1>0. PICK g : g = Extended(f, p)
  OBVIOUS
<1> DEFINE all1 == ToSet(g.packets)
           bwd1 == {q \in all1 : ~q.fwd}
<1>1. /\ f.packets \in Seq(Packet) /\ f.bwdPackets \in Seq(Packet)
      /\ f.fwdIat \in Seq(Int) /\ f.fwdCount \in Nat /\ f.bwdCount \in Nat
      /\ f.fwdPsh \in BOOLEAN
  BY DEF Flow
<1>2. /\ p.fwd \in BOOLEAN /\ p.time - f.fwdLast \in Int
      /\ p.size \in Nat
      /\ f.maxSize \in Nat /\ f.bwdMax \in Nat /\ f.bwdMin \in Nat
      /\ \A q \in all : q \in Packet /\ q.size \in Nat
  <2>1. \A q \in Packet : q.size \in Sizes /\ q.fwd \in BOOLEAN
    BY DEF Packet
  <2>2. f.maxSize \in Sizes /\ f.bwdMax \in Nat /\ f.bwdMin \in Nat
        /\ p.time - f.fwdLast \in Int
    BY DEF Flow, Packet
  <2>3. Sizes \subseteq Nat
    BY ConstantsOK DEF ConstantsOK
  <2>4. all \subseteq Packet
    BY <1>1, NothingInIt
  <2> QED BY <2>1, <2>2, <2>3, <2>4
<1>3. /\ g.packets = Append(f.packets, p) /\ g.packets # <<>>
      /\ g.maxSize = Larger(f.maxSize, p.size)
      /\ g.flags = f.flags \cup (p.flags \cap Counted)
      /\ all1 = all \cup {p} /\ Len(g.packets) = Len(f.packets) + 1
      /\ Len(f.packets) \in Nat
  <2>1. /\ g.packets = Append(f.packets, p)
        /\ g.maxSize = Larger(f.maxSize, p.size)
        /\ g.flags = f.flags \cup (p.flags \cap Counted)
    BY <1>0, EveryPacket
  <2>2. /\ Append(f.packets, p) # <<>>
        /\ ToSet(Append(f.packets, p)) = all \cup {p}
        /\ Len(f.packets) \in Nat
        /\ Len(Append(f.packets, p)) = Len(f.packets) + 1
    BY <1>1, Appending
  <2> QED BY <2>1, <2>2
<1>4. /\ g.maxSize \in {q.size : q \in all1}
      /\ \A q \in all1 : q.size <= g.maxSize
  <2>1. /\ f.maxSize \in {q.size : q \in all}
        /\ \A q \in all : q.size <= f.maxSize
    BY DEF SizesOK
  <2> HIDE DEF all, all1
  <2>2. CASE f.maxSize >= p.size
    BY <1>2, <1>3, <2>1, <2>2 DEF Larger
  <2>3. CASE ~(f.maxSize >= p.size)
    BY <1>2, <1>3, <2>1, <2>3 DEF Larger
  <2> QED BY <2>2, <2>3
<1>5. g.flags = (UNION {q.flags : q \in all1}) \cap Counted
  <2>1. f.flags = (UNION {q.flags : q \in all}) \cap Counted
    BY DEF SizesOK
  <2>2. all1 = all \cup {p} /\ g.flags = f.flags \cup (p.flags \cap Counted)
    BY <1>3
  <2> HIDE DEF all, all1
  <2>3. UNION {q.flags : q \in all1}
            = (UNION {q.flags : q \in all}) \cup p.flags
    BY <2>2
  <2> QED BY <2>1, <2>2, <2>3
<1>6. /\ f.fwdCount + f.bwdCount = Len(f.packets)
      /\ Len(f.fwdIat) = f.fwdCount - 1
      /\ Len(g.packets) = f.fwdCount + f.bwdCount + 1
      /\ f.fwdCount \in Nat /\ f.bwdCount \in Nat
  <2>1. /\ f.fwdCount + f.bwdCount = Len(f.packets)
        /\ Len(f.fwdIat) = f.fwdCount - 1
    BY DEF SizesOK
  <2> HIDE DEF all, all1
  <2> QED BY <1>1, <1>3, <2>1
<1>7. CASE p.fwd
  <2>1. /\ g.fwdIat = Append(f.fwdIat, p.time - f.fwdLast)
        /\ g.fwdPsh = (f.fwdPsh \/ "URG" \in p.flags)
        /\ g.fwdCount = f.fwdCount + 1
        /\ g.bwdPackets = f.bwdPackets /\ g.bwdCount = f.bwdCount
        /\ g.bwdMax = f.bwdMax /\ g.bwdMin = f.bwdMin
    BY <1>0, <1>7, ForwardPacket
  <2>2. bwd1 = bwd
    BY <1>3, <1>7
  <2>3. /\ ToSet(g.bwdPackets) = bwd1 /\ Len(g.bwdPackets) = g.bwdCount
        /\ bwd1 = {} => g.bwdMax = 0 /\ g.bwdMin = 0
        /\ bwd1 # {} => {g.bwdMax, g.bwdMin} \subseteq {q.size : q \in bwd1}
        /\ \A q \in bwd1 : g.bwdMin <= q.size /\ q.size <= g.bwdMax
    <3> HIDE DEF bwd, bwd1
    <3>1. /\ ToSet(f.bwdPackets) = bwd /\ Len(f.bwdPackets) = f.bwdCount
          /\ bwd = {} => f.bwdMax = 0 /\ f.bwdMin = 0
          /\ bwd # {} => {f.bwdMax, f.bwdMin} \subseteq {q.size : q \in bwd}
          /\ \A q \in bwd : f.bwdMin <= q.size /\ q.size <= f.bwdMax
      BY DEF SizesOK, bwd
    <3> QED BY <2>1, <2>2, <3>1
  <2>4. /\ g.fwdCount + g.bwdCount = Len(g.packets)
        /\ Len(g.fwdIat) = g.fwdCount - 1
    <3>1. Len(g.fwdIat) = Len(f.fwdIat) + 1 /\ Len(f.fwdIat) \in Nat
      BY <1>1, <1>2, <2>1, Appending
    <3>2. /\ g.fwdCount = f.fwdCount + 1 /\ g.bwdCount = f.bwdCount
      BY <2>1
    <3> HIDE DEF bwd, bwd1, all, all1
    <3> QED BY <1>6, <3>1, <3>2
  <2>5. g.fwdPsh <=> \E q \in all1 : q.fwd /\ "URG" \in q.flags
    <3>1. f.fwdPsh <=> \E q \in all : q.fwd /\ "URG" \in q.flags
      BY DEF SizesOK
    <3> QED BY <1>3, <1>7, <2>1, <3>1
  <2>6. SizesOK(g)
    BY <1>3, <1>4, <1>5, <2>3, <2>4, <2>5 DEF SizesOK
  <2> QED BY <1>0, <2>6
<1>8. CASE ~p.fwd
  <2>1. /\ g.bwdPackets = Append(f.bwdPackets, p)
        /\ g.bwdCount = f.bwdCount + 1
        /\ f.bwdCount = 0 => g.bwdMax = p.size /\ g.bwdMin = p.size
        /\ f.bwdCount # 0 => /\ g.bwdMax = Larger(f.bwdMax, p.size)
                             /\ g.bwdMin = Smaller(f.bwdMin, p.size)
        /\ g.fwdIat = f.fwdIat /\ g.fwdPsh = f.fwdPsh
        /\ g.fwdCount = f.fwdCount
    BY <1>0, <1>8, BackwardPacket
  <2>2. bwd1 = bwd \cup {p}
    BY <1>3, <1>8
  <2>3. /\ ToSet(f.bwdPackets) = bwd /\ Len(f.bwdPackets) = f.bwdCount
        /\ bwd # {} => {f.bwdMax, f.bwdMin} \subseteq {q.size : q \in bwd}
        /\ \A q \in bwd : f.bwdMin <= q.size /\ q.size <= f.bwdMax
    BY DEF SizesOK
  <2>4. ToSet(g.bwdPackets) = bwd1 /\ Len(g.bwdPackets) = g.bwdCount
    BY <1>1, <2>1, <2>2, <2>3, Appending
  <2>5. /\ {g.bwdMax, g.bwdMin} \subseteq {q.size : q \in bwd1}
        /\ \A q \in bwd1 : g.bwdMin <= q.size /\ q.size <= g.bwdMax
    <3>0. \A q \in bwd : q.size \in Nat
      BY <1>2
    <3> HIDE DEF bwd, bwd1
    <3>1. CASE f.bwdCount = 0
      <4>1. bwd = {}
        BY <1>1, <2>3, <3>1, NothingInIt
      <4> QED BY <1>2, <2>1, <2>2, <3>1, <4>1
    <3>2. CASE f.bwdCount # 0
      <4>1. bwd # {}
        BY <1>1, <2>3, <3>2, NothingInIt
      <4> QED
        BY <1>2, <2>1, <2>2, <2>3, <3>0, <3>2, <4>1 DEF Larger, Smaller
    <3> QED BY <3>1, <3>2
  <2>6. /\ g.fwdCount + g.bwdCount = Len(g.packets)
        /\ Len(g.fwdIat) = g.fwdCount - 1
    <3>1. /\ g.fwdIat = f.fwdIat /\ g.fwdCount = f.fwdCount
          /\ g.bwdCount = f.bwdCount + 1
      BY <2>1
    <3> HIDE DEF bwd, bwd1, all, all1
    <3> QED BY <1>6, <3>1
  <2>7. g.fwdPsh <=> \E q \in all1 : q.fwd /\ "URG" \in q.flags
    <3>1. f.fwdPsh <=> \E q \in all : q.fwd /\ "URG" \in q.flags
      BY DEF SizesOK
    <3> QED BY <1>3, <1>8, <2>1, <3>1
  <2>8. bwd1 # {}
    BY <2>2
  <2>9. SizesOK(g)
    BY <1>3, <1>4, <1>5, <2>4, <2>5, <2>6, <2>7, <2>8 DEF SizesOK
  <2> QED BY <1>0, <2>9
<1> QED BY <1>2, <1>7, <1>8

-----------------------------------------------------------------------------
(* Times *)

\* The periods that were entered and the one that is still going on.
Periods(f) == SumOf(f.active) + SumOf(f.idle) + (f.endActive - f.startActive)

TimesOK(f) ==
    /\ f.packets # <<>>
    /\ f.lastSeen = f.packets[Len(f.packets)].time
    /\ f.endActive = f.lastSeen
    /\ SumOf(f.iat) = Duration(f)
    /\ SumOf(f.fwdIat) = f.fwdLast - Head(f.packets).time
    /\ Periods(f) >= Duration(f)
    /\ \A n \in ToSet(f.idle) : n > Threshold

\* What holds as long as the packets come in order.
OrderOK(f) ==
    /\ Periods(f) = Duration(f)
    /\ f.startActive <= f.endActive
    /\ f.fwdLast <= f.lastSeen
    /\ f.bwdCount # 0 => f.bwdLast <= f.lastSeen
    /\ \A n \in ToSet(f.iat) \cup ToSet(f.fwdIat) \cup ToSet(f.bwdIat) :
           n >= 0

\* The types of the times.
LEMMA TimeTypes ==
  ASSUME NEW f \in Flow, NEW p \in Packet, f.packets # <<>>
  PROVE  /\ f.iat \in Seq(Int) /\ f.fwdIat \in Seq(Int)
         /\ f.bwdIat \in Seq(Int) /\ f.active \in Seq(Int)
         /\ f.idle \in Seq(Int) /\ f.packets \in Seq(Packet)
         /\ f.lastSeen \in Int /\ f.fwdLast \in Int /\ f.bwdLast \in Int
         /\ f.startActive \in Int /\ f.endActive \in Int
         /\ p.time \in Int /\ Head(f.packets).time \in Int
         /\ Threshold \in Nat
<1>1. f.packets \in Seq(Packet)
  BY DEF Flow
<1>2. Head(f.packets) \in Packet
  BY <1>1
<1> QED BY <1>1, <1>2, ConstantsOK DEF Flow, Packet, ConstantsOK

LEMMA TimesStep ==
  ASSUME NEW f \in Flow, NEW p \in Packet, TimesOK(f)
  PROVE  /\ TimesOK(Extended(f, p))
         /\ Periods(f) = Duration(f) /\ f.startActive <= f.endActive =>
                Periods(Extended(f, p)) = Duration(Extended(f, p))
<1>0. PICK g : g = Extended(f, p)
  OBVIOUS
<1>1. /\ f.iat \in Seq(Int) /\ f.fwdIat \in Seq(Int)
      /\ f.active \in Seq(Int) /\ f.idle \in Seq(Int)
      /\ f.packets \in Seq(Packet)
      /\ f.lastSeen \in Int /\ f.fwdLast \in Int
      /\ f.startActive \in Int /\ f.endActive \in Int
      /\ p.time \in Int /\ Head(f.packets).time \in Int
      /\ Threshold \in Nat
  BY TimeTypes DEF TimesOK
<1>2. /\ f.packets # <<>> /\ f.endActive = f.lastSeen
      /\ SumOf(f.iat) = f.lastSeen - Head(f.packets).time
      /\ SumOf(f.fwdIat) = f.fwdLast - Head(f.packets).time
      /\ Periods(f) >= Duration(f)
      /\ \A n \in ToSet(f.idle) : n > Threshold
  BY DEF TimesOK, Duration
<1>3. /\ g.packets = Append(f.packets, p)
      /\ g.iat = Append(f.iat, p.time - f.lastSeen)
      /\ g.lastSeen = p.time /\ g.endActive = p.time
  BY <1>0, EveryPacket
<1>4. /\ g.packets # <<>> /\ g.lastSeen = g.packets[Len(g.packets)].time
      /\ Head(g.packets) = Head(f.packets)
  <2>1. /\ Append(f.packets, p) # <<>>
        /\ Append(f.packets, p)[Len(Append(f.packets, p))] = p
        /\ Head(Append(f.packets, p)) = Head(f.packets)
    <3>1. /\ Append(f.packets, p) # <<>> /\ Len(f.packets) \in Nat
          /\ Len(Append(f.packets, p)) = Len(f.packets) + 1
          /\ Append(f.packets, p)[Len(f.packets) + 1] = p
          /\ Head(Append(f.packets, p)) = Head(f.packets)
      <4>1. f.packets \in Seq(Packet) /\ f.packets # <<>>
        BY <1>1, <1>2
      <4> QED BY <4>1, Appending
    <3> QED BY <3>1
  <2> QED BY <1>3, <2>1
<1>5. SumOf(g.iat) = Duration(g)
  <2>1. SumOf(g.iat) = SumOf(f.iat) + (p.time - f.lastSeen)
    <3>1. p.time - f.lastSeen \in Int
      BY <1>1
    <3>2. SumOf(Append(f.iat, p.time - f.lastSeen))
              = SumOf(f.iat) + (p.time - f.lastSeen)
      BY <1>1, <3>1, SumAppend
    <3> QED BY <1>3, <3>2
  <2> QED BY <1>1, <1>2, <1>3, <1>4, <2>1 DEF Duration
<1>6. SumOf(g.fwdIat) = g.fwdLast - Head(g.packets).time
  <2>1. CASE p.fwd
    <3>1. g.fwdIat = Append(f.fwdIat, p.time - f.fwdLast)
          /\ g.fwdLast = p.time
      BY <1>0, <2>1, ForwardPacket
    <3>2. SumOf(g.fwdIat) = SumOf(f.fwdIat) + (p.time - f.fwdLast)
      <4>1. p.time - f.fwdLast \in Int
        BY <1>1
      <4>2. SumOf(Append(f.fwdIat, p.time - f.fwdLast))
                = SumOf(f.fwdIat) + (p.time - f.fwdLast)
        BY <1>1, <4>1, SumAppend
      <4> QED BY <3>1, <4>2
    <3> QED BY <1>1, <1>2, <1>4, <3>1, <3>2
  <2>2. CASE ~p.fwd
    BY <1>0, <1>2, <1>4, <2>2, BackwardPacket
  <2> QED BY <2>1, <2>2
\* A packet adds to the periods what it adds to the duration; an active
\* period that would be negative is not entered.
<1>7. /\ \A n \in ToSet(g.idle) : n > Threshold
      /\ Periods(g) = Periods(f) + (p.time - f.lastSeen)
             + (IF p.time - f.endActive > Threshold
                   /\ f.endActive < f.startActive
                THEN f.startActive - f.endActive ELSE 0)
  <2>1. SumOf(f.active) \in Int /\ SumOf(f.idle) \in Int
    BY <1>1, SumAppend
  <2>2. CASE p.time - f.endActive > Threshold
    <3>1. /\ g.active = IF f.endActive > f.startActive
                        THEN Append(f.active, f.endActive - f.startActive)
                        ELSE f.active
          /\ g.idle = Append(f.idle, p.time - f.endActive)
          /\ g.startActive = p.time
      BY <1>0, <2>2, Silence
    <3>2. f.endActive - f.startActive \in Int /\ p.time - f.endActive \in Int
      BY <1>1
    <3>3. /\ SumOf(g.idle) = SumOf(f.idle) + (p.time - f.endActive)
          /\ ToSet(g.idle) = ToSet(f.idle) \cup {p.time - f.endActive}
      <4>1. SumOf(Append(f.idle, p.time - f.endActive))
                = SumOf(f.idle) + (p.time - f.endActive)
        BY <1>1, <3>2, SumAppend
      <4>2. ToSet(Append(f.idle, p.time - f.endActive))
                = ToSet(f.idle) \cup {p.time - f.endActive}
        BY <1>1, <3>2, Appending
      <4> QED BY <3>1, <4>1, <4>2
    <3>4. SumOf(Append(f.active, f.endActive - f.startActive))
              = SumOf(f.active) + (f.endActive - f.startActive)
      BY <1>1, <3>2, SumAppend
    <3>5. SumOf(g.active) = SumOf(f.active)
              + (IF f.endActive > f.startActive
                 THEN f.endActive - f.startActive ELSE 0)
      BY <2>1, <3>1, <3>4
    <3>6. Periods(g) = SumOf(g.active) + SumOf(g.idle)
      BY <1>1, <1>3, <2>1, <3>1, <3>2, <3>3, <3>5 DEF Periods
    <3>7. Periods(f) = SumOf(f.active) + SumOf(f.idle)
                           + (f.endActive - f.startActive)
      BY DEF Periods
    <3>8. \A n \in ToSet(g.idle) : n > Threshold
      BY <1>2, <2>2, <3>3
    <3>9. CASE f.endActive > f.startActive
      BY <1>1, <1>2, <2>1, <3>3, <3>5, <3>6, <3>7, <3>8, <3>9
    <3>10. CASE f.endActive <= f.startActive
      <4>1. SumOf(g.active) = SumOf(f.active)
        BY <1>1, <2>1, <3>5, <3>10
      <4>2. Periods(g) = SumOf(f.active) + SumOf(f.idle)
                             + (p.time - f.endActive)
        BY <1>1, <2>1, <3>3, <3>6, <4>1
      <4>3. Periods(g) = Periods(f) + (p.time - f.lastSeen)
                             + (f.startActive - f.endActive)
        BY <1>1, <1>2, <2>1, <3>7, <4>2
      <4>4. CASE f.endActive < f.startActive
        BY <2>2, <3>8, <4>3, <4>4
      <4>5. CASE f.endActive = f.startActive
        <5>1. f.startActive - f.endActive = 0
          BY <1>1, <4>5
        <5> QED BY <1>1, <3>8, <4>3, <4>5, <5>1
      <4> QED BY <1>1, <3>10, <4>4, <4>5
    <3> QED BY <1>1, <3>9, <3>10
  <2>3. CASE ~(p.time - f.endActive > Threshold)
    <3>1. /\ g.active = f.active /\ g.idle = f.idle
          /\ g.startActive = f.startActive
      BY <1>0, <2>3, Silence
    <3>2. Periods(g) = SumOf(f.active) + SumOf(f.idle)
                           + (p.time - f.startActive)
      BY <1>3, <3>1 DEF Periods
    <3>3. Periods(f) = SumOf(f.active) + SumOf(f.idle)
                           + (f.endActive - f.startActive)
      BY DEF Periods
    <3>4. Periods(g) = Periods(f) + (p.time - f.lastSeen) + 0
      BY <1>1, <1>2, <2>1, <3>2, <3>3
    <3> QED BY <1>2, <2>3, <3>1, <3>4
  <2> QED BY <2>2, <2>3
<1>8. /\ Duration(g) = Duration(f) + (p.time - f.lastSeen)
      /\ Duration(f) \in Int /\ Periods(f) \in Int
  <2>1. SumOf(f.active) \in Int /\ SumOf(f.idle) \in Int
    BY <1>1, SumAppend
  <2>2. Duration(g) = Duration(f) + (p.time - f.lastSeen)
        /\ Duration(f) \in Int
    BY <1>1, <1>3, <1>4 DEF Duration
  <2>3. Periods(f) \in Int
    <3>1. f.endActive - f.startActive \in Int
      BY <1>1
    <3> QED BY <2>1, <3>1 DEF Periods
  <2> QED BY <2>2, <2>3
<1>9. Periods(g) >= Duration(g)
  BY <1>1, <1>2, <1>7, <1>8
<1>10. Periods(f) = Duration(f) /\ f.startActive <= f.endActive =>
           Periods(g) = Duration(g)
  BY <1>1, <1>7, <1>8
<1>11. TimesOK(g)
  BY <1>3, <1>4, <1>5, <1>6, <1>7, <1>9 DEF TimesOK
<1> QED BY <1>0, <1>10, <1>11

\* A packet that comes in order keeps what the order gives.
LEMMA OrderStep ==
  ASSUME NEW f \in Flow, NEW p \in Packet, TimesOK(f), SizesOK(f),
         InOrder(f) => OrderOK(f), InOrder(Extended(f, p))
  PROVE  OrderOK(Extended(f, p))
<1>0. PICK g : g = Extended(f, p)
  OBVIOUS
<1>1. /\ f.iat \in Seq(Int) /\ f.fwdIat \in Seq(Int)
      /\ f.bwdIat \in Seq(Int) /\ f.packets \in Seq(Packet)
      /\ f.lastSeen \in Int /\ f.fwdLast \in Int /\ f.bwdLast \in Int
      /\ f.startActive \in Int /\ f.endActive \in Int /\ p.time \in Int
      /\ f.bwdCount \in Nat
  <2>1. f.bwdCount \in Nat /\ f.packets # <<>>
    BY DEF Flow, TimesOK
  <2> QED BY <2>1, TimeTypes
<1>2. /\ f.packets # <<>> /\ f.endActive = f.lastSeen
      /\ f.lastSeen = f.packets[Len(f.packets)].time
  BY DEF TimesOK
<1>3. /\ g.packets = Append(f.packets, p)
      /\ g.iat = Append(f.iat, p.time - f.lastSeen)
      /\ g.lastSeen = p.time /\ g.endActive = p.time
  BY <1>0, EveryPacket
<1>4. InOrder(f) /\ f.lastSeen <= p.time
  <2>1. /\ Len(f.packets) \in Nat \ {0}
        /\ Len(g.packets) = Len(f.packets) + 1
        /\ g.packets[Len(f.packets) + 1] = p
        /\ \A n \in 1..Len(f.packets) : g.packets[n] = f.packets[n]
    <3>1. /\ Len(f.packets) \in Nat
          /\ Len(g.packets) = Len(f.packets) + 1
          /\ g.packets[Len(f.packets) + 1] = p
          /\ \A n \in 1..Len(f.packets) : g.packets[n] = f.packets[n]
      BY <1>1, <1>3, Appending
    <3>2. Len(f.packets) # 0
      BY <1>1, <1>2
    <3> QED BY <3>1, <3>2
  <2>2. \A n \in 1..Len(f.packets) : g.packets[n].time
                                         <= g.packets[n + 1].time
    BY <1>0, <2>1 DEF InOrder
  <2>3. f.lastSeen <= p.time
    <3>1. Len(f.packets) \in 1..Len(f.packets)
      BY <2>1
    <3> QED BY <1>2, <2>1, <2>2, <3>1
  <2>4. ASSUME NEW n \in 1..(Len(f.packets) - 1)
        PROVE  f.packets[n].time <= f.packets[n + 1].time
    <3>1. n \in 1..Len(f.packets) /\ n + 1 \in 1..Len(f.packets)
      BY <2>1
    <3> QED BY <2>1, <2>2, <3>1
  <2> QED BY <2>3, <2>4 DEF InOrder
<1>5. OrderOK(f)
  BY <1>4
<1>6. /\ Periods(f) = Duration(f) /\ f.startActive <= f.endActive
      /\ f.fwdLast <= f.lastSeen
      /\ f.bwdCount # 0 => f.bwdLast <= f.lastSeen
      /\ \A n \in ToSet(f.iat) \cup ToSet(f.fwdIat) \cup ToSet(f.bwdIat) :
             n >= 0
  BY <1>5 DEF OrderOK
<1>7. Periods(g) = Duration(g)
  BY <1>0, <1>6, TimesStep
<1>8. g.startActive <= g.endActive
  <2>1. g.startActive = p.time \/ g.startActive = f.startActive
    BY <1>0, Silence
  <2> QED BY <1>1, <1>2, <1>3, <1>4, <1>6, <2>1
<1>9. \A n \in ToSet(g.iat) : n >= 0
  <2>1. ToSet(g.iat) = ToSet(f.iat) \cup {p.time - f.lastSeen}
    <3>1. p.time - f.lastSeen \in Int
      BY <1>1
    <3> QED BY <1>1, <1>3, <3>1, Appending
  <2> QED BY <1>1, <1>4, <1>6, <2>1
<1>10. /\ g.fwdLast <= g.lastSeen
       /\ g.bwdCount # 0 => g.bwdLast <= g.lastSeen
       /\ \A n \in ToSet(g.fwdIat) \cup ToSet(g.bwdIat) : n >= 0
  <2>1. CASE p.fwd
    <3>1. /\ g.fwdIat = Append(f.fwdIat, p.time - f.fwdLast)
          /\ g.fwdLast = p.time /\ g.bwdCount = f.bwdCount
          /\ g.bwdIat = f.bwdIat /\ g.bwdLast = f.bwdLast
      BY <1>0, <2>1, ForwardPacket
    <3>2. ToSet(g.fwdIat) = ToSet(f.fwdIat) \cup {p.time - f.fwdLast}
      <4>1. p.time - f.fwdLast \in Int
        BY <1>1
      <4> QED BY <1>1, <3>1, <4>1, Appending
    <3>3. p.time - f.fwdLast >= 0
      BY <1>1, <1>4, <1>6
    <3>4. g.bwdCount # 0 => g.bwdLast <= g.lastSeen
      BY <1>1, <1>3, <1>4, <1>6, <3>1
    <3> QED BY <1>1, <1>3, <1>6, <3>1, <3>2, <3>3, <3>4
  <2>2. CASE ~p.fwd
    <3>1. /\ g.fwdIat = f.fwdIat /\ g.fwdLast = f.fwdLast
          /\ g.bwdLast = p.time
          /\ f.bwdCount = 0 => g.bwdIat = f.bwdIat
          /\ f.bwdCount # 0 => g.bwdIat = Append(f.bwdIat, p.time - f.bwdLast)
      BY <1>0, <2>2, BackwardPacket
    <3>2. \A n \in ToSet(g.bwdIat) : n >= 0
      <4>1. CASE f.bwdCount = 0
        BY <1>6, <3>1, <4>1
      <4>2. CASE f.bwdCount # 0
        <5>1. p.time - f.bwdLast \in Int /\ p.time - f.bwdLast >= 0
          BY <1>1, <1>4, <1>6, <4>2
        <5>2. ToSet(g.bwdIat) = ToSet(f.bwdIat) \cup {p.time - f.bwdLast}
          <6>1. ToSet(Append(f.bwdIat, p.time - f.bwdLast))
                    = ToSet(f.bwdIat) \cup {p.time - f.bwdLast}
            BY <1>1, <5>1, Appending
          <6> QED BY <3>1, <4>2, <6>1
        <5> QED BY <1>6, <5>1, <5>2
      <4> QED BY <4>1, <4>2
    <3>3. g.fwdLast <= g.lastSeen /\ g.bwdLast <= g.lastSeen
      BY <1>1, <1>3, <1>4, <1>6, <3>1
    <3> QED BY <1>6, <3>1, <3>2, <3>3
  <2> QED BY <2>1, <2>2
<1>11. OrderOK(g)
  BY <1>7, <1>8, <1>9, <1>10 DEF OrderOK
<1> QED BY <1>0, <1>11

-----------------------------------------------------------------------------
\* The empty sequence, and one of one element.
LEMMA OneOrNone ==
  ASSUME NEW S, NEW x \in S, NEW s, s = <<x>>
  PROVE  /\ s \in Seq(S) /\ s # <<>> /\ Len(s) = 1 /\ Head(s) = x
         /\ s[Len(s)] = x /\ ToSet(s) = {x}
         /\ Len(<<>>) = 0 /\ ToSet(<<>>) = {}
<1>1. /\ s \in Seq(S) /\ s # <<>> /\ Len(s) = 1 /\ Head(s) = x /\ s[1] = x
      /\ <<>> \in Seq(S) /\ Len(<<>>) = 0
  OBVIOUS
<1>2. DOMAIN s = {1}
  BY <1>1
<1>3. ToSet(s) = {x}
  BY <1>1, <1>2 DEF ToSet
<1>4. ToSet(<<>>) = {}
  BY <1>1, NothingInIt
<1> QED BY <1>1, <1>3, <1>4

\* A flow of one packet.
LEMMA FirstPacket ==
  ASSUME NEW p \in Packet, p.time = 0, p.fwd, NEW f, f = NewFlow(p)
  PROVE  SizesOK(f) /\ TimesOK(f) /\ OrderOK(f)
<1>0. p.size \in Nat /\ Threshold \in Nat
  BY ConstantsOK DEF ConstantsOK, Packet
<1>1. /\ f.packets = <<p>> /\ f.bwdPackets = <<>> /\ f.maxSize = p.size
      /\ f.flags = p.flags \cap Counted /\ f.fwdPsh = ("URG" \in p.flags)
      /\ f.bwdMax = 0 /\ f.bwdMin = 0 /\ f.fwdCount = 1 /\ f.bwdCount = 0
      /\ f.lastSeen = 0 /\ f.fwdLast = 0 /\ f.bwdLast = 0
      /\ f.startActive = 0 /\ f.endActive = 0
      /\ f.iat = <<>> /\ f.fwdIat = <<>> /\ f.bwdIat = <<>>
      /\ f.active = <<>> /\ f.idle = <<>>
  BY DEF NewFlow
<1>2. /\ f.packets # <<>> /\ Len(f.packets) = 1 /\ Head(f.packets) = p
      /\ f.packets[Len(f.packets)] = p /\ ToSet(f.packets) = {p}
      /\ Len(<<>>) = 0 /\ ToSet(<<>>) = {}
  BY <1>1, OneOrNone
<1>3. SizesOK(f)
  <2>1. {q \in ToSet(f.packets) : ~q.fwd} = {}
    BY <1>2
  <2>2. /\ f.maxSize \in {q.size : q \in ToSet(f.packets)}
        /\ \A q \in ToSet(f.packets) : q.size <= f.maxSize
    BY <1>0, <1>1, <1>2
  <2>3. f.flags = (UNION {q.flags : q \in ToSet(f.packets)}) \cap Counted
    <3>1. UNION {q.flags : q \in {p}} = p.flags
      OBVIOUS
    <3> QED BY <1>1, <1>2, <3>1
  <2>4. f.fwdPsh <=> \E q \in ToSet(f.packets) : q.fwd /\ "URG" \in q.flags
    BY <1>1, <1>2
  <2>5. /\ ToSet(f.bwdPackets) = {} /\ Len(f.bwdPackets) = f.bwdCount
        /\ f.fwdCount + f.bwdCount = Len(f.packets)
        /\ Len(f.fwdIat) = f.fwdCount - 1
    BY <1>1, <1>2
  <2> QED BY <1>1, <1>2, <2>1, <2>2, <2>3, <2>4, <2>5 DEF SizesOK
<1>4. SumOf(f.iat) = 0 /\ SumOf(f.fwdIat) = 0
      /\ SumOf(f.active) = 0 /\ SumOf(f.idle) = 0
  BY <1>1, SumEmpty
<1>5. Duration(f) = 0 /\ Periods(f) = 0
  BY <1>1, <1>2, <1>4 DEF Duration, Periods
<1>6. ToSet(f.iat) = {} /\ ToSet(f.fwdIat) = {} /\ ToSet(f.bwdIat) = {}
      /\ ToSet(f.idle) = {}
  BY <1>1, <1>2
<1>7. TimesOK(f)
  BY <1>1, <1>2, <1>4, <1>5, <1>6 DEF TimesOK
<1>8. OrderOK(f)
  BY <1>1, <1>5, <1>6 DEF OrderOK
<1> QED BY <1>3, <1>7, <1>8

FieldsOK ==
    SizesOK(flow) /\ TimesOK(flow) /\ (InOrder(flow) => OrderOK(flow))

\* They hold of every flow, whatever packets come.
LEMMA FieldsHold == Spec => []FieldsOK
<1>1. Init => FieldsOK
  <2> SUFFICES ASSUME NEW z \in Sizes, NEW F \in FlagSets,
                      flow = NewFlow([time |-> 0, fwd |-> TRUE, size |-> z,
                                      flags |-> F])
               PROVE  FieldsOK
    BY DEF Init
  <2>1. PICK p : p = [time |-> 0, fwd |-> TRUE, size |-> z, flags |-> F]
    OBVIOUS
  <2>2. p \in Packet
    BY <2>1 DEF Packet
  <2>3. p.time = 0 /\ p.fwd
    BY <2>1
  <2>4. flow = NewFlow(p)
    BY <2>1
  <2> QED BY <2>2, <2>3, <2>4, FirstPacket DEF FieldsOK
<1>2. TypeOK /\ FieldsOK /\ [Next]_vars => FieldsOK'
  <2> SUFFICES ASSUME TypeOK, FieldsOK, [Next]_vars PROVE FieldsOK'
    OBVIOUS
  <2>1. CASE UNCHANGED vars
    BY <2>1 DEF vars, FieldsOK
  <2>2. CASE Next
    <3>1. PICK p \in Packet : flow' = Extended(flow, p)
      BY <2>2 DEF Next, New, Packet
    <3>2. flow \in Flow
      BY DEF TypeOK
    <3>3. /\ SizesOK(flow) /\ TimesOK(flow)
          /\ InOrder(flow) => OrderOK(flow)
      BY DEF FieldsOK
    <3>4. SizesOK(Extended(flow, p)) /\ TimesOK(Extended(flow, p))
      BY <3>2, <3>3, SizesStep, TimesStep
    <3>5. InOrder(Extended(flow, p)) => OrderOK(Extended(flow, p))
      BY <3>2, <3>3, OrderStep
    <3> QED BY <3>1, <3>4, <3>5 DEF FieldsOK
  <2> QED BY <2>1, <2>2
<1> QED BY <1>1, <1>2, TypeCorrect, PTL DEF Spec

-----------------------------------------------------------------------------
(* terminated() *)

\* A bound that is attained is the extreme.
LEMMA ExtremeIs ==
  ASSUME NEW S \in SUBSET Int, NEW m \in S
  PROVE  /\ (\A n \in S : n <= m) => Max(S) = m
         /\ (\A n \in S : m <= n) => Min(S) = m
<1>1. ASSUME \A n \in S : n <= m PROVE Max(S) = m
  <2>1. \A x \in S : (\A y \in S : x >= y) => x = m
    BY <1>1
  <2>2. \A y \in S : m >= y
    BY <1>1
  <2> QED BY <2>1, <2>2 DEF Max
<1>2. ASSUME \A n \in S : m <= n PROVE Min(S) = m
  <2>1. \A x \in S : (\A y \in S : x =< y) => x = m
    BY <1>2
  <2> QED BY <1>2, <2>1 DEF Min
<1> QED BY <1>1, <1>2

\* The least of a list of natural numbers is one of them, and 0 stands for
\* the least of none.
LEMMA LeastOfList ==
  ASSUME NEW s \in Seq(Int), \A n \in ToSet(s) : n >= 0
  PROVE  IF s = <<>> THEN NumbersOf(s).min = 0
                     ELSE NumbersOf(s).min \in ToSet(s)
<1>1. CASE s = <<>>
  BY <1>1 DEF NumbersOf
<1>2. CASE s # <<>>
  <2>1. ToSet(s) \in SUBSET Nat /\ ToSet(s) # {}
    <3>1. ToSet(s) \subseteq Int
      BY NothingInIt
    <3>2. Len(s) # 0
      BY <1>2
    <3> QED BY <3>1, <3>2, NothingInIt
  <2>2. PICK m \in ToSet(s) : \A n \in ToSet(s) : m <= n
    BY <2>1, LeastNumber
  <2>3. Min(ToSet(s)) = m
    BY <2>1, <2>2, ExtremeIs
  <2> QED BY <1>2, <2>2, <2>3 DEF NumbersOf
<1> QED BY <1>1, <1>2

\* The sizes of a list of packets.
LEMMA SizesOfList ==
  ASSUME NEW s \in Seq(Packet)
  PROVE  /\ ToSet(SizesOf(s)) = {q.size : q \in ToSet(s)}
         /\ NumbersOf(SizesOf(s)).n = Len(s)
         /\ SizesOf(s) = <<>> <=> s = <<>>
<1>1. /\ DOMAIN s = 1..Len(s) /\ Len(s) \in Nat
      /\ \A n \in 1..Len(s) : s[n] \in Packet
  OBVIOUS
<1>2. SizesOf(s) = [n \in 1..Len(s) |-> s[n].size]
  BY <1>1 DEF SizesOf
<1>3. DOMAIN SizesOf(s) = 1..Len(s)
      /\ \A n \in 1..Len(s) : SizesOf(s)[n] = s[n].size
  BY <1>2
<1>4. ToSet(SizesOf(s)) = {q.size : q \in ToSet(s)}
  BY <1>1, <1>3 DEF ToSet
<1>5. Len(SizesOf(s)) = Len(s) /\ SizesOf(s) \in Seq(Sizes)
  <2>1. \A n \in 1..Len(s) : s[n].size \in Sizes
    BY <1>1 DEF Packet
  <2> QED BY <1>1, <1>2, <2>1
<1> QED BY <1>1, <1>3, <1>4, <1>5 DEF NumbersOf

\* What a flow says of sizes, flags and counts does not depend on the order
\* in which its packets came.
THEOREM SizesAreOfTheSet == Spec => []SizesForgetTheOrder
<1>1. TypeOK /\ FieldsOK => SizesForgetTheOrder
  <2> SUFFICES ASSUME TypeOK, FieldsOK PROVE SizesForgetTheOrder
    OBVIOUS
  <2> DEFINE f == Features(flow)
             all == ToSet(flow.packets)
             bwd == {p \in all : ~p.fwd}
  <2>1. /\ flow.packets # <<>>
        /\ flow.maxSize \in {p.size : p \in all}
        /\ \A p \in all : p.size <= flow.maxSize
        /\ ToSet(flow.bwdPackets) = bwd
        /\ Len(flow.bwdPackets) = flow.bwdCount
        /\ bwd = {} => flow.bwdMax = 0 /\ flow.bwdMin = 0
        /\ bwd # {} =>
               {flow.bwdMax, flow.bwdMin} \subseteq {p.size : p \in bwd}
        /\ \A p \in bwd : flow.bwdMin <= p.size /\ p.size <= flow.bwdMax
        /\ flow.fwdCount + flow.bwdCount = Len(flow.packets)
        /\ Len(flow.fwdIat) = flow.fwdCount - 1
        /\ flow.flags = (UNION {p.flags : p \in all}) \cap Counted
        /\ flow.fwdPsh <=> \E p \in all : p.fwd /\ "URG" \in p.flags
    BY DEF FieldsOK, SizesOK
  <2>2. /\ flow.packets \in Seq(Packet) /\ flow.bwdPackets \in Seq(Packet)
        /\ \A p \in all : p.size \in Int
    <3>1. flow.packets \in Seq(Packet) /\ flow.bwdPackets \in Seq(Packet)
      BY DEF TypeOK, Flow
    <3>2. all \subseteq Packet
      BY <3>1, NothingInIt
    <3>3. Sizes \subseteq Int
      BY ConstantsOK DEF ConstantsOK
    <3> QED BY <3>1, <3>2, <3>3 DEF Packet
  <2>3. /\ f.max_packet_len = flow.maxSize
        /\ f.packet_len = NumbersOf(SizesOf(flow.packets))
        /\ f.bwd_packet_len = [max |-> flow.bwdMax, min |-> flow.bwdMin]
        /\ f.bwd_lens = NumbersOf(SizesOf(flow.bwdPackets))
        /\ f.avg_bwd_segment_over = flow.bwdCount
        /\ f.fwd_IAT.n = Len(flow.fwdIat)
        /\ f.flag_counts = flow.flags /\ f.fwd_PSH_flags = flow.fwdPsh
    BY DEF Features, NumbersOf
  <2> HIDE DEF f
  <2>4. Max({p.size : p \in all}) = flow.maxSize
    <3>1. {p.size : p \in all} \in SUBSET Int
      BY <2>2
    <3>2. \A n \in {p.size : p \in all} : n <= flow.maxSize
      BY <2>1
    <3>3. flow.maxSize \in {p.size : p \in all}
      BY <2>1
    <3> HIDE DEF all
    <3> QED BY <3>1, <3>2, <3>3, ExtremeIs
  <2>5. f.packet_len.max = flow.maxSize /\ f.packet_len.n = Len(flow.packets)
    <3>1. /\ ToSet(SizesOf(flow.packets)) = {p.size : p \in all}
          /\ f.packet_len.n = Len(flow.packets)
          /\ SizesOf(flow.packets) # <<>>
      BY <2>1, <2>2, <2>3, SizesOfList
    <3> QED BY <2>3, <2>4, <3>1 DEF NumbersOf
  <2>6. /\ ToSet(SizesOf(flow.bwdPackets)) = {p.size : p \in bwd}
        /\ f.bwd_lens.n = flow.bwdCount
        /\ SizesOf(flow.bwdPackets) = <<>> <=> flow.bwdPackets = <<>>
    BY <2>1, <2>2, <2>3, SizesOfList
  <2>7. flow.bwdPackets = <<>> <=> bwd = {}
    <3>1. Len(flow.bwdPackets) = 0 <=> bwd = {}
      BY <2>1, <2>2, NothingInIt
    <3>2. Len(flow.bwdPackets) = 0 <=> flow.bwdPackets = <<>>
      BY <2>2
    <3> QED BY <3>1, <3>2
  <2>8. bwd # {} => /\ Max({p.size : p \in bwd}) = flow.bwdMax
                    /\ Min({p.size : p \in bwd}) = flow.bwdMin
    <3>1. {p.size : p \in bwd} \in SUBSET Int
      BY <2>2
    <3>2. bwd # {} => /\ flow.bwdMax \in {p.size : p \in bwd}
                      /\ flow.bwdMin \in {p.size : p \in bwd}
      BY <2>1
    <3>3. /\ \A n \in {p.size : p \in bwd} : n <= flow.bwdMax
          /\ \A n \in {p.size : p \in bwd} : flow.bwdMin <= n
      BY <2>1
    <3> HIDE DEF bwd
    <3> QED BY <3>1, <3>2, <3>3, ExtremeIs
  <2>9. f.bwd_lens.max = flow.bwdMax /\ f.bwd_lens.min = flow.bwdMin
    <3>1. CASE bwd = {}
      BY <2>1, <2>3, <2>6, <2>7, <3>1 DEF NumbersOf
    <3>2. CASE bwd # {}
      BY <2>3, <2>6, <2>7, <2>8, <3>2 DEF NumbersOf
    <3> QED BY <3>1, <3>2
  <2> QED
    BY <2>1, <2>3, <2>4, <2>5, <2>6, <2>8, <2>9
    DEF SizesForgetTheOrder, f
<1> QED BY <1>1, TypeCorrect, FieldsHold, PTL

\* The times between packets, and the active and idle periods, add up to the
\* duration, but for disorder.
THEOREM TimesAdd == Spec => []TimesAddUp
<1>1. TypeOK /\ FieldsOK => TimesAddUp
  <2> SUFFICES ASSUME TypeOK, FieldsOK PROVE TimesAddUp
    OBVIOUS
  <2> DEFINE f == Features(flow)
  <2>1. /\ SumOf(flow.iat) = Duration(flow)
        /\ SumOf(flow.fwdIat) = flow.fwdLast - Head(flow.packets).time
        /\ Periods(flow) >= Duration(flow)
        /\ \A n \in ToSet(flow.idle) : n > Threshold
        /\ InOrder(flow) =>
               /\ Periods(flow) = Duration(flow)
               /\ \A n \in ToSet(flow.iat) \cup ToSet(flow.fwdIat)
                               \cup ToSet(flow.bwdIat) : n >= 0
    BY DEF FieldsOK, TimesOK, OrderOK
  <2>2. /\ f.flow_duration = Duration(flow)
        /\ f.flow_IAT = NumbersOf(flow.iat)
        /\ f.fwd_IAT = NumbersOf(flow.fwdIat)
        /\ f.bwd_IAT = NumbersOf(flow.bwdIat)
        /\ f.idle = NumbersOf(flow.idle)
    BY DEF Features
  <2> HIDE DEF f
  <2>3. /\ f.flow_IAT.total = SumOf(flow.iat)
        /\ f.fwd_IAT.total = SumOf(flow.fwdIat)
        /\ f.idle.total = SumOf(flow.idle)
    BY <2>2 DEF NumbersOf
  <2>4. /\ flow.iat \in Seq(Int) /\ flow.fwdIat \in Seq(Int)
        /\ flow.bwdIat \in Seq(Int) /\ flow.idle \in Seq(Int)
        /\ Threshold \in Nat
    BY ConstantsOK DEF TypeOK, Flow, ConstantsOK
  <2>5. flow.idle # <<>> => f.idle.min > Threshold
    <3>1. \A n \in ToSet(flow.idle) : n >= 0
      <4>1. ToSet(flow.idle) \subseteq Int
        BY <2>4, NothingInIt
      <4> QED BY <2>1, <2>4, <4>1
    <3>2. flow.idle # <<>> => f.idle.min \in ToSet(flow.idle)
      BY <2>2, <2>4, <3>1, LeastOfList
    <3> QED BY <2>1, <3>2
  <2>6. ASSUME InOrder(flow)
        PROVE  \A x \in {f.flow_IAT, f.fwd_IAT, f.bwd_IAT} : x.min >= 0
    <3>1. /\ \A n \in ToSet(flow.iat) : n >= 0
          /\ \A n \in ToSet(flow.fwdIat) : n >= 0
          /\ \A n \in ToSet(flow.bwdIat) : n >= 0
      BY <2>1, <2>6
    <3>2. \A s \in {flow.iat, flow.fwdIat, flow.bwdIat} :
              NumbersOf(s).min >= 0
      <4> SUFFICES ASSUME NEW s \in {flow.iat, flow.fwdIat, flow.bwdIat}
                   PROVE  NumbersOf(s).min >= 0
        OBVIOUS
      <4>1. s \in Seq(Int) /\ \A n \in ToSet(s) : n >= 0
        BY <2>4, <3>1
      <4>2. NumbersOf(s).min = 0 \/ NumbersOf(s).min \in ToSet(s)
        BY <4>1, LeastOfList
      <4> QED BY <4>1, <4>2
    <3> QED BY <2>2, <3>2
  <2>7. SumOf(flow.active) + f.idle.total
            + (flow.endActive - flow.startActive) = Periods(flow)
    BY <2>3 DEF Periods
  <2> QED
    BY <2>1, <2>2, <2>3, <2>5, <2>6, <2>7 DEF TimesAddUp, f
<1> QED BY <1>1, TypeCorrect, FieldsHold, PTL
=============================================================================
