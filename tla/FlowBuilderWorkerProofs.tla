----------------------- MODULE FlowBuilderWorkerProofs -----------------------
(***************************************************************************)
(* Proofs about the flow builder.  First about FlowTable, for every set of *)
(* keys, capacity, timeout, sweep period and timestamp disorder: the       *)
(* inductive invariant is stated of a table F, because every action first  *)
(* removes swept flows from the table (lemma Removing) and then may put    *)
(* one flow at its end (lemma Touching).                                   *)
(*                                                                         *)
(* Then about FlowBuilderWorker, for every number of attempts, messages    *)
(* and failing calls.  The worker implements FlowTable, so the theorems    *)
(* about the table carry over to a worker's.                               *)
(***************************************************************************)
EXTENDS FlowBuilderWorker, FiniteSetTheorems, SequenceTheorems, TLAPS

-----------------------------------------------------------------------------
(* The table *)

\* What holds of the table after `seen` packets up to time `last`.
TableOK(F, seen, last) ==
    /\ F \in [Keys -> Flow]
    /\ Cardinality(Tracked(F)) <= Capacity
    /\ OneDirectionIn(F)
    /\ RoughlyLRUIn(F)
    /\ TouchesIn(F, seen, last)

\* The tracked keys are a finite set.
LEMMA TrackedFinite ==
    ASSUME NEW F
    PROVE  /\ IsFiniteSet(Tracked(F))
           /\ Cardinality(Tracked(F)) \in Nat
BY ConstantsOK, FS_Subset, FS_CardinalityType DEF Tracked

\* Without(F, S) tracks the flows of F that are not in S, unchanged.
LEMMA WithoutTable ==
    ASSUME NEW F \in [Keys -> Flow], NEW S
    PROVE  /\ Without(F, S) \in [Keys -> Flow]
           /\ Tracked(Without(F, S)) = Tracked(F) \ S
           /\ \A k \in Tracked(F) \ S : Without(F, S)[k] = F[k]
BY DEF Without, Tracked, Flow, NoFlow

\* Removing flows, by a sweep, an eviction or an event, keeps the table in
\* order.
LEMMA Removing ==
    ASSUME NEW F, NEW S, NEW seen \in Nat, NEW last \in Nat,
           TableOK(F, seen, last)
    PROVE  TableOK(Without(F, S), seen, last)
<1> DEFINE G == Without(F, S)
<1>1. /\ F \in [Keys -> Flow]
      /\ G \in [Keys -> Flow]
      /\ Tracked(G) = Tracked(F) \ S
      /\ \A k \in Tracked(G) : G[k] = F[k]
  BY WithoutTable DEF TableOK
<1>2. Cardinality(Tracked(G)) <= Capacity
  <2>1. Cardinality(Tracked(G)) <= Cardinality(Tracked(F))
    BY <1>1, TrackedFinite, FS_Subset
  <2>2. Cardinality(Tracked(F)) <= Capacity
    BY DEF TableOK
  <2>3. /\ Cardinality(Tracked(F)) \in Nat
        /\ Cardinality(Tracked(G)) \in Nat
        /\ Capacity \in Nat
    BY TrackedFinite, ConstantsOK DEF Capacity
  <2> QED BY <2>1, <2>2, <2>3
<1>3. OneDirectionIn(G)
  BY <1>1 DEF TableOK, OneDirectionIn
<1>4. RoughlyLRUIn(G)
  BY <1>1 DEF TableOK, RoughlyLRUIn
<1>5. TouchesIn(G, seen, last)
  BY <1>1 DEF TableOK, TouchesIn
<1> QED BY <1>1, <1>2, <1>3, <1>4, <1>5 DEF TableOK

\* The next packet puts the flow r of key k at the end of the table: k was
\* tracked already, or there is room and the other direction is untracked.
LEMMA Touching ==
    ASSUME NEW F, NEW k \in Keys, NEW r \in Flow,
           NEW seen \in Nat, NEW last \in Nat, NEW now \in Nat,
           NEW next \in Nat,
           TableOK(F, seen, last),
           r.touched = seen + 1, r.lastSeen = now,
           last <= now + Skew, now <= next, last <= next,
           \/ k \in Tracked(F)
           \/ /\ Cardinality(Tracked(F)) < Capacity
              /\ Reverse[k] \notin Tracked(F)
    PROVE  TableOK([F EXCEPT ![k] = r], seen + 1, next)
<1> DEFINE G == [F EXCEPT ![k] = r]
<1>1. /\ F \in [Keys -> Flow]
      /\ G \in [Keys -> Flow]
      /\ G[k] = r
      /\ \A j \in Keys \ {k} : G[j] = F[j]
  BY DEF TableOK
<1>2. Tracked(G) = Tracked(F) \cup {k}
  BY <1>1 DEF Tracked
<1> HIDE DEF G
<1>3. Cardinality(Tracked(G)) <= Capacity
  <2>1. Capacity \in Nat
    BY ConstantsOK DEF Capacity
  <2>2. CASE k \in Tracked(F)
    <3>1. Tracked(G) = Tracked(F)
      BY <2>2, <1>2
    <3> QED BY <3>1 DEF TableOK
  <2>3. CASE k \notin Tracked(F)
    <3>1. Cardinality(Tracked(G)) = Cardinality(Tracked(F)) + 1
      BY <2>3, <1>2, TrackedFinite, FS_AddElement
    <3> QED BY <2>1, <2>3, <3>1, TrackedFinite
  <2> QED BY <2>2, <2>3
<1>4. OneDirectionIn(G)
  <2>1. \A j \in Keys : Reverse[j] \in Keys /\ Reverse[Reverse[j]] = j
    BY ConstantsOK
  <2>2. OneDirectionIn(F)
    BY DEF TableOK
  <2>3. CASE k \in Tracked(F)
    <3>1. Tracked(G) = Tracked(F)
      BY <2>3, <1>2
    <3> QED BY <2>2, <3>1 DEF OneDirectionIn
  <2>4. CASE Reverse[k] \notin Tracked(F)
    <3> SUFFICES ASSUME NEW j \in Tracked(G), Reverse[j] \in Tracked(G)
                 PROVE  Reverse[j] = j
      BY DEF OneDirectionIn
    <3>1. j \in Keys
      BY DEF Tracked
    <3> QED BY <2>1, <2>2, <2>4, <1>2, <3>1 DEF OneDirectionIn
  <2> QED BY <2>3, <2>4
<1>5. /\ \A j \in Tracked(F) : /\ F[j].touched \in Nat
                              /\ F[j].lastSeen \in Nat
                              /\ F[j].touched <= seen
                              /\ F[j].lastSeen <= last
      /\ \A j \in Tracked(G) \ {k} : j \in Tracked(F) /\ G[j] = F[j]
  BY <1>1, <1>2 DEF TableOK, TouchesIn, Tracked, Flow
<1>6. RoughlyLRUIn(G)
  <2> SUFFICES ASSUME NEW i \in Tracked(G), NEW j \in Tracked(G),
                      G[i].touched < G[j].touched
               PROVE  G[i].lastSeen <= G[j].lastSeen + Skew
    BY DEF RoughlyLRUIn
  <2>1. Skew \in Nat
    BY ConstantsOK
  <2>2. CASE i # k /\ j # k
    BY <1>5, <2>2 DEF TableOK, RoughlyLRUIn
  <2>3. CASE j = k /\ i # k
    <3>1. G[j].lastSeen = now
      BY <1>1, <2>3
    <3>2. G[i].lastSeen \in Nat /\ G[i].lastSeen <= last
      BY <1>5, <2>3
    <3> QED BY <2>1, <3>1, <3>2
  <2>4. CASE i = k
    <3>1. j = k \/ G[j].touched <= seen
      BY <1>5
    <3>2. G[i].touched = seen + 1
      BY <1>1, <2>4
    <3>3. j = k \/ G[j].touched \in Nat
      BY <1>5
    <3> QED BY <1>1, <2>4, <3>1, <3>2, <3>3
  <2> QED BY <2>2, <2>3, <2>4
<1>7. TouchesIn(G, seen + 1, next)
  <2>1. \A j \in Tracked(G) : G[j].touched <= seen + 1 /\ G[j].lastSeen <= next
    BY <1>1, <1>5
  <2>2. ASSUME NEW i \in Tracked(G), NEW j \in Tracked(G),
               G[i].touched = G[j].touched
        PROVE  i = j
    <3>1. CASE i # k /\ j # k
      BY <1>5, <2>2, <3>1 DEF TableOK, TouchesIn
    <3>2. ASSUME NEW m \in Tracked(G), m # k, G[m].touched = G[k].touched
          PROVE  FALSE
      BY <1>1, <1>5, <3>2
    <3> QED BY <2>2, <3>1, <3>2
  <2> QED BY <2>1, <2>2 DEF TouchesIn
<1> QED BY <1>1, <1>3, <1>4, <1>6, <1>7 DEF TableOK, G

-----------------------------------------------------------------------------
\* The inductive invariant.
IInv == TypeOK /\ TableOK(flows, packetsSeen, newest)

\* What every action starts from: the swept table is in order, the packet
\* has a new number and a timestamp not too far behind the newest one.
LEMMA Arriving ==
    ASSUME IInv, NEW now \in 0..MaxTime, NEW F, Arrive(now, F)
    PROVE  /\ TableOK(F, packetsSeen, newest)
           /\ now \in Nat /\ packetsSeen \in Nat /\ newest \in Nat
           /\ packetsSeen' = packetsSeen + 1
           /\ newest' \in Nat /\ now <= newest' /\ newest <= newest'
           /\ newest <= now + Skew
<1>1. now \in Nat /\ packetsSeen \in Nat /\ newest \in Nat
  BY ConstantsOK DEF IInv, TypeOK
<1>2. TableOK(F, packetsSeen, newest)
  BY <1>1, Removing DEF IInv, Arrive
<1> QED BY <1>1, <1>2, ConstantsOK DEF Arrive

\* A flow removed from the table makes room for one.
LEMMA RemovingOne ==
    ASSUME NEW F \in [Keys -> Flow], NEW a \in Tracked(F),
           Cardinality(Tracked(F)) <= Capacity
    PROVE  Cardinality(Tracked(Without(F, {a}))) < Capacity
<1>1. Tracked(Without(F, {a})) = Tracked(F) \ {a}
  BY WithoutTable
<1>2. Cardinality(Tracked(F) \ {a}) = Cardinality(Tracked(F)) - 1
  BY TrackedFinite, FS_RemoveElement
<1>3. Capacity \in Nat /\ Cardinality(Tracked(F)) \in Nat
  BY TrackedFinite, ConstantsOK DEF Capacity
<1>4. Cardinality(Tracked(Without(F, {a}))) = Cardinality(Tracked(F)) - 1
  BY <1>1, <1>2
<1> QED BY <1>3, <1>4

\* The flow a packet starts comes last and is well-formed.
LEMMA StartedFlow ==
    ASSUME NEW now \in Nat, packetsSeen \in Nat
    PROVE  /\ Started(now) \in Flow
           /\ Started(now).touched = packetsSeen + 1
           /\ Started(now).lastSeen = now
BY DEF Started, Flow

\* Each action keeps the table in order.
LEMMA StartKeepsTable ==
    ASSUME IInv, NEW k \in Keys, NEW now \in 0..MaxTime, StartFlow(k, now)
    PROVE  TableOK(flows', packetsSeen', newest')
<1> DEFINE F == Without(flows, Swept(now))
<1>1. Arrive(now, F) /\ k \notin Tracked(F) /\ Reverse[k] \notin Tracked(F)
  BY DEF StartFlow, Unknown
<1>2. /\ TableOK(F, packetsSeen, newest)
      /\ now \in Nat /\ packetsSeen \in Nat /\ newest \in Nat
      /\ packetsSeen' = packetsSeen + 1
      /\ newest' \in Nat /\ now <= newest' /\ newest <= newest'
      /\ newest <= now + Skew
  BY <1>1, Arriving
<1>3. /\ F \in [Keys -> Flow]
      /\ Cardinality(Tracked(F)) <= Capacity
      /\ Cardinality(Tracked(F)) \in Nat
  BY <1>2, TrackedFinite DEF TableOK
<1>4. CASE /\ ~(Cardinality(Tracked(F)) >= MaxFlows /\ Tracked(F) # {})
           /\ flows' = [F EXCEPT ![k] = Started(now)]
  <2>1. Cardinality(Tracked(F)) < Capacity
    BY <1>3, <1>4, ConstantsOK, FS_EmptySet DEF Capacity
  <2> HIDE DEF F
  <2> QED BY <1>1, <1>2, <1>4, <2>1, StartedFlow, Touching
<1>5. ASSUME NEW old \in Tracked(F),
             flows' = [Without(F, {old}) EXCEPT ![k] = Started(now)]
      PROVE  TableOK(flows', packetsSeen', newest')
  <2> HIDE DEF F
  <2>1. TableOK(Without(F, {old}), packetsSeen, newest)
    BY <1>2, Removing
  <2>2. Cardinality(Tracked(Without(F, {old}))) < Capacity
    BY <1>3, RemovingOne
  <2>3. Reverse[k] \notin Tracked(Without(F, {old}))
    BY <1>1, <1>3, WithoutTable
  <2> QED BY <1>2, <1>5, <2>1, <2>2, <2>3, StartedFlow, Touching
<1> QED BY <1>4, <1>5 DEF StartFlow, Full, IsOldest

LEMMA ExtendKeepsTable ==
    ASSUME IInv, NEW k \in Keys, NEW now \in 0..MaxTime, ExtendFlow(k, now)
    PROVE  TableOK(flows', packetsSeen', newest')
<1> DEFINE F == Without(flows, Swept(now))
           a == ActiveKey(F, k)
           r == [touched |-> packetsSeen + 1, lastSeen |-> now,
                 packets |-> F[a].packets \cup {packetsSeen + 1}]
<1>1. Arrive(now, F) /\ a \in Tracked(F) /\ flows' = [F EXCEPT ![a] = r]
  BY DEF ExtendFlow, Extended
<1>2. /\ TableOK(F, packetsSeen, newest)
      /\ now \in Nat /\ packetsSeen \in Nat /\ newest \in Nat
      /\ packetsSeen' = packetsSeen + 1
      /\ newest' \in Nat /\ now <= newest' /\ newest <= newest'
      /\ newest <= now + Skew
  BY <1>1, Arriving
<1> HIDE DEF F, a
<1>3. a \in Keys /\ r \in Flow
  BY <1>1, <1>2 DEF TableOK, Tracked, Flow
<1> QED BY <1>1, <1>2, <1>3, Touching

LEMMA CloseKeepsTable ==
    ASSUME IInv, NEW k \in Keys, NEW now \in 0..MaxTime, CloseFlow(k, now)
    PROVE  TableOK(flows', packetsSeen', newest')
<1> DEFINE F == Without(flows, Swept(now))
           a == ActiveKey(F, k)
<1>1. Arrive(now, F) /\ flows' = Without(F, {a})
  BY DEF CloseFlow
<1>2. /\ TableOK(F, packetsSeen, newest)
      /\ packetsSeen \in Nat /\ newest \in Nat
      /\ packetsSeen' = packetsSeen + 1
      /\ newest' \in Nat /\ newest <= newest'
  BY <1>1, Arriving
<1> HIDE DEF F, a
<1>3. TableOK(flows', packetsSeen, newest)
  BY <1>1, <1>2, Removing
<1>4. TouchesIn(flows', packetsSeen + 1, newest')
  BY <1>2, <1>3 DEF TableOK, TouchesIn, Tracked, Flow
<1> QED BY <1>2, <1>3, <1>4 DEF TableOK

LEMMA RestartKeepsTable ==
    ASSUME IInv, NEW k \in Keys, NEW now \in 0..MaxTime, RestartFlow(k, now)
    PROVE  TableOK(flows', packetsSeen', newest')
<1> DEFINE F == Without(flows, Swept(now))
           a == ActiveKey(F, k)
           G == Without(F, {a})
<1>1. /\ Arrive(now, F) /\ a \in Tracked(F)
      /\ flows' = [G EXCEPT ![k] = Started(now)]
  BY DEF RestartFlow
<1>2. /\ TableOK(F, packetsSeen, newest)
      /\ now \in Nat /\ packetsSeen \in Nat /\ newest \in Nat
      /\ packetsSeen' = packetsSeen + 1
      /\ newest' \in Nat /\ now <= newest' /\ newest <= newest'
      /\ newest <= now + Skew
  BY <1>1, Arriving
<1> HIDE DEF F
<1>3. /\ F \in [Keys -> Flow]
      /\ OneDirectionIn(F)
      /\ Cardinality(Tracked(F)) <= Capacity
  BY <1>2 DEF TableOK
<1>4. TableOK(G, packetsSeen, newest) /\ Cardinality(Tracked(G)) < Capacity
  BY <1>1, <1>2, <1>3, Removing, RemovingOne
<1>5. Reverse[k] \notin Tracked(G)
  <2>1. Tracked(G) = Tracked(F) \ {a}
    BY <1>3, WithoutTable
  <2> QED BY <1>3, <2>1 DEF ActiveKey, OneDirectionIn
<1> HIDE DEF G
<1> QED BY <1>1, <1>2, <1>4, <1>5, StartedFlow, Touching

\* The table is in order in every reachable state.
LEMMA InitIInv == Init => IInv
<1> SUFFICES ASSUME Init
             PROVE  IInv
  OBVIOUS
<1>1. flows \in [Keys -> Flow] /\ Tracked(flows) = {}
  BY DEF Init, NoFlow, Flow, Tracked
<1>2. Cardinality(Tracked(flows)) <= Capacity
  BY <1>1, ConstantsOK, FS_EmptySet DEF Capacity
<1>3. /\ OneDirectionIn(flows)
      /\ RoughlyLRUIn(flows)
      /\ TouchesIn(flows, packetsSeen, newest)
  BY <1>1 DEF OneDirectionIn, RoughlyLRUIn, TouchesIn
<1> QED BY <1>1, <1>2, <1>3 DEF Init, IInv, TypeOK, TableOK

LEMMA NextIInv == IInv /\ [Next]_vars => IInv'
<1> SUFFICES ASSUME IInv, [Next]_vars
             PROVE  IInv'
  OBVIOUS
<1>1. CASE UNCHANGED vars
  BY <1>1 DEF vars, IInv, TypeOK, TableOK, OneDirectionIn, RoughlyLRUIn,
              TouchesIn, Tracked
<1>2. ASSUME NEW k \in Keys, NEW now \in 0..MaxTime,
             \/ StartFlow(k, now) \/ ExtendFlow(k, now)
             \/ CloseFlow(k, now) \/ RestartFlow(k, now)
      PROVE  IInv'
  <2> DEFINE F == Without(flows, Swept(now))
             a == ActiveKey(F, k)
  <2>1. TableOK(flows', packetsSeen', newest')
    BY <1>2, StartKeepsTable, ExtendKeepsTable, CloseKeepsTable,
       RestartKeepsTable
  <2>2. Arrive(now, F)
    BY <1>2 DEF StartFlow, ExtendFlow, CloseFlow, RestartFlow
  <2>3. /\ TableOK(F, packetsSeen, newest)
        /\ packetsSeen \in Nat /\ packetsSeen' \in Nat /\ newest' \in Nat
    BY <2>2, Arriving
  <2>4. /\ flows \in [Keys -> Flow] /\ F \in [Keys -> Flow]
        /\ emitted \subseteq Nat /\ dropped \subseteq Nat
        /\ closing \subseteq Nat
    BY <2>3 DEF IInv, TypeOK, TableOK
  <2>5. /\ SweptPackets(now) \subseteq Nat
        /\ \A j \in Tracked(F) : F[j].packets \subseteq Nat
    BY <2>4 DEF SweptPackets, Packets, Swept, Stale, Tracked, Flow
  <2> HIDE DEF F
  <2>6. output' \subseteq Keys
    BY <1>2 DEF StartFlow, ExtendFlow, CloseFlow, Emit,
           RestartFlow, Tracked, F
  <2>7. emitted' \subseteq Nat
    BY <1>2, <2>4, <2>5 DEF StartFlow, ExtendFlow, CloseFlow, Emit,
           RestartFlow, F
  <2>8. dropped' \subseteq Nat
    BY <1>2, <2>4, <2>5 DEF StartFlow, ExtendFlow, CloseFlow,
           RestartFlow, IsOldest, F
  <2>9. closing' \subseteq Nat
    <3>1. closing' \in {closing, closing \cup {packetsSeen + 1}}
      BY <1>2 DEF StartFlow, ExtendFlow, CloseFlow, RestartFlow
    <3> QED BY <2>3, <2>4, <3>1
  <2> QED BY <2>1, <2>3, <2>6, <2>7, <2>8, <2>9 DEF IInv, TypeOK, TableOK
<1> QED BY <1>1, <1>2 DEF Next, ProcessPacket

\* The types, and with them the shape of every flow, hold throughout.
THEOREM TypeCorrect == Spec => []TypeOK
<1>1. IInv => TypeOK
  BY DEF IInv
<1> QED BY <1>1, InitIInv, NextIInv, PTL DEF Spec

\* current_flows never holds more than max_flows flows.
THEOREM TableIsBounded == Spec => []BoundedTable
<1>1. IInv => BoundedTable
  BY DEF IInv, TableOK, BoundedTable
<1> QED BY <1>1, InitIInv, NextIInv, PTL DEF Spec

\* No conversation is ever tracked under both of its ids.
THEOREM TableHasOneDirection == Spec => []OneDirection
<1>1. IInv => OneDirection
  BY DEF IInv, TableOK, OneDirection
<1> QED BY <1>1, InitIInv, NextIInv, PTL DEF Spec

\* The dictionary is in last-seen order up to the disorder of timestamps.
THEOREM TableIsRoughlyLRU == Spec => []RoughlyLRU
<1>1. IInv => RoughlyLRU
  BY DEF IInv, TableOK, RoughlyLRU
<1> QED BY <1>1, InitIInv, NextIInv, PTL DEF Spec

-----------------------------------------------------------------------------
\* A flow the sweep takes was touched before every flow it leaves.
LEMMA SweptBeforeKept ==
    ASSUME IInv, NEW now \in Nat,
           NEW j \in Stale(flows, now),
           NEW k \in Tracked(flows) \ Stale(flows, now)
    PROVE  flows[j].touched < flows[k].touched
<1>1. PICK i \in Tracked(flows) :
          flows[i].touched <= flows[k].touched /\ ~Idle(flows, i, now)
  BY DEF Stale
<1>2. j \in Tracked(flows) /\ ~(flows[i].touched <= flows[j].touched)
  BY <1>1 DEF Stale
<1>3. \A m \in Tracked(flows) : flows[m].touched \in Nat
  BY DEF IInv, TypeOK, Tracked, Flow
<1> QED BY <1>1, <1>2, <1>3

\* Without an event, flows leave by the sweep, or one of them for being the
\* oldest of those the sweep left.  A flow that stays as it was, was not
\* swept.
LEMMA HowFlowsLeave ==
    ASSUME IInv, NEW p \in Keys, NEW now \in 0..MaxTime,
           \/ StartFlow(p, now) \/ ExtendFlow(p, now)
           \/ CloseFlow(p, now) \/ RestartFlow(p, now),
           NEW j \in Tracked(flows) \ Tracked(flows'), j \notin output',
           NEW k \in Tracked(flows), flows'[k] = flows[k]
    PROVE  /\ k \notin Swept(now)
           /\ \/ j \in Swept(now)
              \/ j # k /\ flows[j].touched <= flows[k].touched
<1> DEFINE S == Swept(now)
           F == Without(flows, S)
           a == ActiveKey(F, p)
<1>1. /\ flows \in [Keys -> Flow] /\ packetsSeen \in Nat
      /\ \A m \in Tracked(flows) : /\ flows[m].touched \in Nat
                                  /\ flows[m].touched <= packetsSeen
                                  /\ flows[m].touched # 0
  BY DEF IInv, TypeOK, TableOK, TouchesIn, Tracked, Flow
<1>2. /\ F \in [Keys -> Flow]
      /\ Tracked(F) = Tracked(flows) \ S
      /\ \A m \in Tracked(F) : F[m] = flows[m]
      /\ \A m \in S \cap Keys : F[m] = NoFlow
  <2> HIDE DEF S
  <2>1. \A m \in S \cap Keys : F[m] = NoFlow
    BY DEF Without
  <2> QED BY <1>1, <2>1, WithoutTable
<1> HIDE DEF S, F, a
<1>3. j \in Keys /\ k \in Keys /\ flows'[j].touched = 0 /\ j # k
  BY <1>1 DEF Tracked
<1>4. /\ Started(now).touched = packetsSeen + 1
      /\ NoFlow.touched = 0
  BY DEF Started, NoFlow
<1>5. CASE StartFlow(p, now) /\ flows' = [F EXCEPT ![p] = Started(now)]
  <2>1. k \notin S
    BY <1>1, <1>2, <1>3, <1>4, <1>5
  <2>2. j \in S
    BY <1>1, <1>2, <1>3, <1>4, <1>5
  <2> QED BY <2>1, <2>2 DEF S
<1>6. ASSUME NEW old \in Keys, IsOldest(F, old),
             flows' = [Without(F, {old}) EXCEPT ![p] = Started(now)]
      PROVE  /\ k \notin S
             /\ j \in S \/ (j # k /\ flows[j].touched <= flows[k].touched)
  <2>1. \A m \in Keys \ {p} :
            flows'[m] = IF m = old THEN NoFlow ELSE F[m]
    BY <1>2, <1>6 DEF Without
  <2>2. flows'[p] = Started(now)
    BY <1>2, <1>6 DEF Without
  <2>3. k # p /\ k # old /\ k \notin S /\ j # p
    BY <1>1, <1>2, <1>3, <1>4, <2>1, <2>2
  <2>4. k \in Tracked(F)
    BY <1>2, <2>3
  <2>5. j \in S \/ j = old
    BY <1>1, <1>2, <1>3, <2>1, <2>3
  <2> QED BY <1>2, <1>3, <1>6, <2>3, <2>4, <2>5 DEF IsOldest
<1>7. CASE ExtendFlow(p, now)
  <2> DEFINE new == [touched |-> packetsSeen + 1, lastSeen |-> now,
                     packets |-> F[a].packets \cup {packetsSeen + 1}]
  <2>1. flows' = [F EXCEPT ![a] = new]
    BY <1>7 DEF ExtendFlow, Extended, F, S, a
  <2>2. new.touched = packetsSeen + 1
    OBVIOUS
  <2> HIDE DEF new
  <2> QED BY <1>1, <1>2, <1>3, <1>4, <2>1, <2>2 DEF S
<1>8. CASE CloseFlow(p, now)
  <2>1. flows' = Without(F, {a}) /\ j # a
    BY <1>8 DEF CloseFlow, Emit, F, S, a
  <2>2. \A m \in Keys : flows'[m] = IF m = a THEN NoFlow ELSE F[m]
    BY <2>1 DEF Without
  <2> QED BY <1>1, <1>2, <1>3, <1>4, <2>1, <2>2 DEF S
<1>9. CASE RestartFlow(p, now)
  <2>1. flows' = [Without(F, {a}) EXCEPT ![p] = Started(now)] /\ j # a
    BY <1>9 DEF RestartFlow, Emit, F, S, a
  <2>2. \A m \in Keys \ {p} : flows'[m] = IF m = a THEN NoFlow ELSE F[m]
    BY <2>1 DEF Without
  <2>3. flows'[p] = Started(now)
    BY <2>1 DEF Without
  <2>4. k \notin S
    BY <1>1, <1>2, <1>3, <1>4, <2>2, <2>3
  <2>5. j # p
    BY <1>1, <1>3, <1>4, <2>3
  <2>6. F[j].touched = 0
    BY <1>3, <2>1, <2>2, <2>5
  <2> QED BY <1>1, <1>2, <1>3, <2>4, <2>6 DEF S
<1> QED BY <1>5, <1>6, <1>7, <1>8, <1>9 DEF StartFlow, F, S

\* Whatever the sweep and the capacity drop without an event was at least as
\* idle as what they keep.
THEOREM DropsAreTheIdlest == Spec => DropsTheIdlest
<1> DEFINE A == \A j \in Tracked(flows) \ Tracked(flows') :
                  \/ j \in output'
                  \/ \A k \in Tracked(flows) :
                        flows'[k] = flows[k] =>
                        flows[j].lastSeen <= flows[k].lastSeen + Skew
<1>1. IInv /\ [Next]_vars => [A]_vars
  <2> SUFFICES ASSUME IInv, NEW p \in Keys, NEW now \in 0..MaxTime,
                      \/ StartFlow(p, now) \/ ExtendFlow(p, now)
                      \/ CloseFlow(p, now) \/ RestartFlow(p, now),
                      NEW j \in Tracked(flows) \ Tracked(flows'),
                      j \notin output',
                      NEW k \in Tracked(flows), flows'[k] = flows[k]
               PROVE  flows[j].lastSeen <= flows[k].lastSeen + Skew
    BY DEF Next, ProcessPacket
  <2>1. now \in Nat
    BY ConstantsOK
  <2>2. /\ k \notin Swept(now)
        /\ \/ j \in Swept(now)
           \/ j # k /\ flows[j].touched <= flows[k].touched
    BY HowFlowsLeave
  <2>3. flows[j].touched < flows[k].touched
    <3>1. CASE j \in Swept(now)
      BY <2>1, <2>2, <3>1, SweptBeforeKept DEF Swept
    <3>2. CASE j # k /\ flows[j].touched <= flows[k].touched
      <4>1. flows[j].touched \in Nat /\ flows[k].touched \in Nat
        BY DEF IInv, TypeOK, Tracked, Flow
      <4>2. flows[j].touched # flows[k].touched
        BY <3>2 DEF IInv, TableOK, TouchesIn
      <4> QED BY <3>2, <4>1, <4>2
    <3> QED BY <2>2, <3>1, <3>2
  <2> QED BY <2>3 DEF IInv, TableOK, RoughlyLRUIn
<1> QED BY <1>1, InitIInv, NextIInv, PTL DEF Spec, DropsTheIdlest

\* A flow the sweep leaves was seen, up to Skew, less than a timeout before.
LEMMA KeptIsFresh ==
    ASSUME IInv, NEW now \in Nat,
           NEW k \in Tracked(flows) \ Stale(flows, now)
    PROVE  flows[k].lastSeen + Skew + Timeout > now
<1>1. PICK i \in Tracked(flows) :
          flows[i].touched <= flows[k].touched /\ ~Idle(flows, i, now)
  BY DEF Stale
<1>2. /\ flows[i].touched \in Nat /\ flows[k].touched \in Nat
      /\ flows[i].lastSeen \in Nat /\ flows[k].lastSeen \in Nat
      /\ Skew \in Nat /\ Timeout \in Nat
  BY <1>1, ConstantsOK DEF IInv, TypeOK, Tracked, Flow
<1>3. flows[i].lastSeen <= flows[k].lastSeen + Skew
  <2>1. CASE flows[i].touched < flows[k].touched
    BY <1>1, <2>1 DEF IInv, TableOK, RoughlyLRUIn
  <2>2. CASE flows[i].touched = flows[k].touched
    <3>1. i = k
      BY <1>1, <2>2 DEF IInv, TableOK, TouchesIn
    <3> QED BY <1>2, <3>1
  <2> QED BY <1>1, <1>2, <2>1, <2>2
<1> QED BY <1>1, <1>2, <1>3 DEF Idle

\* After a step, a tracked flow is one the sweep left, as it was, or was
\* touched by the packet.
LEMMA TrackedAfter ==
    ASSUME IInv, NEW p \in Keys, NEW now \in 0..MaxTime,
           \/ StartFlow(p, now) \/ ExtendFlow(p, now)
           \/ CloseFlow(p, now) \/ RestartFlow(p, now),
           NEW k \in Tracked(flows')
    PROVE  \/ flows'[k].lastSeen = now
           \/ /\ k \in Tracked(flows) \ Swept(now)
              /\ flows'[k] = flows[k]
<1> DEFINE S == Swept(now)
           F == Without(flows, S)
           a == ActiveKey(F, p)
<1>1. /\ F \in [Keys -> Flow]
      /\ Tracked(F) = Tracked(flows) \ S
      /\ \A m \in Tracked(F) : F[m] = flows[m]
  BY WithoutTable DEF IInv, TypeOK
<1>2. k \in Keys /\ flows'[k].touched # 0
  BY DEF Tracked
<1>3. Started(now).lastSeen = now /\ NoFlow.touched = 0
  BY DEF Started, NoFlow
<1>4. F[k] = flows'[k] => k \in Tracked(F)
  BY <1>2 DEF Tracked
<1> HIDE DEF S, F, a
<1>5. \A G \in {F} \cup {Without(F, {x}) : x \in Keys} :
          G[k] \in {F[k], NoFlow} /\ DOMAIN G = Keys
  BY <1>1, <1>2 DEF Without
<1>6. ASSUME NEW G \in {F} \cup {Without(F, {x}) : x \in Keys},
             \/ flows' = G
             \/ flows' = [G EXCEPT ![p] = Started(now)]
      PROVE  flows'[k].lastSeen = now \/ flows'[k] = F[k]
  BY <1>2, <1>3, <1>5, <1>6
<1>7. CASE ExtendFlow(p, now)
  <2>1. flows' = [F EXCEPT ![a] = [touched |-> packetsSeen + 1,
                                   lastSeen |-> now,
                                   packets |-> F[a].packets
                                               \cup {packetsSeen + 1}]]
    BY <1>7 DEF ExtendFlow, Extended, F, S, a
  <2>2. flows'[k].lastSeen = now \/ flows'[k] = F[k]
    BY <1>1, <1>2, <2>1
  <2> QED BY <1>1, <1>4, <2>2 DEF S
<1>8. CASE StartFlow(p, now) \/ CloseFlow(p, now) \/ RestartFlow(p, now)
  <2>1. PICK G \in {F} \cup {Without(F, {x}) : x \in Keys} :
            flows' = G \/ flows' = [G EXCEPT ![p] = Started(now)]
    BY <1>8 DEF StartFlow, CloseFlow, RestartFlow, Tracked, F, S, a
  <2> QED BY <1>1, <1>4, <1>6, <2>1 DEF S
<1> QED BY <1>7, <1>8

\* A sweep leaves no flow that was idle for a timeout, up to the disorder of
\* the timestamps.
THEOREM SweepsAreComplete == Spec => SweepIsComplete
<1> DEFINE A == packetsSeen' # packetsSeen /\ packetsSeen' % SweepEvery = 0 =>
                  \A k \in Tracked(flows') :
                      flows'[k].lastSeen + Timeout + 2 * Skew > newest'
<1>1. IInv /\ IInv' /\ [Next]_vars => [A]_vars
  <2> SUFFICES ASSUME IInv, IInv', NEW p \in Keys, NEW now \in 0..MaxTime,
                      \/ StartFlow(p, now) \/ ExtendFlow(p, now)
                      \/ CloseFlow(p, now) \/ RestartFlow(p, now),
                      packetsSeen' % SweepEvery = 0,
                      NEW k \in Tracked(flows')
               PROVE  flows'[k].lastSeen + Timeout + 2 * Skew > newest'
    BY DEF Next, ProcessPacket
  <2>1. Arrive(now, Without(flows, Swept(now)))
    BY DEF StartFlow, ExtendFlow, CloseFlow, RestartFlow
  <2>2. /\ now \in Nat /\ newest' \in Nat /\ newest' <= now + Skew
        /\ packetsSeen' = packetsSeen + 1
        /\ Skew \in Nat /\ Timeout \in Nat /\ Timeout > 0
    BY <2>1, ConstantsOK DEF Arrive, IInv, TypeOK
  <2>3. flows'[k].lastSeen \in Nat
    BY DEF IInv, TypeOK, Tracked, Flow
  <2>4. CASE flows'[k].lastSeen = now
    BY <2>2, <2>4
  <2>5. CASE k \in Tracked(flows) \ Swept(now) /\ flows'[k] = flows[k]
    <3>1. Swept(now) = Stale(flows, now)
      BY <2>2 DEF Swept
    <3>2. flows'[k].lastSeen + Skew + Timeout > now
      BY <2>2, <2>5, <3>1, KeptIsFresh
    <3> QED BY <2>2, <2>3, <3>2
  <2> QED BY <2>4, <2>5, TrackedAfter
<1> QED BY <1>1, InitIInv, NextIInv, PTL DEF Spec, SweepIsComplete

-----------------------------------------------------------------------------
\* The books of a table: every packet in one place, and nothing left behind
\* under a key that is not tracked.
BooksOK(F, em, dr, cl, seen) ==
    /\ PacketsAccountedIn(F, em, dr, cl, seen)
    /\ \A k \in Keys : k \notin Tracked(F) => F[k].packets = {}

\* What is in Packets(F, S).
LEMMA PacketsMember ==
    ASSUME NEW F, NEW S, NEW x
    PROVE  x \in Packets(F, S) <=> \E k \in S : x \in F[k].packets
BY DEF Packets

\* The packets of one flow.
LEMMA PacketsOfOne ==
    ASSUME NEW F, NEW a
    PROVE  Packets(F, {a}) = F[a].packets
<1>1. \A x : x \in Packets(F, {a}) <=> x \in F[a].packets
  BY PacketsMember
<1> QED BY <1>1, Zenon

\* Dropping flows moves their packets to the dropped ones.
LEMMA BooksDrop ==
    ASSUME NEW F \in [Keys -> Flow], NEW S \in SUBSET Keys,
           NEW em, NEW dr, NEW cl, NEW seen \in Nat,
           BooksOK(F, em, dr, cl, seen)
    PROVE  BooksOK(Without(F, S), em, dr \cup Packets(F, S), cl, seen)
<1> DEFINE G == Without(F, S)
<1>1. \A k \in Keys : G[k].packets = IF k \in S THEN {} ELSE F[k].packets
  BY DEF Without, NoFlow
<1>2. Tracked(G) = Tracked(F) \ S
  BY WithoutTable
<1> HIDE DEF G
<1>3. Packets(G, Keys) \cup Packets(F, S) = Packets(F, Keys)
  BY <1>1, PacketsMember
<1>4. \A k \in Keys \ S : F[k].packets \cap Packets(F, S) = {}
  BY PacketsMember DEF BooksOK, PacketsAccountedIn
<1>5. Packets(F, S) \cap (em \cup dr \cup cl) = {}
  BY PacketsMember DEF BooksOK, PacketsAccountedIn
<1>6. 1..seen = Packets(G, Keys) \cup em \cup (dr \cup Packets(F, S)) \cup cl
  BY <1>3 DEF BooksOK, PacketsAccountedIn
<1>7. /\ em \cap (dr \cup Packets(F, S)) = {} /\ em \cap cl = {}
      /\ (dr \cup Packets(F, S)) \cap cl = {}
  BY <1>5 DEF BooksOK, PacketsAccountedIn
<1>8. \A k \in Keys :
          G[k].packets \cap (em \cup (dr \cup Packets(F, S)) \cup cl) = {}
  BY <1>1, <1>4 DEF BooksOK, PacketsAccountedIn
<1>9. \A j, k \in Keys : j # k => G[j].packets \cap G[k].packets = {}
  BY <1>1 DEF BooksOK, PacketsAccountedIn
<1>10. \A k \in Keys : k \notin Tracked(G) => G[k].packets = {}
  BY <1>1, <1>2 DEF BooksOK
<1> QED BY <1>6, <1>7, <1>8, <1>9, <1>10 DEF BooksOK, PacketsAccountedIn, G

\* Emitting a flow moves its packets to the emitted ones.
LEMMA BooksEmit ==
    ASSUME NEW F \in [Keys -> Flow], NEW a \in Keys,
           NEW em, NEW dr, NEW cl, NEW seen \in Nat,
           BooksOK(F, em, dr, cl, seen)
    PROVE  BooksOK(Without(F, {a}), em \cup F[a].packets, dr, cl, seen)
<1>1. BooksOK(F, dr, em, cl, seen)
  BY DEF BooksOK, PacketsAccountedIn
<1>2. Packets(F, {a}) = F[a].packets
  BY PacketsOfOne
<1>3. BooksOK(Without(F, {a}), dr, em \cup F[a].packets, cl, seen)
  BY <1>1, <1>2, BooksDrop
<1> QED BY <1>3 DEF BooksOK, PacketsAccountedIn

\* The next packet joins, or starts, one flow.
LEMMA BooksTouch ==
    ASSUME NEW F \in [Keys -> Flow], NEW k \in Keys, NEW r \in Flow,
           NEW em, NEW dr, NEW cl, NEW seen \in Nat,
           BooksOK(F, em, dr, cl, seen),
           r.touched # 0, r.packets = F[k].packets \cup {seen + 1}
    PROVE  BooksOK([F EXCEPT ![k] = r], em, dr, cl, seen + 1)
<1> DEFINE G == [F EXCEPT ![k] = r]
           p == seen + 1
<1>1. G[k] = r /\ \A j \in Keys \ {k} : G[j] = F[j]
  OBVIOUS
<1>2. Tracked(G) = Tracked(F) \cup {k}
  BY <1>1 DEF Tracked
<1>3. p \notin 1..seen /\ 1..p = (1..seen) \cup {p}
  OBVIOUS
<1> HIDE DEF G, p
<1>4. r.packets = F[k].packets \cup {p}
  BY DEF p
<1>5. /\ p \notin em \cup dr \cup cl
      /\ \A j \in Keys : p \notin F[j].packets
  BY <1>3, PacketsMember DEF BooksOK, PacketsAccountedIn
<1>6. Packets(G, Keys) = Packets(F, Keys) \cup {p}
  BY <1>1, <1>4, PacketsMember
<1>7. 1..p = Packets(G, Keys) \cup em \cup dr \cup cl
  BY <1>3, <1>6 DEF BooksOK, PacketsAccountedIn
<1>8. \A j \in Keys : G[j].packets \cap (em \cup dr \cup cl) = {}
  BY <1>1, <1>4, <1>5 DEF BooksOK, PacketsAccountedIn
<1>9. \A i, j \in Keys : i # j => G[i].packets \cap G[j].packets = {}
  BY <1>1, <1>4, <1>5 DEF BooksOK, PacketsAccountedIn
<1>10. \A j \in Keys : j \notin Tracked(G) => G[j].packets = {}
  BY <1>1, <1>2 DEF BooksOK
<1> QED BY <1>7, <1>8, <1>9, <1>10 DEF BooksOK, PacketsAccountedIn, G, p

\* A packet that only closes a flow is in none.
LEMMA BooksClose ==
    ASSUME NEW F \in [Keys -> Flow],
           NEW em, NEW dr, NEW cl, NEW seen \in Nat,
           BooksOK(F, em, dr, cl, seen)
    PROVE  BooksOK(F, em, dr, cl \cup {seen + 1}, seen + 1)
<1> DEFINE p == seen + 1
<1>1. p \notin 1..seen /\ 1..p = (1..seen) \cup {p}
  OBVIOUS
<1> HIDE DEF p
<1>2. /\ p \notin em \cup dr \cup cl
      /\ \A j \in Keys : p \notin F[j].packets
  BY <1>1, PacketsMember DEF BooksOK, PacketsAccountedIn
<1>3. BooksOK(F, em, dr, cl \cup {p}, p)
  BY <1>1, <1>2 DEF BooksOK, PacketsAccountedIn
<1> QED BY <1>3 DEF p

\* Every packet is in one place: a tracked flow, an event, the drops, or it
\* closed a flow.
THEOREM PacketsAreAccounted == Spec => []PacketsAccounted
<1> DEFINE Books == BooksOK(flows, emitted, dropped, closing, packetsSeen)
<1>1. Init => Books
  <2> SUFFICES ASSUME Init
               PROVE  Books
    OBVIOUS
  <2>1. /\ emitted = {} /\ dropped = {} /\ closing = {} /\ 1..packetsSeen = {}
        /\ \A k \in Keys : flows[k].packets = {}
    BY DEF Init, NoFlow
  <2>2. Packets(flows, Keys) = {}
    BY <2>1, PacketsMember
  <2> QED BY <2>1, <2>2 DEF BooksOK, PacketsAccountedIn
<1>2. IInv /\ Books /\ [Next]_vars => Books'
  <2> SUFFICES ASSUME IInv, Books, [Next]_vars
               PROVE  Books'
    OBVIOUS
  <2>1. CASE UNCHANGED vars
    BY <2>1 DEF vars, BooksOK, PacketsAccountedIn, Packets, Tracked
  <2>2. ASSUME NEW k \in Keys, NEW now \in 0..MaxTime,
               \/ StartFlow(k, now) \/ ExtendFlow(k, now)
               \/ CloseFlow(k, now) \/ RestartFlow(k, now)
        PROVE  Books'
    <3> DEFINE F == Without(flows, Swept(now))
               a == ActiveKey(F, k)
               dr == dropped \cup SweptPackets(now)
    <3>1. Arrive(now, F)
      BY <2>2 DEF StartFlow, ExtendFlow, CloseFlow, RestartFlow
    <3>2. /\ flows \in [Keys -> Flow] /\ F \in [Keys -> Flow]
          /\ packetsSeen \in Nat /\ packetsSeen' = packetsSeen + 1
          /\ now \in Nat /\ OneDirectionIn(F)
      BY <3>1, Arriving DEF IInv, TypeOK, TableOK
    <3>3. Swept(now) \in SUBSET Keys
      BY DEF Swept, Stale, Tracked
    <3>4. BooksOK(F, emitted, dr, closing, packetsSeen)
      BY <3>2, <3>3, BooksDrop DEF SweptPackets
    <3>5. /\ Started(now) \in Flow /\ Started(now).touched # 0
          /\ Started(now).packets = {packetsSeen + 1}
      BY <3>2 DEF Started, Flow
    <3> HIDE DEF F, a, dr
    <3>6. CASE StartFlow(k, now)
      <4>1. /\ k \notin Tracked(F) /\ F[k].packets = {}
            /\ UNCHANGED <<emitted, closing>>
        BY <3>4, <3>6 DEF StartFlow, Unknown, BooksOK, F
      <4>2. CASE /\ flows' = [F EXCEPT ![k] = Started(now)]
                 /\ dropped' = dr
        BY <3>2, <3>4, <3>5, <4>1, <4>2, BooksTouch
      <4>3. ASSUME NEW old \in Keys,
                   flows' = [Without(F, {old}) EXCEPT ![k] = Started(now)],
                   dropped' = dr \cup F[old].packets
            PROVE  Books'
        <5>1. Packets(F, {old}) = F[old].packets
          BY PacketsOfOne
        <5>2. BooksOK(Without(F, {old}), emitted, dr \cup F[old].packets,
                      closing, packetsSeen)
          BY <3>2, <3>4, <5>1, BooksDrop
        <5>3. Without(F, {old})[k].packets = {}
          BY <4>1 DEF Without, NoFlow
        <5>4. Without(F, {old}) \in [Keys -> Flow]
          BY <3>2, WithoutTable
        <5> QED BY <3>2, <3>5, <4>1, <4>3, <5>2, <5>3, <5>4, BooksTouch
      <4> QED BY <3>6, <4>2, <4>3 DEF StartFlow, F, dr
    <3>7. CASE ExtendFlow(k, now)
      <4> DEFINE r == [touched |-> packetsSeen + 1, lastSeen |-> now,
                       packets |-> F[a].packets \cup {packetsSeen + 1}]
      <4>1. /\ a \in Tracked(F) /\ flows' = [F EXCEPT ![a] = r]
            /\ dropped' = dr /\ UNCHANGED <<emitted, closing>>
        BY <3>7 DEF ExtendFlow, Extended, F, a, dr
      <4>2. /\ a \in Keys /\ r \in Flow /\ r.touched # 0
            /\ r.packets = F[a].packets \cup {packetsSeen + 1}
        BY <3>2, <4>1 DEF Tracked, Flow
      <4> HIDE DEF r
      <4> QED BY <3>2, <3>4, <4>1, <4>2, BooksTouch
    <3>8. CASE CloseFlow(k, now)
      <4>1. /\ a \in Keys /\ flows' = Without(F, {a})
            /\ emitted' = emitted \cup F[a].packets
            /\ dropped' = dr /\ closing' = closing \cup {packetsSeen + 1}
        BY <3>8 DEF CloseFlow, Emit, F, a, dr, Tracked
      <4>2. Without(F, {a}) \in [Keys -> Flow]
        BY <3>2, WithoutTable
      <4>3. BooksOK(Without(F, {a}), emitted', dr, closing, packetsSeen)
        BY <3>2, <3>4, <4>1, BooksEmit
      <4> QED BY <3>2, <4>1, <4>2, <4>3, BooksClose
    <3>9. CASE RestartFlow(k, now)
      <4>1. /\ a \in Tracked(F) /\ a \in Keys
            /\ flows' = [Without(F, {a}) EXCEPT ![k] = Started(now)]
            /\ emitted' = emitted \cup F[a].packets
            /\ dropped' = dr /\ closing' = closing
        BY <3>9 DEF RestartFlow, Emit, F, a, dr, Tracked
      <4>2. Without(F, {a}) \in [Keys -> Flow]
        BY <3>2, WithoutTable
      <4>3. BooksOK(Without(F, {a}), emitted', dr, closing, packetsSeen)
        BY <3>2, <3>4, <4>1, BooksEmit
      <4>4. k \notin Tracked(Without(F, {a}))
        BY <3>2, WithoutTable DEF ActiveKey, a
      <4>5. Without(F, {a})[k].packets = {}
        BY <4>3, <4>4 DEF BooksOK
      <4> QED BY <3>2, <3>5, <4>1, <4>2, <4>3, <4>5, BooksTouch
    <3> QED BY <2>2, <3>6, <3>7, <3>8, <3>9
  <2> QED BY <2>1, <2>2 DEF Next, ProcessPacket
<1>3. Books => PacketsAccounted
  BY DEF BooksOK, PacketsAccounted
<1> QED BY <1>1, <1>2, <1>3, InitIInv, NextIInv, PTL DEF Spec

-----------------------------------------------------------------------------
(* The worker *)

\* A packet is in hand as soon as the first one was taken.
PacketInHand == pc = "yield" \/ packet \in Packet

LEMMA PacketInHandInvariant == WorkerSpec => []PacketInHand
<1>1. WorkerInit => PacketInHand
  BY DEF WorkerInit, PacketInHand
<1>2. PacketInHand /\ [WorkerNext]_workerVars => PacketInHand'
  <2> SUFFICES ASSUME PacketInHand, [WorkerNext]_workerVars
               PROVE  PacketInHand'
    OBVIOUS
  <2>1. ASSUME NEW p \in Packet, Take(p)
        PROVE  PacketInHand'
    BY <2>1 DEF Take, PacketInHand
  <2>2. CASE Fold \/ Publish \/ PublishRaises \/ Ack \/ AckRaises
    BY <2>2 DEF Fold, Publish, PublishRaises, Ack, AckRaises, PacketInHand
  <2>3. CASE PublishDlq \/ AckDlq
    BY <2>3 DEF PublishDlq, AckDlq, PacketInHand
  <2>4. CASE UNCHANGED workerVars
    BY <2>4 DEF workerVars, loopVars, PacketInHand
  <2> QED BY <2>1, <2>2, <2>3, <2>4 DEF WorkerNext
<1> QED BY <1>1, <1>2, PTL DEF WorkerSpec

\* Every step of the worker is a step of FlowTable or leaves the table alone:
\* a retry is one more call of process_packet, whatever failed before it.
THEOREM WorkerImplementsTable == WorkerSpec => TableKeepsItsSpec
<1>1. WorkerInit => Init
  BY DEF WorkerInit
<1>2. PacketInHand /\ [WorkerNext]_workerVars => [Next]_vars
  <2> SUFFICES ASSUME PacketInHand, [WorkerNext]_workerVars
               PROVE  [Next]_vars
    OBVIOUS
  <2>1. CASE Fold
    <3>1. /\ packet.key \in Keys /\ packet.time \in 0..MaxTime
          /\ packet.ends \in BOOLEAN
      BY <2>1 DEF Fold, PacketInHand, Packet
    <3>2. ProcessPacket(packet.key, packet.time, packet.ends)
      BY <2>1 DEF Fold
    <3> QED BY <3>1, <3>2 DEF Next
  <2>2. ASSUME NEW p \in Packet, Take(p)
        PROVE  UNCHANGED vars
    BY <2>2 DEF Take
  <2>3. CASE Publish \/ PublishRaises \/ Ack \/ AckRaises
    BY <2>3 DEF Publish, PublishRaises, Ack, AckRaises
  <2>4. CASE PublishDlq \/ AckDlq
    BY <2>4 DEF PublishDlq, AckDlq
  <2>5. CASE UNCHANGED workerVars
    BY <2>5 DEF workerVars
  <2> QED BY <2>1, <2>2, <2>3, <2>4, <2>5 DEF WorkerNext
<1> QED
  BY <1>1, <1>2, PacketInHandInvariant, PTL
     DEF WorkerSpec, Spec, TableKeepsItsSpec

\* So a worker's table stays within its capacity, never tracks a
\* conversation twice and accounts for every packet, retries included.
THEOREM WorkerTableIsSound ==
    WorkerSpec => [](BoundedTable /\ OneDirection /\ PacketsAccounted)
BY WorkerImplementsTable, TableIsBounded, TableHasOneDirection,
   PacketsAreAccounted, PTL DEF TableKeepsItsSpec

\* No call of process_packet takes back what an earlier one emitted.
LEMMA EmittedGrows ==
    ASSUME NEW k, NEW now, NEW ends, ProcessPacket(k, now, ends)
    PROVE  emitted \subseteq emitted'
BY DEF ProcessPacket, StartFlow, ExtendFlow, CloseFlow, RestartFlow, Emit

\* What has been published was emitted, and the event in hand is new.
SentInv ==
    /\ sent \in Seq(SUBSET emitted)
    /\ SentOnce
    /\ pc = "publish" =>
           /\ event \subseteq emitted
           /\ \A a \in 1..Len(sent) : sent[a] \cap event = {}

LEMMA Appended ==
    ASSUME SentInv, pc = "publish", sent' = Append(sent, event),
           emitted' = emitted
    PROVE  /\ sent' \in Seq(SUBSET emitted')
           /\ SentOnce'
<1>1. /\ sent \in Seq(SUBSET emitted) /\ event \in SUBSET emitted
      /\ \A a \in 1..Len(sent) : sent[a] \cap event = {}
  BY DEF SentInv
<1>2. /\ sent' \in Seq(SUBSET emitted')
      /\ Len(sent') = Len(sent) + 1 /\ Len(sent) \in Nat
      /\ \A a \in 1..Len(sent) : sent'[a] = sent[a]
      /\ sent'[Len(sent) + 1] = event
  BY <1>1
<1>3. ASSUME NEW a \in 1..Len(sent'), NEW b \in 1..Len(sent'), a # b
      PROVE  sent'[a] \cap sent'[b] = {}
  <2>1. CASE a \in 1..Len(sent) /\ b \in 1..Len(sent)
    BY <1>2, <1>3, <2>1 DEF SentInv, SentOnce
  <2>2. CASE a = Len(sent) + 1 /\ b \in 1..Len(sent)
    BY <1>1, <1>2, <2>2
  <2>3. CASE b = Len(sent) + 1 /\ a \in 1..Len(sent)
    BY <1>1, <1>2, <2>3
  <2> QED BY <1>2, <1>3, <2>1, <2>2, <2>3
<1> QED BY <1>2, <1>3 DEF SentOnce

\* A packet comes out of the flow builder in one event at most, however often
\* its message is retried and whichever publishes fail, applied or not.
THEOREM WorkerSendsOnce == WorkerSpec => []SentOnce
<1>1. WorkerInit => SentInv
  BY DEF WorkerInit, SentInv, SentOnce
<1>2. SentInv /\ [WorkerNext]_workerVars => SentInv'
  <2> SUFFICES ASSUME SentInv, [WorkerNext]_workerVars
               PROVE  SentInv'
    OBVIOUS
  <2>1. ASSUME NEW p \in Packet, Take(p)
        PROVE  SentInv'
    BY <2>1 DEF Take, vars, SentInv, SentOnce
  <2>2. CASE Fold
    <3>1. /\ emitted \subseteq emitted' /\ sent' = sent
          /\ event' = emitted' \ emitted
      BY <2>2, EmittedGrows DEF Fold
    <3>2. sent \in Seq(SUBSET emitted)
      BY DEF SentInv
    <3>3. \A a \in 1..Len(sent) : sent[a] \subseteq emitted
      BY <3>2
    <3>4. sent \in Seq(SUBSET emitted')
      <4>1. SUBSET emitted \subseteq SUBSET emitted'
        BY <3>1
      <4> QED BY <3>2, <4>1
    <3>5. \A a \in 1..Len(sent) : sent[a] \cap event' = {}
      BY <3>1, <3>3
    <3> QED BY <3>1, <3>4, <3>5 DEF SentInv, SentOnce
  <2>3. CASE Publish
    <3>1. SentInv /\ pc = "publish" /\ sent' = Append(sent, event)
          /\ emitted' = emitted /\ pc' = "ack"
      BY <2>3 DEF Publish, vars
    <3> QED BY <3>1, Appended DEF SentInv
  <2>4. CASE PublishRaises
    <3>1. /\ pc = "publish" /\ emitted' = emitted
          /\ pc' \in {"fold", "dlq"}
      BY <2>4 DEF PublishRaises, NextAttempt, vars
    <3>2. CASE sent' = Append(sent, event)
      BY <3>1, <3>2, Appended DEF SentInv
    <3>3. CASE sent' = sent
      BY <3>1, <3>3 DEF SentInv, SentOnce
    <3> QED BY <2>4, <3>2, <3>3 DEF PublishRaises
  <2>5. CASE Ack \/ AckRaises \/ PublishDlq \/ AckDlq
    <3>1. /\ UNCHANGED <<sent, emitted, event>>
          /\ pc' # "publish"
      BY <2>5
         DEF Ack, AckRaises, PublishDlq, AckDlq, NextAttempt, vars
    <3> QED BY <3>1 DEF SentInv, SentOnce
  <2>6. CASE UNCHANGED workerVars
    BY <2>6 DEF workerVars, loopVars, vars, SentInv, SentOnce
  <2> QED BY <2>1, <2>2, <2>3, <2>4, <2>5, <2>6 DEF WorkerNext
<1>3. SentInv => SentOnce
  BY DEF SentInv
<1> QED BY <1>1, <1>2, <1>3, PTL DEF WorkerSpec

-----------------------------------------------------------------------------
(* What a retry costs *)

\* The calls of process_packet made for message m.
FoldsOf(m) == {n \in 1..packetsSeen : messageOf[n] = m}

\* A packet to be folded next is counted already.
Owed == IF pc = "fold" THEN 1 ELSE 0

\* What was built and is neither in the stream nor in hand.
Lost == {e \in events \ Sent : ~(pc = "publish" /\ e = event)}

\* The inductive invariant: every fold is paid for by a message or a failed
\* call, and those of the message in hand by its attempts.
CostInv ==
    /\ WorkerTypeOK
    /\ pc # "yield" =>
           /\ taken >= 1 /\ attempt >= 1
           /\ Cardinality(FoldsOf(taken)) + Owed <= attempt
    /\ packetsSeen + Owed <= taken + faults
    /\ \A m \in 1..taken : Cardinality(FoldsOf(m)) <= Attempts
    /\ IsFiniteSet(events)
    /\ Cardinality(Lost) <= faults

\* The table is sound in every state of the worker.
TableInv == packetsSeen \in Nat /\ PacketsAccounted

\* What a step of the loop may do to the loop's own numbers.
LEMMA LoopStep ==
  ASSUME CostInv, TableInv, [WorkerNext]_workerVars, ~Fold,
         \A p \in Packet : ~Take(p)
  PROVE  /\ UNCHANGED <<packetsSeen, emitted, taken, event, messageOf,
                        events, packet>>
         /\ pc' \in {"yield", "fold", "publish", "ack", "dlq", "dlqack",
                     "dead"}
         /\ attempt' \in 0..Attempts /\ faults' \in 0..MaxFaults
         /\ dlq' \subseteq 1..taken
         /\ sent' = sent \/ (pc = "publish" /\ sent' = Append(sent, event))
         /\ pc' # "yield" => pc # "yield"
         /\ pc' # "yield" => attempt' >= attempt
         /\ faults' \in {faults, faults + 1}
         /\ pc' = "fold" => \/ UNCHANGED <<pc, attempt, faults>>
                            \/ /\ pc # "fold" /\ attempt' = attempt + 1
                               /\ faults' = faults + 1
         /\ pc' = "publish" => pc = "publish"
<1>1. /\ MaxMessages \in Nat /\ MaxFaults \in Nat /\ Attempts \in Nat
      /\ pc \in {"yield", "fold", "publish", "ack", "dlq", "dlqack",
                 "dead"}
      /\ taken \in Nat /\ attempt \in 0..Attempts
      /\ faults \in 0..MaxFaults /\ dlq \subseteq 1..taken
      /\ pc # "yield" => taken >= 1
  BY WorkerConstantsOK
  DEF CostInv, WorkerTypeOK, WorkerConstantsOK, Attempts
<1>0. CASE Publish
  BY <1>0, <1>1 DEF Publish, vars
<1>2. CASE Ack \/ UNCHANGED workerVars
  <2>1. /\ \/ pc = "ack" /\ pc' = "yield"
           \/ pc' = pc
        /\ UNCHANGED <<packetsSeen, emitted, taken, event, messageOf, events,
                       packet, attempt, dlq, sent, faults>>
    BY <1>2 DEF Ack, workerVars, loopVars, vars
  <2> QED BY <1>1, <2>1
<1>3. Fault => faults' \in 0..MaxFaults /\ faults' = faults + 1
  BY <1>1 DEF Fault
<1>4. NextAttempt =>
          /\ pc' \in {"fold", "dlq"}
          /\ attempt' \in 0..Attempts /\ attempt' >= attempt
          /\ pc' = "fold" => attempt' = attempt + 1
  BY <1>1 DEF NextAttempt
<1>5. CASE PublishRaises
  BY <1>1, <1>3, <1>4, <1>5 DEF PublishRaises, vars
<1>6. CASE AckRaises
  BY <1>1, <1>3, <1>4, <1>6 DEF AckRaises, vars
<1>7. CASE PublishDlq
  <2>1. /\ pc = "dlq" /\ pc' = "dlqack" /\ dlq' = dlq \cup {taken}
        /\ UNCHANGED <<packetsSeen, emitted, taken, event, messageOf, events,
                       packet, attempt, faults, sent>>
    BY <1>7 DEF PublishDlq, vars
  <2>2. taken \in 1..taken
    BY <1>1, <2>1
  <2> QED BY <1>1, <2>1, <2>2
<1>8. CASE AckDlq
  <2>1. /\ pc = "dlqack" /\ pc' \in {"yield", "dead"}
        /\ faults' = faults \/ Fault
        /\ UNCHANGED <<packetsSeen, emitted, taken, event, messageOf, events,
                       packet, attempt, dlq, sent>>
    BY <1>8 DEF AckDlq, vars
  <2> QED BY <1>1, <1>3, <2>1
<1> QED BY <1>0, <1>2, <1>5, <1>6, <1>7, <1>8 DEF WorkerNext

\* What a fold adds: a packet number, and a message for it.
LEMMA FoldStep ==
  ASSUME CostInv, TableInv, TableInv', Fold
  PROVE  /\ packetsSeen' = packetsSeen + 1
         /\ event' \subseteq 1..(packetsSeen + 1)
         /\ messageOf' \in [1..(packetsSeen + 1) -> 1..taken]
         /\ \A n \in 1..packetsSeen : messageOf'[n] = messageOf[n]
         /\ messageOf'[packetsSeen + 1] = taken
         /\ pc = "fold" /\ taken \in 1..taken
<1>1. packetsSeen' = packetsSeen + 1 /\ packetsSeen \in Nat
  BY DEF Fold, ProcessPacket, StartFlow, ExtendFlow, CloseFlow, RestartFlow,
         Arrive, TableInv
<1>2. event' \subseteq 1..(packetsSeen + 1)
  BY <1>1 DEF Fold, TableInv, PacketsAccounted, PacketsAccountedIn
<1>3. pc = "fold" /\ taken \in 1..taken
  BY DEF Fold, CostInv, WorkerTypeOK
<1>4. messageOf \in [1..packetsSeen -> 1..taken]
  BY DEF CostInv, WorkerTypeOK
<1>5. messageOf \in Seq(1..taken) /\ Len(messageOf) = packetsSeen
  <2>1. messageOf \in Seq(1..taken)
    BY <1>1, <1>4, SeqDef
  <2> QED BY <1>1, <1>4, <2>1, LenProperties
<1>6. /\ messageOf' \in Seq(1..taken) /\ Len(messageOf') = packetsSeen + 1
      /\ \A n \in 1..packetsSeen : messageOf'[n] = messageOf[n]
      /\ messageOf'[packetsSeen + 1] = taken
  BY <1>3, <1>5 DEF Fold
<1>7. messageOf' \in [1..(packetsSeen + 1) -> 1..taken]
  BY <1>6, LenProperties
<1> QED BY <1>1, <1>2, <1>3, <1>6, <1>7

\* The types of the loop.
LEMMA WorkerTypeStep ==
  ASSUME CostInv, TableInv, TableInv', [WorkerNext]_workerVars
  PROVE  WorkerTypeOK'
<1>0. /\ MaxMessages \in Nat /\ taken \in 0..MaxMessages
      /\ packetsSeen \in Nat
      /\ sent \in Seq(SUBSET (1..packetsSeen))
      /\ event \subseteq 1..packetsSeen
      /\ dlq \subseteq 1..taken
      /\ messageOf \in [1..packetsSeen -> 1..taken]
      /\ events \subseteq SUBSET (1..packetsSeen)
      /\ packet \in Packet
  BY WorkerConstantsOK DEF CostInv, WorkerTypeOK, WorkerConstantsOK, TableInv
<1>1. CASE Fold
  <2>1. 1..packetsSeen \subseteq 1..packetsSeen'
    BY <1>0, <1>1, FoldStep
  <2>2. sent' \in Seq(SUBSET (1..packetsSeen'))
    <3>1. SUBSET (1..packetsSeen) \subseteq SUBSET (1..packetsSeen')
      BY <2>1
    <3> QED BY <1>0, <1>1, <3>1, SeqMonotonic DEF Fold
  <2>3. /\ pc' \in {"ack", "publish"}
        /\ events' \subseteq events \cup {event'}
        /\ UNCHANGED <<packet, taken, attempt, dlq, faults>>
    BY <1>1 DEF Fold
  <2>4. /\ event' \subseteq 1..packetsSeen'
        /\ messageOf' \in [1..packetsSeen' -> 1..taken]
    BY <1>1, FoldStep
  <2>5. events' \subseteq SUBSET (1..packetsSeen')
    BY <1>0, <2>1, <2>3, <2>4
  <2> QED BY <2>2, <2>3, <2>4, <2>5 DEF CostInv, WorkerTypeOK
<1>2. ASSUME NEW p \in Packet, Take(p) PROVE WorkerTypeOK'
  <2>1. /\ pc' = "fold" /\ attempt' = 1 /\ packet' = p /\ taken' = taken + 1
        /\ taken' \in 0..MaxMessages
        /\ UNCHANGED <<packetsSeen, event, sent, dlq, faults, messageOf,
                       events>>
    BY <1>0, <1>2 DEF Take, vars
  <2>2. 1..taken \subseteq 1..taken'
    BY <1>0, <2>1
  <2>3. messageOf \in [1..packetsSeen -> 1..taken']
    BY <1>0, <2>2
  <2>4. 1 \in 0..Attempts
    BY WorkerConstantsOK DEF WorkerConstantsOK, Attempts
  <2> QED
    BY <1>0, <2>1, <2>2, <2>3, <2>4 DEF CostInv, WorkerTypeOK
<1>3. CASE ~Fold /\ \A p \in Packet : ~Take(p)
  <2>1. sent' \in Seq(SUBSET (1..packetsSeen))
    <3>1. Append(sent, event) \in Seq(SUBSET (1..packetsSeen))
      BY <1>0
    <3> QED BY <1>0, <1>3, <3>1, LoopStep
  <2> QED BY <1>0, <1>3, <2>1, LoopStep DEF WorkerTypeOK
<1> QED BY <1>1, <1>2, <1>3

\* The packets folded for a message.
LEMMA FoldsFinite ==
  ASSUME TableInv, NEW m
  PROVE  IsFiniteSet(FoldsOf(m)) /\ Cardinality(FoldsOf(m)) \in Nat
<1>1. IsFiniteSet(1..packetsSeen)
  BY FS_Interval DEF TableInv
<1> QED BY <1>1, FS_Subset, FS_CardinalityType DEF FoldsOf

\* One more fold owed is one more failed call.
LEMMA StillPaid ==
  ASSUME NEW seen \in Nat, NEW t \in Nat, NEW f \in Nat, NEW g \in Nat,
         NEW o \in {0, 1}, NEW p \in {0, 1},
         seen + o <= t + f, f <= g,
         p = 1 => o = 1 \/ (o = 0 /\ g = f + 1)
  PROVE  seen + p <= t + g
OBVIOUS

\* The count of the folds.
LEMMA FoldsStep ==
  ASSUME CostInv, TableInv, TableInv', [WorkerNext]_workerVars
  PROVE  /\ pc' # "yield" =>
                /\ taken' >= 1 /\ attempt' >= 1
                /\ (Cardinality(FoldsOf(taken)) + Owed)' <= attempt'
         /\ (packetsSeen + Owed <= taken + faults)'
         /\ \A m \in 1..taken' : Cardinality(FoldsOf(m))' <= Attempts
<1>0. /\ packetsSeen \in Nat /\ taken \in Nat /\ faults \in Nat
      /\ attempt \in Nat /\ Attempts \in Nat /\ attempt <= Attempts
      /\ Owed \in {0, 1} /\ Attempts >= 1
      /\ messageOf \in [1..packetsSeen -> 1..taken]
      /\ \A m : Cardinality(FoldsOf(m)) \in Nat
  BY WorkerConstantsOK, FoldsFinite
  DEF CostInv, WorkerTypeOK, WorkerConstantsOK, Attempts, TableInv, Owed
<1>1. CASE Fold
  <2>1. /\ packetsSeen' = packetsSeen + 1 /\ taken' = taken
        /\ attempt' = attempt /\ faults' = faults
        /\ Owed = 1 /\ Owed' = 0 /\ taken \in 1..taken
    BY <1>1, FoldStep DEF Fold, Owed
  <2>2. /\ FoldsOf(taken)' = FoldsOf(taken) \cup {packetsSeen + 1}
        /\ packetsSeen + 1 \notin FoldsOf(taken)
    <3>1. \A n : n \in FoldsOf(taken)' <=>
                     n \in FoldsOf(taken) \/ n = packetsSeen + 1
      BY <1>0, <1>1, <2>1, FoldStep DEF FoldsOf
    <3> QED BY <1>0, <3>1 DEF FoldsOf
  <2>3. Cardinality(FoldsOf(taken))' = Cardinality(FoldsOf(taken)) + 1
    BY <2>2, FoldsFinite, FS_AddElement
  <2>4. \A m \in 1..taken : m # taken => FoldsOf(m)' = FoldsOf(m)
    <3> SUFFICES ASSUME NEW m \in 1..taken, m # taken
                 PROVE  FoldsOf(m)' = FoldsOf(m)
      OBVIOUS
    <3>1. \A n : n \in FoldsOf(m)' <=> n \in FoldsOf(m)
      BY <1>0, <1>1, <2>1, FoldStep DEF FoldsOf
    <3> QED BY <3>1
  <2>5. Cardinality(FoldsOf(taken)) + 1 <= attempt /\ pc # "yield"
    BY <1>1, <2>1 DEF CostInv, Fold
  <2>6. ASSUME NEW m \in 1..taken
        PROVE  Cardinality(FoldsOf(m)') <= Attempts
    <3>1. CASE m = taken
      <4>1. FoldsOf(m)' = FoldsOf(taken)'
        BY <2>1, <3>1 DEF FoldsOf
      <4> QED BY <1>0, <2>3, <2>5, <4>1
    <3>2. CASE m # taken
      BY <2>4, <3>2 DEF CostInv
    <3> QED BY <3>1, <3>2
  <2> QED
    BY <1>0, <2>1, <2>3, <2>5, <2>6 DEF CostInv
<1>2. ASSUME NEW p \in Packet, Take(p)
      PROVE  /\ taken' >= 1 /\ attempt' >= 1
             /\ (Cardinality(FoldsOf(taken)) + Owed)' <= attempt'
             /\ (packetsSeen + Owed <= taken + faults)'
             /\ \A m \in 1..taken' : Cardinality(FoldsOf(m))' <= Attempts
  <2>1. /\ packetsSeen' = packetsSeen /\ taken' = taken + 1
        /\ attempt' = 1 /\ faults' = faults /\ messageOf' = messageOf
        /\ Owed = 0 /\ Owed' = 1
    BY <1>2 DEF Take, Owed, vars
  <2>2. \A m : FoldsOf(m)' = FoldsOf(m)
    BY <2>1 DEF FoldsOf
  <2>3. FoldsOf(taken') = {}
    BY <1>0, <2>1 DEF FoldsOf
  <2>4. Cardinality(FoldsOf(taken)') = 0
    <3>1. FoldsOf(taken)' = {}
      BY <2>1, <2>3 DEF FoldsOf
    <3> QED BY <3>1, FS_EmptySet
  <2>5. ASSUME NEW m \in 1..taken'
        PROVE  Cardinality(FoldsOf(m)') <= Attempts
    <3>1. CASE m = taken + 1
      <4>1. FoldsOf(m)' = {}
        BY <2>1, <2>3, <3>1 DEF FoldsOf
      <4> QED BY <1>0, <4>1, FS_EmptySet
    <3>2. CASE m \in 1..taken
      BY <2>2, <3>2 DEF CostInv
    <3> QED BY <1>0, <2>1, <3>1, <3>2
  <2> QED BY <1>0, <2>1, <2>4, <2>5 DEF CostInv
<1>3. CASE ~Fold /\ \A p \in Packet : ~Take(p)
  <2>1. /\ UNCHANGED <<packetsSeen, taken, messageOf>>
        /\ pc' # "yield" => pc # "yield" /\ attempt' >= attempt
        /\ faults' \in {faults, faults + 1} /\ attempt' \in Nat
        /\ pc' = "fold" => \/ UNCHANGED <<pc, attempt, faults>>
                           \/ /\ pc # "fold" /\ attempt' = attempt + 1
                              /\ faults' = faults + 1
    BY <1>3, LoopStep
  <2>2. \A m : FoldsOf(m)' = FoldsOf(m)
    BY <2>1 DEF FoldsOf
  <2>3. FoldsOf(taken)' = FoldsOf(taken)
    BY <2>1 DEF FoldsOf
  <2>4. /\ Owed' \in {0, 1}
        /\ Owed' = 1 => \/ Owed = 1 /\ UNCHANGED <<attempt, faults>>
                        \/ /\ Owed = 0 /\ attempt' = attempt + 1
                           /\ faults' = faults + 1
    BY <2>1 DEF Owed
  <2>5. \A m \in 1..taken' : Cardinality(FoldsOf(m)') <= Attempts
    BY <2>1, <2>2 DEF CostInv
  <2>6. /\ pc # "yield" =>
               /\ taken >= 1 /\ attempt >= 1
               /\ Cardinality(FoldsOf(taken)) + Owed <= attempt
        /\ packetsSeen + Owed <= taken + faults
    BY DEF CostInv
  <2>7. pc' # "yield" => Cardinality(FoldsOf(taken)) + Owed' <= attempt'
    BY <1>0, <2>1, <2>4, <2>6
  <2>8. packetsSeen + Owed' <= taken + faults'
    <3>1. /\ packetsSeen \in Nat /\ taken \in Nat /\ faults \in Nat
          /\ Owed \in {0, 1} /\ packetsSeen + Owed <= taken + faults
      BY <1>0, <2>6
    <3>2. /\ faults' \in {faults, faults + 1} /\ Owed' \in {0, 1}
          /\ Owed' = 1 => Owed = 1 \/ (Owed = 0 /\ faults' = faults + 1)
      BY <2>1, <2>4
    <3>3. faults' \in Nat /\ faults <= faults'
      BY <3>1, <3>2
    <3> QED BY <3>1, <3>2, <3>3, StillPaid
  <2>9. pc' # "yield" => taken >= 1 /\ attempt' >= 1
    BY <1>0, <2>1, <2>6
  <2> QED BY <2>1, <2>3, <2>5, <2>7, <2>8, <2>9
<1> QED BY <1>1, <1>2, <1>3

\* Publishing adds the event to those sent.
LEMMA SentGrows ==
  ASSUME NEW T, sent \in Seq(T), sent' = Append(sent, event)
  PROVE  Sent \cup {event} \subseteq Sent'
<1>1. /\ Len(sent) \in Nat /\ Len(sent') = Len(sent) + 1
      /\ \A n \in 1..Len(sent) : sent'[n] = sent[n]
      /\ sent'[Len(sent) + 1] = event
  OBVIOUS
<1>2. /\ Len(sent) + 1 \in 1..Len(sent')
      /\ \A n \in 1..Len(sent) : n \in 1..Len(sent')
  BY <1>1
<1> QED BY <1>1, <1>2 DEF Sent

\* The events that are lost: one more only by a publish that fails.
LEMMA LossStep ==
  ASSUME CostInv, TableInv, [WorkerNext]_workerVars
  PROVE  IsFiniteSet(events)' /\ (Cardinality(Lost) <= faults)'
<1>0. /\ IsFiniteSet(events) /\ faults \in Nat /\ Cardinality(Lost) <= faults
      /\ sent \in Seq(SUBSET (1..packetsSeen))
  BY DEF CostInv, WorkerTypeOK
<1>1. IsFiniteSet(Lost) /\ Cardinality(Lost) \in Nat
  BY <1>0, FS_Subset, FS_CardinalityType DEF Lost
<1>2. ASSUME Lost' \subseteq Lost, faults' \in {faults, faults + 1}
      PROVE  (Cardinality(Lost) <= faults)'
  <2>1. Cardinality(Lost') <= Cardinality(Lost) /\ Cardinality(Lost') \in Nat
    BY <1>1, <1>2, FS_Subset, FS_CardinalityType
  <2> QED BY <1>0, <1>1, <1>2, <2>1
<1>3. CASE Fold
  <2>1. /\ pc = "fold" /\ sent' = sent /\ faults' = faults
        /\ \/ pc' = "ack" /\ events' = events
           \/ pc' = "publish" /\ events' = events \cup {event'}
    BY <1>3 DEF Fold
  <2>2. Sent' = Sent
    BY <2>1 DEF Sent
  <2>3. Lost' \subseteq Lost
    BY <2>1, <2>2 DEF Lost
  <2>4. IsFiniteSet(events')
    BY <1>0, <2>1, FS_AddElement
  <2> QED BY <1>2, <2>1, <2>3, <2>4
<1>4. ASSUME NEW p \in Packet, Take(p)
      PROVE  IsFiniteSet(events)' /\ (Cardinality(Lost) <= faults)'
  <2>1. /\ pc = "yield" /\ pc' = "fold"
        /\ UNCHANGED <<events, sent, event, faults>>
    BY <1>4 DEF Take
  <2>2. Lost' \subseteq Lost
    BY <2>1 DEF Lost, Sent
  <2> QED BY <1>0, <1>2, <2>1, <2>2
<1>5. CASE Publish
  <2>1. /\ pc = "publish" /\ pc' = "ack" /\ sent' = Append(sent, event)
        /\ UNCHANGED <<events, event, faults>>
    BY <1>5 DEF Publish
  <2>2. Sent \cup {event} \subseteq Sent'
    BY <1>0, <2>1, SentGrows
  <2>3. Lost' \subseteq Lost
    BY <2>1, <2>2 DEF Lost
  <2> QED BY <1>0, <1>2, <2>1, <2>3
<1>6. CASE PublishRaises
  <2>1. /\ pc = "publish" /\ pc' # "publish" /\ faults' = faults + 1
        /\ sent' = sent \/ sent' = Append(sent, event)
        /\ UNCHANGED <<events, event>>
    BY <1>6 DEF PublishRaises, Fault, NextAttempt
  <2>2. Sent \subseteq Sent'
    BY <1>0, <2>1, SentGrows DEF Sent
  <2>3. Lost' \subseteq Lost \cup {event}
    BY <2>1, <2>2 DEF Lost
  <2>4. /\ IsFiniteSet(Lost \cup {event})
        /\ Cardinality(Lost \cup {event}) <= Cardinality(Lost) + 1
        /\ Cardinality(Lost \cup {event}) \in Nat
    <3>1. /\ IsFiniteSet(Lost \cup {event})
          /\ \/ Cardinality(Lost \cup {event}) = Cardinality(Lost)
             \/ Cardinality(Lost \cup {event}) = Cardinality(Lost) + 1
      BY <1>1, FS_AddElement
    <3> QED BY <1>1, <3>1
  <2>5. /\ Cardinality(Lost') <= Cardinality(Lost \cup {event})
        /\ Cardinality(Lost') \in Nat
    BY <2>3, <2>4, FS_Subset, FS_CardinalityType
  <2> QED BY <1>0, <1>1, <2>1, <2>4, <2>5
<1>7. CASE \/ Ack \/ AckRaises \/ PublishDlq \/ AckDlq
           \/ UNCHANGED workerVars
  <2>1. /\ UNCHANGED <<events, sent, event>>
        /\ faults' \in {faults, faults + 1}
        /\ pc' = pc \/ pc # "publish"
    BY <1>7
    DEF Ack, AckRaises, PublishDlq, AckDlq, Fault, workerVars, loopVars
  <2>2. pc = "publish" => pc' = "publish"
    BY <2>1
  <2>3. Lost' \subseteq Lost
    BY <2>1, <2>2 DEF Lost, Sent
  <2> QED BY <1>0, <1>2, <2>1, <2>3
<1> QED BY <1>3, <1>4, <1>5, <1>6, <1>7 DEF WorkerNext

LEMMA TableInvHolds == WorkerSpec => []TableInv
<1>1. WorkerSpec => []TypeOK
  BY WorkerImplementsTable, TypeCorrect, PTL DEF TableKeepsItsSpec
<1>2. TypeOK /\ PacketsAccounted => TableInv
  BY DEF TypeOK, TableInv
<1> QED BY <1>1, <1>2, WorkerTableIsSound, PTL

\* The costs hold in every state of the worker.
LEMMA CostInvHolds == WorkerSpec => []CostInv
<1>2. WorkerInit => CostInv
  <2> SUFFICES ASSUME WorkerInit PROVE CostInv
    OBVIOUS
  <2>1. packet \in Packet
    <3>1. PICK k \in Keys : TRUE
      BY WorkerConstantsOK DEF WorkerConstantsOK
    <3>2. [key |-> k, time |-> 0, ends |-> TRUE] \in Packet
      BY ConstantsOK DEF Packet, ConstantsOK
    <3> QED BY <3>2 DEF WorkerInit
  <2>2. /\ pc = "yield" /\ packetsSeen = 0 /\ taken = 0 /\ faults = 0
        /\ attempt = 0 /\ sent = <<>> /\ event = {} /\ dlq = {}
        /\ messageOf = <<>> /\ events = {}
    BY DEF WorkerInit, Init
  <2>3. 1..0 = {} /\ Attempts \in Nat /\ MaxMessages \in Nat
        /\ MaxFaults \in Nat
    BY WorkerConstantsOK DEF WorkerConstantsOK, Attempts
  <2>4. messageOf \in [1..packetsSeen -> 1..taken]
    <3>1. <<>> \in Seq(1..0) /\ Len(<<>>) = 0
      BY EmptySeq
    <3>2. <<>> \in [1..Len(<<>>) -> 1..0]
      BY <3>1, LenProperties
    <3> QED BY <2>2, <3>1, <3>2
  <2>5. WorkerTypeOK
    BY <2>1, <2>2, <2>3, <2>4 DEF WorkerTypeOK
  <2>6. Lost = {} /\ Owed = 0
    BY <2>2 DEF Lost, Owed
  <2>7. IsFiniteSet({}) /\ Cardinality({}) = 0
    BY FS_EmptySet
  <2> QED BY <2>2, <2>3, <2>5, <2>6, <2>7 DEF CostInv
<1>3. CostInv /\ TableInv /\ TableInv' /\ [WorkerNext]_workerVars => CostInv'
  BY WorkerTypeStep, FoldsStep, LossStep DEF CostInv
<1> QED BY <1>2, <1>3, TableInvHolds, PTL DEF WorkerSpec

\* Type correctness of the loop, whose last event and whose published events
\* consist of packets that were processed.
THEOREM WorkerTypeCorrect == WorkerSpec => []WorkerTypeOK
BY CostInvHolds, PTL DEF CostInv

\* The table sees a packet once, and again only for a call that failed.
THEOREM FoldsAreCounted == WorkerSpec => []FoldsPaidByFaults
<1>1. CostInv /\ TableInv => FoldsPaidByFaults
  <2> SUFFICES ASSUME CostInv, TableInv PROVE FoldsPaidByFaults
    OBVIOUS
    <2>1. packetsSeen <= taken + faults
    <3>1. packetsSeen + Owed <= taken + faults /\ Owed \in {0, 1}
      BY DEF CostInv, Owed
    <3>2. packetsSeen \in Nat /\ taken \in Nat /\ faults \in Nat
      BY WorkerConstantsOK
      DEF CostInv, WorkerTypeOK, WorkerConstantsOK, TableInv
    <3>3. CASE Owed = 0
      BY <3>1, <3>3, <3>2
    <3>4. CASE Owed = 1
      BY <3>1, <3>4, <3>2
    <3> QED BY <3>1, <3>3, <3>4
  <2> QED BY <2>1 DEF CostInv, FoldsPaidByFaults, FoldsOf
<1> QED BY <1>1, CostInvHolds, TableInvHolds, PTL

\* No event is lost without a publish that failed.
THEOREM LossIsCounted == WorkerSpec => []LossPaidByFaults
<1>1. CostInv => LossPaidByFaults
  BY DEF CostInv, LossPaidByFaults, Lost
<1> QED BY <1>1, CostInvHolds, PTL
=============================================================================
