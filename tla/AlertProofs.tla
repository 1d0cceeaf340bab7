---------------------------- MODULE AlertProofs ----------------------------
(***************************************************************************)
(* Proofs about what becomes of an alert once it is written: the live      *)
(* stream (AlertStream), for every number of alerts, writers and failures  *)
(* and every cap of the catch-up query, and the readers of attack_logs     *)
(* (AlertsQuery), for every page size, retention and set of labels.        *)
(*                                                                         *)
(* That a missed alert has a cause needs to know, while a connection       *)
(* lasts, what lies ahead of the cursor: an alert that was dealt with is   *)
(* in hand or has its cause already, and so has one that lies before       *)
(* something in hand, because ids reach the browser in the order of the    *)
(* query, or in the order in which they were pushed.                       *)
(*                                                                         *)
(* That scrolling shows each alert once needs to know, between two pages,  *)
(* on which side of the cursor each one is: what was not given yet is      *)
(* behind it and what was given is not, but for inverted rows.             *)
(***************************************************************************)
EXTENDS AlertStream, AlertsQuery, FiniteSetTheorems, TLAPS

Causes == late \cup unpushed \cup gap \cup unfetched

\* What the generator and the subscription hold.
HandOK ==
    /\ conn # "closed" => cursor = LastId
    /\ conn # "sending" => todo = {}
    /\ conn # "live" => inbox = <<>>
    /\ todo \subseteq Behind(cursor)
    /\ ToSet(inbox) \subseteq Committed

\* An alert ahead of the cursor that was dealt with is in hand or has its
\* cause, from the catch-up query on.
AheadOK ==
    conn \in {"sending", "live"} =>
        \A i \in Alerts :
            i > cursor /\ rows[i] = "done" =>
                i \in todo \cup ToSet(inbox) \cup Causes

\* What the rows still to be sent will pass over has its cause.
RowsOK ==
    \A h \in todo, i \in Behind(cursor) : i < h => i \in todo \cup Causes

\* What a message in the inbox will pass over has its cause or comes first.
InboxOK ==
    \A n \in 1..Len(inbox), i \in Behind(cursor) :
        i < inbox[n] =>
            i \in Causes \/ \E m \in 1..(n - 1) : inbox[m] = i

\* The inductive invariant.
IInv ==
    /\ TypeOK /\ HandOK /\ AheadOK /\ RowsOK /\ InboxOK
    /\ EventsAscend /\ PassedOverHasACause

-----------------------------------------------------------------------------
\* What Append and Tail do to what a sequence holds.
LEMMA Appending ==
  ASSUME NEW s \in Seq(Alerts), NEW i \in Alerts
  PROVE  /\ Append(s, i) \in Seq(Alerts)
         /\ ToSet(Append(s, i)) = ToSet(s) \cup {i}
         /\ Last(Append(s, i)) = i /\ Append(s, i) # <<>>
         /\ Len(Append(s, i)) = Len(s) + 1
         /\ Append(s, i)[Len(s) + 1] = i
         /\ \A n \in 1..Len(s) : Append(s, i)[n] = s[n]
<1>1. /\ Append(s, i) \in Seq(Alerts) /\ Len(s) \in Nat
      /\ Len(Append(s, i)) = Len(s) + 1
      /\ Append(s, i)[Len(s) + 1] = i
      /\ \A n \in 1..Len(s) : Append(s, i)[n] = s[n]
  OBVIOUS
<1>2. /\ DOMAIN s = 1..Len(s)
      /\ DOMAIN Append(s, i) = 1..(Len(s) + 1)
  BY <1>1
<1>3. ToSet(Append(s, i)) = ToSet(s) \cup {i}
  BY <1>1, <1>2 DEF ToSet
<1> QED BY <1>1, <1>3 DEF Last

LEMMA Tailing ==
  ASSUME NEW s \in Seq(Alerts), s # <<>>
  PROVE  /\ Tail(s) \in Seq(Alerts) /\ Head(s) \in Alerts
         /\ ToSet(s) = ToSet(Tail(s)) \cup {Head(s)}
         /\ Len(Tail(s)) = Len(s) - 1 /\ Len(s) \in Nat \ {0}
         /\ Head(s) = s[1]
         /\ \A n \in 1..Len(Tail(s)) : Tail(s)[n] = s[n + 1]
<1>1. /\ Tail(s) \in Seq(Alerts) /\ Head(s) \in Alerts
      /\ Len(Tail(s)) = Len(s) - 1 /\ Len(s) \in Nat \ {0}
      /\ Head(s) = s[1]
      /\ \A n \in 1..Len(Tail(s)) : Tail(s)[n] = s[n + 1]
  OBVIOUS
<1>2. DOMAIN s = 1..Len(s) /\ DOMAIN Tail(s) = 1..(Len(s) - 1)
  BY <1>1
<1>3. ASSUME NEW n \in 1..Len(s), n # 1
      PROVE  n - 1 \in 1..Len(Tail(s)) /\ Tail(s)[n - 1] = s[n]
  BY <1>1, <1>3
<1>4. ToSet(s) \subseteq ToSet(Tail(s)) \cup {Head(s)}
  <2> SUFFICES ASSUME NEW x \in ToSet(s), x # Head(s)
               PROVE  x \in ToSet(Tail(s))
    OBVIOUS
  <2>1. PICK n \in 1..Len(s) : s[n] = x
    BY <1>2 DEF ToSet
  <2>2. n - 1 \in DOMAIN Tail(s) /\ Tail(s)[n - 1] = x
    BY <1>1, <1>2, <1>3, <2>1
  <2> QED BY <2>2 DEF ToSet
<1>5. ToSet(Tail(s)) \cup {Head(s)} \subseteq ToSet(s)
  BY <1>1, <1>2 DEF ToSet
<1> QED BY <1>1, <1>4, <1>5

\* The last id is the largest, and one of those received.
LEMMA LastIdIsLargest ==
  ASSUME TypeOK, EventsAscend
  PROVE  /\ LastId \in 0..MaxAlerts
         /\ LastId # 0 => LastId \in ToSet(seen)
         /\ \A i \in ToSet(seen) : i <= LastId
<1>1. /\ seen \in Seq(Alerts) /\ DOMAIN seen = 1..Len(seen)
      /\ Len(seen) \in Nat /\ MaxAlerts \in Nat
      /\ \A n \in 1..Len(seen) : seen[n] \in Alerts
  BY ConstantsOK DEF TypeOK, ConstantsOK
<1>2. CASE seen = <<>>
  BY <1>1, <1>2 DEF LastId, ToSet
<1>3. CASE seen # <<>>
  <2>1. Len(seen) \in 1..Len(seen) /\ LastId = seen[Len(seen)]
    BY <1>1, <1>3 DEF LastId, Last
  <2>2. \A n \in 1..Len(seen) : seen[n] <= seen[Len(seen)]
    <3> SUFFICES ASSUME NEW n \in 1..Len(seen)
                 PROVE  seen[n] <= seen[Len(seen)]
      OBVIOUS
    <3>1. seen[n] \in Nat /\ seen[Len(seen)] \in Nat
      BY <1>1, <2>1 DEF Alerts
    <3>2. n # Len(seen) => n < Len(seen)
      <4>1. Len(seen) \in Nat
        BY <1>1
      <4> QED BY <4>1
    <3>3. n < Len(seen) => seen[n] < seen[Len(seen)]
      BY <2>1 DEF EventsAscend
    <3> QED BY <3>1, <3>2, <3>3
  <2> QED BY <1>1, <2>1, <2>2 DEF ToSet, Alerts
<1> QED BY <1>2, <1>3

\* A new event is the last one, and keeps the order if it is ahead.
LEMMA NewEvent ==
  ASSUME TypeOK, EventsAscend, NEW h \in Alerts, h > LastId,
         h \in Committed, rows' = rows, seen' = Append(seen, h)
  PROVE  /\ seen' \in Seq(Alerts)
         /\ LastId' = h /\ ToSet(seen)' = ToSet(seen) \cup {h}
         /\ EventsAscend'
<1>1. /\ seen \in Seq(Alerts) /\ Len(seen) \in Nat
      /\ DOMAIN seen = 1..Len(seen)
  BY DEF TypeOK
<1>2. /\ seen' \in Seq(Alerts) /\ seen' # <<>> /\ Last(seen') = h
      /\ ToSet(seen') = ToSet(seen) \cup {h}
      /\ Len(seen') = Len(seen) + 1 /\ seen'[Len(seen) + 1] = h
      /\ \A n \in 1..Len(seen) : seen'[n] = seen[n]
  BY <1>1, Appending
<1>3. \A n \in 1..Len(seen) : seen[n] \in Nat /\ seen[n] < h
  <2>1. \A n \in 1..Len(seen) : seen[n] \in ToSet(seen)
    BY <1>1 DEF ToSet
  <2>2. \A n \in 1..Len(seen) : seen[n] \in Alerts
    BY <1>1
  <2> QED BY <2>1, <2>2, LastIdIsLargest DEF Alerts
<1>4. ASSUME NEW a \in 1..Len(seen'), NEW b \in 1..Len(seen'), a < b
      PROVE  seen'[a] < seen'[b]
  <2>1. a \in 1..Len(seen)
    BY <1>1, <1>2, <1>4
  <2>2. CASE b \in 1..Len(seen)
    BY <1>2, <1>4, <2>1, <2>2 DEF EventsAscend
  <2>3. CASE b = Len(seen) + 1
    BY <1>2, <1>3, <2>1, <2>3
  <2> QED BY <1>1, <1>2, <2>2, <2>3
<1>5. ToSet(seen') \subseteq Committed'
  BY <1>2 DEF EventsAscend, Committed
<1> QED BY <1>2, <1>4, <1>5 DEF EventsAscend, LastId

-----------------------------------------------------------------------------
\* A committed alert stays committed.
LEMMA CommittedGrows ==
  ASSUME TypeOK, [Next]_vars
  PROVE  Committed \subseteq Committed'
<1>1. ASSUME NEW i \in Alerts, Write(i) PROVE Committed \subseteq Committed'
  BY <1>1
  DEF Write, Insert, Commit, Rollback, Push, PushLost, Committed, TypeOK
<1>2. CASE UNCHANGED rows
  BY <1>2 DEF Committed
<1> QED
  BY <1>1, <1>2
  DEF Next, Stream, Connect, CatchUp, SendRow, Subscribe, Receive,
      Disconnect, writerVars, vars

\* What the writers do keeps everything.
LEMMA WriteStep ==
  ASSUME IInv, NEW i \in Alerts, Write(i)
  PROVE  IInv'
<1>0. /\ TypeOK /\ HandOK /\ AheadOK /\ RowsOK /\ InboxOK
      /\ EventsAscend /\ PassedOverHasACause
  BY DEF IInv
<1>1. UNCHANGED <<conn, cursor, todo, seen, unfetched, LastId>>
  BY DEF Write, Insert, Commit, Rollback, Push, PushLost, readerVars, LastId
<1>2. Committed \subseteq Committed'
  <2>1. [Next]_vars
    BY DEF Next
  <2> QED BY <1>0, <2>1, CommittedGrows
<1>3. Causes \subseteq Causes'
  BY <1>1
  DEF Write, Insert, Commit, Rollback, Push, PushLost, Fanout, Causes,
      readerVars
<1>4. /\ MaxAlerts \in Nat /\ cursor \in Nat /\ LastId \in 0..MaxAlerts
      /\ inbox \in Seq(Alerts)
  BY <1>0, ConstantsOK, LastIdIsLargest DEF ConstantsOK, TypeOK
<1>5. TypeOK'
  <2>1. rows' \in [Alerts ->
                      {"absent", "open", "undone", "committed", "done"}]
    BY <1>0 DEF Write, Insert, Commit, Rollback, Push, PushLost, TypeOK
  <2>2. faults' \in 0..MaxFaults
    BY <1>0, ConstantsOK
    DEF Write, Insert, Commit, Rollback, Push, PushLost, Fault, TypeOK,
        ConstantsOK
  <2>3. inbox' \in Seq(Alerts)
    BY <1>0, Appending
    DEF Write, Insert, Commit, Rollback, Push, PushLost, Fanout, TypeOK
  <2>4. /\ late' \in SUBSET Alerts /\ unpushed' \in SUBSET Alerts
        /\ gap' \in SUBSET Alerts /\ unfetched' \in SUBSET Alerts
    <3>1. /\ late \in SUBSET Alerts /\ unpushed \in SUBSET Alerts
          /\ gap \in SUBSET Alerts /\ unfetched \in SUBSET Alerts
      BY <1>0 DEF TypeOK
    <3> QED
      BY <1>1, <3>1
      DEF Write, Insert, Commit, Rollback, Push, PushLost, Fanout
  <2> QED BY <1>0, <1>1, <2>1, <2>2, <2>3, <2>4 DEF TypeOK
<1>6. EventsAscend'
  BY <1>0, <1>1, <1>2 DEF EventsAscend
\* What becomes committed has nothing committed ahead of it, or is late.
<1>7. ASSUME NEW k \in Committed' \ Committed
      PROVE  \A h \in Committed : h > k => k \in Causes'
  <2>1. CASE Commit(i)
    <3>1. k = i
      BY <1>0, <2>1, <1>7 DEF Commit, Committed, TypeOK
    <3> QED BY <2>1, <3>1 DEF Commit, Causes
  <2>2. CASE ~Commit(i)
    BY <1>0, <2>2, <1>7
    DEF Write, Insert, Rollback, Push, PushLost, Committed, TypeOK
  <2> QED BY <2>1, <2>2
<1>8. PassedOverHasACause'
  <2> SUFFICES ASSUME NEW k \in Committed', k <= LastId, k \notin ToSet(seen)
               PROVE  k \in Causes'
    BY <1>1 DEF PassedOverHasACause, PassedOver, Causes
  <2>1. CASE k \in Committed
    BY <1>0, <1>3, <2>1 DEF PassedOverHasACause, PassedOver, Causes
  <2>2. CASE k \notin Committed
    <3>1. k \in 1..MaxAlerts /\ LastId # k
      BY <1>0, <1>4, <2>2, LastIdIsLargest
      DEF EventsAscend, Committed, Alerts
    <3>2. LastId \in Committed /\ LastId > k
      BY <1>0, <1>4, <3>1, LastIdIsLargest DEF EventsAscend
    <3> QED BY <1>7, <2>2, <3>2
  <2> QED BY <2>1, <2>2
<1>9. RowsOK'
  <2> SUFFICES ASSUME NEW h \in todo, NEW k \in Behind(cursor)', k < h
               PROVE  k \in todo \cup Causes'
    BY <1>1 DEF RowsOK
  <2>1. h \in Committed /\ k \in Committed' /\ k > cursor /\ k \in Nat
        /\ h \in Nat
    BY <1>0, <1>1 DEF HandOK, Behind, Committed, Alerts
  <2>2. CASE k \in Committed
    BY <1>0, <1>3, <2>1, <2>2 DEF RowsOK, Behind
  <2>3. CASE k \notin Committed
    BY <1>7, <2>1, <2>3
  <2> QED BY <2>2, <2>3
\* The inbox grows by a message that is pushed.
<1>10. \/ inbox' = inbox
       \/ /\ Push(i) /\ conn = "live" /\ inbox' = Append(inbox, i)
          /\ i \in Committed
  BY <1>0
  DEF Write, Insert, Commit, Rollback, Push, PushLost, Fanout, Committed
<1>11. HandOK'
  <2>1. todo' \subseteq Behind(cursor)'
    BY <1>0, <1>1, <1>2 DEF HandOK, Behind
  <2>2. ToSet(inbox') \subseteq Committed'
    <3>1. CASE inbox' = inbox
      BY <1>0, <1>2, <3>1 DEF HandOK
    <3>2. CASE inbox' = Append(inbox, i) /\ i \in Committed
      <4>1. ToSet(inbox') = ToSet(inbox) \cup {i}
        BY <1>4, <3>2, Appending
      <4> QED BY <1>0, <1>2, <3>2, <4>1 DEF HandOK
    <3> QED BY <1>10, <3>1, <3>2
  <2> QED BY <1>0, <1>1, <1>10, <2>1, <2>2 DEF HandOK
<1>12. ToSet(inbox) \subseteq ToSet(inbox')
  BY <1>4, <1>10, Appending
<1>13. AheadOK'
  <2> SUFFICES ASSUME conn \in {"sending", "live"}, NEW k \in Alerts,
                      k > cursor, rows'[k] = "done"
               PROVE  k \in todo \cup ToSet(inbox') \cup Causes'
    BY <1>1 DEF AheadOK
  <2>1. CASE rows[k] = "done"
    BY <1>0, <1>3, <1>12, <2>1 DEF AheadOK
  <2>2. CASE rows[k] # "done"
    <3>1. k = i /\ (Push(i) \/ PushLost(i))
      BY <1>0, <2>2
      DEF Write, Insert, Commit, Rollback, Push, PushLost, TypeOK
    <3>2. CASE PushLost(i)
      BY <3>1, <3>2 DEF PushLost, Causes
    <3>3. CASE Push(i) /\ conn = "sending"
      BY <3>1, <3>3 DEF Push, Fanout, Causes
    <3>4. CASE Push(i) /\ conn = "live"
      <4>1. inbox' = Append(inbox, i)
        BY <3>4 DEF Push, Fanout
      <4> QED BY <1>4, <3>1, <4>1, Appending
    <3> QED BY <3>1, <3>2, <3>3, <3>4
  <2> QED BY <2>1, <2>2
<1>14. InboxOK'
  <2> SUFFICES ASSUME NEW n \in 1..Len(inbox'), NEW k \in Behind(cursor)',
                      k < inbox'[n], k \notin Causes'
               PROVE  \E m \in 1..(n - 1) : inbox'[m] = k
    BY <1>1 DEF InboxOK
  <2>1. /\ Len(inbox) \in Nat /\ DOMAIN inbox = 1..Len(inbox)
        /\ k \in Committed' /\ k \in Alerts /\ k \in Nat /\ k > cursor
        /\ \A m \in 1..Len(inbox) : inbox'[m] = inbox[m]
    BY <1>1, <1>4, <1>10, Appending DEF Behind, Committed, Alerts
  <2>2. CASE n \in 1..Len(inbox)
    <3>1. inbox[n] \in Committed /\ inbox[n] \in Nat /\ inbox'[n] = inbox[n]
      <4>1. inbox[n] \in ToSet(inbox)
        BY <2>1, <2>2 DEF ToSet
      <4>2. inbox[n] \in Committed
        BY <1>0, <4>1 DEF HandOK
      <4> QED BY <2>1, <2>2, <4>2 DEF Committed, Alerts
    <3>2. k \in Committed
      BY <1>7, <2>1, <3>1
    <3>3. PICK m \in 1..(n - 1) : inbox[m] = k
      BY <1>0, <1>3, <2>1, <2>2, <3>1, <3>2 DEF InboxOK, Behind
    <3> QED BY <2>1, <2>2, <3>3
  <2>3. CASE n \notin 1..Len(inbox)
    <3>1. /\ Push(i) /\ conn = "live" /\ n = Len(inbox) + 1
          /\ inbox'[n] = i
      BY <1>4, <1>10, <2>1, <2>3, Appending
    <3>2. k # i /\ rows'[k] = rows[k] /\ rows[k] \in {"committed", "done"}
      BY <1>0, <2>1, <3>1 DEF Push, Committed, TypeOK
    <3>3. rows[k] # "committed"
      BY <2>1, <3>1 DEF Push, Causes
    <3>4. k \in ToSet(inbox)
      BY <1>0, <1>3, <2>1, <3>1, <3>2, <3>3 DEF AheadOK, HandOK
    <3> QED BY <2>1, <3>1, <3>4 DEF ToSet
  <2> QED BY <2>2, <2>3
<1> QED
  BY <1>5, <1>6, <1>8, <1>9, <1>11, <1>13, <1>14 DEF IInv

-----------------------------------------------------------------------------
\* What the generator does keeps everything: first the steps that only
\* change what is in hand.
LEMMA ReaderStep ==
  ASSUME IInv, Connect \/ CatchUp \/ Subscribe \/ Disconnect
  PROVE  IInv'
<1>0. /\ TypeOK /\ HandOK /\ AheadOK /\ RowsOK /\ InboxOK
      /\ EventsAscend /\ PassedOverHasACause
  BY DEF IInv
<1>1. /\ UNCHANGED <<rows, seen, late, unpushed, gap, Committed, LastId>>
      /\ unfetched \subseteq unfetched'
  BY DEF Connect, CatchUp, Subscribe, Disconnect, writerVars, Committed,
         LastId
<1>2. EventsAscend' /\ PassedOverHasACause'
  BY <1>0, <1>1 DEF EventsAscend, PassedOverHasACause, PassedOver
<1>3. Cardinality({}) = 0 /\ MaxBatch \in Nat /\ MaxAlerts \in Nat
  BY FS_EmptySet, ConstantsOK DEF ConstantsOK
<1>4. CASE Connect
  <2>1. LastId \in 0..MaxAlerts
    BY <1>0, LastIdIsLargest
  <2>2. /\ conn' = "catchup" /\ cursor' = LastId /\ todo' = {}
        /\ inbox' = <<>> /\ UNCHANGED <<faults, unfetched>>
    BY <1>0, <1>4 DEF Connect, HandOK
  <2>3. TypeOK'
    BY <1>0, <1>1, <1>3, <2>1, <2>2 DEF TypeOK
  <2>4. HandOK' /\ AheadOK' /\ RowsOK' /\ InboxOK'
    BY <1>1, <2>2 DEF HandOK, AheadOK, RowsOK, InboxOK, ToSet
  <2> QED BY <1>2, <2>3, <2>4 DEF IInv
<1>5. CASE CatchUp
  <2>1. /\ conn' = "sending" /\ conn = "catchup" /\ cursor' = cursor
        /\ inbox' = <<>> /\ faults' \in 0..MaxFaults
        /\ unfetched' = unfetched \cup (Behind(cursor) \ todo')
    BY <1>0, <1>5, ConstantsOK
    DEF CatchUp, HandOK, Fault, TypeOK, ConstantsOK
  <2>2. todo' \subseteq Behind(cursor) /\ Cardinality(todo') <= MaxBatch
    BY <1>3, <1>5 DEF CatchUp, Fetched
  <2>3. Behind(cursor)' = Behind(cursor) /\ Behind(cursor) \subseteq Alerts
    BY <1>1, <2>1 DEF Behind, Committed
  <2>4. TypeOK'
    BY <1>0, <1>1, <2>1, <2>2, <2>3 DEF TypeOK
  <2>5. \A i \in Behind(cursor) : i \in todo' \cup Causes'
    BY <2>1 DEF Causes
  <2>6. AheadOK'
    BY <1>1, <2>1, <2>5 DEF AheadOK, Behind, Committed
  <2>7. HandOK' /\ RowsOK' /\ InboxOK'
    BY <1>0, <1>1, <2>1, <2>2, <2>3, <2>5
    DEF HandOK, RowsOK, InboxOK, ToSet
  <2> QED BY <1>2, <2>4, <2>6, <2>7 DEF IInv
<1>6. CASE Subscribe
  <2>1. /\ conn = "sending" /\ todo = {} /\ inbox = <<>> /\ conn' = "live"
        /\ UNCHANGED <<cursor, todo, inbox, faults, unfetched>>
    BY <1>0, <1>6 DEF Subscribe, HandOK
  <2>2. TypeOK' /\ HandOK'
    BY <1>0, <1>1, <2>1 DEF TypeOK, HandOK, Behind
  <2>3. AheadOK' /\ RowsOK' /\ InboxOK'
    BY <1>0, <1>1, <2>1 DEF AheadOK, RowsOK, InboxOK, Causes
  <2> QED BY <1>2, <2>2, <2>3 DEF IInv
<1>7. CASE Disconnect
  <2>1. /\ conn' = "closed" /\ todo' = {} /\ inbox' = <<>>
        /\ UNCHANGED <<cursor, faults, unfetched>>
    BY <1>7 DEF Disconnect
  <2>2. TypeOK'
    BY <1>0, <1>1, <1>3, <2>1 DEF TypeOK
  <2>3. HandOK' /\ AheadOK' /\ RowsOK' /\ InboxOK'
    BY <2>1 DEF HandOK, AheadOK, RowsOK, InboxOK, ToSet
  <2> QED BY <1>2, <2>2, <2>3 DEF IInv
<1> QED BY <1>4, <1>5, <1>6, <1>7

\* A row that is yielded is ahead of the cursor and behind all others.
LEMMA SendRowStep ==
  ASSUME IInv, NEW h \in todo, SendRow(h)
  PROVE  IInv'
<1>0. /\ TypeOK /\ HandOK /\ AheadOK /\ RowsOK /\ InboxOK
      /\ EventsAscend /\ PassedOverHasACause
  BY DEF IInv
<1>1. /\ conn = "sending" /\ \A j \in todo : h <= j
      /\ seen' = Append(seen, h) /\ todo' = todo \ {h}
      /\ UNCHANGED <<conn, inbox, faults, rows, causes>>
  BY DEF SendRow, writerVars, causes
<1>2. /\ h \in Committed /\ h \in Alerts /\ h \in Nat
      /\ cursor = LastId /\ h > cursor /\ cursor \in Nat
      /\ cursor' = h /\ inbox = <<>>
  BY <1>0, <1>1 DEF HandOK, Behind, Committed, Alerts, TypeOK, SendRow
<1>3. /\ seen' \in Seq(Alerts) /\ LastId' = h /\ EventsAscend'
      /\ ToSet(seen') = ToSet(seen) \cup {h}
  BY <1>0, <1>1, <1>2, NewEvent
<1>4. Committed' = Committed /\ Causes' = Causes
  BY <1>1 DEF Committed, Causes, causes
<1>5. TypeOK'
  <2>1. IsFiniteSet(todo)
    <3>1. IsFiniteSet(Alerts)
      BY FS_Interval, ConstantsOK DEF Alerts, ConstantsOK
    <3> QED BY <1>0, <3>1, FS_Subset DEF TypeOK
  <2>2. Cardinality(todo') <= MaxBatch
    <3>1. /\ Cardinality(todo') <= Cardinality(todo)
          /\ Cardinality(todo') \in Nat /\ Cardinality(todo) \in Nat
      BY <1>1, <2>1, FS_Subset, FS_CardinalityType
    <3> QED BY <1>0, <3>1, ConstantsOK DEF TypeOK, ConstantsOK
  <2>3. cursor' \in 0..MaxAlerts
    BY <1>2, ConstantsOK DEF Alerts, ConstantsOK
  <2> QED BY <1>0, <1>1, <1>3, <2>2, <2>3 DEF TypeOK, causes
<1>6. \A k \in Behind(cursor)' : k \in Behind(cursor) /\ k # h
  BY <1>2, <1>4 DEF Behind, Committed, Alerts
<1>7. HandOK'
  <2>1. \A j \in todo' : j \in Behind(cursor)'
    BY <1>0, <1>1, <1>2, <1>4 DEF HandOK, Behind, Committed, Alerts
  <2> QED BY <1>0, <1>1, <1>2, <1>3, <1>4, <2>1 DEF HandOK
<1>8. AheadOK' /\ RowsOK' /\ InboxOK'
  <2>1. AheadOK'
    BY <1>0, <1>1, <1>2, <1>4 DEF AheadOK, Alerts
  <2>2. RowsOK'
    BY <1>0, <1>1, <1>4, <1>6 DEF RowsOK
  <2>3. InboxOK'
    BY <1>1, <1>2 DEF InboxOK
  <2> QED BY <2>1, <2>2, <2>3
<1>9. PassedOverHasACause'
  <2> SUFFICES ASSUME NEW k \in Committed, k <= h, k \notin ToSet(seen'),
                      k \notin Causes
               PROVE  FALSE
    BY <1>3, <1>4 DEF PassedOverHasACause, PassedOver, Causes
  <2>1. k # h /\ k \notin ToSet(seen) /\ k \in Nat
    BY <1>3 DEF Committed, Alerts
  <2>2. k > cursor
    BY <1>0, <1>2, <2>1 DEF PassedOverHasACause, PassedOver, Causes
  <2>3. k \in todo
    BY <1>0, <1>2, <2>1, <2>2 DEF RowsOK, Behind
  <2> QED BY <1>1, <1>2, <2>1, <2>3
<1> QED BY <1>0, <1>3, <1>5, <1>7, <1>8, <1>9 DEF IInv

\* A message that is received leaves the inbox, and is an event only if it
\* is ahead of the cursor.
LEMMA ReceiveStep ==
  ASSUME IInv, Receive
  PROVE  IInv'
<1> DEFINE h == Head(inbox)
<1>0. /\ TypeOK /\ HandOK /\ AheadOK /\ RowsOK /\ InboxOK
      /\ EventsAscend /\ PassedOverHasACause
  BY DEF IInv
<1>1. /\ conn = "live" /\ todo = {} /\ inbox # <<>>
      /\ inbox' = Tail(inbox)
      /\ UNCHANGED <<conn, todo, faults, rows, causes>>
  BY <1>0 DEF Receive, HandOK, writerVars, causes
<1>2. inbox \in Seq(Alerts) /\ cursor \in Nat /\ cursor = LastId
  BY <1>0, <1>1 DEF TypeOK, HandOK
<1>3. /\ inbox' \in Seq(Alerts) /\ h \in Alerts
      /\ ToSet(inbox) = ToSet(inbox') \cup {h}
      /\ Len(inbox') = Len(inbox) - 1 /\ Len(inbox) \in Nat \ {0}
      /\ h = inbox[1]
      /\ \A n \in 1..Len(inbox') : inbox'[n] = inbox[n + 1]
  BY <1>1, <1>2, Tailing
<1>4. Committed' = Committed /\ Causes' = Causes
  BY <1>1 DEF Committed, Causes, causes
<1> HIDE DEF h
<1>5. h \in Committed /\ h \in Nat
  BY <1>0, <1>3 DEF HandOK, Alerts
<1>6. \/ h <= cursor /\ UNCHANGED <<cursor, seen>>
      \/ h > cursor /\ cursor' = h /\ seen' = Append(seen, h)
  BY DEF Receive, h
\* Only what is not ahead of the new cursor is behind it.
<1>7. /\ h <= cursor' /\ cursor <= cursor' /\ cursor' \in Nat
      /\ cursor' \in 0..MaxAlerts /\ cursor' = LastId'
      /\ seen' \in Seq(Alerts) /\ EventsAscend'
  <2>1. CASE h <= cursor /\ UNCHANGED <<cursor, seen>>
    BY <1>0, <1>2, <1>4, <2>1 DEF TypeOK, EventsAscend, LastId
  <2>2. CASE h > cursor /\ cursor' = h /\ seen' = Append(seen, h)
    <3>1. LastId' = h /\ seen' \in Seq(Alerts) /\ EventsAscend'
      BY <1>0, <1>1, <1>2, <1>3, <1>5, <2>2, NewEvent
    <3> QED BY <1>2, <1>3, <1>5, <2>2, <3>1, ConstantsOK
            DEF Alerts, ConstantsOK
  <2> QED BY <1>6, <2>1, <2>2
<1>8. TypeOK'
  BY <1>0, <1>1, <1>3, <1>7 DEF TypeOK, causes
<1>9. HandOK' /\ RowsOK'
  BY <1>0, <1>1, <1>3, <1>4, <1>7 DEF HandOK, RowsOK
<1>10. \A k \in Behind(cursor)' :
           /\ k \in Behind(cursor) /\ k \in Alerts /\ k \in Nat
           /\ k > cursor' /\ k # h
  BY <1>2, <1>4, <1>5, <1>7 DEF Behind, Committed, Alerts
<1>11. AheadOK'
  <2> SUFFICES ASSUME NEW k \in Alerts, k > cursor', rows[k] = "done"
               PROVE  k \in ToSet(inbox') \cup Causes
    BY <1>1, <1>4 DEF AheadOK
  <2>1. k > cursor /\ k # h
    BY <1>2, <1>5, <1>7 DEF Alerts
  <2> QED BY <1>0, <1>1, <1>3, <2>1 DEF AheadOK
<1>12. InboxOK'
  <2> SUFFICES ASSUME NEW n \in 1..Len(inbox'), NEW k \in Behind(cursor)',
                      k < inbox'[n], k \notin Causes
               PROVE  \E m \in 1..(n - 1) : inbox'[m] = k
    BY <1>4 DEF InboxOK
  <2>1. /\ n + 1 \in 1..Len(inbox) /\ n \in Nat
        /\ inbox'[n] = inbox[n + 1]
    BY <1>3
  <2>2. PICK m \in 1..((n + 1) - 1) : inbox[m] = k
    BY <1>0, <1>10, <2>1 DEF InboxOK
  <2>3. m # 1
    BY <1>3, <1>10, <2>2
  <2>4. m - 1 \in 1..(n - 1) /\ inbox'[m - 1] = inbox[(m - 1) + 1]
    BY <1>3, <2>1, <2>2, <2>3
  <2>5. (m - 1) + 1 = m
    BY <2>2
  <2> QED BY <2>2, <2>4, <2>5
<1>13. PassedOverHasACause'
  <2> SUFFICES ASSUME NEW k \in Committed, k <= cursor',
                      k \notin ToSet(seen'), k \notin Causes
               PROVE  FALSE
    BY <1>4, <1>7 DEF PassedOverHasACause, PassedOver, Causes
  <2>1. CASE UNCHANGED <<cursor, seen>>
    BY <1>0, <1>2, <2>1 DEF PassedOverHasACause, PassedOver, Causes
  <2>2. CASE h > cursor /\ cursor' = h /\ seen' = Append(seen, h)
    <3>1. ToSet(seen') = ToSet(seen) \cup {h}
      BY <1>0, <1>3, <2>2, Appending DEF TypeOK
    <3>2. k # h /\ k \notin ToSet(seen) /\ k \in Nat
      BY <3>1 DEF Committed, Alerts
    <3>3. k > cursor
      BY <1>0, <1>2, <3>2 DEF PassedOverHasACause, PassedOver, Causes
    <3>4. 1 \in 1..Len(inbox) /\ k < inbox[1]
      BY <1>3, <1>5, <2>2, <3>2
    <3>5. PICK m \in 1..(1 - 1) : inbox[m] = k
      BY <1>0, <3>3, <3>4 DEF InboxOK, Behind
    <3> QED BY <3>5
  <2> QED BY <1>6, <2>1, <2>2
<1> QED BY <1>7, <1>8, <1>9, <1>11, <1>12, <1>13 DEF IInv

-----------------------------------------------------------------------------
\* The inductive invariant holds in every state of the stream.
LEMMA IInvHolds == Spec => []IInv
<1>1. Init => IInv
  <2> SUFFICES ASSUME Init PROVE IInv
    OBVIOUS
  <2>1. TypeOK
    <3>1. Cardinality({}) = 0
      BY FS_EmptySet
    <3> QED BY <3>1, ConstantsOK DEF Init, TypeOK, ConstantsOK
  <2>2. HandOK /\ AheadOK /\ RowsOK /\ InboxOK
    BY DEF Init, HandOK, AheadOK, RowsOK, InboxOK, ToSet
  <2>3. ToSet(seen) = {} /\ Committed = {}
    BY DEF Init, ToSet, Committed
  <2>4. EventsAscend /\ PassedOverHasACause
    BY <2>3 DEF Init, EventsAscend, PassedOverHasACause, PassedOver
  <2> QED BY <2>1, <2>2, <2>4 DEF IInv
<1>2. IInv /\ [Next]_vars => IInv'
  <2> SUFFICES ASSUME IInv, [Next]_vars PROVE IInv'
    OBVIOUS
  <2>1. CASE UNCHANGED vars
    BY <2>1
    DEF vars, causes, IInv, TypeOK, HandOK, AheadOK, RowsOK, InboxOK,
        EventsAscend, PassedOverHasACause, PassedOver, Committed, LastId,
        Behind, Causes
  <2> QED
    BY <2>1, WriteStep, ReaderStep, SendRowStep, ReceiveStep
    DEF Next, Stream
<1> QED BY <1>1, <1>2, PTL DEF Spec

\* Type correctness of the stream; a catch-up is never longer than its cap.
THEOREM TypeCorrect == Spec => []TypeOK
BY IInvHolds, PTL DEF IInv

\* However inserts, commits and pushes interleave and connections break, a
\* browser receives committed alerts only, each once, in the order of the ids.
THEOREM BrowserSeesAscendingIds == Spec => []EventsAscend
BY IInvHolds, PTL DEF IInv

\* The four causes are all there are: without a late commit or push, a lost
\* push, the window before the subscription or a catch-up that leaves rows
\* out, no browser is passed over.
THEOREM MissedAlertHasCause == Spec => []PassedOverHasACause
BY IInvHolds, PTL DEF IInv

-----------------------------------------------------------------------------
(* The readers of attack_logs *)

\* Committed, and perhaps deleted since: what a query may have returned.
Settled == {i \in Ids : logs[i].state \in {"committed", "gone"}}

LogsOK ==
    /\ \A i \in Ids : logs[i].state # "absent" => logs[i].label \in Labels
    /\ before \cup shown \subseteq Settled
    /\ \A i \in before : Matches(i, filter)

\* What was there at the first page, still is, and has not been given.
LeftOut == (before \cap Visible) \ shown

\* Between two pages the cursor parts what was given from what was not.
ScrollOK ==
    /\ scroll = "idle" => shown = {}
    /\ twice \subseteq shown
    /\ scroll = "more" =>
           /\ \A i \in LeftOut :
                 i < last \/ \E j \in shown : Inverted(j, i)
           /\ \A i \in shown :
                 i >= last \/ \E j \in shown : Inverted(i, j)

\* Between its two reads, /stats is behind by what has been written since.
StatsOK ==
    IF total = NotCounting
    THEN added = 0 /\ removed = 0
    ELSE Cardinality(Visible) + removed = total + added

CutoffOK == cutoff # 0 => Retention > 0 /\ cutoff + Retention <= clock

\* The inductive invariant.
QueryInv ==
    /\ QueryTypeOK /\ LogsOK /\ ScrollOK /\ StatsOK /\ CutoffOK
    /\ ScrollShowsEachOnce /\ ListedIsFoundWhileRetained

-----------------------------------------------------------------------------
\* Sets of ids are finite and can be counted.
LEMMA SetsOfIds ==
  ASSUME NEW S \in SUBSET Ids
  PROVE  IsFiniteSet(S) /\ Cardinality(S) \in 0..MaxLogs
<1>1. MaxLogs \in Nat /\ Ids = 1..MaxLogs
  BY QueryConstantsOK DEF QueryConstantsOK, Ids
<1>2. IsFiniteSet(Ids) /\ Cardinality(Ids) = MaxLogs
  BY <1>1, FS_Interval
<1>3. IsFiniteSet(S) /\ Cardinality(S) <= MaxLogs
  BY <1>2, FS_Subset
<1>4. Cardinality(S) \in Nat
  BY <1>3, FS_CardinalityType
<1> QED BY <1>1, <1>3, <1>4

\* Grouping counts every visible row once.
LEMMA EachRowHasOneTier ==
  ASSUME QueryTypeOK, LogsOK
  PROVE  Cardinality(Counted) = Cardinality(Visible)
<1> DEFINE f == [i \in Visible |-> <<logs[i].label, i>>]
<1>1. \A i \in Visible : i \in Ids /\ logs[i].label \in Labels
  BY DEF LogsOK, Visible
<1>2. f \in [Visible -> Counted]
  BY <1>1 DEF Counted, Group
<1>3. \A i, j \in Visible : f[i] = f[j] => i = j
  <2>1. \A i \in Visible : f[i][2] = i
    OBVIOUS
  <2> QED BY <2>1
<1>4. \A p \in Counted : \E i \in Visible : f[i] = p
  <2> SUFFICES ASSUME NEW p \in Counted
               PROVE  \E i \in Visible : f[i] = p
    OBVIOUS
  <2>1. PICK l \in Labels, i \in Ids : p = <<l, i>>
    BY DEF Counted
  <2>2. i \in Visible /\ logs[i].label = l
    BY <2>1 DEF Counted, Group
  <2> QED BY <2>1, <2>2
<1> HIDE DEF f
<1>5. f \in Bijection(Visible, Counted)
  BY <1>2, <1>3, <1>4 DEF Bijection, Injection, Surjection, IsInjective
<1>6. ExistsBijection(Visible, Counted)
  BY <1>5 DEF ExistsBijection
<1>7. IsFiniteSet(Visible)
  BY SetsOfIds DEF Visible
<1> QED BY <1>6, <1>7, FS_Bijection

\* What may have been returned keeps its stamp and its label, and what is
\* deleted stays deleted.
LEMMA SettledStays ==
  ASSUME QueryTypeOK, [QueryNext]_queryVars, NEW i \in Settled
  PROVE  /\ i \in Settled' /\ i \in Ids
         /\ logs'[i].created = logs[i].created
         /\ logs'[i].label = logs[i].label
         /\ logs'[i].state = "committed" => logs[i].state = "committed"
<1>1. i \in Ids /\ logs[i].state \in {"committed", "gone"}
  BY DEF Settled
<1>2. ASSUME NEW k \in Ids, InsertLog(k) \/ CommitLog(k) \/ RollbackLog(k)
      PROVE  logs'[i] = logs[i]
  <2>1. k # i
    BY <1>1, <1>2 DEF InsertLog, CommitLog, RollbackLog
  <2> QED
    BY <1>1, <1>2, <2>1
    DEF InsertLog, CommitLog, RollbackLog, QueryTypeOK
<1>3. CASE Prune
  BY <1>1, <1>3 DEF Prune, Prunable, Settled, QueryTypeOK
<1>4. CASE UNCHANGED logs
  BY <1>1, <1>4 DEF Settled
<1>5. \/ \E k \in Ids : InsertLog(k) \/ CommitLog(k) \/ RollbackLog(k)
      \/ Prune
      \/ UNCHANGED logs
  BY DEF QueryNext, StartPrune, FirstPage, NextPage, Count, GroupBy, Tick,
         queryVars
<1> QED BY <1>1, <1>2, <1>3, <1>4, <1>5 DEF Settled

\* A row that is there was there, unless it has just been committed.
LEMMA VisibleBefore ==
  ASSUME QueryTypeOK, LogsOK, [QueryNext]_queryVars
  PROVE  Settled \cap Visible' \subseteq Visible
<1> SUFFICES ASSUME NEW i \in Settled, i \in Visible'
             PROVE  i \in Visible
  OBVIOUS
<1> QED BY SettledStays DEF Visible

-----------------------------------------------------------------------------
LEMMA NextQueryTypeOK ==
  ASSUME QueryTypeOK, [QueryNext]_queryVars
  PROVE  QueryTypeOK'
<1>0. /\ MaxTime \in Nat /\ MaxLogs \in Nat /\ Retention \in Nat
      /\ clock \in 1..MaxTime
  BY QueryConstantsOK DEF QueryConstantsOK, QueryTypeOK
<1>1. ASSUME NEW i \in Ids, InsertLog(i) \/ CommitLog(i) \/ RollbackLog(i)
      PROVE  QueryTypeOK'
  <2>1. logs' \in [Ids -> [state : {"absent", "open", "committed", "gone"},
                           created : 0..clock, label : Labels \cup {NoLabel}]]
    BY <1>0, <1>1 DEF InsertLog, CommitLog, RollbackLog, QueryTypeOK
  <2>2. added' \in Nat /\ UNCHANGED <<clock, scrollVars, total, removed,
                                      cutoff>>
    BY <1>1 DEF InsertLog, CommitLog, RollbackLog, QueryTypeOK, statsVars
  <2> QED BY <2>1, <2>2 DEF QueryTypeOK, scrollVars
<1>2. CASE StartPrune
  <2>1. cutoff' \in 0..(clock - 1)
    BY <1>0, <1>2 DEF StartPrune
  <2> QED BY <1>2, <2>1 DEF StartPrune, QueryTypeOK, scrollVars, statsVars
<1>3. CASE Prune
  <2>1. logs' \in [Ids -> [state : {"absent", "open", "committed", "gone"},
                           created : 0..clock, label : Labels \cup {NoLabel}]]
    BY <1>3 DEF Prune, QueryTypeOK
  <2>2. Cardinality({i \in Ids : Prunable(i)}) \in Nat
    BY SetsOfIds
  <2>3. removed' \in Nat /\ cutoff' \in 0..(clock - 1)
    BY <1>0, <1>3, <2>2 DEF Prune, QueryTypeOK
  <2> QED BY <1>3, <2>1, <2>3 DEF Prune, QueryTypeOK, scrollVars
<1>4. ASSUME NEW S \in SUBSET Ids, NEW page \in SUBSET S,
             \/ Show(page, ByStamp) /\ FirstPage
             \/ Show(page, ById) /\ NextPage
      PROVE  QueryTypeOK'
  <2>1. /\ shown' \subseteq Ids /\ twice' \subseteq Ids
        /\ last' \in 0..MaxLogs /\ scroll' \in {"idle", "more", "end"}
    <3>1. Show(page, ByStamp) \/ Show(page, ById)
      BY <1>4
    <3>2. Ids \subseteq 0..MaxLogs /\ page \subseteq Ids
      BY <1>0 DEF Ids
    <3> QED BY <3>1, <3>2 DEF Show, QueryTypeOK
  <2>2. /\ filter' \in Labels \cup {NoLabel} /\ before' \subseteq Ids
        /\ UNCHANGED <<clock, logs, statsVars, cutoff>>
    BY <1>4 DEF FirstPage, NextPage, QueryTypeOK, Visible
  <2> QED BY <2>1, <2>2 DEF QueryTypeOK, statsVars
<1>5. CASE FirstPage
  <2>1. PICK page \in Pages(before', ByStamp) : Show(page, ByStamp)
    BY <1>5 DEF FirstPage
  <2>2. before' \in SUBSET Ids /\ page \in SUBSET before'
    BY <1>5, <2>1 DEF FirstPage, Pages, Visible
  <2> QED BY <1>4, <1>5, <2>1, <2>2
<1>6. CASE NextPage
  <2>1. PICK page \in Pages(Older, ById) : Show(page, ById)
    BY <1>6 DEF NextPage
  <2>2. Older \in SUBSET Ids /\ page \in SUBSET Older
    BY <2>1 DEF Pages, Older, Visible
  <2> QED BY <1>4, <1>6, <2>1, <2>2
<1>7. CASE Count
  <2>1. total' \in 0..NotCounting
    BY <1>0, <1>7, SetsOfIds DEF Count, Visible, NotCounting
  <2> QED BY <1>7, <2>1 DEF Count, QueryTypeOK, scrollVars
<1>8. CASE GroupBy
  BY <1>0, <1>8 DEF GroupBy, QueryTypeOK, scrollVars, NotCounting
<1>9. CASE Tick
  <2>1. clock' \in 1..MaxTime /\ 0..clock \subseteq 0..clock'
        /\ 0..(clock - 1) \subseteq 0..(clock' - 1)
    BY <1>0, <1>9 DEF Tick
  <2>2. logs' \in [Ids -> [state : {"absent", "open", "committed", "gone"},
                           created : 0..clock',
                           label : Labels \cup {NoLabel}]]
    BY <1>9, <2>1 DEF Tick, QueryTypeOK
  <2> QED BY <1>9, <2>1, <2>2 DEF Tick, QueryTypeOK, scrollVars, statsVars
<1>10. CASE UNCHANGED queryVars
  BY <1>10 DEF queryVars, scrollVars, statsVars, QueryTypeOK
<1> QED
  BY <1>1, <1>2, <1>3, <1>5, <1>6, <1>7, <1>8, <1>9, <1>10 DEF QueryNext
\* What a query returns is settled.
LEMMA PagesAreSettled ==
  /\ FirstPage => before' \cup shown' \subseteq Settled \cup shown
  /\ NextPage => shown' \subseteq Settled \cup shown
<1>1. Visible \subseteq Settled
  BY DEF Visible, Settled
<1>2. ASSUME FirstPage
      PROVE  before' \cup shown' \subseteq Settled \cup shown
  <2>1. PICK page \in Pages(before', ByStamp) : Show(page, ByStamp)
    BY <1>2 DEF FirstPage
  <2>2. before' \subseteq Visible /\ page \subseteq before'
    BY <1>2, <2>1 DEF FirstPage, Pages
  <2> QED BY <1>1, <2>1, <2>2 DEF Show
<1>3. ASSUME NextPage PROVE shown' \subseteq Settled \cup shown
  <2>1. PICK page \in Pages(Older, ById) : Show(page, ById)
    BY <1>3 DEF NextPage
  <2>2. page \subseteq Visible
    BY <2>1 DEF Pages, Older
  <2> QED BY <1>1, <2>1, <2>2 DEF Show
<1> QED BY <1>2, <1>3

LEMMA NextLogsOK ==
  ASSUME QueryTypeOK, LogsOK, [QueryNext]_queryVars
  PROVE  LogsOK'
<1>1. ASSUME NEW i \in Ids, logs'[i].state # "absent"
      PROVE  logs'[i].label \in Labels
  <2>1. ASSUME NEW k \in Ids, InsertLog(k) \/ CommitLog(k) \/ RollbackLog(k)
        PROVE  logs'[i].label \in Labels
    <3>1. i = k \/ logs'[i] = logs[i]
      BY <2>1 DEF InsertLog, CommitLog, RollbackLog, QueryTypeOK
    <3>2. CASE InsertLog(k) /\ i = k
      BY <3>2 DEF InsertLog, QueryTypeOK
    <3>3. ASSUME CommitLog(k) \/ RollbackLog(k), i = k
          PROVE  logs'[i].label \in Labels
      BY <3>3 DEF CommitLog, RollbackLog, LogsOK, QueryTypeOK
    <3> QED BY <1>1, <2>1, <3>1, <3>2, <3>3 DEF LogsOK
  <2>2. CASE Prune
    <3>1. /\ logs'[i].label = logs[i].label
          /\ logs[i].state = "absent" => logs'[i].state = "absent"
      BY <2>2 DEF Prune, Prunable, Visible, QueryTypeOK
    <3> QED BY <1>1, <3>1 DEF LogsOK
  <2>3. CASE UNCHANGED logs
    BY <1>1, <2>3 DEF LogsOK
  <2> QED
    BY <2>1, <2>2, <2>3
    DEF QueryNext, StartPrune, FirstPage, NextPage, Count, GroupBy, Tick,
        queryVars
<1>2. \/ FirstPage \/ NextPage
      \/ UNCHANGED <<before, shown, filter>>
  BY DEF QueryNext, InsertLog, CommitLog, RollbackLog, StartPrune, Prune,
         Count, GroupBy, Tick, scrollVars, queryVars
<1>3. before' \cup shown' \subseteq Settled
  <2>1. before \cup shown \subseteq Settled
    BY DEF LogsOK
  <2>2. NextPage => before' = before
    BY DEF NextPage
  <2> QED BY <1>2, <2>1, <2>2, PagesAreSettled
<1>4. before' \cup shown' \subseteq Settled'
  BY <1>3, SettledStays
<1>5. \A i \in before' : Matches(i, filter)'
  <2>1. CASE FirstPage
    BY <2>1 DEF FirstPage, Matches
  <2>2. CASE UNCHANGED <<before, filter>>
    <3>1. \A i \in before : i \in Settled /\ Matches(i, filter)
      BY DEF LogsOK
    <3>2. \A i \in before : logs'[i].label = logs[i].label
      BY <3>1, SettledStays
    <3> QED BY <2>2, <3>1, <3>2 DEF Matches
  <2> QED BY <1>2, <2>1, <2>2 DEF NextPage
<1> QED BY <1>1, <1>4, <1>5 DEF LogsOK

LEMMA NextCutoffOK ==
  ASSUME QueryTypeOK, CutoffOK, [QueryNext]_queryVars
  PROVE  CutoffOK'
<1>0. Retention \in Nat /\ clock \in Nat /\ cutoff \in Nat
  BY QueryConstantsOK DEF QueryConstantsOK, QueryTypeOK
<1>1. \/ StartPrune \/ Prune \/ Tick \/ UNCHANGED <<clock, cutoff>>
  BY DEF QueryNext, InsertLog, CommitLog, RollbackLog, FirstPage, NextPage,
         Count, GroupBy, queryVars
<1> QED BY <1>0, <1>1 DEF StartPrune, Prune, Tick, CutoffOK

\* What was listed is deleted by the retention only.
LEMMA NextListed ==
  ASSUME QueryTypeOK, LogsOK, CutoffOK, ListedIsFoundWhileRetained,
         [QueryNext]_queryVars
  PROVE  ListedIsFoundWhileRetained'
<1>0. /\ Retention \in Nat /\ clock \in Nat /\ clock' \in Nat
      /\ cutoff \in Nat /\ \A i \in Ids : logs[i].created \in Nat
  BY NextQueryTypeOK, QueryConstantsOK DEF QueryConstantsOK, QueryTypeOK
<1>1. clock' >= clock
  BY <1>0 DEF QueryNext, InsertLog, CommitLog, RollbackLog, StartPrune,
              Prune, FirstPage, NextPage, Count, GroupBy, Tick, queryVars
<1> SUFFICES ASSUME NEW i \in shown', i \notin Visible'
             PROVE  Retention > 0 /\ logs'[i].created + Retention < clock'
  BY DEF ListedIsFoundWhileRetained, GetAlert
<1>2. /\ i \in Settled' /\ i \in Ids /\ logs'[i].state = "gone"
  BY NextLogsOK DEF LogsOK, Settled, Visible
<1>3. CASE i \in shown /\ i \notin Visible
  <2>1. Retention > 0 /\ logs[i].created + Retention < clock
    BY <1>3 DEF ListedIsFoundWhileRetained, GetAlert
  <2>2. logs'[i].created = logs[i].created
    BY <1>3, SettledStays DEF LogsOK
  <2> QED BY <1>0, <1>1, <1>2, <2>1, <2>2
<1>4. CASE i \in Visible
  <2>1. Prune /\ Prunable(i)
    <3>1. \A k \in Ids : ~ (InsertLog(k) \/ CommitLog(k) \/ RollbackLog(k))
      BY <1>2, <1>4
      DEF InsertLog, CommitLog, RollbackLog, Visible, QueryTypeOK
    <3>2. logs' # logs
      BY <1>2, <1>4 DEF Visible
    <3>3. Prune
      BY <3>1, <3>2
      DEF QueryNext, StartPrune, FirstPage, NextPage, Count, GroupBy, Tick,
          queryVars
    <3>4. Prunable(i)
      BY <1>2, <1>4, <3>3 DEF Prune, Visible
    <3> QED BY <3>3, <3>4
  <2>2. logs'[i].created = logs[i].created /\ logs[i].created < cutoff
    BY <1>4, <2>1, SettledStays DEF Prunable, Settled, Visible
  <2>3. cutoff # 0 /\ clock' = clock
    BY <2>1 DEF Prune
  <2> QED BY <1>0, <1>2, <2>2, <2>3 DEF CutoffOK
<1>5. CASE i \notin shown /\ i \notin Visible
  <2>1. FirstPage \/ NextPage
    BY <1>5
    DEF QueryNext, InsertLog, CommitLog, RollbackLog, StartPrune, Prune,
        Count, GroupBy, Tick, scrollVars, queryVars
  <2>2. shown' \subseteq shown \cup Visible
    <3>1. CASE FirstPage
      <4>1. before' \subseteq Visible
        BY <3>1 DEF FirstPage
      <4> QED BY <3>1, <4>1 DEF FirstPage, Pages, Show
    <3>2. CASE NextPage
      <4>1. Older \subseteq Visible
        BY DEF Older
      <4> QED BY <3>2, <4>1 DEF NextPage, Pages, Show
    <3> QED BY <2>1, <3>1, <3>2
  <2> QED BY <1>5, <2>2
<1> QED BY <1>3, <1>4, <1>5

-----------------------------------------------------------------------------
\* What comes first in the order of the stamps has the larger id, or is
\* inverted.
LEMMA NewerOrInverted ==
  ASSUME QueryTypeOK, NEW i \in Ids, NEW j \in Ids, NewerStamp(i, j)
  PROVE  i > j \/ Inverted(i, j)
<1>1. logs[i].created \in Nat /\ logs[j].created \in Nat
      /\ i \in Nat /\ j \in Nat /\ (i = j => logs[i] = logs[j])
  BY DEF QueryTypeOK, Ids
<1> QED BY <1>1 DEF NewerStamp, Inverted

\* The first page sets the cursor to its last row.
LEMMA AfterFirstPage ==
  ASSUME QueryTypeOK, LogsOK, ScrollOK, FirstPage
  PROVE  /\ ScrollOK' /\ ScrollShowsEachOnce'
<1>1. PICK page \in Pages(before', ByStamp) : Show(page, ByStamp)
  BY DEF FirstPage
<1>2. /\ shown = {} /\ twice = {} /\ logs' = logs
      /\ before' \subseteq Ids /\ page \subseteq before'
      /\ page # before' => Cardinality(page) = Limit
      /\ \A i \in page, j \in before' \ page : NewerStamp(i, j)
  <2>1. /\ shown = {} /\ twice = {} /\ logs' = logs
        /\ before' \subseteq Ids /\ page \subseteq before'
        /\ page # before' => Cardinality(page) = Limit
        /\ page \X (before' \ page) \subseteq ByStamp
    BY <1>1 DEF FirstPage, ScrollOK, Pages, Visible
  <2>2. ASSUME NEW i \in page, NEW j \in before' \ page
        PROVE  NewerStamp(i, j)
    <3>1. <<i, j>> \in ByStamp
      BY <2>1
    <3> QED BY <3>1 DEF ByStamp
  <2> QED BY <2>1, <2>2
<1>3. shown' = page /\ twice' = {} /\ scroll' \in {"end", "more"}
  BY <1>1, <1>2 DEF Show
<1>4. Cardinality(page) \in Nat /\ Limit \in Nat
  BY <1>2, SetsOfIds, QueryConstantsOK DEF QueryConstantsOK
<1>5. \A i \in Ids : logs[i].created \in Nat /\ i \in Nat
  BY DEF QueryTypeOK, Ids
<1>6. ASSUME scroll' = "end" PROVE page = before'
  BY <1>1, <1>2, <1>4, <1>6 DEF Show
<1>7. ASSUME scroll' = "more"
      PROVE  /\ last' \in page
             /\ \A i \in page \ {last'} : NewerStamp(i, last')
  BY <1>1, <1>7 DEF Show, ByStamp
\* Whatever comes after the cursor in the order of the stamps is behind it,
\* or inverted with it.
<1>8. ASSUME scroll' = "more", NEW i \in LeftOut'
      PROVE  i < last' \/ \E j \in shown' : Inverted(j, i)
  <2>1. i \in Ids /\ last' \in Ids /\ last' \in shown' /\ i # last'
        /\ NewerStamp(last', i)
    BY <1>2, <1>3, <1>7, <1>8 DEF LeftOut
  <2>2. last' > i \/ Inverted(last', i)
    BY <2>1, NewerOrInverted
  <2> QED BY <1>5, <2>1, <2>2
<1>9. ASSUME scroll' = "more", NEW i \in shown'
       PROVE  i >= last' \/ \E j \in shown' : Inverted(i, j)
  <2>1. i \in Ids /\ last' \in Ids /\ last' \in shown'
    BY <1>2, <1>3, <1>7, <1>9
  <2>2. i = last' \/ NewerStamp(i, last')
    BY <1>3, <1>7, <1>9
  <2>3. i >= last' \/ Inverted(i, last')
    BY <1>5, <2>1, <2>2, NewerOrInverted
  <2> QED BY <2>1, <2>3
<1>10. ScrollOK'
  <2>1. scroll' = "more" =>
           /\ \A i \in LeftOut' :
                 i < last' \/ \E j \in shown' : Inverted(j, i)
           /\ \A i \in shown' :
                 i >= last' \/ \E j \in shown' : Inverted(i, j)
    BY <1>8, <1>9
  <2> QED BY <1>2, <1>3, <2>1 DEF ScrollOK, Inverted
<1> QED BY <1>3, <1>6, <1>10 DEF ScrollShowsEachOnce

\* A further page moves the cursor down, past what it returns.
LEMMA AfterNextPage ==
  ASSUME QueryTypeOK, LogsOK, ScrollOK, ScrollShowsEachOnce, NextPage
  PROVE  /\ ScrollOK' /\ ScrollShowsEachOnce'
<1>1. PICK page \in Pages(Older, ById) : Show(page, ById)
  BY DEF NextPage
<1>2. /\ scroll = "more" /\ UNCHANGED <<logs, before, filter>>
      /\ Older \subseteq Ids /\ page \subseteq Older
      /\ page # Older => Cardinality(page) = Limit
      /\ \A i \in page : i < last
  BY <1>1 DEF NextPage, Pages, Older, Visible
<1>3. /\ shown' = shown \cup page /\ twice' = twice \cup (shown \cap page)
      /\ twice' \subseteq shown'
      /\ scroll' \in {"end", "more"} /\ Visible' = Visible
  BY <1>1, <1>2 DEF Show, Visible, ScrollOK
<1>4. /\ Cardinality(page) \in Nat /\ Limit \in Nat
      /\ last \in Nat /\ shown \subseteq Ids /\ \A i \in Ids : i \in Nat
  BY <1>2, SetsOfIds, QueryConstantsOK
  DEF QueryConstantsOK, QueryTypeOK, Ids
<1>5. \A i, j \in Ids : Inverted(i, j)' <=> Inverted(i, j)
  BY <1>2 DEF Inverted
<1>6. /\ \A i \in LeftOut : i < last \/ \E j \in shown : Inverted(j, i)
      /\ \A i \in shown : i >= last \/ \E j \in shown : Inverted(i, j)
  BY <1>2 DEF ScrollOK
\* What is still left out was, and is behind the old cursor or inverted.
<1>7. ASSUME NEW i \in LeftOut'
      PROVE  /\ i \in Ids /\ i \notin page
             /\ i \in Older \/ \E j \in shown' : Inverted(j, i)'
  <2>1. i \in LeftOut /\ i \in before /\ i \in Visible /\ i \in Ids
        /\ i \notin page
    BY <1>2, <1>3, <1>7 DEF LeftOut, Visible
  <2>2. CASE i < last
    <3>1. Matches(i, filter)
      BY <2>1 DEF LogsOK
    <3> QED BY <2>1, <2>2, <3>1 DEF Older
  <2>3. CASE \E j \in shown : Inverted(j, i)
    <3>1. PICK j \in shown : Inverted(j, i)
      BY <2>3
    <3>2. j \in shown' /\ Inverted(j, i)'
      BY <1>3, <1>4, <1>5, <2>1, <3>1
    <3> QED BY <2>1, <3>2
  <2> QED BY <1>6, <2>1, <2>2, <2>3
<1>8. ASSUME scroll' = "end", NEW i \in LeftOut'
      PROVE  \E j \in shown' : Inverted(j, i)'
  <2>1. page = Older
    BY <1>1, <1>2, <1>4, <1>8 DEF Show
  <2> QED BY <1>7, <2>1
<1>9. ASSUME scroll' = "more"
      PROVE  /\ last' \in page /\ last' \in Ids /\ last' < last
             /\ \A i \in page : i >= last'
  <2>1. last' \in page /\ \A i \in page \ {last'} : i > last'
    BY <1>1, <1>9 DEF Show, ById
  <2> QED BY <1>2, <1>4, <2>1
<1>10. ASSUME scroll' = "more", NEW i \in LeftOut'
       PROVE  i < last' \/ \E j \in shown' : Inverted(j, i)'
  <2>1. CASE i \in Older
    <3>1. <<last', i>> \in ById
      BY <1>1, <1>7, <1>9, <1>10, <2>1 DEF Pages
    <3>2. last' > i
      BY <3>1 DEF ById
    <3> QED BY <1>4, <1>7, <1>9, <1>10, <3>2
  <2>2. CASE \E j \in shown' : Inverted(j, i)'
    BY <1>5, <1>2, <2>2 DEF Inverted
  <2> QED BY <1>7, <1>10, <2>1, <2>2
<1>11. ASSUME scroll' = "more", NEW i \in shown'
       PROVE  i >= last' \/ \E j \in shown' : Inverted(i, j)'
  <2>1. CASE i \in page
    BY <1>9, <1>11, <2>1
  <2>2. CASE i \in shown /\ i >= last
    BY <1>4, <1>9, <1>11, <2>2
  <2>3. CASE i \in shown /\ \E j \in shown : Inverted(i, j)
    BY <1>3, <1>4, <1>5, <2>3
  <2> QED BY <1>3, <1>6, <1>11, <2>1, <2>2, <2>3
<1>12. ASSUME NEW i \in twice' PROVE \E j \in shown' : Inverted(i, j)'
  <2>1. CASE i \in twice
    <3>1. PICK j \in shown : Inverted(i, j)
      BY <2>1 DEF ScrollShowsEachOnce
    <3>2. i \in Ids /\ j \in Ids
      BY <1>4, <2>1 DEF QueryTypeOK
    <3> QED BY <1>3, <1>5, <3>1, <3>2
  <2>2. CASE i \in shown \cap page
    <3>1. PICK j \in shown : Inverted(i, j)
      <4>1. i \in Nat /\ i < last
        BY <1>2, <1>4, <2>2
      <4> QED BY <1>4, <1>6, <2>2, <4>1
    <3> QED BY <1>3, <1>4, <1>5, <2>2, <3>1
  <2> QED BY <1>3, <1>12, <2>1, <2>2
<1>13. ScrollOK'
  <2>1. scroll' = "more" =>
           /\ \A i \in LeftOut' :
                 i < last' \/ \E j \in shown' : Inverted(j, i)'
           /\ \A i \in shown' :
                 i >= last' \/ \E j \in shown' : Inverted(i, j)'
    BY <1>10, <1>11
  <2> QED BY <1>3, <2>1 DEF ScrollOK
<1> QED BY <1>8, <1>12, <1>13 DEF ScrollShowsEachOnce, LeftOut

\* What the writers and the clock do disturbs no scrolling: settled rows keep
\* their stamps, and what is left out can only get less.
LEMMA NextScroll ==
  ASSUME QueryTypeOK, LogsOK, ScrollOK, ScrollShowsEachOnce,
         [QueryNext]_queryVars
  PROVE  ScrollOK' /\ ScrollShowsEachOnce'
<1>1. \/ FirstPage \/ NextPage \/ UNCHANGED scrollVars
  BY DEF QueryNext, InsertLog, CommitLog, RollbackLog, StartPrune, Prune,
         Count, GroupBy, Tick, queryVars
<1>2. CASE UNCHANGED scrollVars
  <2>1. /\ UNCHANGED <<filter, shown, last, scroll, before, twice>>
        /\ before \subseteq Settled /\ shown \subseteq Settled
        /\ twice \subseteq shown
    BY <1>2 DEF scrollVars, LogsOK, ScrollOK
  <2>2. \A i \in Settled : logs'[i].created = logs[i].created
    BY SettledStays
  <2>3. before \cap Visible' \subseteq Visible
    BY <2>1, VisibleBefore
  <2>4. \A i, j \in Settled : Inverted(i, j) => Inverted(i, j)'
    BY <2>2 DEF Inverted
  <2>5. LeftOut' \subseteq LeftOut /\ LeftOut \subseteq Settled
    BY <2>1, <2>3 DEF LeftOut
  <2>6. ScrollOK'
    <3>1. ASSUME scroll = "more", NEW i \in LeftOut'
          PROVE  i < last \/ \E j \in shown : Inverted(j, i)'
      BY <2>1, <2>4, <2>5, <3>1 DEF ScrollOK
    <3>2. ASSUME scroll = "more", NEW i \in shown
          PROVE  i >= last \/ \E j \in shown : Inverted(i, j)'
      BY <2>1, <2>4, <3>2 DEF ScrollOK
    <3> QED BY <2>1, <3>1, <3>2 DEF ScrollOK
  <2>7. ScrollShowsEachOnce'
    <3>1. ASSUME scroll = "end", NEW i \in LeftOut'
          PROVE  \E j \in shown : Inverted(j, i)'
      BY <2>1, <2>4, <2>5, <3>1 DEF ScrollShowsEachOnce, LeftOut
    <3>2. ASSUME NEW i \in twice PROVE \E j \in shown : Inverted(i, j)'
      BY <2>1, <2>4, <3>2 DEF ScrollShowsEachOnce
    <3> QED BY <2>1, <3>1, <3>2 DEF ScrollShowsEachOnce, LeftOut
  <2> QED BY <2>6, <2>7
<1> QED BY <1>1, <1>2, AfterFirstPage, AfterNextPage

-----------------------------------------------------------------------------
LEMMA NextStatsOK ==
  ASSUME QueryTypeOK, LogsOK, StatsOK, [QueryNext]_queryVars
  PROVE  StatsOK'
<1>0. /\ MaxLogs \in Nat /\ total \in Nat /\ added \in Nat /\ removed \in Nat
      /\ Visible \subseteq Ids /\ IsFiniteSet(Visible)
      /\ Cardinality(Visible) \in 0..MaxLogs
  BY QueryConstantsOK, SetsOfIds DEF QueryConstantsOK, QueryTypeOK, Visible,
     NotCounting
<1>1. ASSUME NEW i \in Ids, CommitLog(i) PROVE StatsOK'
  <2>1. i \notin Visible /\ Visible' = Visible \cup {i}
    BY <1>1 DEF CommitLog, Visible, QueryTypeOK
  <2>2. Cardinality(Visible') = Cardinality(Visible) + 1
    BY <1>0, <2>1, FS_AddElement
  <2> QED BY <1>0, <1>1, <2>2 DEF CommitLog, StatsOK
<1>2. CASE Prune
  <2> DEFINE P == {i \in Ids : Prunable(i)}
  <2>1. P \subseteq Visible /\ Visible' = Visible \ P
    BY <1>2 DEF Prune, Prunable, Visible, QueryTypeOK
  <2>2. IsFiniteSet(P) /\ Cardinality(P) \in Nat
    BY SetsOfIds
  <2>3. Cardinality(Visible \ P) = Cardinality(Visible)
                                       - Cardinality(Visible \cap P)
    BY <1>0, FS_Difference
  <2>4. Visible \cap P = P
    BY <2>1
  <2>5. Cardinality(Visible') + Cardinality(P) = Cardinality(Visible)
    <3> HIDE DEF P
    <3> QED BY <1>0, <2>1, <2>2, <2>3, <2>4
  <2>6. /\ UNCHANGED <<total, added>>
        /\ removed' = IF total # NotCounting
                      THEN removed + Cardinality(P) ELSE removed
    BY <1>2 DEF Prune
  <2> HIDE DEF P
  <2>7. Cardinality(Visible') \in Nat
    BY SetsOfIds, <2>1, <1>0
  <2> QED BY <1>0, <2>2, <2>5, <2>6, <2>7 DEF StatsOK
<1>3. CASE Count
  <2>1. Visible' = Visible
    BY <1>3 DEF Count, Visible
  <2>2. added = 0 /\ removed = 0
    BY <1>3 DEF Count, StatsOK
  <2> QED BY <1>0, <1>3, <2>1, <2>2 DEF Count, StatsOK, NotCounting
<1>4. CASE GroupBy
  BY <1>4 DEF GroupBy, StatsOK
<1>5. ASSUME UNCHANGED <<statsVars, Visible>> PROVE StatsOK'
  BY <1>5 DEF StatsOK, statsVars
<1>6. ASSUME NEW i \in Ids, InsertLog(i) \/ RollbackLog(i)
      PROVE  UNCHANGED <<statsVars, Visible>>
  <2>1. Visible' = Visible
    BY <1>6 DEF InsertLog, RollbackLog, Visible, QueryTypeOK
  <2> QED BY <1>6, <2>1 DEF InsertLog, RollbackLog
<1>7. ASSUME \/ StartPrune \/ FirstPage \/ NextPage \/ Tick
             \/ UNCHANGED queryVars
      PROVE  UNCHANGED <<statsVars, Visible>>
  BY <1>7 DEF StartPrune, FirstPage, NextPage, Tick, queryVars, Visible
<1> QED BY <1>1, <1>2, <1>3, <1>4, <1>5, <1>6, <1>7 DEF QueryNext

-----------------------------------------------------------------------------
\* The inductive invariant holds in every state of the readers.
LEMMA QueryInvHolds == QuerySpec => []QueryInv
<1>1. QueryInit => QueryInv
  <2> SUFFICES ASSUME QueryInit PROVE QueryInv
    OBVIOUS
  <2>1. QueryTypeOK
    BY QueryConstantsOK
    DEF QueryConstantsOK, QueryInit, QueryTypeOK, NotCounting
  <2>2. LogsOK /\ ScrollOK /\ StatsOK /\ CutoffOK
    BY DEF QueryInit, LogsOK, ScrollOK, StatsOK, CutoffOK
  <2>3. ScrollShowsEachOnce /\ ListedIsFoundWhileRetained
    BY DEF QueryInit, ScrollShowsEachOnce, ListedIsFoundWhileRetained
  <2> QED BY <2>1, <2>2, <2>3 DEF QueryInv
<1>2. QueryInv /\ [QueryNext]_queryVars => QueryInv'
  BY NextQueryTypeOK, NextLogsOK, NextScroll, NextStatsOK, NextCutoffOK,
     NextListed
  DEF QueryInv
<1> QED BY <1>1, <1>2, PTL DEF QuerySpec

\* The types of the readers' state; the clock stays ahead of what it stamped
\* and of the cutoff.
THEOREM QueryTypeCorrect == QuerySpec => []QueryTypeOK
BY QueryInvHolds, PTL DEF QueryInv

\* For every page size and whatever is inserted, committed or deleted between
\* two pages: whoever scrolls to the end has seen every alert that was there
\* and stayed, once, but for stamps and ids in opposite orders.
THEOREM ScrollingIsComplete == QuerySpec => []ScrollShowsEachOnce
BY QueryInvHolds, PTL DEF QueryInv

\* The tiers of /stats add up to the total, corrected by what was written
\* between the two queries.
THEOREM TiersAddUpToTotal == QuerySpec => []StatsDifferByConcurrentWrites
<1>1. QueryInv => StatsDifferByConcurrentWrites
  <2> SUFFICES ASSUME QueryInv PROVE StatsDifferByConcurrentWrites
    OBVIOUS
  <2>1. Cardinality(Counted) = Cardinality(Visible)
    BY EachRowHasOneTier DEF QueryInv
  <2> QED BY <2>1 DEF QueryInv, StatsOK, StatsDifferByConcurrentWrites
<1> QED BY <1>1, QueryInvHolds, PTL

\* Only the retention makes a listed alert disappear, and never too early.
THEOREM RetainedAlertsAreFound == QuerySpec => []ListedIsFoundWhileRetained
BY QueryInvHolds, PTL DEF QueryInv
=============================================================================
