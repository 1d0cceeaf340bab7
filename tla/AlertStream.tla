----------------------------- MODULE AlertStream -----------------------------
(***************************************************************************)
(* From persist_alert (services/inference/repository.py, the session_scope *)
(* of shared/db/engine.py) over the pub/sub channel                        *)
(* (shared/broker/pubsub.py) to one browser on GET /alerts/stream          *)
(* (services/api/routes/alerts.py).                                        *)
(*                                                                         *)
(* An alert is its primary key.  The database gives keys out at the flush  *)
(* of an insert, whose transaction commits or rolls back later, so keys    *)
(* and commits of several workers need not come in the same order.  The    *)
(* browser reconnects with since_id = the last id it received.             *)
(***************************************************************************)
EXTENDS Naturals, FiniteSets, SequencesExt

CONSTANTS
    MaxAlerts,  \* bound: inserts
    Writers,    \* inference worker processes: inserts under way at once
    MaxBatch,   \* SSE_MAX_BATCH (100)
    MaxFaults   \* bound: failing queries, lost pushes, rolled-back inserts

ASSUME ConstantsOK ==
    /\ MaxAlerts \in Nat
    /\ Writers \in Nat
    /\ MaxBatch \in Nat
    /\ MaxFaults \in Nat

Alerts == 1..MaxAlerts

VARIABLES
    rows,      \* what has become of the insert of each key
    conn,      \* where _build_sse_generator is; "closed" between connections
    cursor,    \* its cursor
    todo,      \* catch-up rows not yet yielded; the smallest id comes first
    inbox,     \* published messages on their way to the subscription
    seen,      \* history: ids of the events the browser received, in order
    faults,    \* failures so far
    late,      \* history: committed or pushed after one with a larger id
    unpushed,  \* history: never published
    gap,       \* history: published between the catch-up query and subscribe
    unfetched  \* history: left out by a catch-up query

causes == <<late, unpushed, gap, unfetched>>
writerVars == <<rows, late, unpushed>>
readerVars == <<conn, cursor, todo, seen, unfetched>>
vars == <<rows, conn, cursor, todo, inbox, seen, faults, causes>>

Committed == {i \in Alerts : rows[i] \in {"committed", "done"}}
LastId == IF seen = <<>> THEN 0 ELSE Last(seen)

TypeOK ==
    /\ rows \in [Alerts -> {"absent", "open", "undone", "committed", "done"}]
    /\ conn \in {"closed", "catchup", "sending", "live"}
    /\ cursor \in 0..MaxAlerts
    /\ todo \subseteq Alerts /\ Cardinality(todo) <= MaxBatch
    /\ inbox \in Seq(Alerts)
    /\ seen \in Seq(Alerts)
    /\ faults \in 0..MaxFaults
    /\ {late, unpushed, gap, unfetched} \subseteq SUBSET Alerts

Init ==
    /\ rows = [i \in Alerts |-> "absent"]
    /\ conn = "closed"
    /\ cursor = 0
    /\ todo = {}
    /\ inbox = <<>>
    /\ seen = <<>>
    /\ faults = 0
    /\ late = {} /\ unpushed = {} /\ gap = {} /\ unfetched = {}

Fault ==
    /\ faults < MaxFaults
    /\ faults' = faults + 1

-----------------------------------------------------------------------------
(* persist_alert in the inference workers *)

\* session.add and flush: the next key is taken.
Insert(i) ==
    /\ rows[i] = "absent"
    /\ \A j \in Alerts : j < i => rows[j] # "absent"
    /\ Cardinality({j \in Alerts : rows[j] \in {"open", "committed"}})
           < Writers
    /\ rows' = [rows EXCEPT ![i] = "open"]
    /\ UNCHANGED <<readerVars, inbox, faults, late, unpushed, gap>>

\* session_scope commits at the end of the block.
Commit(i) ==
    /\ rows[i] = "open"
    /\ rows' = [rows EXCEPT ![i] = "committed"]
    /\ late' = IF \E j \in Committed : j > i THEN late \cup {i} ELSE late
    /\ UNCHANGED <<readerVars, inbox, faults, unpushed, gap>>

\* ... or rolls back and raises; the key is not given out again.
Rollback(i) ==
    /\ rows[i] = "open"
    /\ Fault
    /\ rows' = [rows EXCEPT ![i] = "undone"]
    /\ UNCHANGED <<readerVars, inbox, late, unpushed, gap>>

\* What the channel does with a message: whoever is subscribed gets it.
Fanout(i) ==
    /\ inbox' = IF conn = "live" THEN Append(inbox, i) ELSE inbox
    /\ gap' = IF conn = "sending" /\ i \notin todo
              THEN gap \cup {i} ELSE gap

\* publish_alert, after the commit.
Push(i) ==
    /\ rows[i] = "committed"
    /\ rows' = [rows EXCEPT ![i] = "done"]
    /\ Fanout(i)
    /\ late' = late \cup {j \in Alerts : j < i /\ rows[j] = "committed"}
    /\ UNCHANGED <<readerVars, faults, unpushed>>

\* Redis is unreachable (logged, returns 0) or the worker dies first.
PushLost(i) ==
    /\ rows[i] = "committed"
    /\ Fault
    /\ rows' = [rows EXCEPT ![i] = "done"]
    /\ unpushed' = unpushed \cup {i}
    /\ UNCHANGED <<readerVars, inbox, late, gap>>

-----------------------------------------------------------------------------
(* GET /alerts/stream *)

\* Mutant of Connect: the stream starts at the newest alert.
ConnectAtEnd ==
    /\ conn = "closed"
    /\ conn' = "catchup"
    /\ \E i \in Committed \cup {0} :
          cursor' = i /\ \A j \in Committed : j <= i
    /\ UNCHANGED <<writerVars, todo, inbox, seen, faults, gap, unfetched>>

\* The browser (re)connects with the last id it knows.
Connect ==
    /\ conn = "closed"
    /\ conn' = "catchup"
    /\ cursor' = LastId
    /\ UNCHANGED <<writerVars, todo, inbox, seen, faults, gap, unfetched>>

Behind(since) == {i \in Committed : i > since}

\* Mutant of Fetched: no LIMIT.
FetchedAll(since) == {Behind(since)}

\* _catchup_payloads: the first MaxBatch alerts after the cursor, or all of
\* them if they are fewer.
Fetched(since) ==
    {batch \in SUBSET Behind(since) :
        /\ Cardinality(batch) <= MaxBatch
        /\ batch # Behind(since) => Cardinality(batch) = MaxBatch
        /\ \A i \in batch, j \in Behind(since) \ batch : i < j}

\* The catch-up query; a failing one is logged and skipped.
CatchUp ==
    /\ conn = "catchup"
    /\ conn' = "sending"
    /\ \/ todo' \in Fetched(cursor) /\ UNCHANGED faults
       \/ todo' = {} /\ Fault
    /\ unfetched' = unfetched \cup (Behind(cursor) \ todo')
    /\ UNCHANGED <<writerVars, cursor, inbox, seen, gap>>

\* One catch-up row is yielded.
SendRow(i) ==
    /\ conn = "sending"
    /\ i \in todo
    /\ \A j \in todo : i <= j
    /\ cursor' = IF i > cursor THEN i ELSE cursor
    /\ seen' = Append(seen, i)
    /\ todo' = todo \ {i}
    /\ UNCHANGED <<writerVars, conn, inbox, faults, gap, unfetched>>

\* listen_alerts subscribes, after the last row.
Subscribe ==
    /\ conn = "sending"
    /\ todo = {}
    /\ conn' = "live"
    /\ UNCHANGED <<writerVars, cursor, todo, inbox, seen, faults, gap,
                   unfetched>>

\* Mutant of Receive: nothing is compared with the cursor.
ReceiveAll ==
    /\ conn = "live"
    /\ inbox # <<>>
    /\ inbox' = Tail(inbox)
    /\ cursor' = Head(inbox)
    /\ seen' = Append(seen, Head(inbox))
    /\ UNCHANGED <<writerVars, conn, todo, faults, gap, unfetched>>

\* Mutant of Receive: the loop ends at a message it has already sent.
ReceiveUntilOld ==
    /\ conn = "live"
    /\ inbox # <<>>
    /\ Head(inbox) > cursor
    /\ inbox' = Tail(inbox)
    /\ cursor' = Head(inbox)
    /\ seen' = Append(seen, Head(inbox))
    /\ UNCHANGED <<writerVars, conn, todo, faults, gap, unfetched>>

\* The next message: skipped if the cursor has passed it, else yielded.
Receive ==
    /\ conn = "live"
    /\ inbox # <<>>
    /\ inbox' = Tail(inbox)
    /\ \/ /\ Head(inbox) <= cursor
          /\ UNCHANGED <<cursor, seen>>
       \/ /\ Head(inbox) > cursor
          /\ cursor' = Head(inbox)
          /\ seen' = Append(seen, Head(inbox))
    /\ UNCHANGED <<writerVars, conn, todo, faults, gap, unfetched>>

\* The browser or the network drops the connection, or the pub/sub loop
\* raises and the generator ends.
Disconnect ==
    /\ conn # "closed"
    /\ conn' = "closed"
    /\ todo' = {}
    /\ inbox' = <<>>
    /\ UNCHANGED <<writerVars, cursor, seen, faults, gap, unfetched>>

Write(i) ==
    Insert(i) \/ Commit(i) \/ Rollback(i) \/ Push(i) \/ PushLost(i)
Stream == CatchUp \/ (\E i \in todo : SendRow(i)) \/ Subscribe \/ Receive

Next ==
    \/ \E i \in Alerts : Write(i)
    \/ Connect \/ Stream \/ Disconnect

Spec == Init /\ [][Next]_vars

\* The generator is driven by its gunicorn worker as long as it is connected.
FairSpec == Spec /\ WF_vars(Stream)

-----------------------------------------------------------------------------
\* A browser receives every alert at most once and in the order of the ids,
\* over catch-up, live events and any number of reconnects, although alerts
\* are pushed out of order and can reach it both ways; and none whose insert
\* is rolled back, or not yet committed (the comment in persist_alert).
EventsAscend ==
    /\ \A a, b \in 1..Len(seen) : a < b => seen[a] < seen[b]
    /\ ToSet(seen) \subseteq Committed

\* An alert is passed over for good, its id behind what the browser has
\* received, only if it was committed or pushed after an alert with a larger
\* id, or never pushed, or pushed before the subscription was in place, or
\* left out by a catch-up query.
PassedOver == {i \in Committed : i <= LastId /\ i \notin ToSet(seen)}
PassedOverHasACause ==
    PassedOver \subseteq late \cup unpushed \cup gap \cup unfetched

\* What has been fetched or has reached the subscription is received, unless
\* it is late or the connection ends.
InHandIsSeen ==
    \A i \in Alerts :
        (conn # "closed" /\ i \in todo \cup ToSet(inbox)) ~>
            i \in ToSet(seen) \cup late \/ conn = "closed"

\* The comment above the endpoint: catch-up "flushes every alert with id >
\* since_id (capped at 100) so a transient client disconnect never loses an
\* alert".
NothingPassedOver == PassedOver = {}
=============================================================================
