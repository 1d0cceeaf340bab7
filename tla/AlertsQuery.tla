----------------------------- MODULE AlertsQuery -----------------------------
(***************************************************************************)
(* The table attack_logs as its readers see it: list_alerts and get_alert  *)
(* (services/api/routes/alerts.py), /stats and /stats/risk                 *)
(* (routes/stats.py), beside the inference workers that insert             *)
(* (shared/db/models.py, persist_alert) and the retention job that deletes *)
(* (services/api/retention.py).                                            *)
(*                                                                         *)
(* A row is stamped with created_at in its worker before the database      *)
(* gives it its id, and is visible once its transaction commits.  Every    *)
(* statement reads what is committed at that moment (READ COMMITTED, the   *)
(* default of the engine).  One client scrolls through the history as the  *)
(* cursors are meant to be used (schemas/alerts.py): the newest rows       *)
(* first, then before_id = the last row it was given.                      *)
(***************************************************************************)
EXTENDS Naturals, FiniteSets

CONSTANTS
    Labels,     \* values of risk_label
    Limit,      \* limit (1 to 500, default 50)
    Retention,  \* ATTACK_LOG_RETENTION_DAYS, in ticks; 0 keeps for ever
    MaxLag,     \* bound: ticks between the stamp of a row and its id
    MaxLogs,    \* bound: inserts
    MaxTime     \* bound: the clock

ASSUME QueryConstantsOK ==
    /\ IsFiniteSet(Labels)
    /\ Limit \in Nat \ {0}
    /\ Retention \in Nat
    /\ MaxLag \in Nat
    /\ MaxLogs \in Nat
    /\ MaxTime \in Nat \ {0}

Ids == 1..MaxLogs
NoLabel == "none"   \* no risk_label in the query
NotCounting == MaxLogs + 1

VARIABLES
    clock,
    logs,      \* state, created_at and risk_label of each id
    filter,    \* risk_label of the scrolling client
    shown,     \* ids it was given
    last,      \* the last of them, its before_id; 0 before the first page
    scroll,    \* "idle", "more" or "end"
    total,     \* of /stats between its two reads; NotCounting otherwise
    cutoff,    \* of the retention job; 0 when it is not running
    before,    \* history: rows there were at the first page
    twice,     \* history: ids it was given again
    added,     \* history: rows committed between the two reads of /stats
    removed    \* history: rows deleted between them

scrollVars == <<filter, shown, last, scroll, before, twice>>
statsVars == <<total, added, removed>>
queryVars == <<clock, logs, scrollVars, statsVars, cutoff>>

Visible == {i \in Ids : logs[i].state = "committed"}

QueryTypeOK ==
    /\ clock \in 1..MaxTime
    /\ logs \in [Ids -> [state : {"absent", "open", "committed", "gone"},
                         created : 0..clock, label : Labels \cup {NoLabel}]]
    /\ filter \in Labels \cup {NoLabel}
    /\ shown \subseteq Ids /\ twice \subseteq Ids
    /\ last \in 0..MaxLogs
    /\ scroll \in {"idle", "more", "end"}
    /\ total \in 0..NotCounting
    /\ cutoff \in 0..(clock - 1)
    /\ before \subseteq Ids
    /\ added \in Nat /\ removed \in Nat

QueryInit ==
    /\ clock = 1
    /\ logs = [i \in Ids |-> [state |-> "absent", created |-> 0,
                              label |-> NoLabel]]
    /\ filter = NoLabel /\ scroll = "idle" /\ last = 0
    /\ shown = {} /\ before = {} /\ twice = {}
    /\ total = NotCounting /\ added = 0 /\ removed = 0
    /\ cutoff = 0

-----------------------------------------------------------------------------
(* Writers *)

\* The INSERT: created_at was computed a little earlier, the id is the next.
InsertLog(i) ==
    /\ logs[i].state = "absent"
    /\ \A j \in Ids : j < i => logs[j].state # "absent"
    /\ \E c \in 1..clock, l \in Labels :
          /\ clock <= c + MaxLag
          /\ logs' = [logs EXCEPT ![i] = [state |-> "open", created |-> c,
                                          label |-> l]]
    /\ UNCHANGED <<clock, scrollVars, statsVars, cutoff>>

\* The commit, or the rollback, of session_scope.
CommitLog(i) ==
    /\ logs[i].state = "open"
    /\ logs' = [logs EXCEPT ![i].state = "committed"]
    /\ added' = IF total # NotCounting THEN added + 1 ELSE added
    /\ UNCHANGED <<clock, scrollVars, total, removed, cutoff>>

RollbackLog(i) ==
    /\ logs[i].state = "open"
    /\ logs' = [logs EXCEPT ![i].state = "gone"]
    /\ UNCHANGED <<clock, scrollVars, statsVars, cutoff>>

-----------------------------------------------------------------------------
(* prune_old_alerts *)

\* The cutoff is computed first.
StartPrune ==
    /\ Retention > 0
    /\ cutoff = 0
    /\ clock > Retention
    /\ cutoff' = clock - Retention
    /\ UNCHANGED <<clock, logs, scrollVars, statsVars>>

\* Mutant of Prunable: the comparison the wrong way round.
PrunableFresh(i) == i \in Visible /\ logs[i].created > cutoff

Prunable(i) == i \in Visible /\ logs[i].created < cutoff

\* One DELETE in one transaction.
Prune ==
    /\ cutoff # 0
    /\ logs' = [i \in Ids |-> IF Prunable(i)
                              THEN [logs[i] EXCEPT !.state = "gone"]
                              ELSE logs[i]]
    /\ removed' = IF total # NotCounting
                  THEN removed + Cardinality({i \in Ids : Prunable(i)})
                  ELSE removed
    /\ cutoff' = 0
    /\ UNCHANGED <<clock, scrollVars, total, added>>

-----------------------------------------------------------------------------
(* list_alerts and get_alert *)

Matches(i, l) == l = NoLabel \/ logs[i].label = l

NewerStamp(i, j) ==
    \/ logs[i].created > logs[j].created
    \/ logs[i].created = logs[j].created /\ i > j

\* Orders are sets of pairs, the row that comes first first.
\* ORDER BY created_at DESC, id DESC
ByStamp == {p \in Ids \X Ids : NewerStamp(p[1], p[2])}

\* ORDER BY id DESC, behind a cursor
ById == {p \in Ids \X Ids : p[1] > p[2]}

\* ORDER BY ... LIMIT over the rows of S: the first Limit of them, or all.
Pages(S, order) ==
    {page \in SUBSET S :
        /\ Cardinality(page) <= Limit
        /\ page # S => Cardinality(page) = Limit
        /\ page \X (S \ page) \subseteq order}

\* The client adds a page to what it shows and goes on from its last row; a
\* short page is the end of the history.
Show(page, order) ==
    /\ shown' = shown \cup page
    /\ twice' = twice \cup (shown \cap page)
    /\ \/ /\ Cardinality(page) < Limit
          /\ scroll' = "end"
          /\ UNCHANGED last
       \/ /\ Cardinality(page) = Limit
          /\ scroll' = "more"
          /\ last' \in page
          /\ \A i \in page \ {last'} : <<i, last'>> \in order

\* GET /alerts, with or without risk_label.
FirstPage ==
    /\ scroll = "idle"
    /\ filter' \in Labels \cup {NoLabel}
    /\ before' = {i \in Visible : Matches(i, filter')}
    /\ \E page \in Pages(before', ByStamp) : Show(page, ByStamp)
    /\ UNCHANGED <<clock, logs, statsVars, cutoff>>

\* The rows of the filter before the cursor.
Older == {i \in Visible : Matches(i, filter) /\ i < last}

\* Mutant of NextPage: history is read from its beginning.
NextPageFromOldest ==
    /\ scroll = "more"
    /\ LET oldest == {p \in Ids \X Ids : p[1] < p[2]}
       IN  \E page \in Pages(Older, oldest) : Show(page, oldest)
    /\ UNCHANGED <<clock, logs, filter, before, statsVars, cutoff>>

\* GET /alerts?before_id=
NextPage ==
    /\ scroll = "more"
    /\ \E page \in Pages(Older, ById) : Show(page, ById)
    /\ UNCHANGED <<clock, logs, filter, before, statsVars, cutoff>>

\* GET /alerts/<id> changes nothing.
GetAlert(i) == IF i \in Visible THEN "200" ELSE "404"

-----------------------------------------------------------------------------
(* /stats *)

\* SELECT count(id)
Count ==
    /\ total = NotCounting
    /\ total' = Cardinality(Visible)
    /\ UNCHANGED <<clock, logs, scrollVars, added, removed, cutoff>>

\* Mutant of Group: a label whose count is one is left out.
GroupOfSeveral(l) ==
    LET g == {i \in Visible : logs[i].label = l}
    IN  IF Cardinality(g) = 1 THEN {} ELSE g

\* SELECT risk_label, count(id) ... GROUP BY risk_label: the rows it counts.
Group(l) == {i \in Visible : logs[i].label = l}

\* What /stats/risk answers with, every tier of it, the empty ones included:
\* each row once for every tier it is counted in.
Counted == {p \in Labels \X Ids : p[2] \in Group(p[1])}

\* ... in the same session; the two are answered together.
GroupBy ==
    /\ total # NotCounting
    /\ total' = NotCounting
    /\ added' = 0 /\ removed' = 0
    /\ UNCHANGED <<clock, logs, scrollVars, cutoff>>

Tick ==
    /\ clock < MaxTime
    /\ clock' = clock + 1
    /\ UNCHANGED <<logs, scrollVars, statsVars, cutoff>>

QueryNext ==
    \/ \E i \in Ids : InsertLog(i) \/ CommitLog(i) \/ RollbackLog(i)
    \/ StartPrune \/ Prune
    \/ FirstPage \/ NextPage
    \/ Count \/ GroupBy
    \/ Tick

QuerySpec == QueryInit /\ [][QueryNext]_queryVars

-----------------------------------------------------------------------------
\* i was stamped after j but has the smaller id: what two workers can do.
Inverted(i, j) == i < j /\ logs[i].created > logs[j].created

\* A client that scrolls to the end has been given every alert that was there
\* when it began and still is, and none of them twice, although alerts come
\* and go meanwhile; only an inverted one that it was given can take another
\* one's place, or come again.
ScrollShowsEachOnce ==
    /\ scroll = "end" =>
           \A i \in (before \cap Visible) \ shown :
               \E j \in shown : Inverted(j, i)
    /\ \A i \in twice : \E j \in shown : Inverted(i, j)

\* The two reads of /stats differ by exactly what was committed and deleted
\* between them: no alert is missing from the distribution, or counted twice.
StatsDifferByConcurrentWrites ==
    total # NotCounting =>
        Cardinality(Counted) + removed = total + added

\* An alert that was listed answers 404 only when it is older than the
\* retention, however long the deletion takes.
ListedIsFoundWhileRetained ==
    \A i \in shown : GetAlert(i) = "404" =>
        Retention > 0 /\ logs[i].created + Retention < clock
=============================================================================
