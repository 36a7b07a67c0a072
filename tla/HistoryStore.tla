---------------------------- MODULE HistoryStore ----------------------------
(***************************************************************************)
(* Device history in SQLite: the poller stores snapshots, an administrator *)
(* changes the record limit, and a query merges hourly summaries with raw  *)
(* rows.  A summary is the set of rows it accumulated: what count, sum,    *)
(* min and max are computed from.  Buckets are hours since the epoch, so a *)
(* bucket's bucket_ms is Hour times its number here.                       *)
(*                                                                         *)
(* Every transaction runs under database_lock on one connection, so it is  *)
(* one step.  What the lock does not cover are steps of their own: the     *)
(* limit is read before the lock is taken, and the settings are saved      *)
(* before the limit is applied.                                            *)
(***************************************************************************)
EXTENDS Integers, FiniteSets

CONSTANTS
  Devices,
  Hour,          \* instants in an hour
  MaxTime,       \* bound on the instants of status.xml
  MaxId,         \* bound on the rows ever stored
  Limits,        \* values of database_max_records, 0 for unlimited
  None,
  Monotone,      \* whether the modification time of status.xml never goes back
  Crashes,       \* whether the process may die and restart
  MaxFailures    \* bound on SQLite failures

ASSUME StoreAssumption ==
  /\ Hour \in Nat \ {0}
  /\ MaxTime \in Nat /\ MaxId \in Nat /\ MaxFailures \in Nat
  /\ Limits \subseteq Nat
  /\ Monotone \in BOOLEAN /\ Crashes \in BOOLEAN

Times == 0..MaxTime
Ids == 1..MaxId
Bucket(t) == t \div Hour
Buckets == 0..Bucket(MaxTime)
Row == [id : Ids, device : Devices, time : Times]
Write == [device : Devices, time : Times, limit : Limits]

VARIABLES
  rows,        \* device_snapshots
  summary,     \* device_hourly_statistics, {} where there is no row
  limit,       \* service_settings["database_max_records"]
  writer,      \* the snapshot the poller is about to store
  applying,    \* whether the settings handler has still to apply the limit
  discarded,   \* discarded_records
  removed,     \* history: rows committed deletions took since startup
  failures

vars == <<rows, summary, limit, writer, applying, discarded, removed, failures>>

Of(stored, d) == {r \in stored : r.device = d}
RowsIn(stored, d, b) == {q \in Of(stored, d) : Bucket(q.time) = b}
IdsIn(stored, d, b) == {r.id : r \in RowsIn(stored, d, b)}

-----------------------------------------------------------------------------

(***************************************************************************)
(* Pruning.  The oldest rows by id go, down to the limit: those with at    *)
(* least limit newer rows.                                                 *)
(***************************************************************************)
Newer(stored, r) == {q \in Of(stored, r.device) : q.id > r.id}
\* Mutant: the newest rows go.
NewestDoomed(stored, d, n) ==
  {r \in Of(stored, d) : Cardinality({q \in Of(stored, d) : q.id < r.id}) >= n}
Doomed(stored, d, n) == {r \in Of(stored, d) : Cardinality(Newer(stored, r)) >= n}

\* A limit of 0 prunes nothing.
Excess(stored, d, n) == IF n = 0 THEN {} ELSE Doomed(stored, d, n)

\* The summaries up to the hour of the earliest remaining row are dropped.
Stale(stored, d, b) == \A r \in Of(stored, d) : b <= Bucket(r.time)

Retained(sums, stored, gone) ==
  [d \in Devices |-> [b \in Buckets |->
     IF Of(gone, d) # {} /\ Stale(stored \ gone, d, b) THEN {} ELSE sums[d][b]]]

\* Mutant: one for every pruning, whatever it takes.
PruningsCounted(gone) == discarded + (IF gone = {} THEN 0 ELSE 1)
Counted(gone) == discarded + Cardinality(gone)

-----------------------------------------------------------------------------

(***************************************************************************)
(* Inserting.  The first row of a later hour completes the hour before it; *)
(* a row of an hour that has a summary renews that summary.                *)
(***************************************************************************)
\* SQLite numbers a new row one past the largest id in the table.
IsNextId(id) ==
  /\ \A r \in rows : r.id < id
  /\ id = 1 \/ \E r \in rows : r.id = id - 1

LastBucket(stored, d, b) ==
  /\ \E r \in Of(stored, d) : Bucket(r.time) = b
  /\ \A r \in Of(stored, d) : Bucket(r.time) <= b

Renewed(w, b) ==
  \/ LastBucket(rows, w.device, b) /\ Bucket(w.time) > b
  \/ /\ b = Bucket(w.time)
     /\ \E r \in Of(rows, w.device) : Bucket(r.time) >= b
     /\ summary[w.device][b] # {}

Rebuilt(stored, w) ==
  [d \in Devices |-> [b \in Buckets |->
     IF d = w.device /\ Renewed(w, b) THEN IdsIn(stored, d, b) ELSE summary[d][b]]]

-----------------------------------------------------------------------------

Init ==
  /\ rows = {}
  /\ summary = [d \in Devices |-> [b \in Buckets |-> {}]]
  /\ limit \in Limits
  /\ writer = None
  /\ applying = FALSE
  /\ discarded = 0 /\ removed = 0
  /\ failures = 0

BeginWrite(d, t) ==
  /\ writer = None
  /\ \A r \in rows : r.id < MaxId
  /\ Monotone => \A r \in Of(rows, d) : r.time <= t
  /\ writer' = [device |-> d, time |-> t, limit |-> limit]
  /\ UNCHANGED <<rows, summary, limit, applying, discarded, removed, failures>>

Stored(id) == rows \cup {[id |-> id, device |-> writer.device, time |-> writer.time]}
Overflow(id) == Excess(Stored(id), writer.device, writer.limit)

CommitWrite(id) ==
  /\ writer # None
  /\ IsNextId(id)
  /\ rows' = Stored(id) \ Overflow(id)
  /\ summary' = Retained(Rebuilt(Stored(id), writer), Stored(id), Overflow(id))
  /\ discarded' = Counted(Overflow(id))
  /\ removed' = removed + Cardinality(Overflow(id))
  /\ writer' = None
  /\ UNCHANGED <<limit, applying, failures>>

\* The rollback restores the tables and not the counter, which the pruning
\* has moved if it is the commit that fails.
WriteFails(id) ==
  /\ writer # None
  /\ failures < MaxFailures
  /\ failures' = failures + 1
  /\ IsNextId(id)
  /\ discarded' \in {discarded, Counted(Overflow(id))}
  /\ writer' = None
  /\ UNCHANGED <<rows, summary, limit, applying, removed>>

-----------------------------------------------------------------------------

SetLimit(n) ==
  /\ ~applying
  /\ n # limit
  /\ limit' = n
  /\ applying' = TRUE
  /\ UNCHANGED <<rows, summary, writer, discarded, removed, failures>>

AllExcess(ds) == UNION {Excess(rows, d, limit) : d \in ds}

ApplyLimit ==
  /\ applying
  /\ LET gone == AllExcess(Devices)
     IN /\ rows' = rows \ gone
        /\ summary' = Retained(summary, rows, gone)
        /\ discarded' = Counted(gone)
        /\ removed' = removed + Cardinality(gone)
  /\ applying' = FALSE
  /\ UNCHANGED <<limit, writer, failures>>

\* Some of the devices have been pruned, and counted, when a statement fails.
ApplyFails ==
  /\ applying
  /\ failures < MaxFailures
  /\ failures' = failures + 1
  /\ \E ds \in SUBSET Devices : discarded' = Counted(AllExcess(ds))
  /\ applying' = FALSE
  /\ UNCHANGED <<rows, summary, limit, writer, removed>>

\* The tables and the saved limit survive; an open transaction does not.
Restart ==
  /\ Crashes
  /\ writer # None \/ applying \/ discarded > 0
  /\ writer' = None
  /\ applying' = FALSE
  /\ discarded' = 0 /\ removed' = 0
  /\ UNCHANGED <<rows, summary, limit, failures>>

Next ==
  \/ \E d \in Devices, t \in Times : BeginWrite(d, t)
  \/ \E id \in Ids : CommitWrite(id) \/ WriteFails(id)
  \/ \E n \in Limits : SetLimit(n)
  \/ ApplyLimit
  \/ ApplyFails
  \/ Restart

Spec == Init /\ [][Next]_vars

-----------------------------------------------------------------------------

(***************************************************************************)
(* Statistics of the range from..to: the summaries of the hours inside it, *)
(* then the rows no such summary stands for.  Tally is how often the       *)
(* result counts a row.                                                    *)
(***************************************************************************)
\* Mutant: the hour the range starts in counts as full.
StartedHours(from, to) == {b \in Buckets : from \div Hour <= b /\ b < Bucket(to)}
FullHours(from, to) == {b \in Buckets : (from + Hour - 1) \div Hour <= b /\ b < Bucket(to)}
Summarised(d, from, to) == {b \in FullHours(from, to) : summary[d][b] # {}}

RawRows(d, from, to) ==
  {r \in Of(rows, d) : from <= r.time /\ r.time <= to
                       /\ Bucket(r.time) \notin Summarised(d, from, to)}

Tally(d, from, to, id) ==
  Cardinality({b \in Summarised(d, from, to) : id \in summary[d][b]})
    + Cardinality({r \in RawRows(d, from, to) : r.id = id})

InRange(d, from, to) == {r.id : r \in {q \in Of(rows, d) : from <= q.time /\ q.time <= to}}

-----------------------------------------------------------------------------

TypeOK ==
  /\ rows \subseteq Row
  /\ summary \in [Devices -> [Buckets -> SUBSET Ids]]
  /\ limit \in Limits
  /\ writer \in Write \cup {None}
  /\ applying \in BOOLEAN
  /\ discarded \in Nat /\ removed \in Nat
  /\ failures \in 0..MaxFailures

\* A summary accumulates exactly the rows stored for its hour: none that was
\* pruned, and every one that arrived after the hour was first completed.
SummariesExact ==
  \A d \in Devices, b \in Buckets :
    summary[d][b] # {} => summary[d][b] = IdsIn(rows, d, b)

\* Statistics of any range count every stored row of the range exactly once,
\* and no other row, whichever part comes from summaries.
ExactStatistics ==
  \A d \in Devices, from \in Times, to \in Times :
    \A id \in Ids : Tally(d, from, to, id) = IF id \in InRange(d, from, to) THEN 1 ELSE 0

\* Retention takes a device's oldest rows: what goes is older than what
\* stays, the newest row always stays, and a write that the limit overtook
\* costs no other device anything.
OldestGoFirst ==
  [][\A d \in Devices :
       LET gone == Of(rows \ rows', d)
       IN gone # {} =>
            /\ Of(rows', d) # {}
            /\ \A x \in gone, r \in Of(rows', d) : x.id < r.id
            /\ (applying /\ ~applying') \/ (writer # None /\ writer.device = d)]_vars

\* "Removed since startup" never understates what retention has deleted.
DiscardedCovers == removed <= discarded
=============================================================================
