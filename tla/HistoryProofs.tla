---------------------------- MODULE HistoryProofs ----------------------------
(***************************************************************************)
(* Proofs for HistoryStore: type correctness, retention taking the oldest  *)
(* rows first and, when the file time never goes back, summaries that are  *)
(* exact, for any number of devices, rows, hours and limits.               *)
(***************************************************************************)
EXTENDS HistoryStore, FiniteSetTheorems, TLAPS

\* The table is finite and ids identify its rows.
Identified ==
  /\ IsFiniteSet(rows)
  /\ \A r, q \in rows : r.id = q.id => r = q

\* Every device with rows has one that is newest.
HasNewest ==
  \A d \in Devices : Of(rows, d) # {} => \E r \in Of(rows, d) : Newer(rows, r) = {}

\* Rows of a device that came later are not earlier, nor is the one to come.
InTimeOrder(stored) ==
  \A r, q \in stored : r.device = q.device /\ r.id < q.id => r.time <= q.time
Ordered ==
  /\ InTimeOrder(rows)
  /\ writer # None => \A r \in Of(rows, writer.device) : r.time <= writer.time

\* SummariesExact, of any rows and summaries.
Exact(stored, sums) ==
  \A d \in Devices, b \in Buckets :
    sums[d][b] # {} => sums[d][b] = IdsIn(stored, d, b)

\* What goes is older than what stays.
OldestOf(stored, gone) ==
  \A x \in gone, r \in stored \ gone : x.device = r.device => x.id < r.id

IInv ==
  /\ TypeOK /\ Identified /\ HasNewest /\ DiscardedCovers
  /\ Monotone => Ordered /\ SummariesExact

-----------------------------------------------------------------------------
\* Hours follow the order of their instants.
LEMMA BucketMonotone ==
  ASSUME NEW s \in Nat, NEW t \in Nat, s <= t
  PROVE  Bucket(s) \in Nat /\ Bucket(t) \in Nat /\ Bucket(s) <= Bucket(t)
<1>1. Hour \in Nat /\ Hour > 0
  BY StoreAssumption
<1>2. /\ s \div Hour \in Int /\ t \div Hour \in Int
      /\ s = Hour * (s \div Hour) + (s % Hour) /\ 0 <= s % Hour /\ s % Hour < Hour
      /\ t = Hour * (t \div Hour) + (t % Hour) /\ 0 <= t % Hour /\ t % Hour < Hour
  BY <1>1, SMTT(30)
<1> QED BY <1>1, <1>2, SMTT(60) DEF Bucket

\* Pruning takes the oldest rows of the device.
LEMMA ExcessIsOldest ==
  ASSUME NEW S, S \subseteq Row, IsFiniteSet(S), NEW d, NEW n \in Nat
  PROVE  /\ Excess(S, d, n) \subseteq Of(S, d)
         /\ \A x \in Excess(S, d, n), r \in Of(S, d) \ Excess(S, d, n) : x.id < r.id
<1>1. Excess(S, d, n) \subseteq Of(S, d)
  BY DEF Excess, Doomed
<1>2. ASSUME NEW x \in Excess(S, d, n), NEW r \in Of(S, d) \ Excess(S, d, n)
      PROVE  x.id < r.id
  <2>1. SUFFICES ASSUME x.id >= r.id PROVE FALSE
    BY <1>1, <1>2 DEF Of, Row, Ids
  <2>2. /\ x \in S /\ r \in S /\ x.device = r.device
        /\ Cardinality(Newer(S, x)) >= n /\ ~ (Cardinality(Newer(S, r)) >= n)
    BY <1>2 DEF Excess, Doomed, Of
  <2>3. Newer(S, x) \subseteq Newer(S, r)
    BY <2>1, <2>2 DEF Newer, Of, Row, Ids
  <2>4. IsFiniteSet(Newer(S, r))
    BY FS_Subset DEF Newer, Of
  <2>5. /\ Cardinality(Newer(S, x)) \in Nat /\ Cardinality(Newer(S, r)) \in Nat
        /\ Cardinality(Newer(S, x)) <= Cardinality(Newer(S, r))
    BY <2>3, <2>4, FS_Subset, FS_CardinalityType
  <2> QED BY <2>2, <2>5
<1> QED BY <1>1, <1>2

\* A row with nothing newer stays.
LEMMA NewestStays ==
  ASSUME NEW S, NEW d, NEW n \in Nat, NEW r \in Of(S, d), Newer(S, r) = {}
  PROVE  r \notin Excess(S, d, n)
<1>1. Cardinality(Newer(S, r)) = 0
  BY FS_EmptySet
<1> QED BY <1>1 DEF Excess, Doomed

\* Dropping the summaries up to the earliest remaining hour keeps the others
\* exact, because in time order the rows that go are no later than any that stay.
LEMMA RetainedExact ==
  ASSUME NEW S, S \subseteq Row, InTimeOrder(S),
         NEW gone, gone \subseteq S, OldestOf(S, gone),
         NEW sums \in [Devices -> [Buckets -> SUBSET Ids]], Exact(S, sums)
  PROVE  Exact(S \ gone, Retained(sums, S, gone))
<1> SUFFICES ASSUME NEW d \in Devices, NEW b \in Buckets,
                    Retained(sums, S, gone)[d][b] # {}
             PROVE  Retained(sums, S, gone)[d][b] = IdsIn(S \ gone, d, b)
  BY DEF Exact
<1>1. /\ Retained(sums, S, gone)[d][b] = sums[d][b]
      /\ Of(gone, d) = {} \/ ~ Stale(S \ gone, d, b)
  BY DEF Retained
<1>2. sums[d][b] = IdsIn(S, d, b)
  BY <1>1 DEF Exact
<1>3. RowsIn(S \ gone, d, b) = RowsIn(S, d, b)
  <2>1. CASE Of(gone, d) = {}
    BY <2>1 DEF RowsIn, Of
  <2>2. CASE ~ Stale(S \ gone, d, b)
    <3>1. PICK r \in Of(S \ gone, d) : ~ (b <= Bucket(r.time))
      BY <2>2 DEF Stale
    <3>2. ASSUME NEW x \in Of(gone, d) PROVE Bucket(x.time) # b
      <4>1. x.id < r.id /\ x \in S /\ r \in S /\ x.device = r.device
        BY <3>1, <3>2 DEF OldestOf, Of
      <4>2. x.time <= r.time /\ x.time \in Nat /\ r.time \in Nat
        BY <4>1, StoreAssumption DEF InTimeOrder, Row, Times
      <4>3. Bucket(x.time) <= Bucket(r.time) /\ Bucket(x.time) \in Nat /\ Bucket(r.time) \in Nat
        BY <4>2, BucketMonotone
      <4> QED BY <3>1, <4>3
    <3> QED BY <3>2 DEF RowsIn, Of
  <2> QED BY <1>1, <2>1, <2>2
<1> QED BY <1>1, <1>2, <1>3 DEF IdsIn

\* Storing a row renews the only summary the row could falsify.
LEMMA RebuiltExact ==
  ASSUME TypeOK, SummariesExact, writer # None, NEW id \in Ids
  PROVE  Exact(Stored(id), Rebuilt(Stored(id), writer))
<1> DEFINE S == Stored(id)
           w == writer
<1> SUFFICES ASSUME NEW d \in Devices, NEW b \in Buckets, Rebuilt(S, w)[d][b] # {}
             PROVE  Rebuilt(S, w)[d][b] = IdsIn(S, d, b)
  BY DEF Exact
<1>1. CASE d = w.device /\ Renewed(w, b)
  BY <1>1 DEF Rebuilt
<1>2. CASE ~ (d = w.device /\ Renewed(w, b))
  <2>1. Rebuilt(S, w)[d][b] = summary[d][b] /\ summary[d][b] = IdsIn(rows, d, b)
    BY <1>2 DEF Rebuilt, SummariesExact
  <2>2. RowsIn(S, d, b) = RowsIn(rows, d, b)
    <3>1. CASE d # w.device
      BY <3>1 DEF Stored, RowsIn, Of
    <3>2. CASE d = w.device
      <4>1. PICK r \in RowsIn(rows, d, b) : TRUE
        BY <2>1 DEF IdsIn
      <4>2. r \in Of(rows, w.device) /\ Bucket(r.time) >= b
        BY <3>2, <4>1 DEF RowsIn, Buckets
      <4>3. b # Bucket(w.time)
        BY <1>2, <2>1, <3>2, <4>2 DEF Renewed
      <4> QED BY <4>3 DEF Stored, RowsIn, Of
    <3> QED BY <3>1, <3>2
  <2> QED BY <2>1, <2>2 DEF IdsIn
<1> QED BY <1>1, <1>2

-----------------------------------------------------------------------------
\* A committed write: what it stores, what it prunes and what stays.
LEMMA WriteStep ==
  ASSUME IInv, NEW id \in Ids, CommitWrite(id)
  PROVE  /\ IInv'
         /\ Of(rows', writer.device) # {}
         /\ OldestOf(Stored(id), Overflow(id))
         /\ Overflow(id) \subseteq Of(Stored(id), writer.device)
         /\ rows' = Stored(id) \ Overflow(id)
<1> DEFINE new == [id |-> id, device |-> writer.device, time |-> writer.time]
           S == Stored(id)
           gone == Overflow(id)
<1> USE StoreAssumption DEF IInv
<1>1. /\ writer \in Write /\ writer.device \in Devices /\ writer.limit \in Nat
      /\ new \in Row /\ S \subseteq Row
      /\ S = rows \cup {new} /\ new \notin rows /\ \A r \in rows : r.id < id
  <2>1. writer \in Write
    BY DEF TypeOK, CommitWrite
  <2>2. writer.device \in Devices /\ writer.time \in Times /\ writer.limit \in Nat
    BY <2>1 DEF Write
  <2>3. new \in Row /\ \A r \in rows : r.id < id
    BY <2>2 DEF CommitWrite, IsNextId, Row
  <2>4. new \notin rows
    BY <2>3 DEF Ids
  <2> QED BY <2>1, <2>2, <2>3, <2>4 DEF TypeOK, Stored
<1>2. /\ IsFiniteSet(S) /\ \A r, q \in S : r.id = q.id => r = q
      /\ new \in Of(S, writer.device) /\ Newer(S, new) = {}
  <2>1. IsFiniteSet(S)
    BY <1>1, FS_AddElement DEF Identified
  <2>2. \A r, q \in S : r.id = q.id => r = q
    BY <1>1 DEF Identified, Row, Ids
  <2>3. Newer(S, new) = {}
    BY <1>1 DEF Newer, Of, Row, Ids
  <2> QED BY <1>1, <2>1, <2>2, <2>3 DEF Of
<1>3. gone \subseteq Of(S, writer.device) /\ OldestOf(S, gone) /\ new \notin gone
  <2>1. /\ gone \subseteq Of(S, writer.device)
        /\ \A x \in gone, r \in Of(S, writer.device) \ gone : x.id < r.id
    BY <1>1, <1>2, ExcessIsOldest DEF Overflow
  <2>2. new \notin gone
    BY <1>1, <1>2, NewestStays DEF Overflow
  <2> QED BY <2>1, <2>2 DEF OldestOf, Of
<1>4. rows' = S \ gone /\ new \in rows' /\ rows' \subseteq S
  BY <1>1, <1>3 DEF CommitWrite
<1>5. TypeOK'
  <2>1. Cardinality(gone) \in Nat
    BY <1>2, <1>3, FS_Subset, FS_CardinalityType DEF Of
  <2>2. discarded' \in Nat /\ removed' \in Nat
    BY <2>1 DEF TypeOK, CommitWrite, Counted
  <2>3. Rebuilt(S, writer) \in [Devices -> [Buckets -> SUBSET Ids]]
    BY <1>1 DEF Rebuilt, IdsIn, RowsIn, Of, Row, TypeOK
  <2>4. summary' \in [Devices -> [Buckets -> SUBSET Ids]]
    BY <2>3 DEF CommitWrite, Retained
  <2> QED BY <1>1, <1>4, <2>2, <2>4 DEF TypeOK, CommitWrite
<1>6. Identified'
  BY <1>2, <1>4, FS_Subset DEF Identified
<1>7. HasNewest'
  <2> SUFFICES ASSUME NEW d \in Devices, Of(rows', d) # {}
               PROVE  \E r \in Of(rows', d) : Newer(rows', r) = {}
    BY DEF HasNewest
  <2>1. CASE d = writer.device
    <3>1. new \in Of(rows', d) /\ Newer(rows', new) = {}
      BY <1>2, <1>4, <2>1 DEF Of, Newer
    <3> QED BY <3>1
  <2>2. CASE d # writer.device
    <3>1. Of(rows', d) = Of(rows, d)
      BY <1>1, <1>3, <1>4, <2>2 DEF Of
    <3> QED BY <3>1 DEF HasNewest, Newer, Of
  <2> QED BY <2>1, <2>2
<1>8. ASSUME Monotone PROVE Ordered' /\ SummariesExact'
  <2>1. InTimeOrder(S)
    BY <1>1, <1>8 DEF InTimeOrder, Ordered, Of, Row, Ids, CommitWrite
  <2>2. Ordered'
    BY <1>4, <2>1 DEF Ordered, InTimeOrder, CommitWrite
  <2>3. Rebuilt(S, writer) \in [Devices -> [Buckets -> SUBSET Ids]]
    BY <1>1 DEF Rebuilt, IdsIn, RowsIn, Of, Row, TypeOK
  <2>4. Exact(S, Rebuilt(S, writer))
    BY <1>8, RebuiltExact DEF CommitWrite
  <2>5. Exact(S \ gone, Retained(Rebuilt(S, writer), S, gone))
    BY <1>1, <1>3, <2>1, <2>3, <2>4, RetainedExact DEF Of
  <2>6. Exact(rows', summary')
    BY <2>5 DEF CommitWrite
  <2> QED BY <2>2, <2>6 DEF Exact, SummariesExact
<1>9. Of(rows', writer.device) # {}
  BY <1>4 DEF Of
<1>10. DiscardedCovers'
  <2>1. Cardinality(gone) \in Nat
    BY <1>2, <1>3, FS_Subset, FS_CardinalityType DEF Of
  <2> QED BY <2>1 DEF DiscardedCovers, TypeOK, CommitWrite, Counted
<1> QED BY <1>3, <1>4, <1>5, <1>6, <1>7, <1>8, <1>9, <1>10

\* Applying the limit prunes every device on its own.
LEMMA ApplyStep ==
  ASSUME IInv, ApplyLimit
  PROVE  /\ IInv'
         /\ \A d \in Devices : Of(rows, d) # {} => Of(rows', d) # {}
         /\ OldestOf(rows, AllExcess(Devices))
         /\ rows' = rows \ AllExcess(Devices)
<1> DEFINE gone == AllExcess(Devices)
<1> USE StoreAssumption DEF IInv
<1>1. rows \subseteq Row /\ IsFiniteSet(rows) /\ limit \in Nat /\ rows' = rows \ gone
  BY DEF TypeOK, Identified, ApplyLimit
<1>2. \A d \in Devices : /\ Excess(rows, d, limit) \subseteq Of(rows, d)
                         /\ \A x \in Excess(rows, d, limit),
                               r \in Of(rows, d) \ Excess(rows, d, limit) : x.id < r.id
  BY <1>1, ExcessIsOldest
<1>3. \A d \in Devices : Of(gone, d) = Excess(rows, d, limit)
  BY <1>2 DEF AllExcess, Of
<1>4. gone \subseteq rows
  BY <1>2 DEF AllExcess, Of
<1>5. OldestOf(rows, gone)
  BY <1>1, <1>2, <1>3, <1>4 DEF OldestOf, Of, Row
<1>6. ASSUME NEW d \in Devices, Of(rows, d) # {}
      PROVE  \E r \in Of(rows', d) : Newer(rows', r) = {}
  <2>1. PICK r \in Of(rows, d) : Newer(rows, r) = {}
    BY <1>6 DEF HasNewest
  <2>2. r \notin Excess(rows, d, limit)
    BY <1>1, <2>1, NewestStays
  <2>3. r \in Of(rows', d)
    BY <1>1, <1>3, <2>1, <2>2 DEF Of
  <2>4. Newer(rows', r) = {}
    BY <1>1, <2>1 DEF Newer, Of
  <2> QED BY <2>3, <2>4
<1>7. TypeOK'
  <2>1. Cardinality(gone) \in Nat
    BY <1>1, <1>4, FS_Subset, FS_CardinalityType
  <2>2. discarded' \in Nat /\ removed' \in Nat
    BY <2>1 DEF TypeOK, ApplyLimit, Counted
  <2>3. summary' \in [Devices -> [Buckets -> SUBSET Ids]]
    BY DEF TypeOK, ApplyLimit, Retained
  <2> QED BY <1>1, <2>2, <2>3 DEF TypeOK, ApplyLimit
<1>8. Identified'
  BY <1>1, FS_Subset DEF Identified
<1>9. HasNewest'
  BY <1>1, <1>6 DEF HasNewest, Of
<1>10. ASSUME Monotone PROVE Ordered' /\ SummariesExact'
  <2>1. Ordered'
    BY <1>1, <1>10 DEF Ordered, InTimeOrder, ApplyLimit, Of
  <2>2. Exact(rows, summary)
    BY <1>10 DEF Exact, SummariesExact
  <2>3. Exact(rows \ gone, Retained(summary, rows, gone))
    BY <1>1, <1>4, <1>5, <1>10, <2>2, RetainedExact DEF Ordered, TypeOK
  <2>4. Exact(rows', summary')
    BY <2>3 DEF ApplyLimit
  <2> QED BY <2>1, <2>4 DEF Exact, SummariesExact
<1>11. DiscardedCovers'
  <2>1. Cardinality(gone) \in Nat
    BY <1>1, <1>4, FS_Subset, FS_CardinalityType
  <2> QED BY <2>1 DEF DiscardedCovers, TypeOK, ApplyLimit, Counted
<1> QED BY <1>1, <1>5, <1>6, <1>7, <1>8, <1>9, <1>10, <1>11

-----------------------------------------------------------------------------
\* Before the first row there is nothing to order or to summarise.
LEMMA InitIInv == Init => IInv
<1> SUFFICES ASSUME Init PROVE IInv
  OBVIOUS
<1>1. TypeOK
  <2>1. applying \in BOOLEAN
    BY DEF Init
  <2>2. summary \in [Devices -> [Buckets -> SUBSET Ids]]
    BY DEF Init
  <2>3. failures \in 0..MaxFailures /\ discarded \in Nat /\ removed \in Nat
    BY StoreAssumption DEF Init
  <2>4. rows \subseteq Row /\ limit \in Limits /\ writer \in Write \cup {None}
    BY DEF Init
  <2> QED BY <2>1, <2>2, <2>3, <2>4 DEF TypeOK
<1>2. Identified /\ HasNewest
  BY FS_EmptySet DEF Init, Identified, HasNewest, Of
<1>3. Ordered /\ SummariesExact
  BY DEF Init, Ordered, InTimeOrder, SummariesExact
<1>4. DiscardedCovers
  BY DEF Init, DiscardedCovers
<1> QED BY <1>1, <1>2, <1>3, <1>4 DEF IInv

\* A failed transaction leaves the tables alone, whatever it has counted.
LEMMA FailureStep ==
  ASSUME IInv, (\E id \in Ids : WriteFails(id)) \/ ApplyFails
  PROVE  /\ discarded' \in Nat /\ removed' \in Nat /\ failures' \in 0..MaxFailures
         /\ DiscardedCovers'
         /\ writer' \in {writer, None} /\ applying' \in BOOLEAN
         /\ UNCHANGED <<rows, summary, limit>>
<1> USE StoreAssumption DEF IInv
<1>1. CASE ApplyFails
  <2>1. PICK ds \in SUBSET Devices : discarded' = discarded + Cardinality(AllExcess(ds))
    BY <1>1 DEF ApplyFails, Counted
  <2>2. AllExcess(ds) \subseteq rows
    BY DEF AllExcess, Excess, Doomed, Of
  <2>3. Cardinality(AllExcess(ds)) \in Nat
    BY <2>2, FS_Subset, FS_CardinalityType DEF Identified
  <2>4. applying' \in BOOLEAN
    BY <1>1 DEF ApplyFails
  <2>5. discarded' \in Nat /\ removed' \in Nat /\ failures' \in 0..MaxFailures
    BY <1>1, <2>1, <2>3 DEF ApplyFails, TypeOK
  <2>7. DiscardedCovers'
    BY <1>1, <2>1, <2>3 DEF ApplyFails, TypeOK, DiscardedCovers
  <2>6. writer' \in {writer, None} /\ UNCHANGED <<rows, summary, limit>>
    BY <1>1 DEF ApplyFails
  <2> QED BY <2>4, <2>5, <2>6, <2>7
<1>2. ASSUME NEW id \in Ids, WriteFails(id)
      PROVE  /\ discarded' \in Nat /\ removed' \in Nat /\ failures' \in 0..MaxFailures
             /\ DiscardedCovers'
             /\ writer' \in {writer, None} /\ applying' \in BOOLEAN
             /\ UNCHANGED <<rows, summary, limit>>
  <2>1. IsFiniteSet(Stored(id))
    BY FS_AddElement DEF Identified, Stored
  <2>2. Overflow(id) \subseteq Stored(id)
    BY DEF Overflow, Excess, Doomed, Of
  <2>3. Cardinality(Overflow(id)) \in Nat
    BY <2>1, <2>2, FS_Subset, FS_CardinalityType
  <2> QED BY <1>2, <2>3 DEF WriteFails, TypeOK, DiscardedCovers, Counted
<1> QED BY <1>1, <1>2

\* The steps that leave the tables alone.
LEMMA TablesKept ==
  ASSUME IInv, UNCHANGED <<rows, summary>>, TypeOK', DiscardedCovers',
         Monotone => (writer' # None =>
                        \A r \in Of(rows, writer'.device) : r.time <= writer'.time)
  PROVE  IInv'
<1> QED BY DEF IInv, Identified, HasNewest, Ordered, InTimeOrder, SummariesExact,
               Of, Newer, IdsIn, RowsIn

\* Every step preserves the invariant.
LEMMA NextIInv == IInv /\ [Next]_vars => IInv'
<1> SUFFICES ASSUME IInv, [Next]_vars PROVE IInv'
  OBVIOUS
<1> USE StoreAssumption
<1>1. ASSUME NEW d \in Devices, NEW t \in Times, BeginWrite(d, t) PROVE IInv'
  <2>1. writer' = [device |-> d, time |-> t, limit |-> limit] /\ writer' \in Write
    BY <1>1 DEF BeginWrite, Write, IInv, TypeOK
  <2>2. TypeOK' /\ UNCHANGED <<rows, summary>>
    BY <1>1, <2>1 DEF BeginWrite, IInv, TypeOK
  <2>4. DiscardedCovers'
    BY <1>1 DEF BeginWrite, IInv, DiscardedCovers
  <2>3. Monotone => \A r \in Of(rows, writer'.device) : r.time <= writer'.time
    BY <1>1, <2>1 DEF BeginWrite
  <2> QED BY <2>2, <2>3, <2>4, TablesKept
<1>2. ASSUME NEW id \in Ids, CommitWrite(id) PROVE IInv'
  BY <1>2, WriteStep
<1>3. CASE (\E id \in Ids : WriteFails(id)) \/ ApplyFails
  <2>1. /\ TypeOK' /\ DiscardedCovers'
        /\ UNCHANGED <<rows, summary>> /\ writer' \in {writer, None}
    BY <1>3, FailureStep DEF IInv, TypeOK
  <2> QED BY <2>1, TablesKept DEF IInv, Ordered
<1>4. ASSUME NEW n \in Limits, SetLimit(n) PROVE IInv'
  <2>1. TypeOK' /\ DiscardedCovers' /\ UNCHANGED <<rows, summary, writer>>
    BY <1>4 DEF SetLimit, IInv, TypeOK, DiscardedCovers
  <2> QED BY <2>1, TablesKept DEF IInv, Ordered
<1>5. CASE ApplyLimit
  BY <1>5, ApplyStep
<1>6. CASE Restart
  <2>1. TypeOK' /\ UNCHANGED <<rows, summary>> /\ writer' = None
    BY <1>6 DEF Restart, IInv, TypeOK
  <2>2. DiscardedCovers'
    BY <1>6 DEF Restart, DiscardedCovers
  <2> QED BY <2>1, <2>2, TablesKept
<1>7. CASE UNCHANGED vars
  <2>1. TypeOK' /\ DiscardedCovers' /\ UNCHANGED <<rows, summary, writer>>
    BY <1>7 DEF vars, IInv, TypeOK, DiscardedCovers
  <2> QED BY <2>1, TablesKept DEF IInv, Ordered
<1> QED BY <1>1, <1>2, <1>3, <1>4, <1>5, <1>6, <1>7 DEF Next

\* The inductive invariant holds in every reachable state.
THEOREM Invariance == Spec => []IInv
<1> QED BY InitIInv, NextIInv, PTL DEF Spec

\* Every variable stays within its type.
THEOREM TypeCorrect == Spec => []TypeOK
<1>1. IInv => TypeOK
  BY DEF IInv
<1> QED BY <1>1, Invariance, PTL

\* "Removed since startup" never understates what retention has deleted.
THEOREM CounterCovers == Spec => []DiscardedCovers
<1>1. IInv => DiscardedCovers
  BY DEF IInv
<1> QED BY <1>1, Invariance, PTL

\* With file times that never go back, a summary accumulates exactly the rows
\* stored for its hour, through every insert, completion and pruning.
THEOREM SummariesCorrect ==
  ASSUME Monotone
  PROVE  Spec => []SummariesExact
<1>1. IInv => SummariesExact
  BY DEF IInv
<1> QED BY <1>1, Invariance, PTL

\* Retention takes the oldest rows of a device first and never all of them,
\* whatever the file times, and only of the devices the step is about.
THEOREM RetentionCorrect == Spec => OldestGoFirst
<1> DEFINE Step ==
      \A d \in Devices :
        LET gone == Of(rows \ rows', d)
        IN gone # {} =>
             /\ Of(rows', d) # {}
             /\ \A x \in gone, r \in Of(rows', d) : x.id < r.id
             /\ (applying /\ ~applying') \/ (writer # None /\ writer.device = d)
<1>1. ASSUME IInv, [Next]_vars PROVE [Step]_vars
  <2> SUFFICES ASSUME NEW d \in Devices, Of(rows \ rows', d) # {}
               PROVE  /\ Of(rows', d) # {}
                      /\ \A x \in Of(rows \ rows', d), r \in Of(rows', d) : x.id < r.id
                      /\ (applying /\ ~applying') \/ (writer # None /\ writer.device = d)
    OBVIOUS
  <2>1. rows' # rows
    BY DEF Of
  <2>2. ~ UNCHANGED rows => ApplyLimit \/ \E id \in Ids : CommitWrite(id)
    BY <1>1 DEF Next, vars, BeginWrite, WriteFails, SetLimit, ApplyFails, Restart
  <2>3. CASE ApplyLimit
    <3>1. /\ \A e \in Devices : Of(rows, e) # {} => Of(rows', e) # {}
          /\ OldestOf(rows, AllExcess(Devices)) /\ rows' = rows \ AllExcess(Devices)
      BY <1>1, <2>3, ApplyStep
    <3> QED BY <2>3, <3>1 DEF OldestOf, Of, ApplyLimit
  <2>4. ASSUME NEW id \in Ids, CommitWrite(id)
        PROVE  /\ Of(rows', d) # {}
               /\ \A x \in Of(rows \ rows', d), r \in Of(rows', d) : x.id < r.id
               /\ writer # None /\ writer.device = d
    <3>1. /\ Of(rows', writer.device) # {} /\ OldestOf(Stored(id), Overflow(id))
          /\ Overflow(id) \subseteq Of(Stored(id), writer.device)
          /\ rows' = Stored(id) \ Overflow(id)
      BY <1>1, <2>4, WriteStep
    <3>2. Of(rows \ rows', d) \subseteq Overflow(id) /\ rows' \subseteq Stored(id) \ Overflow(id)
      BY <3>1 DEF Of, Stored
    <3>3. writer # None /\ writer.device = d
      BY <2>4, <3>1, <3>2 DEF Of, CommitWrite
    <3> QED BY <3>1, <3>2, <3>3 DEF OldestOf, Of
  <2> QED BY <2>1, <2>2, <2>3, <2>4
<1>2. IInv /\ [Next]_vars => [Step]_vars
  BY <1>1
<1> QED BY <1>2, Invariance, PTL DEF Spec, OldestGoFirst

-----------------------------------------------------------------------------
\* An instant of an hour inside a range is an instant of the range.
LEMMA FullHourInside ==
  ASSUME NEW from \in Nat, NEW to \in Nat, NEW t \in Nat,
         (from + Hour - 1) \div Hour <= Bucket(t), Bucket(t) < Bucket(to)
  PROVE  from <= t /\ t <= to
<1> DEFINE up == from + Hour - 1
<1>1. Hour \in Nat /\ Hour > 0 /\ up \in Nat
  BY StoreAssumption
<1>2. t <= to
  <2>1. CASE to <= t
    BY <2>1, BucketMonotone
  <2> QED BY <2>1
<1>3. from <= t
  <2>1. SUFFICES ASSUME t < from PROVE FALSE
    OBVIOUS
  <2>2. /\ t \div Hour \in Int /\ up \div Hour \in Int
        /\ t = Hour * (t \div Hour) + (t % Hour) /\ 0 <= t % Hour /\ t % Hour < Hour
        /\ up = Hour * (up \div Hour) + (up % Hour) /\ 0 <= up % Hour /\ up % Hour < Hour
    BY <1>1, SMTT(30)
  <2>3. (t + Hour) \div Hour = t \div Hour + 1
    BY <1>1, SMTT(60)
  <2>4. t + Hour \in Nat /\ t + Hour <= up /\ Bucket(t + Hour) <= Bucket(up)
    BY <1>1, <2>1, BucketMonotone
  <2> QED BY <2>2, <2>3, <2>4 DEF Bucket
<1> QED BY <1>2, <1>3

\* With exact summaries, merging them with the rows they do not stand for
\* counts every row of the range once and no other row.
LEMMA TallyExact ==
  ASSUME TypeOK, Identified, SummariesExact,
         NEW d \in Devices, NEW from \in Times, NEW to \in Times, NEW id \in Ids
  PROVE  Tally(d, from, to, id) = IF id \in InRange(d, from, to) THEN 1 ELSE 0
<1> DEFINE hours == {b \in Summarised(d, from, to) : id \in summary[d][b]}
           raw == {r \in RawRows(d, from, to) : r.id = id}
<1>1. from \in Nat /\ to \in Nat /\ \A r \in rows : r.time \in Nat
  BY StoreAssumption DEF Times, TypeOK, Row
<1>2. ASSUME NEW b \in hours
      PROVE  \E r \in Of(rows, d) :
               r.id = id /\ Bucket(r.time) = b /\ from <= r.time /\ r.time <= to
  <2>1. b \in Buckets /\ b \in FullHours(from, to) /\ id \in IdsIn(rows, d, b)
    BY DEF Summarised, FullHours, SummariesExact
  <2>2. PICK r \in Of(rows, d) : r.id = id /\ Bucket(r.time) = b
    BY <2>1 DEF IdsIn, RowsIn
  <2>3. from <= r.time /\ r.time <= to
    BY <1>1, <2>1, <2>2, FullHourInside DEF FullHours, Of
  <2> QED BY <2>2, <2>3
<1>3. Tally(d, from, to, id) = Cardinality(hours) + Cardinality(raw)
  BY DEF Tally
<1>4. CASE id \in InRange(d, from, to)
  <2>1. PICK q \in Of(rows, d) : q.id = id /\ from <= q.time /\ q.time <= to
    BY <1>4 DEF InRange
  <2>2. \A r \in Of(rows, d) : r.id = id => r = q
    BY <2>1 DEF Identified, Of
  <2>3. hours \subseteq {Bucket(q.time)} /\ raw \subseteq {q}
    BY <1>2, <2>2 DEF RawRows
  <2>4. CASE Bucket(q.time) \in Summarised(d, from, to)
    <3>1. id \in summary[d][Bucket(q.time)]
      BY <2>1, <2>4 DEF Summarised, FullHours, SummariesExact, IdsIn, RowsIn
    <3>2. hours = {Bucket(q.time)} /\ raw = {}
      BY <2>3, <2>4, <3>1 DEF RawRows
    <3>3. Cardinality(hours) = 1 /\ Cardinality(raw) = 0
      BY <3>2, FS_Singleton, FS_EmptySet
    <3> QED BY <1>3, <1>4, <3>3
  <2>5. CASE Bucket(q.time) \notin Summarised(d, from, to)
    <3>1. hours = {} /\ raw = {q}
      BY <2>1, <2>3, <2>5 DEF RawRows
    <3>2. Cardinality(hours) = 0 /\ Cardinality(raw) = 1
      BY <3>1, FS_Singleton, FS_EmptySet
    <3> QED BY <1>3, <1>4, <3>2
  <2> QED BY <2>4, <2>5
<1>5. CASE id \notin InRange(d, from, to)
  <2>1. hours = {} /\ raw = {}
    BY <1>2, <1>5 DEF InRange, RawRows
  <2>2. Cardinality(hours) = 0 /\ Cardinality(raw) = 0
    BY <2>1, FS_EmptySet
  <2> QED BY <1>3, <1>5, <2>2
<1> QED BY <1>4, <1>5

\* With file times that never go back, statistics are exact: of every device
\* and range, whatever was completed, renewed and pruned before the query.
THEOREM StatisticsCorrect ==
  ASSUME Monotone
  PROVE  Spec => []ExactStatistics
<1>1. IInv => ExactStatistics
  BY TallyExact DEF IInv, ExactStatistics
<1> QED BY <1>1, Invariance, PTL
=============================================================================
