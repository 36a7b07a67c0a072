----------------------------- MODULE MappingProofs -----------------------------
(***************************************************************************)
(* Proofs about MappingStore: the free SNMP index exists, no accepted      *)
(* change is lost, the mapping stays readable, an added field fits and     *)
(* indexes are stable.                                                     *)
(***************************************************************************)
EXTENDS MappingStore, FiniteSetTheorems, WellFoundedInduction, TLAPS

KeysDiffer(m) == \A s1, s2 \in m : s1 # s2 => s1.key # s2.key

LEMMA ValidKeys == ASSUME NEW m, Valid(m) PROVE KeysDiffer(m)
  BY DEF Valid, KeysDiffer

\* What a set of numbers has is a smallest one.
LEMMA Smallest ==
  ASSUME NEW T \in SUBSET Nat, T # {}
  PROVE  \E i \in T : \A j \in T : ~(j < i)
<1>1. \E x \in T : \A y \in T : ~(<<y, x>> \in OpToRel(<, Nat))
  BY NatLessThanWellFounded, WFMin
<1> QED
  BY <1>1 DEF OpToRel

\* Every section has a key of its own, there are fewer keys than indexes: one
\* index is free, and FreeIndex finds the first.
LEMMA FreeIndexIsFree ==
  ASSUME NEW m \in SUBSET Sections, KeysDiffer(m)
  PROVE  FreeIndex(m) \in 1..MaxIndex /\ \A s \in m : IndexOf(s) # FreeIndex(m)
<1> DEFINE Unused == {i \in 1..MaxIndex : \A s \in m : IndexOf(s) # i}
<1>1. Unused # {}
  <2> SUFFICES ASSUME \A i \in 1..MaxIndex : \E s \in m : IndexOf(s) = i PROVE FALSE
    OBVIOUS
  <2> DEFINE Of(i) == CHOOSE s \in m : IndexOf(s) = i
             keyOf == [i \in 1..MaxIndex |-> Of(i).key]
  <2>1. \A i \in 1..MaxIndex : Of(i) \in m /\ IndexOf(Of(i)) = i
    OBVIOUS
  <2>2. keyOf \in [1..MaxIndex -> Profiles]
    BY <2>1 DEF Sections
  <2>3. IsFiniteSet(1..MaxIndex) /\ Cardinality(1..MaxIndex) = MaxIndex
    BY FS_Interval, FS_CardinalityType, MappingAssumption
  <2>4. PICK i, j \in 1..MaxIndex : i # j /\ keyOf[i] = keyOf[j]
    <3> HIDE DEF keyOf
    <3> QED
      BY <2>2, <2>3, FS_PigeonHole, MappingAssumption
  <2>5. Of(i) = Of(j)
    BY <2>1, <2>4 DEF KeysDiffer
  <2> QED
    BY <2>1, <2>4, <2>5
<1>2. PICK i \in Unused : \A j \in Unused : ~(j < i)
  <2>1. Unused \in SUBSET Nat
    BY MappingAssumption
  <2> HIDE DEF Unused
  <2> QED
    BY <1>1, <2>1, Smallest
<1>3. \A j \in 1..(i - 1) : \E s \in m : IndexOf(s) = j
  BY <1>2, MappingAssumption
<1>4. \E k \in 1..MaxIndex :
        /\ \A s \in m : IndexOf(s) # k
        /\ \A j \in 1..(k - 1) : \E s \in m : IndexOf(s) = j
  BY <1>2, <1>3
<1> QED
  BY <1>4 DEF FreeIndex

-----------------------------------------------------------------------------
\* What setting a limit and adding a field make of a document.
Keeps(x, s) ==
  x.owner = s.owner /\ x.key = s.key /\ x.xml = s.xml /\ x.index = s.index /\ x.top = s.top
  /\ (x.meta = "broken" => s.meta = "broken")

Changed(s, p, f, l, known) == IF s.key = p THEN Edited(s, f, l, known) ELSE s

LEMMA LimitKeeps ==
  ASSUME NEW m \in SUBSET Sections, NEW p \in Profiles, NEW f \in Fields,
         NEW l \in Limits \cup {Plain}, NEW known \in BOOLEAN, NEW x \in With(m, p, f, l, known)
  PROVE  /\ x \in Sections
         /\ \E s \in m : Keeps(x, s) /\ x = Changed(s, p, f, l, known)
<1>1. PICK s \in m : x = Changed(s, p, f, l, known)
  BY DEF With, Changed
<1>2. s \in Sections
  OBVIOUS
<1>3. CASE s.key # p
  BY <1>1, <1>2, <1>3 DEF Keeps, Changed
<1>4. CASE s.key = p
  <2>1. x = [s EXCEPT !.fields[f] = l, !.meta = IF known \/ @ # "whole" THEN @ ELSE "part"]
    BY <1>1, <1>4 DEF Changed, Edited
  <2>2. x \in Sections /\ Keeps(x, s)
    BY <1>2, <2>1 DEF Sections, Metadata, Keeps
  <2> QED
    BY <1>1, <2>2
<1> QED
  BY <1>3, <1>4

LEMMA LimitValid ==
  ASSUME NEW m \in SUBSET Sections, NEW p \in Profiles, NEW f \in Fields,
         NEW l \in Limits \cup {Plain}, NEW known \in BOOLEAN
  PROVE  /\ With(m, p, f, l, known) \in SUBSET Sections
         /\ KeysDiffer(m) => KeysDiffer(With(m, p, f, l, known))
         /\ Valid(m) => Valid(With(m, p, f, l, known))
<1>1. \A x1, x2 \in With(m, p, f, l, known) : x1 # x2 =>
        \E s1, s2 \in m : s1 # s2 /\ Keeps(x1, s1) /\ Keeps(x2, s2)
  <2>1. \A x \in With(m, p, f, l, known) :
          \E s \in m : Keeps(x, s) /\ x = Changed(s, p, f, l, known)
    BY LimitKeeps
  <2> QED
    BY <2>1
<1>2. With(m, p, f, l, known) \in SUBSET Sections
  BY LimitKeeps
<1>3. KeysDiffer(m) => KeysDiffer(With(m, p, f, l, known))
  BY <1>1 DEF KeysDiffer, Keeps
<1>4. \A x \in With(m, p, f, l, known) : \E s \in m : Keeps(x, s)
  BY LimitKeeps
<1>5. Valid(m) => Valid(With(m, p, f, l, known))
  BY <1>1, <1>4 DEF Valid, Keeps, IndexOf
<1> QED
  BY <1>2, <1>3, <1>5

LEMMA NewSectionIs ==
  ASSUME NEW m \in SUBSET Sections, KeysDiffer(m), NEW p \in Profiles, NEW f \in Fields
  PROVE  LET n == NewSection(m, p, f)
         IN  /\ n \in Sections /\ n.owner = p /\ n.key = p /\ n.xml = p /\ n.meta # "broken"
             /\ IndexOf(n) # None /\ \A s \in m : IndexOf(s) # IndexOf(n)
<1>1. FreeIndex(m) \in 1..MaxIndex /\ \A s \in m : IndexOf(s) # FreeIndex(m)
  BY FreeIndexIsFree
<1>2. FreeIndex(m) # None
  BY <1>1, MappingAssumption
<1>3. NewSection(m, p, f) \in Sections
  BY <1>1 DEF NewSection, Sections, Indexes, Metadata
<1>4. IndexOf(NewSection(m, p, f)) = FreeIndex(m)
  BY DEF IndexOf, NewSection
<1> QED
  BY <1>1, <1>2, <1>3, <1>4 DEF NewSection

LEMMA FieldValid ==
  ASSUME NEW m \in SUBSET Sections, KeysDiffer(m), NEW p \in Profiles, NEW f \in Fields
  PROVE  /\ WithField(m, p, f) \in SUBSET Sections
         /\ KeysDiffer(WithField(m, p, f))
         /\ Valid(m) => \/ Valid(WithField(m, p, f))
                        \/ \E s \in m : s.xml = p /\ s.key # p
<1>1. CASE Located(m, p) # {}
  BY <1>1, LimitValid DEF WithField
<1>2. CASE Located(m, p) = {}
  <2> PICK n : n = NewSection(m, p, f)
    OBVIOUS
  <2>1. WithField(m, p, f) = {s \in m : s.owner # p} \cup {n}
    BY <1>2 DEF WithField
  <2>2. /\ n \in Sections /\ n.owner = p /\ n.key = p /\ n.xml = p /\ n.meta # "broken" /\ IndexOf(n) # None
        /\ \A s \in m : IndexOf(s) # IndexOf(n) /\ s.key # n.key
    BY <1>2, NewSectionIs DEF Located
  <2> QED
    BY <2>1, <2>2 DEF KeysDiffer, Valid
<1> QED
  BY <1>1, <1>2

\* The tool fills in an index that is missing, from the packaged section or
\* entry, and what it does with the rest only matters where limits clash.
LEMMA MergedSectionIs ==
  ASSUME NEW s \in Sections
  PROVE  LET x == MergedSection(s)
         IN  /\ x \in Sections /\ x.owner = s.owner /\ x.key = s.key /\ x.xml = s.xml
             /\ x.meta = "broken" => s.meta = "broken" \/ (s.meta = "clash" /\ Entry(s) # {})
             /\ \/ x.index = s.index
                \/ s.index = None /\ \E y \in Packaged :
                     y.owner = s.owner /\ y.key = s.key /\ x.index = y.index
             /\ \/ x.top = s.top
                \/ s.top = None /\ \E y \in Packaged : y.owner = s.owner /\ x.top = y.top
<1> DEFINE own == {y.index : y \in Same(s)}
           tops == {y.top : y \in Entry(s)}
           x == MergedSection(s)
<1>1. Entry(s) \subseteq Packaged /\ Entry(s) \subseteq Sections /\ Same(s) \subseteq Entry(s)
  BY MappingAssumption DEF Entry, Same
<1>2. own \subseteq Indexes /\ tops \subseteq Indexes
  BY <1>1 DEF Sections
<1>3. Missing(s.index, own) = s.index \/ (s.index = None /\ Missing(s.index, own) \in own)
  BY DEF Missing
<1>4. Missing(s.top, tops) = s.top \/ (s.top = None /\ Missing(s.top, tops) \in tops)
  BY DEF Missing
<1>5. Missing(s.index, own) \in Indexes /\ Missing(s.top, tops) \in Indexes
  BY <1>2, <1>3, <1>4 DEF Sections
<1>6. /\ x.index = Missing(s.index, own) /\ x.top = Missing(s.top, tops) /\ x \in Sections
      /\ x.owner = s.owner /\ x.key = s.key /\ x.xml = s.xml
      /\ x.meta = "broken" => s.meta = "broken" \/ (s.meta = "clash" /\ Entry(s) # {})
  <2>1. x = [s EXCEPT !.index = Missing(s.index, own), !.top = Missing(s.top, tops),
                      !.meta = IF Entry(s) = {} THEN s.meta
                               ELSE IF s.meta \in {"clash", "broken"} THEN "broken" ELSE "whole"]
    BY DEF MergedSection
  <2> HIDE DEF x, own, tops
  <2> QED
    BY <1>5, <2>1 DEF Sections, Metadata
<1>7. Missing(s.index, own) \in own =>
        \E y \in Packaged : y.owner = s.owner /\ y.key = s.key /\ Missing(s.index, own) = y.index
  BY <1>1 DEF Entry, Same
<1>8. Missing(s.top, tops) \in tops =>
        \E y \in Packaged : y.owner = s.owner /\ Missing(s.top, tops) = y.top
  BY <1>1 DEF Entry
<1> HIDE DEF x, own, tops
<1>9. /\ x.index = s.index \/ (s.index = None /\ \E y \in Packaged :
                                  y.owner = s.owner /\ y.key = s.key /\ x.index = y.index)
      /\ x.top = s.top \/ (s.top = None /\ \E y \in Packaged : y.owner = s.owner /\ x.top = y.top)
  BY <1>3, <1>4, <1>6, <1>7, <1>8
<1> QED
  BY <1>6, <1>9 DEF x

LEMMA MergedTyped ==
  ASSUME NEW m \in SUBSET Sections
  PROVE  /\ Merged(m) \in SUBSET Sections
         /\ KeysDiffer(m) => KeysDiffer(Merged(m))
  BY MergedSectionIs DEF Merged, KeysDiffer

\* Two indexes that the packaged mapping gives are of one of its sections, or
\* differ.
LEMMA PackagedDiffer ==
  ASSUME NEW y1 \in Packaged, NEW y2 \in Packaged, y1 # y2,
         NEW i1 \in {y1.index, y1.top}, NEW i2 \in {y2.index, y2.top}, i1 # None, i2 # None
  PROVE  i1 # i2
<1>1. IndexOf(y1) = i1 /\ IndexOf(y2) = i2
  BY MappingAssumption DEF IndexOf
<1> QED
  BY <1>1, MappingAssumption DEF Valid

\* Merging keeps a document valid if what it adds has a place.
LEMMA MergedValid ==
  ASSUME NEW m \in SUBSET Sections, Valid(m), ~Taken(m)
  PROVE  Valid(Merged(m))
<1> SUFFICES ASSUME NEW s1 \in m, NEW s2 \in m, NEW x1, NEW x2,
                    x1 = MergedSection(s1), x2 = MergedSection(s2), x1 # x2
             PROVE  /\ x1.key # x2.key
                    /\ x1.xml # x2.xml
                    /\ x1.top # None => x1.owner # x2.owner
                    /\ IndexOf(x1) = None \/ IndexOf(x1) # IndexOf(x2)
  <2>1. \A s \in m : MergedSection(s).meta # "broken"
    BY MergedSectionIs DEF Valid, Taken
  <2> QED
    BY <2>1 DEF Valid, Merged
<1>1. s1 # s2
  OBVIOUS
<1>2. /\ s1.key # s2.key /\ s1.xml # s2.xml
      /\ s1.top # None => s1.owner # s2.owner
      /\ IndexOf(s1) = None \/ IndexOf(s1) # IndexOf(s2)
  BY <1>1 DEF Valid
<1>3. /\ x1.owner = s1.owner /\ x1.key = s1.key /\ x1.xml = s1.xml
      /\ x2.owner = s2.owner /\ x2.key = s2.key /\ x2.xml = s2.xml
  BY MergedSectionIs
<1>4. /\ x1.top # s1.top => s2.owner # s1.owner
      /\ x2.top # s2.top => s2.owner # s1.owner
      /\ IndexOf(x1) \notin {IndexOf(s1), None} => IndexOf(x1) # IndexOf(s2)
      /\ IndexOf(x2) \notin {IndexOf(s2), None} => IndexOf(x2) # IndexOf(s1)
  BY <1>1 DEF Taken
<1>5. x1.top # None => x1.owner # x2.owner
  BY <1>2, <1>3, <1>4
<1>6. ASSUME IndexOf(x1) # None, IndexOf(x1) = IndexOf(x2) PROVE FALSE
  <2>1. IndexOf(x1) # IndexOf(s1) /\ IndexOf(x2) # IndexOf(s2)
    BY <1>2, <1>4, <1>6
  <2>2. \/ \E y \in Packaged : y.owner = s1.owner /\ y.key = s1.key /\ IndexOf(x1) = y.index
        \/ \E y \in Packaged : y.owner = s1.owner /\ IndexOf(x1) = y.top /\ x1.top # None
    BY <1>6, <2>1, MergedSectionIs DEF IndexOf
  <2>3. \/ \E y \in Packaged : y.owner = s2.owner /\ y.key = s2.key /\ IndexOf(x2) = y.index
        \/ \E y \in Packaged : y.owner = s2.owner /\ IndexOf(x2) = y.top /\ x2.top # None
    BY <1>6, <2>1, MergedSectionIs DEF IndexOf
  <2>4. x2.top # None => s1.owner # s2.owner
    BY <1>1, <1>3, <1>4 DEF Valid
  <2>5. PICK y1 \in Packaged : y1.owner = s1.owner /\ IndexOf(x1) \in {y1.index, y1.top}
                               /\ (y1.key = s1.key \/ x1.top # None)
    BY <2>2
  <2>6. PICK y2 \in Packaged : y2.owner = s2.owner /\ IndexOf(x2) \in {y2.index, y2.top}
                               /\ (y2.key = s2.key \/ x2.top # None)
    BY <2>3
  <2>7. y1 # y2
    BY <1>2, <1>3, <1>5, <2>4, <2>5, <2>6
  <2> QED
    BY <1>6, <2>5, <2>6, <2>7, PackagedDiffer
<1> QED
  BY <1>2, <1>3, <1>5, <1>6

-----------------------------------------------------------------------------
\* The inductive invariant: what an asked change carries, the keys that differ
\* in every document, and what the holder of the lock has read and built.
Requested(h) ==
  h.step # "idle" =>
    /\ h.op \in {"limit", "field", "replace"}
    /\ h.op \in {"limit", "field"} => h.profile \in Profiles /\ h.field \in Fields
    /\ h.op = "limit" => h.limit \in Limits \cup {Plain}

Built(h) ==
  h.step = "writing" =>
    /\ h.op # "replace" => Valid(h.seen) /\ h.pending = Applied(h.seen, h)
    /\ h.op = "field" /\ ~Valid(h.pending) => \E s \in h.seen : s.xml = h.profile /\ s.key # h.profile

Requests == \A t \in Threads : Requested(handler[t]) /\ Built(handler[t])
Keys == KeysDiffer(file) /\ KeysDiffer(expected) /\ KeysDiffer(tool.seen)
Locked == \A t \in Threads : handler[t].step = "writing" => lock = t
Current == ~overlap => \A t \in Threads : handler[t].step = "writing" => handler[t].seen = file

\* The tool merges into a document that was valid when it read it.
ReadValid == ~collided /\ tool.on => Valid(tool.seen)

IInv == TypeOK /\ Requests /\ Keys /\ Locked /\ Current /\ NoLostEdit /\ Readable /\ ReadValid

LEMMA IdleTyped == Idle \in Handlers /\ Requested(Idle) /\ Built(Idle) /\ Idle.step = "idle"
  BY DEF Idle, Handlers, Requested, Built

LEMMA InvInit == Init => IInv
<1> SUFFICES ASSUME Init PROVE IInv
  OBVIOUS
<1>1. file \in SUBSET Sections /\ Valid(file) /\ KeysDiffer(file)
  BY ValidKeys, MappingAssumption DEF Init
<1>2. TypeOK
  BY <1>1, IdleTyped DEF Init, TypeOK, NoTool
<1>3. Requests /\ Locked /\ Current
  BY IdleTyped DEF Init, Requests, Locked, Current
<1>4. KeysDiffer(tool.seen)
  BY DEF Init, NoTool, KeysDiffer
<1> QED
  BY <1>1, <1>2, <1>3, <1>4 DEF Init, IInv, Keys, NoLostEdit, Readable, ReadValid, NoTool

\* What a request makes of a document with keys that differ.
LEMMA AppliedTyped ==
  ASSUME NEW m \in SUBSET Sections, KeysDiffer(m), NEW h \in Handlers, Requested(h),
         h.step # "idle", h.op # "replace"
  PROVE  Applied(m, h) \in SUBSET Sections /\ KeysDiffer(Applied(m, h))
<1>1. CASE h.op = "limit"
  <2>1. Applied(m, h) = With(m, h.profile, h.field, h.limit, TRUE)
    BY <1>1 DEF Applied, WithLimit
  <2>2. h.profile \in Profiles /\ h.field \in Fields /\ h.limit \in Limits \cup {Plain}
    BY <1>1 DEF Requested
  <2>3. \A known \in BOOLEAN :
          LET x == With(m, h.profile, h.field, h.limit, known)
          IN  x \in SUBSET Sections /\ KeysDiffer(x)
    BY <2>2, LimitValid
  <2> QED
    BY <2>1, <2>3
<1>2. CASE h.op = "field"
  <2>1. Applied(m, h) = WithField(m, h.profile, h.field)
    BY <1>2 DEF Applied
  <2> QED
    BY <1>2, <2>1, FieldValid DEF Requested
<1> QED
  BY <1>1, <1>2 DEF Requested

\* A thread asks, is refused or gives up: its handler is as typed and nothing
\* but lock and counters changes.
LEMMA InvIdle ==
  ASSUME IInv, NEW t \in Threads, NEW h \in Handlers, Requested(h), h.step # "writing",
         Sets(t, h), lock' \in {lock, None}, lock' = lock \/ handler[t].step = "writing",
         UNCHANGED <<file, live, tool, expected, overlap, collided>>,
         count' \in [writes : Nat, merges : Nat, failures : Nat]
  PROVE  IInv'
<1>1. \A u \in Threads : handler'[u] = IF u = t THEN h ELSE handler[u]
  BY DEF IInv, TypeOK, Sets
<1>2. TypeOK'
  BY DEF IInv, TypeOK, Sets
<1>3. Built(h)
  BY DEF Built
<1>4. Requests'
  BY <1>1, <1>3 DEF IInv, Requests
<1>5. Locked' /\ Current'
  BY <1>1 DEF IInv, Locked, Current
<1> QED
  BY <1>2, <1>4, <1>5 DEF IInv, Keys, NoLostEdit, Readable, ReadValid

LEMMA InvAsk ==
  ASSUME IInv, NEW t \in Threads,
         \/ Load(t) \/ Refuse(t) \/ CommitFails(t)
         \/ \E p \in Profiles, f \in Fields :
              AskField(t, p, f) \/ \E l \in Limits \cup {Plain} : AskLimit(t, p, f, l)
  PROVE  IInv'
<1> DEFINE Countable == count' \in [writes : Nat, merges : Nat, failures : Nat]
<1>1. count \in [writes : Nat, merges : Nat, failures : Nat]
  BY DEF IInv, TypeOK
<1>2. CASE Load(t)
  <2> PICK h : h = [Idle EXCEPT !.step = "asked", !.op = "replace", !.seen = file]
    OBVIOUS
  <2>1. h \in Handlers /\ Requested(h) /\ h.step = "asked"
    BY DEF IInv, TypeOK, Idle, Handlers, Requested
  <2>2. Sets(t, h) /\ UNCHANGED <<file, live, lock, tool, expected, overlap, collided, count>>
    BY <1>2 DEF Load
  <2> QED
    BY <1>1, <2>1, <2>2, InvIdle
<1>3. CASE Refuse(t)
  BY <1>1, <1>3, IdleTyped, InvIdle DEF Refuse
<1>4. CASE CommitFails(t)
  <2>1. Countable
    BY <1>1, <1>4 DEF CommitFails
  <2> QED
    BY <1>4, <2>1, IdleTyped, InvIdle DEF CommitFails
<1>5. ASSUME NEW p \in Profiles, NEW f \in Fields, AskField(t, p, f) PROVE IInv'
  <2> PICK h : h = [Idle EXCEPT !.step = "asked", !.op = "field", !.profile = p, !.field = f]
    OBVIOUS
  <2>1. h \in Handlers /\ Requested(h) /\ h.step = "asked"
    BY DEF Idle, Handlers, Requested
  <2>2. Sets(t, h) /\ UNCHANGED <<file, live, lock, tool, expected, overlap, collided, count>>
    BY <1>5 DEF AskField
  <2> QED
    BY <1>1, <2>1, <2>2, InvIdle
<1>6. ASSUME NEW p \in Profiles, NEW f \in Fields, NEW l \in Limits \cup {Plain}, AskLimit(t, p, f, l)
      PROVE  IInv'
  <2> PICK h : h = [Idle EXCEPT !.step = "asked", !.op = "limit", !.profile = p, !.field = f, !.limit = l]
    OBVIOUS
  <2>1. h \in Handlers /\ Requested(h) /\ h.step = "asked"
    BY DEF Idle, Handlers, Requested
  <2>2. Sets(t, h) /\ UNCHANGED <<file, live, lock, tool, expected, overlap, collided, count>>
    BY <1>6 DEF AskLimit
  <2> QED
    BY <1>1, <2>1, <2>2, InvIdle
<1> QED
  BY <1>2, <1>3, <1>4, <1>5, <1>6

\* Under the lock a change is built on the file as it is.
LEMMA InvEnter ==
  ASSUME IInv, NEW t \in Threads, NEW m \in Documents \cup {{}}, Enter(t, m)
  PROVE  IInv'
<1> PICK old : old = handler[t]
  OBVIOUS
<1> PICK h : h = [old EXCEPT !.step = "writing", !.seen = file,
                    !.pending = IF old.op = "replace" THEN m ELSE Applied(file, old)]
  OBVIOUS
<1>1. old \in Handlers /\ Requested(old) /\ old.step = "asked" /\ file \in SUBSET Sections
      /\ KeysDiffer(file) /\ lock = None
  BY DEF IInv, TypeOK, Requests, Keys, Enter
<1>2. m \in SUBSET Sections
  BY MappingAssumption
<1>3. old.op # "replace" => Applied(file, old) \in SUBSET Sections /\ Valid(file)
  BY <1>1, AppliedTyped DEF Enter
<1>4. /\ h \in Handlers /\ h.step = "writing" /\ h.seen = file
      /\ h.op = old.op /\ h.profile = old.profile /\ h.field = old.field /\ h.limit = old.limit
      /\ old.op # "replace" => h.pending = Applied(file, old)
  BY <1>1, <1>2, <1>3 DEF Handlers
<1>5. Requested(h)
  BY <1>1, <1>4 DEF Requested
<1>6. old.op # "replace" => Applied(file, h) = Applied(file, old)
  BY <1>1, <1>4 DEF Applied, Requested
<1>7. Built(h)
  <2>1. CASE h.op = "field"
    <3>1. h.pending = WithField(file, h.profile, h.field)
      BY <1>4, <2>1 DEF Applied
    <3> QED
      BY <1>1, <1>3, <1>4, <1>5, <1>6, <2>1, <3>1, FieldValid DEF Built, Requested
  <2>2. CASE h.op # "field"
    BY <1>3, <1>4, <1>6, <2>2 DEF Built
  <2> QED
    BY <2>1, <2>2
<1>8. \A u \in Threads : handler'[u] = IF u = t THEN h ELSE handler[u]
  BY DEF IInv, TypeOK, Enter, Sets
<1>9. TypeOK'
  BY <1>4, <1>8 DEF IInv, TypeOK, Enter, Sets
<1>10. Requests'
  BY <1>5, <1>7, <1>8 DEF IInv, Requests
<1>11. \A u \in Threads : handler[u].step # "writing"
  BY <1>1, MappingAssumption DEF IInv, Locked
<1>12. Locked' /\ Current'
  <2>1. lock' = t /\ UNCHANGED <<file, overlap>>
    BY DEF Enter
  <2>2. \A u \in Threads : handler'[u].step = "writing" => u = t /\ handler'[u].seen = file
    BY <1>4, <1>8, <1>11
  <2> QED
    BY <2>1, <2>2 DEF Locked, Current
<1> QED
  BY <1>9, <1>10, <1>12 DEF IInv, Keys, NoLostEdit, Readable, ReadValid, Enter

\* What was built replaces the file that was read: the next of the changes made
\* one after another.
LEMMA InvCommit ==
  ASSUME IInv, NEW t \in Threads, Commit(t)
  PROVE  IInv'
<1> PICK h : h = handler[t]
  OBVIOUS
<1>1. h \in Handlers /\ Requested(h) /\ Built(h) /\ h.step = "writing" /\ lock = t
      /\ Valid(h.pending) /\ h.pending \in SUBSET Sections
  BY DEF IInv, TypeOK, Requests, Locked, Commit, Handlers
<1>2. file' = h.pending /\ KeysDiffer(h.pending)
  BY <1>1, ValidKeys DEF Commit
<1>3. Serial(h) \in SUBSET Sections /\ KeysDiffer(Serial(h))
  <2>1. CASE h.op = "replace"
    <3>1. Serial(h) = {} \/ Serial(h) = h.pending
      BY <2>1 DEF Serial, Applied
    <3>2. KeysDiffer({})
      BY DEF KeysDiffer
    <3> QED
      BY <1>1, <1>2, <3>1, <3>2
  <2>2. CASE h.op # "replace"
    <3>1. Serial(h) = Applied(expected, h)
      BY <2>2 DEF Serial
    <3> QED
      BY <1>1, <2>2, <3>1, AppliedTyped DEF IInv, TypeOK, Keys
  <2> QED
    BY <2>1, <2>2
<1>4. \A u \in Threads : handler'[u] = IF u = t THEN Idle ELSE handler[u]
  BY DEF IInv, TypeOK, Commit, Sets
<1>5. TypeOK'
  <2>1. handler' \in [Threads -> Handlers]
    BY <1>4, IdleTyped DEF IInv, TypeOK, Commit, Sets
  <2>2. count' \in [writes : Nat, merges : Nat, failures : Nat]
    BY DEF IInv, TypeOK, Commit
  <2>3. file' \subseteq Sections /\ expected' \subseteq Sections
    BY <1>1, <1>2, <1>3 DEF Commit
  <2> QED
    BY <2>1, <2>2, <2>3 DEF IInv, TypeOK, Commit
<1>6. Requests'
  BY <1>4, IdleTyped DEF IInv, Requests
<1>7. Locked' /\ Current'
  <2>1. \A u \in Threads : handler'[u].step # "writing"
    BY <1>1, <1>4, IdleTyped DEF IInv, Locked
  <2> QED
    BY <2>1 DEF Locked, Current
<1>8. Keys'
  <2>1. file' = h.pending /\ expected' = Serial(h) /\ tool' = tool
    BY DEF Commit
  <2>2. KeysDiffer(file') /\ KeysDiffer(expected') /\ KeysDiffer(tool'.seen)
    BY <1>2, <1>3, <2>1 DEF IInv, Keys
  <2> QED
    BY <2>2 DEF Keys, KeysDiffer
<1>9. NoLostEdit'
  <2> SUFFICES ASSUME ~overlap PROVE h.pending = Serial(h)
    BY <1>2 DEF NoLostEdit, Commit
  <2>1. h.seen = file /\ file = expected
    BY <1>1 DEF IInv, Current, NoLostEdit
  <2>2. h.op = "replace" => Applied(expected, h) = h.pending
    BY DEF Applied
  <2> QED
    BY <1>1, <2>1, <2>2 DEF Built, Serial
<1>10. Readable' /\ ReadValid'
  <2>1. Valid(file')
    BY <1>1, <1>2
  <2> QED
    BY <2>1 DEF IInv, Readable, ReadValid, Valid, Commit
<1> QED
  BY <1>5, <1>6, <1>7, <1>8, <1>9, <1>10 DEF IInv

LEMMA InvTool ==
  ASSUME IInv, Poll \/ ToolReads \/ ToolWrites
  PROVE  IInv'
<1>1. CASE Poll
  BY <1>1 DEF Poll, IInv, TypeOK, Requests, Keys, Locked, Current, NoLostEdit, Readable, ReadValid
<1>2. CASE ToolReads
  <2>1. tool' \in [on : BOOLEAN, seen : SUBSET Sections]
    BY <1>2 DEF IInv, TypeOK, ToolReads
  <2>2. count' \in [writes : Nat, merges : Nat, failures : Nat]
    BY <1>2 DEF IInv, TypeOK, ToolReads
  <2> QED
    BY <1>2, <2>1, <2>2 
    DEF ToolReads, IInv, TypeOK, Requests, Keys, Locked, Current, NoLostEdit, Readable, ReadValid
<1>3. CASE ToolWrites
  <2>1. tool.seen \in SUBSET Sections /\ expected \in SUBSET Sections
    BY DEF IInv, TypeOK
  <2>2. Merged(tool.seen) \in SUBSET Sections /\ Merged(expected) \in SUBSET Sections
    BY <2>1, MergedTyped
  <2>3. tool' \in [on : BOOLEAN, seen : SUBSET Sections]
    BY <1>3 DEF ToolWrites, NoTool
  <2>4. TypeOK'
    BY <1>3, <2>2, <2>3 DEF ToolWrites, IInv, TypeOK
  <2>5. Keys'
    <3>1. KeysDiffer(tool.seen) /\ KeysDiffer(expected) /\ KeysDiffer({})
      BY DEF IInv, Keys, KeysDiffer
    <3>2. KeysDiffer(Merged(tool.seen)) /\ KeysDiffer(Merged(expected))
      BY <2>1, <3>1, MergedTyped
    <3> QED
      BY <1>3, <3>1, <3>2 DEF ToolWrites, NoTool, Keys, KeysDiffer
  <2>6. Requests' /\ Locked'
    BY <1>3 DEF ToolWrites, IInv, Requests, Locked
  <2>7. ~overlap' => ~overlap /\ file = tool.seen /\ lock = None
    BY <1>3 DEF ToolWrites
  <2>8. Current' /\ NoLostEdit'
    <3>1. ~overlap' => \A t \in Threads : handler[t].step # "writing"
      BY <2>7, MappingAssumption DEF IInv, Locked
    <3> QED
      BY <1>3, <2>7, <3>1 DEF ToolWrites, IInv, Current, NoLostEdit
  <2>9. Readable' /\ ReadValid'
    <3>1. ~collided' => Valid(Merged(tool.seen))
      BY <1>3, <2>1, MergedValid DEF ToolWrites, IInv, ReadValid
    <3> QED
      BY <1>3, <3>1 DEF ToolWrites, NoTool, Readable, ReadValid, Valid
  <2> QED
    BY <2>4, <2>5, <2>6, <2>8, <2>9 DEF IInv
<1> QED
  BY <1>1, <1>2, <1>3

LEMMA InvStep == IInv /\ [Next]_vars => IInv'
<1> SUFFICES ASSUME IInv, [Next]_vars PROVE IInv'
  OBVIOUS
<1>1. CASE Next
  BY <1>1, InvAsk, InvEnter, InvCommit, InvTool DEF Next, Writer
<1>2. CASE UNCHANGED vars
  BY <1>2 DEF vars, IInv, TypeOK, Requests, Keys, Locked, Current, NoLostEdit, Readable, ReadValid
<1> QED
  BY <1>1, <1>2

THEOREM Invariance == Spec => []IInv
  BY InvInit, InvStep, PTL DEF Spec

\* Every variable has its type; a free index is a number within the bound.
THEOREM TypeCorrect == Spec => []TypeOK
  BY Invariance, PTL DEF IInv

\* No accepted change of the mapping is lost, whoever makes it, unless the
\* command-line tool, which does not take the lock, writes into it.
THEOREM NoLostEditCorrect == Spec => []NoLostEdit
  BY Invariance, PTL DEF IInv

\* The mapping on disk is always one that the poller can load, unless the tool
\* read one in which an index it was to add had no place: merging a valid
\* mapping with the packaged one keeps it valid otherwise.
THEOREM ReadableCorrect == Spec => []Readable
  BY Invariance, PTL DEF IInv

\* A discovered field fits into the mapping unless another profile shows its XML
\* section: the first free index exists and is of no other section.
THEOREM AddFitsCorrect == Spec => []AddFits
<1>1. IInv => AddFits
  BY DEF IInv, Requests, Built, AddFits
<1> QED
  BY <1>1, Invariance, PTL

\* What a written limit or field leaves of the file.
LEMMA CommitApplies ==
  ASSUME IInv, NEW t \in Threads, Commit(t), ~overlap, handler[t].op # "replace"
  PROVE  file' = Applied(file, handler[t]) /\ Valid(file)
  BY DEF IInv, Requests, Built, Current, Commit

LEMMA OtherThread ==
  ASSUME IInv, NEW t \in Threads, NEW h, Sets(t, h), NEW u \in Threads, u # t
  PROVE  handler'[u] = handler[u]
  BY DEF IInv, TypeOK, Sets

\* Setting a limit or adding a field keeps every other section.
THEOREM KeepsOthersCorrect == Spec => KeepsOthers
<1> DEFINE Keeps1(t) ==
             handler[t].step = "writing" /\ handler[t].op # "replace" /\ handler'[t].step = "idle"
               => \A s \in file : overlap \/ Touches(t, s) \/ s \in file'
           Kept == \A t \in Threads : Keeps1(t)
<1>1. IInv /\ [Next]_vars => Kept
  <2> SUFFICES ASSUME IInv, [Next]_vars, NEW t \in Threads, NEW s \in file,
                      handler[t].step = "writing", handler[t].op # "replace",
                      handler'[t].step = "idle", ~overlap, ~Touches(t, s)
               PROVE  s \in file'
    OBVIOUS
  <2>1. CASE Commit(t)
    <3>1. file' = Applied(file, handler[t]) /\ Requested(handler[t])
      BY <2>1, CommitApplies DEF IInv, Requests
    <3>2. CASE handler[t].op = "limit"
      BY <3>1, <3>2 DEF Applied, WithLimit, With, Touches
    <3>3. CASE handler[t].op = "field"
      BY <3>1, <3>3 DEF Applied, WithField, With, Touches
    <3> QED
      BY <3>1, <3>2, <3>3 DEF Requested
  <2>2. CASE file' = file
    BY <2>2
  <2>3. ASSUME NEW u \in Threads, u # t, Commit(u) PROVE s \in file'
    BY <2>3, OtherThread DEF Commit
  <2>4. CASE ToolWrites
    BY <2>4 DEF ToolWrites
  <2> QED
    BY <2>1, <2>2, <2>3, <2>4
    DEF Next, Writer, Poll, Load, AskField, AskLimit, Enter, Refuse, CommitFails, ToolReads, vars
<1> QED
  BY <1>1, Invariance, PTL DEF Spec, KeepsOthers

\* A profile keeps its SNMP index until an administrator puts another document
\* or the tool gives its section one that overrules that of the entry.
THEOREM StableIndexCorrect == Spec => StableIndex
<1> DEFINE NoPut == \A t \in Threads : handler[t].op = "replace" => handler'[t] = handler[t]
           Stable == \A s1 \in file, s2 \in file' :
                       s1.key = s2.key /\ IndexOf(s1) # None =>
                         IndexOf(s2) = IndexOf(s1) \/ Overruled(s1, s2)
<1>1. IInv /\ [Next]_vars => (NoPut /\ ~overlap' => Stable)
  <2> SUFFICES ASSUME IInv, [Next]_vars, NoPut, ~overlap'
               PROVE  Stable
    OBVIOUS
  <2>1. TypeOK /\ file \in SUBSET Sections /\ KeysDiffer(file)
    BY DEF IInv, Keys, TypeOK
  <2>2. CASE file' = file
    BY <2>1, <2>2 DEF KeysDiffer
  <2>3. ASSUME NEW t \in Threads, Commit(t) PROVE Stable
    <3> PICK h : h = handler[t]
      OBVIOUS
    <3>1. h.op # "replace" /\ ~overlap
      <4>1. handler'[t] = Idle /\ handler[t].step = "writing"
        BY <2>1, <2>3 DEF Commit, Sets, TypeOK
      <4> QED
        BY <2>3, <4>1, IdleTyped DEF Commit
    <3>2. file' = Applied(file, h) /\ Requested(h) /\ h.step = "writing"
      BY <2>3, <3>1, CommitApplies DEF IInv, Requests, Commit
    <3>3. ASSUME NEW l \in Limits \cup {Plain}, NEW known \in BOOLEAN,
                 file' = With(file, h.profile, h.field, l, known), h.op \in {"limit", "field"}
          PROVE  Stable
      <4>1. \A x \in file' : \E s \in file : Keeps(x, s)
        BY <2>1, <3>2, <3>3, LimitKeeps DEF Requested
      <4> QED
        BY <2>1, <4>1 DEF KeysDiffer, Keeps, IndexOf
    <3>4. CASE h.op = "limit"
      BY <3>2, <3>3, <3>4 DEF Applied, WithLimit, Requested
    <3>5. CASE h.op = "field" /\ Located(file, h.profile) # {}
      BY <3>2, <3>3, <3>5 DEF Applied, WithField
    <3>6. CASE h.op = "field" /\ Located(file, h.profile) = {}
      <4> PICK n : n = NewSection(file, h.profile, h.field)
        OBVIOUS
      <4>1. file' = {s \in file : s.owner # h.profile} \cup {n} /\ n.key = h.profile
        BY <3>2, <3>6 DEF Applied, WithField, NewSection
      <4>2. \A s \in file : s.key # n.key
        BY <3>6, <4>1 DEF Located
      <4> QED
        BY <2>1, <4>1, <4>2 DEF KeysDiffer
    <3> QED
      BY <3>2, <3>1, <3>4, <3>5, <3>6 DEF Requested
  <2>4. CASE ToolWrites
    <3>1. file' = Merged(file)
      BY <2>4 DEF ToolWrites
    <3>2. \A x \in file' : \E s \in file : x = MergedSection(s) /\ x.key = s.key
      BY <2>1, <3>1, MergedSectionIs DEF Merged
    <3>3. ASSUME NEW s \in file, NEW x, x = MergedSection(s), IndexOf(s) # None
          PROVE  IndexOf(x) = IndexOf(s) \/ Overruled(s, x)
      <4>1. s.index # None \/ s.top # None
        BY <3>3 DEF IndexOf
      <4>2. (s.index # None => x.index = s.index) /\ (s.top # None => x.top = s.top)
        BY <2>1, <3>3, MergedSectionIs
      <4> QED
        BY <2>4, <4>1, <4>2 DEF IndexOf, Overruled, ToolWrites, NoTool
    <3> QED
      BY <2>1, <3>2, <3>3 DEF KeysDiffer
  <2> QED
    BY <2>2, <2>3, <2>4
    DEF Next, Writer, Poll, Load, AskField, AskLimit, Enter, Refuse, CommitFails, ToolReads, vars
<1> QED
  BY <1>1, Invariance, PTL DEF Spec, StableIndex
=============================================================================
