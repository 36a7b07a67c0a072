----------------------------- MODULE MappingStore -----------------------------
(***************************************************************************)
(* xml_mapping.json and those who change it: administrators who load,      *)
(* edit and replace the whole document, operators who set alarm limits,    *)
(* administrators who add a discovered field, and the command-line tool,   *)
(* which adds packaged metadata from a process of its own.  The panel's    *)
(* writers share a lock from their read to the replacement of the file;    *)
(* the tool does not take it.                                              *)
(*                                                                         *)
(* A document is the set of its sections.  A section belongs to an entry   *)
(* (owner), is shown under its key and displays one XML section.  Its SNMP *)
(* index is its own or, if it has none, the one at the top of its entry.   *)
(***************************************************************************)
EXTENDS Integers, FiniteSets

CONSTANTS
  Profiles,       \* keys of entries, of sections and of XML sections
  Fields,
  Limits,         \* alarm blocks
  MaxIndex,       \* largest SNMP index
  Documents,      \* what an administrator may put
  Packaged,       \* the packaged mapping
  Threads,        \* API requests of editing dialogs
  Absent,         \* the field is not mapped
  Plain,          \* a field without alarm
  None,
  MaxWrites,      \* bound on saved changes
  MaxMerges,      \* bound on runs of the tool
  MaxFailures     \* bound on failing writes

Indexes == (1..MaxIndex) \cup {None}
\* Labels, order and limits of writes: none that is packaged is missing, some are,
\* some are and one of them is a limit that contradicts the other limit, which was
\* edited (the mapping packaged today brings labels and orders but no limits); or
\* two limits contradict each other.
Metadata == {"whole", "part", "clash", "broken"}
Sections == [owner : Profiles, key : Profiles, xml : Profiles,
             index : Indexes,  \* of the section
             top : Indexes,    \* of its entry
             meta : Metadata,  \* of section and fields
             fields : [Fields -> Limits \cup {Absent, Plain}]]
IndexOf(s) == IF s.index # None THEN s.index ELSE s.top

\* validate_mapping
Valid(m) ==
  /\ \A s \in m : s.meta # "broken"
  /\ \A s1, s2 \in m : s1 # s2 =>
       /\ s1.key # s2.key
       /\ s1.xml # s2.xml
       /\ s1.top # None => s1.owner # s2.owner
       /\ IndexOf(s1) = None \/ IndexOf(s1) # IndexOf(s2)

ASSUME MappingAssumption ==
  /\ IsFiniteSet(Profiles)
  /\ MaxIndex \in Nat /\ MaxIndex > Cardinality(Profiles)
  /\ Documents \subseteq SUBSET Sections /\ Documents # {}
  /\ \A m \in Documents : Valid(m)
  /\ Packaged \subseteq Sections /\ Valid(Packaged)
  /\ \A s \in Packaged : s.index = None \/ s.top = None
  /\ None \notin Threads /\ None \notin Nat
  /\ Plain # Absent /\ Absent \notin Limits /\ Plain \notin Limits
  /\ MaxWrites \in Nat /\ MaxMerges \in Nat /\ MaxFailures \in Nat

VARIABLES
  file,       \* xml_mapping.json
  live,       \* the document of the last successful poll
  lock,       \* _write_lock: the thread that holds it
  handler,    \* what each API thread is doing
  tool,       \* the document the command-line tool has read, if it runs
  expected,   \* history: what the accepted changes make of the file, one after another
  overlap,    \* history: the tool wrote between another's read and write, or the reverse
  collided,   \* history: the tool added what had no place in the document
  count       \* writes, merges and failures so far

vars == <<file, live, lock, handler, tool, expected, overlap, collided, count>>

Idle == [step |-> "idle", op |-> None, profile |-> None, field |-> None, limit |-> None,
         seen |-> {}, pending |-> {}]
NoTool == [on |-> FALSE, seen |-> {}]

Init ==
  /\ file \in Documents
  /\ live = file
  /\ lock = None
  /\ handler = [t \in Threads |-> Idle]
  /\ tool = NoTool
  /\ expected = file
  /\ overlap = FALSE /\ collided = FALSE
  /\ count = [writes |-> 0, merges |-> 0, failures |-> 0]

\* The poller loads the mapping; an invalid one fails the poll.
Poll ==
  /\ Valid(file)
  /\ live' = file
  /\ UNCHANGED <<file, lock, handler, tool, expected, overlap, collided, count>>

-----------------------------------------------------------------------------
\* find_mapping_profile
Located(m, p) == {s \in m : s.key = p}

\* Mutant: the block is set in every section of the entry.
WithLimitOfEntry(m, p, f, l) ==
  {IF s.owner = p THEN [s EXCEPT !.fields[f] = l] ELSE s : s \in m}
Edited(s, f, l, known) ==
  [s EXCEPT !.fields[f] = l, !.meta = IF known \/ @ # "whole" THEN @ ELSE "part"]
With(m, p, f, l, known) == {IF s.key = p THEN Edited(s, f, l, known) ELSE s : s \in m}
\* update_config: alarm blocks of mapped fields.
WithLimit(m, p, f, l) == With(m, p, f, l, TRUE)

\* Mutant: the number of sections, whatever indexes they have.
NextIndex(m) == Cardinality(m) + 1
\* The first index no section has.
FreeIndex(m) ==
  CHOOSE i \in 1..MaxIndex :
    /\ \A s \in m : IndexOf(s) # i
    /\ \A j \in 1..(i - 1) : \E s \in m : IndexOf(s) = j

\* The index is one of the new entry, and its section has none.
NewSection(m, p, f) ==
  [owner |-> p, key |-> p, xml |-> p, index |-> None, top |-> FreeIndex(m), meta |-> "part",
   fields |-> [g \in Fields |-> IF g = f THEN Plain ELSE Absent]]
\* Mutant: the profile gets a new index with its new field.
WithFieldReindexed(m, p, f) ==
  {s \in m : s.owner # p} \cup {NewSection(m, p, f)}
\* A profile without a section gets an entry of its own, in place of one that
\* has its key.
WithField(m, p, f) ==
  IF Located(m, p) = {}
  THEN {s \in m : s.owner # p} \cup {NewSection(m, p, f)}
  ELSE With(m, p, f, Plain, FALSE)

\* What the section and the field an operation needs look like.
Applicable(m, h) ==
  CASE h.op = "limit" -> \E s \in Located(m, h.profile) : s.fields[h.field] # Absent
    [] h.op = "field" -> \A s \in Located(m, h.profile) : s.fields[h.field] = Absent
    [] h.op = "replace" -> m = h.seen
Applied(m, h) ==
  CASE h.op = "limit" -> WithLimit(m, h.profile, h.field, h.limit)
    [] h.op = "field" -> WithField(m, h.profile, h.field)
    [] h.op = "replace" -> h.pending

\* A field is offered when the last poll met it without a place in the mapping.
Discovered(p, f) ==
  IF Located(live, p) = {}
  THEN \A s \in live : s.xml # p
  ELSE \A s \in Located(live, p) : s.fields[f] = Absent

-----------------------------------------------------------------------------
Sets(t, h) == handler' = [handler EXCEPT ![t] = h]

\* GET: the document and its revision.
Load(t) ==
  /\ handler[t] = Idle
  /\ Valid(file)
  /\ Sets(t, [Idle EXCEPT !.step = "asked", !.op = "replace", !.seen = file])
  /\ UNCHANGED <<file, live, lock, tool, expected, overlap, collided, count>>

AskField(t, p, f) ==
  /\ handler[t] = Idle
  /\ Discovered(p, f)
  /\ Sets(t, [Idle EXCEPT !.step = "asked", !.op = "field", !.profile = p, !.field = f])
  /\ UNCHANGED <<file, live, lock, tool, expected, overlap, collided, count>>

AskLimit(t, p, f, l) ==
  /\ handler[t] = Idle
  /\ Sets(t, [Idle EXCEPT !.step = "asked", !.op = "limit", !.profile = p, !.field = f, !.limit = l])
  /\ UNCHANGED <<file, live, lock, tool, expected, overlap, collided, count>>

\* Under the lock: read the file, compare or mutate.
\* Mutant: without the lock.
EnterAnyway(t, m) ==
  /\ handler[t].step = "asked"
  /\ count.writes < MaxWrites
  /\ handler[t].op = "replace" \/ m = {}
  /\ handler[t].op # "replace" => Valid(file)
  /\ Applicable(file, handler[t])
  /\ lock' = t
  /\ Sets(t, [handler[t] EXCEPT !.step = "writing", !.seen = file,
                !.pending = IF handler[t].op = "replace" THEN m ELSE Applied(file, handler[t])])
  /\ UNCHANGED <<file, live, tool, expected, overlap, collided, count>>
Enter(t, m) ==
  /\ handler[t].step = "asked"
  /\ lock = None
  /\ count.writes < MaxWrites
  /\ handler[t].op = "replace" \/ m = {}
  /\ handler[t].op # "replace" => Valid(file)
  /\ Applicable(file, handler[t])
  /\ lock' = t
  /\ Sets(t, [handler[t] EXCEPT !.step = "writing", !.seen = file,
                !.pending = IF handler[t].op = "replace" THEN m ELSE Applied(file, handler[t])])
  /\ UNCHANGED <<file, live, tool, expected, overlap, collided, count>>

\* Another revision, a field that is gone or mapped, an invalid file: 409, 422, 500.
Refuse(t) ==
  /\ handler[t].step = "asked"
  /\ lock = None
  /\ ~Applicable(file, handler[t]) \/ (handler[t].op # "replace" /\ ~Valid(file))
  /\ Sets(t, Idle)
  /\ UNCHANGED <<file, live, lock, tool, expected, overlap, collided, count>>

\* _write: validate, write a temporary file, replace.
Serial(h) == IF h.op = "replace" /\ h.seen # expected THEN {} ELSE Applied(expected, h)
Commit(t) ==
  /\ handler[t].step = "writing"
  /\ Valid(handler[t].pending)
  /\ file' = handler[t].pending
  /\ expected' = Serial(handler[t])
  /\ lock' = None
  /\ Sets(t, Idle)
  /\ count' = [count EXCEPT !.writes = @ + 1]
  /\ UNCHANGED <<live, tool, overlap, collided>>

CommitFails(t) ==
  /\ handler[t].step = "writing"
  /\ \/ ~Valid(handler[t].pending) /\ UNCHANGED count
     \/ count.failures < MaxFailures /\ count' = [count EXCEPT !.failures = @ + 1]
  /\ lock' = None
  /\ Sets(t, Idle)
  /\ UNCHANGED <<file, live, tool, expected, overlap, collided>>

-----------------------------------------------------------------------------
\* _merge_packaged_mapping_metadata, in the process of amp-panel: an entry gets
\* the packaged index of the entry, and a section that of the section, where it
\* has none of its own, and so with all metadata.
Missing(own, packaged) == IF own = None /\ packaged # {} THEN CHOOSE i \in packaged : TRUE ELSE own
Entry(s) == {x \in Packaged : x.owner = s.owner}
Same(s) == {x \in Entry(s) : x.key = s.key}
MergedSection(s) ==
  [s EXCEPT !.index = Missing(@, {x.index : x \in Same(s)}),
            !.top = Missing(@, {x.top : x \in Entry(s)}),
            !.meta = IF Entry(s) = {} THEN @
                     ELSE IF @ \in {"clash", "broken"} THEN "broken" ELSE "whole"]
\* Mutant: the index that a section has is replaced.
MergedOver(m) ==
  {IF Same(s) = {} THEN MergedSection(s)
   ELSE [MergedSection(s) EXCEPT !.index = (CHOOSE x \in Same(s) : TRUE).index] : s \in m}
Merged(m) == {MergedSection(s) : s \in m}

\* The index that a section is to be given is one that another section has, the
\* entry that is to be given one has another section, or a limit of writes that
\* a field is to be given contradicts its own.
Taken(m) ==
  \/ \E s \in m : s.meta = "clash" /\ Entry(s) # {}
  \/ \E s1, s2 \in m :
       /\ s1 # s2
       /\ \/ MergedSection(s1).top # s1.top /\ s2.owner = s1.owner
          \/ IndexOf(MergedSection(s1)) \notin {IndexOf(s1), None}
             /\ IndexOf(MergedSection(s1)) = IndexOf(s2)

ToolReads ==
  /\ ~tool.on
  /\ count.merges < MaxMerges
  /\ count' = [count EXCEPT !.merges = @ + 1]
  /\ Merged(file) # file
  /\ tool' = [on |-> TRUE, seen |-> file]
  /\ UNCHANGED <<file, live, lock, handler, expected, overlap, collided>>

ToolWrites ==
  /\ tool.on
  /\ file' = Merged(tool.seen)
  /\ expected' = Merged(expected)
  /\ overlap' = (overlap \/ file # tool.seen \/ lock # None)
  /\ collided' = (collided \/ Taken(tool.seen))
  /\ tool' = NoTool
  /\ UNCHANGED <<live, lock, handler, count>>

Writer(t) ==
  \/ Load(t)
  \/ \E p \in Profiles, f \in Fields :
       AskField(t, p, f) \/ \E l \in Limits \cup {Plain} : AskLimit(t, p, f, l)
  \/ \E m \in Documents \cup {{}} : Enter(t, m)
  \/ Refuse(t) \/ Commit(t) \/ CommitFails(t)

Next == Poll \/ (\E t \in Threads : Writer(t)) \/ ToolReads \/ ToolWrites

Spec == Init /\ [][Next]_vars

-----------------------------------------------------------------------------
Handlers ==
  [step : {"idle", "asked", "writing"}, op : {"limit", "field", "replace", None},
   profile : Profiles \cup {None}, field : Fields \cup {None}, limit : Limits \cup {Plain, None},
   seen : SUBSET Sections, pending : SUBSET Sections]

\* Every variable has its type.
TypeOK ==
  /\ file \subseteq Sections /\ live \subseteq Sections /\ expected \subseteq Sections
  /\ lock \in Threads \cup {None}
  /\ handler \in [Threads -> Handlers]
  /\ tool \in [on : BOOLEAN, seen : SUBSET Sections]
  /\ overlap \in BOOLEAN /\ collided \in BOOLEAN
  /\ count \in [writes : Nat, merges : Nat, failures : Nat]

\* No accepted change is lost: the file is what all of them make of it, each
\* replacement was edited from the document it replaced, and a write that
\* fails changes nothing; unless the command-line tool ran into a change.
NoLostEdit == ~overlap => file = expected

\* The file is valid at every poll, however fields are added, indexes given,
\* documents replaced and packaged metadata brought by the tool, unless the
\* document the tool read has an index it brings in another section, two
\* sections in an entry that is to get one, or a limit of writes that
\* contradicts the other one, which the tool brings.
Readable == ~collided => Valid(file)

\* An added field never fails for its index: what the panel refuses to write is
\* a profile whose XML section was given to another since it was offered.
AddFits ==
  \A t \in Threads :
    LET h == handler[t]
    IN  h.step = "writing" /\ h.op = "field" /\ ~Valid(h.pending)
          => \E s \in h.seen : s.xml = h.profile /\ s.key # h.profile

\* Setting a limit or adding a field keeps every other section as it is, but
\* for those of an entry that has the key of the added profile.
Touches(t, s) ==
  LET h == handler[t] IN s.key = h.profile \/ (h.op = "field" /\ s.owner = h.profile)
KeepsOthers ==
  [][\A t \in Threads :
       handler[t].step = "writing" /\ handler[t].op # "replace" /\ handler'[t].step = "idle"
         => \A s \in file : overlap \/ Touches(t, s) \/ s \in file']_vars

\* A profile keeps its SNMP index until an administrator puts another document,
\* or the tool gives the section an index of its own, which then counts more
\* than the one it had from its entry.
Overruled(s1, s2) == tool.on /\ ~tool'.on /\ s1.index = None /\ s2.index # None
StableIndex ==
  [][(\A t \in Threads : handler[t].op = "replace" => handler'[t] = handler[t]) /\ ~overlap' =>
       \A s1 \in file, s2 \in file' :
         s1.key = s2.key /\ IndexOf(s1) # None =>
           IndexOf(s2) = IndexOf(s1) \/ Overruled(s1, s2)]_vars
=============================================================================
