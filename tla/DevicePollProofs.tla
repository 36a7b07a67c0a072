--------------------------- MODULE DevicePollProofs ---------------------------
(***************************************************************************)
(* What DevicePoll shows and stores is genuine, and the history follows    *)
(* what is shown, for any devices, texts, mappings, clock and failures,    *)
(* with the file replaced and the mapping edited at any moment.            *)
(***************************************************************************)
EXTENDS DevicePoll, TLAPS

Publishing == {"device", "update", "issues", "dead"}
Reading == {"inventory"} \cup Publishing

\* The reader thread's local variables, step by step.
PollDiscipline ==
  /\ pc \in Reading => payload \in Documents /\ modified \in Times
  /\ pc \in Publishing => DOMAIN live = Present
  /\ todo # {} => pc \in Publishing /\ todo \subseteq Present
  /\ current # None <=> pc \in {"update", "issues", "dead"}
  /\ current # None => current \in Present

\* The daemon never reuses a modification time, and status.xml is the latest
\* of its files.
FilesOrdered ==
  /\ file # None => file \in published
  /\ \A f \in published : f.modified <= now
  /\ \A f, g \in published : f.modified = g.modified => f = g
  /\ file # None => \A f \in published : f.modified <= file.modified

\* What a poll reads is what some file says under some mapping, and where its
\* time is not that of this file, the poll raced.
ReadDocument ==
  /\ pc # "open" => reading.file \in published /\ reading.mapping \in inForce
  /\ pc \in Reading =>
       /\ last = [time |-> modified, document |-> payload]
       /\ \E g \in published :
            /\ g.modified = modified
            /\ reading.file = g \/ (reading.file.modified < modified /\ modified \in raced)

\* Live values have a time, which no poll in progress precedes.
LiveDated ==
  \A d \in DOMAIN live :
    /\ live[d].time = None <=> live[d].values = None
    /\ pc \in Reading /\ live[d].time # None => live[d].time <= modified

\* Between two polls the dashboard shows what the last one found; during a poll,
\* what is done shows the new document, and what is not done and carries its time
\* already shows the same values, unless the section was read otherwise.
LiveFollowsPoll ==
  /\ pc \in {"open", "stat"} => \A d \in DOMAIN live : live[d].time # None =>
       last # None /\ live[d].time = last.time /\ live[d].values = last.document[d]
  /\ pc \in Publishing => \A d \in Present \ (todo \cup {current}) :
       live[d].time = modified /\ live[d].values = payload[d]
  /\ pc = "issues" => live[current].time = modified /\ live[current].values = payload[current]
  /\ pc \in Reading => \A d \in DOMAIN live \ excused :
       live[d].time = modified => live[d].values = payload[d]

\* There is a row for what is being published, and none the panel does not know of.
RowsKnown ==
  /\ pc \in {"update", "issues"} /\ current \notin excused =>
       /\ newest[current] # None
       /\ newest[current].values = payload[current]
       /\ newest[current].time <= modified
  /\ \A d \in Devices \ excused :
       current # d /\ (d \notin DOMAIN live \/ live[d].time = None) => newest[d] = None

Types == TypeOK /\ PollDiscipline
Documented == FilesOrdered /\ ReadDocument /\ LiveDated
Inv == Types /\ Documented /\ Genuine /\ LiveFollowsPoll /\ RowsKnown /\ LiveInHistory

-----------------------------------------------------------------------------
\* What a poll works on changes with what it read only.
LEMMA SamePayload == reading' = reading => payload' = payload /\ Present' = Present
  BY DEF payload, Present

\* What a poll read is a document or Malformed.
LEMMA PayloadTyped == ASSUME TypeOK, pc # "open" PROVE payload \in Documents \cup {Malformed}
<1>1. reading \in Readings
  BY DEF TypeOK
<1>2. reading.file.text \in Texts /\ reading.mapping \in Mappings
  BY <1>1 DEF Readings, Files
<1> QED BY <1>2, PollAssumption DEF payload

\* Outside the reader thread's steps and a restart, only the files move.
LEMMA FilesAlone ==
  FilesChange => UNCHANGED <<pc, reading, modified, raced, last, todo, current, live, newest, excused,
                             failures, restarts>>
  BY DEF FilesChange, readVars, pastVars, storeVars

\* Files, mapping and their history have their types.
FilesTyped ==
  /\ now \in Times /\ file \in Files \cup {None} /\ published \subseteq Files
  /\ mapping \in Mappings /\ mapping \in inForce /\ inForce \subseteq Mappings
  /\ edits \in 0..MaxEdits

\* Before the first poll every variable has its type.
LEMMA TypesInitially == Init => Types
  BY PollAssumption, NoneAssumption
  DEF Init, Types, TypeOK, PollDiscipline, Times, Unknown, Publishing, Reading

\* Every step keeps the types and the discipline of the reader thread.
LEMMA TypesPreserved == Types /\ [Next]_vars => Types'
<1> SUFFICES ASSUME Types, [Next]_vars PROVE Types'
  OBVIOUS
<1> USE PollAssumption, NoneAssumption DEF Types, PollDiscipline, Publishing, Reading
<1>1. CASE FilesChange
  <2> USE DEF FilesTyped
  <2>1. FilesTyped'
    <3>1. CASE Tick
      BY <3>1 DEF Tick, TypeOK, Times
    <3>2. ASSUME NEW x \in Texts, ReplaceFile(x) PROVE FilesTyped'
      <4>1. file' \in Files /\ published' = published \cup {file'}
        BY <3>2 DEF ReplaceFile, TypeOK, Files
      <4> QED BY <3>2, <4>1 DEF ReplaceFile, TypeOK
    <3>3. CASE RemoveFile
      BY <3>3 DEF RemoveFile, TypeOK
    <3>4. ASSUME NEW m \in Mappings, EditMapping(m) PROVE FilesTyped'
      BY <3>4 DEF EditMapping, TypeOK
    <3> QED BY <1>1, <3>1, <3>2, <3>3, <3>4 DEF FilesChange
  <2> QED BY <1>1, <2>1, FilesAlone, SamePayload DEF TypeOK
<1>4. CASE Restart
  BY <1>4 DEF Restart, TypeOK, fileVars, Unknown
<1>5. CASE Open
  <2>1. reading' \in Readings
    BY <1>5 DEF Open, TypeOK, Readings
  <2> QED BY <1>5, <2>1 DEF Open, TypeOK, fileVars, pastVars, storeVars
<1>6. ASSUME ReportFailures, pc \in {"open", "stat"} PROVE Types'
  <2>1. live' = [d \in DOMAIN live |-> [live[d] EXCEPT !.connected = FALSE, !.error = "xml"]]
    BY <1>6 DEF ReportFailures
  <2>a. ASSUME NEW d \in DOMAIN live
        PROVE [live[d] EXCEPT !.connected = FALSE, !.error = "xml"] \in LiveEntries
    <3>1. live[d] \in LiveEntries
      BY DEF TypeOK
    <3> QED BY <3>1 DEF LiveEntries
  <2>2. DOMAIN live' \subseteq Devices /\ \A d \in DOMAIN live' : live'[d] \in LiveEntries
    BY <2>1, <2>a DEF TypeOK
  <2>3. TypeOK'
    BY <1>6, <2>2 DEF ReportFailures, TypeOK, fileVars, pastVars, storeVars
  <2>4. PollDiscipline'
    BY <1>6 DEF ReportFailures
  <2> QED BY <2>3, <2>4
<1>7. CASE OpenFails \/ ParseFails
  BY <1>6, <1>7 DEF OpenFails, ParseFails
<1>8. CASE Parse
  <2>1. payload \in Documents /\ payload' = payload /\ file.modified \in Times /\ pc = "stat"
    BY <1>8, PayloadTyped, SamePayload DEF Parse, Usable, TypeOK, Files
  <2>2. last' \in Pasts /\ raced' \subseteq Times
    BY <1>8, <2>1 DEF Parse, TypeOK, Pasts
  <2>3. excused' \subseteq Devices
    BY <1>8 DEF Parse, TypeOK, Reread
  <2>4. TypeOK'
    BY <1>8, <2>1, <2>2, <2>3 DEF Parse, TypeOK, fileVars
  <2>5. PollDiscipline'
    BY <1>8, <2>1 DEF Parse
  <2> QED BY <2>4, <2>5
<1>9. CASE SetDeviceInventory
  <2>1. live' = [d \in Present |-> IF d \in DOMAIN live THEN live[d] ELSE Unknown]
    BY <1>9 DEF SetDeviceInventory
  <2>2. Unknown \in LiveEntries
    BY DEF Unknown, LiveEntries
  <2>3. Present \subseteq Devices
    BY DEF Present
  <2>4. DOMAIN live' = Present /\ \A d \in DOMAIN live' : live'[d] \in LiveEntries
    BY <2>1, <2>2 DEF TypeOK
  <2>5. Present' = Present /\ payload \in Documents /\ payload' = payload
    BY <1>9, SamePayload DEF SetDeviceInventory, readVars
  <2>6. TypeOK'
    BY <1>9, <2>3, <2>4, <2>5 DEF SetDeviceInventory, TypeOK, fileVars, readVars, pastVars
  <2>7. PollDiscipline'
    BY <1>9, <2>4, <2>5 DEF SetDeviceInventory, readVars, TypeOK
  <2> QED BY <2>6, <2>7
<1>10. ASSUME NEW d \in Devices, SkipUnchanged(d) \/ StoreFails(d) \/ PublishRaises(d) PROVE Types'
  <2>1. /\ Take(d, "update") \/ Take(d, "dead")
        /\ UNCHANGED <<fileVars, readVars, pastVars, live, newest, restarts>>
        /\ excused' \subseteq Devices /\ failures' \in 0..MaxFailures
    BY <1>10 DEF SkipUnchanged, StoreFails, PublishRaises, TypeOK, storeVars
  <2>2. d \in Present /\ Present' = Present /\ payload' = payload
    BY <2>1, SamePayload DEF Take, readVars
  <2>3. TypeOK'
    BY <2>1 DEF Take, TypeOK, fileVars, readVars, pastVars
  <2>4. PollDiscipline'
    BY <2>1, <2>2 DEF Take, readVars
  <2> QED BY <2>3, <2>4
<1>11. ASSUME NEW d \in Devices, StoreChanged(d) PROVE Types'
  <2>1. d \in Present /\ payload \in Documents
    BY <1>11 DEF StoreChanged, Take
  <2>2. Row(d) \in Rows
    BY <1>11, <2>1 DEF StoreChanged, Take, Row, Rows, Documents, Present
  <2>3. newest' \in [Devices -> Rows \cup {None}]
    BY <1>11, <2>2 DEF StoreChanged, TypeOK
  <2>4. Present' = Present /\ payload' = payload
    BY <1>11, SamePayload DEF StoreChanged, readVars
  <2>5. TypeOK'
    BY <1>11, <2>3 DEF StoreChanged, Take, TypeOK, fileVars, readVars, pastVars
  <2>6. PollDiscipline'
    BY <1>11, <2>1, <2>4 DEF StoreChanged, Take, readVars
  <2> QED BY <2>5, <2>6
<1>12. CASE UpdateDeviceLive
  <2>1. current \in Present /\ current \in DOMAIN live /\ payload \in Documents
    BY <1>12 DEF UpdateDeviceLive
  <2>2. Observed(current) \in LiveEntries
    BY <1>12, <2>1 DEF UpdateDeviceLive, Observed, LiveEntries, Documents, Present
  <2>3. DOMAIN live' = DOMAIN live /\ \A d \in DOMAIN live' : live'[d] \in LiveEntries
    BY <1>12, <2>2 DEF UpdateDeviceLive, TypeOK
  <2>4. Present' = Present /\ payload' = payload
    BY <1>12, SamePayload DEF UpdateDeviceLive, readVars
  <2>5. TypeOK'
    BY <1>12, <2>3 DEF UpdateDeviceLive, TypeOK, fileVars, readVars, pastVars, storeVars
  <2>6. PollDiscipline'
    BY <1>12, <2>3, <2>4 DEF UpdateDeviceLive, readVars
  <2> QED BY <2>5, <2>6
<1>13. CASE ReportIssues
  <2>1. current \in DOMAIN live /\ live[current] \in LiveEntries
    BY <1>13 DEF ReportIssues, TypeOK
  <2>2. [live[current] EXCEPT !.error = "issues"] \in LiveEntries
    BY <2>1 DEF LiveEntries
  <2>3. DOMAIN live' = DOMAIN live /\ \A d \in DOMAIN live' : live'[d] \in LiveEntries
    BY <1>13, <2>1, <2>2 DEF ReportIssues, TypeOK
  <2>4. Present' = Present /\ payload' = payload
    BY <1>13, SamePayload DEF ReportIssues, readVars
  <2>5. TypeOK'
    BY <1>13, <2>3 DEF ReportIssues, TypeOK, fileVars, readVars, pastVars, storeVars
  <2>6. PollDiscipline'
    BY <1>13, <2>3, <2>4 DEF ReportIssues, readVars
  <2> QED BY <2>5, <2>6
<1>14. CASE PollReturns
  BY <1>14 DEF PollReturns, TypeOK, fileVars, pastVars, storeVars
<1>15. CASE UNCHANGED vars
  BY <1>15, SamePayload DEF vars, TypeOK, fileVars, readVars, pastVars, storeVars
<1> QED
  BY <1>1, <1>4, <1>5, <1>7, <1>8, <1>9, <1>10, <1>11, <1>12, <1>13, <1>14, <1>15
  DEF Next, Reader

\* poll_once and publish_snapshot: every variable keeps its type.
THEOREM TypeCorrect == Spec => []TypeOK
<1>1. Init => Types
  BY TypesInitially
<1>2. Types /\ [Next]_vars => Types'
  BY TypesPreserved
<1>3. Types => TypeOK
  BY DEF Types
<1> QED BY <1>1, <1>2, <1>3, PTL DEF Spec

-----------------------------------------------------------------------------
\* Files and mapping: only the daemon, the clock and the editor move them.
LEMMA FilesUntouched == [Next]_vars => FilesChange \/ UNCHANGED fileVars
  BY DEF Next, Reader, Restart, Open, OpenFails, Parse, ParseFails, ReportFailures,
     SetDeviceInventory, SkipUnchanged, StoreChanged, StoreFails, PublishRaises,
     UpdateDeviceLive, ReportIssues, PollReturns, vars

\* The daemon's files keep different, increasing modification times; none is
\* forgotten, and no mapping.
LEMMA FilesPreserved ==
  Types /\ FilesOrdered /\ [Next]_vars =>
    FilesOrdered' /\ published \subseteq published' /\ inForce \subseteq inForce'
<1> SUFFICES ASSUME Types, FilesOrdered, [Next]_vars
             PROVE FilesOrdered' /\ published \subseteq published' /\ inForce \subseteq inForce'
  OBVIOUS
<1> USE PollAssumption, NoneAssumption DEF FilesOrdered, Types
<1>1. CASE Tick
  BY <1>1 DEF Tick, TypeOK, Times, Files
<1>2. ASSUME NEW x \in Texts, ReplaceFile(x)
      PROVE  FilesOrdered' /\ published \subseteq published' /\ inForce \subseteq inForce'
  <2>1. /\ file' = [modified |-> now, text |-> x] /\ published' = published \cup {file'}
        /\ now' = now /\ inForce' = inForce
    BY <1>2 DEF ReplaceFile
  <2>2. \A f \in published : f.modified < now
    BY <1>2 DEF ReplaceFile
  <2>3. file'.modified = now /\ now \in Int /\ \A f \in published : f.modified \in Int
    BY <2>1 DEF TypeOK, Times, Files
  <2>4. \A f \in published' : f.modified <= now'
    BY <2>1, <2>2, <2>3
  <2>5. \A f, g \in published' : f.modified = g.modified => f = g
    BY <2>1, <2>2, <2>3
  <2> QED BY <2>1, <2>3, <2>4, <2>5
<1>3. CASE RemoveFile \/ \E m \in Mappings : EditMapping(m)
  BY <1>3 DEF RemoveFile, EditMapping
<1>4. CASE UNCHANGED fileVars
  BY <1>4 DEF fileVars
<1> QED BY <1>1, <1>2, <1>3, <1>4, FilesUntouched DEF FilesChange

-----------------------------------------------------------------------------
\* A report of failures or issues leaves values and times alone.
LEMMA ReportsKeepValues ==
  ASSUME Types, OpenFails \/ ParseFails \/ ReportIssues
  PROVE  /\ DOMAIN live' = DOMAIN live /\ newest' = newest
         /\ \A d \in DOMAIN live : live'[d].time = live[d].time /\ live'[d].values = live[d].values
<1>1. \A d \in DOMAIN live : live[d] \in LiveEntries
  BY DEF Types, TypeOK
<1>2. CASE OpenFails \/ ParseFails
  <2>1. ReportFailures
    BY <1>2 DEF OpenFails, ParseFails
  <2>2. ASSUME NEW d \in DOMAIN live
        PROVE /\ [live[d] EXCEPT !.connected = FALSE, !.error = "xml"].time = live[d].time
              /\ [live[d] EXCEPT !.connected = FALSE, !.error = "xml"].values = live[d].values
    BY <1>1 DEF LiveEntries
  <2> QED BY <2>1, <2>2 DEF ReportFailures, storeVars
<1>3. CASE ReportIssues
  <2>1. current \in DOMAIN live /\ live[current] \in LiveEntries
    BY <1>1, <1>3 DEF ReportIssues, Types, PollDiscipline, Publishing
  <2> QED BY <1>3, <2>1 DEF ReportIssues, storeVars, LiveEntries
<1> QED BY <1>2, <1>3

\* Every step keeps what a poll read among what there was to read.
LEMMA ReadPreserved == Types /\ FilesOrdered /\ ReadDocument /\ [Next]_vars => ReadDocument'
<1> SUFFICES ASSUME Types, FilesOrdered, ReadDocument, [Next]_vars PROVE ReadDocument'
  OBVIOUS
<1> USE DEF Publishing, Reading
<1>0. published \subseteq published' /\ inForce \subseteq inForce'
  BY FilesPreserved
<1>1. CASE Open
  <2>1. /\ file \in published /\ pc' = "stat" /\ reading' = [file |-> file, mapping |-> mapping]
        /\ UNCHANGED <<published, inForce>> /\ mapping \in inForce
    BY <1>1 DEF Open, FilesOrdered, fileVars, Types, TypeOK
  <2> QED BY <2>1 DEF ReadDocument
<1>2. CASE Parse
  <2>1. /\ pc = "stat" /\ pc' = "inventory" /\ file # None /\ modified' = file.modified
        /\ reading' = reading /\ payload' = payload
        /\ UNCHANGED <<published, inForce>>
        /\ last' = [time |-> modified', document |-> payload']
        /\ raced' = raced \cup (IF reading.file = file THEN {} ELSE {file.modified})
    BY <1>2, SamePayload DEF Parse, Usable, fileVars
  <2>2. /\ reading.file \in published /\ reading.mapping \in inForce /\ file \in published
        /\ reading.file.modified <= file.modified
        /\ reading.file.modified = file.modified => reading.file = file
    BY <2>1 DEF ReadDocument, FilesOrdered
  <2>3. reading.file.modified \in Int /\ file.modified \in Int
    BY <2>2 DEF Types, TypeOK, Files, Times
  <2>4. reading.file = file \/ (reading.file.modified < modified' /\ modified' \in raced')
    BY <2>1, <2>2, <2>3
  <2> QED BY <2>1, <2>2, <2>4 DEF ReadDocument
<1>3. CASE Restart \/ OpenFails \/ ParseFails \/ PollReturns
  BY <1>3 DEF Restart, OpenFails, ParseFails, ReportFailures, PollReturns, ReadDocument
<1>4. ASSUME UNCHANGED <<reading, modified, raced, last>>, pc' = pc \/ (pc \in Reading /\ pc' \in Reading)
      PROVE  ReadDocument'
  BY <1>0, <1>4, SamePayload DEF ReadDocument
<1>5. CASE FilesChange
  BY <1>4, <1>5, FilesAlone
<1> QED
  BY <1>1, <1>2, <1>3, <1>4, <1>5
  DEF Next, Reader, SetDeviceInventory, SkipUnchanged, StoreChanged, StoreFails, PublishRaises, Take,
      UpdateDeviceLive, ReportIssues, readVars, pastVars, vars

\* Every step keeps live values dated.
LEMMA DatedPreserved == Types /\ Documented /\ Genuine /\ [Next]_vars => LiveDated'
<1> SUFFICES ASSUME Types, Documented, Genuine, [Next]_vars PROVE LiveDated'
  OBVIOUS
<1> USE PollAssumption, NoneAssumption DEF Types, Documented, Publishing, Reading
<1>1. ASSUME UNCHANGED <<live, modified>>, pc' = pc \/ (pc \in Reading /\ pc' \in Reading)
      PROVE  LiveDated'
  BY <1>1 DEF LiveDated
<1>2. CASE FilesChange
  BY <1>1, <1>2, FilesAlone
<1>3. CASE Restart \/ Open \/ PollReturns
  BY <1>3 DEF Restart, Open, PollReturns, LiveDated
<1>4. CASE OpenFails \/ ParseFails \/ ReportIssues
  <2>1. pc' = "open" \/ (pc = "issues" /\ modified' = modified)
    BY <1>4 DEF OpenFails, ParseFails, ReportFailures, ReportIssues, readVars
  <2> QED BY <1>4, <2>1, ReportsKeepValues DEF LiveDated
<1>5. CASE Parse
  <2>1. pc = "stat" /\ pc' = "inventory" /\ file # None /\ modified' = file.modified /\ live' = live
    BY <1>5 DEF Parse, Usable
  <2>2. ASSUME NEW d \in DOMAIN live, live[d].time # None PROVE live[d].time <= modified'
    <3>1. PICK g \in published : g.modified = live[d].time
      BY <2>2 DEF Genuine, SomeDocument
    <3> QED BY <3>1, <2>1 DEF FilesOrdered
  <2> QED BY <2>1, <2>2 DEF LiveDated
<1>6. CASE SetDeviceInventory
  <2>1. /\ pc = "inventory" /\ pc' = "device" /\ modified' = modified
        /\ DOMAIN live' = Present
        /\ \A d \in Present : live'[d] = IF d \in DOMAIN live THEN live[d] ELSE Unknown
    BY <1>6 DEF SetDeviceInventory, readVars
  <2> QED BY <2>1 DEF LiveDated, Unknown
<1>7. ASSUME NEW d \in Devices,
             SkipUnchanged(d) \/ StoreChanged(d) \/ StoreFails(d) \/ PublishRaises(d)
      PROVE  LiveDated'
  BY <1>1, <1>7 DEF SkipUnchanged, StoreChanged, StoreFails, PublishRaises, Take, readVars
<1>8. CASE UpdateDeviceLive
  <2>1. pc = "update" /\ modified' = modified /\ live' = [live EXCEPT ![current] = Observed(current)]
    BY <1>8 DEF UpdateDeviceLive, readVars
  <2>2. current \in DOMAIN live /\ payload[current] \in Contents /\ modified \in Times
    BY <2>1 DEF PollDiscipline, Present, Documents
  <2>3. live'[current].time = modified /\ live'[current].values = payload[current]
    BY <2>1, <2>2 DEF Observed
  <2> QED BY <2>1, <2>2, <2>3 DEF LiveDated, Times
<1>9. CASE UNCHANGED vars
  BY <1>1, <1>9 DEF vars, readVars
<1> QED
  BY <1>2, <1>3, <1>4, <1>5, <1>6, <1>7, <1>8, <1>9 DEF Next, Reader

-----------------------------------------------------------------------------
\* What a poll publishes is what a file said under a mapping.
LEMMA PublishesDocument ==
  Types /\ Documented /\ pc \in Publishing =>
    \A d \in Devices : SomeDocument(d, modified, payload[d])
<1> SUFFICES ASSUME Types, Documented, pc \in Publishing, NEW d \in Devices
             PROVE SomeDocument(d, modified, payload[d])
  OBVIOUS
<1> USE DEF Publishing, Reading
<1>1. PICK g \in published :
        /\ g.modified = modified
        /\ reading.file = g \/ (reading.file.modified < modified /\ modified \in raced)
  BY DEF Documented, ReadDocument
<1>2. reading.file \in published /\ reading.mapping \in inForce
  BY DEF Documented, ReadDocument
<1>3. payload # Malformed
  BY PollAssumption DEF Types, PollDiscipline
<1> QED BY <1>1, <1>2, <1>3 DEF SomeDocument, payload

\* Every step keeps values and times among what there was to read.
LEMMA GenuinePreserved == Types /\ Documented /\ Genuine /\ [Next]_vars => Genuine'
<1> SUFFICES ASSUME Types, Documented, Genuine, [Next]_vars PROVE Genuine'
  OBVIOUS
<1>0. published \subseteq published' /\ inForce \subseteq inForce' /\ raced \subseteq raced'
  <2>1. raced \subseteq raced'
    BY FilesAlone DEF Next, Reader, Restart, Open, OpenFails, Parse, ParseFails, ReportFailures,
       SetDeviceInventory, SkipUnchanged, StoreChanged, StoreFails, PublishRaises,
       UpdateDeviceLive, ReportIssues, PollReturns, vars, pastVars
  <2> QED BY <2>1, FilesPreserved DEF Documented
<1>1. ASSUME NEW d, NEW t, NEW v, SomeDocument(d, t, v) PROVE SomeDocument(d, t, v)'
  BY <1>0, <1>1 DEF SomeDocument
<1>2. ASSUME UNCHANGED <<live, newest>> PROVE Genuine'
  BY <1>1, <1>2 DEF Genuine
<1>3. CASE Restart
  <2>1. DOMAIN live' = {} /\ newest' = newest
    BY <1>3 DEF Restart
  <2> QED BY <1>1, <2>1 DEF Genuine
<1>4. CASE OpenFails \/ ParseFails \/ ReportIssues
  BY <1>1, <1>4, ReportsKeepValues DEF Genuine
<1>5. CASE SetDeviceInventory
  <2>1. /\ DOMAIN live' = Present /\ newest' = newest
        /\ \A d \in Present : live'[d] = IF d \in DOMAIN live THEN live[d] ELSE Unknown
    BY <1>5 DEF SetDeviceInventory
  <2> QED BY <1>1, <2>1 DEF Genuine, Unknown
<1>6. ASSUME NEW d \in Devices, StoreChanged(d) PROVE Genuine'
  <2>1. /\ newest' = [newest EXCEPT ![d] = IF Due(d) THEN Row(d) ELSE @]
        /\ live' = live /\ pc \in Publishing
    BY <1>6 DEF StoreChanged, Take, Publishing
  <2>2. SomeDocument(d, Row(d).time, Row(d).values)
    BY <2>1, PublishesDocument DEF Row
  <2>3. \A e \in Devices : newest'[e] = newest[e] \/ (e = d /\ newest'[e] = Row(d))
    BY <2>1 DEF Types, TypeOK
  <2> QED BY <1>1, <2>1, <2>2, <2>3 DEF Genuine
<1>7. CASE UpdateDeviceLive
  <2>1. /\ live' = [live EXCEPT ![current] = Observed(current)]
        /\ newest' = newest /\ pc \in Publishing /\ current \in Devices
    BY <1>7, NoneAssumption DEF UpdateDeviceLive, Publishing, storeVars, Types, PollDiscipline, TypeOK
  <2>2. SomeDocument(current, Observed(current).time, Observed(current).values)
    BY <2>1, PublishesDocument DEF Observed
  <2>3. \A e \in DOMAIN live' : e \in DOMAIN live
                                /\ (live'[e] = live[e] \/ (e = current /\ live'[e] = Observed(current)))
    BY <2>1
  <2> QED BY <1>1, <2>1, <2>2, <2>3 DEF Genuine
<1> QED
  BY <1>2, <1>3, <1>4, <1>5, <1>6, <1>7, FilesAlone
  DEF Next, Reader, Open, Parse, SkipUnchanged, StoreFails,
      PublishRaises, PollReturns, storeVars, vars

-----------------------------------------------------------------------------
\* Every step keeps the dashboard with the last poll.
LEMMA FollowingPreserved ==
  Types /\ Documented /\ LiveFollowsPoll /\ [Next]_vars => LiveFollowsPoll'
<1> SUFFICES ASSUME Types, Documented, LiveFollowsPoll, [Next]_vars PROVE LiveFollowsPoll'
  OBVIOUS
<1> USE PollAssumption, NoneAssumption DEF Types, PollDiscipline, Publishing, Reading
<1>1. CASE FilesChange \/ UNCHANGED vars
  <2>1. UNCHANGED <<pc, reading, modified, last, todo, current, live, excused>>
    BY <1>1, FilesAlone DEF vars, readVars, pastVars, storeVars
  <2>2. payload' = payload /\ Present' = Present
    BY <2>1, SamePayload
  <2> QED BY <2>1, <2>2 DEF LiveFollowsPoll
<1>2. CASE Restart
  BY <1>2 DEF Restart, LiveFollowsPoll
<1>3. CASE Open
  BY <1>3 DEF Open, LiveFollowsPoll, pastVars
<1>4. CASE OpenFails \/ ParseFails
  <2>1. pc' = "open" /\ pc \in {"open", "stat"} /\ last' = last
    BY <1>4 DEF OpenFails, ParseFails, ReportFailures, pastVars
  <2> QED BY <1>4, <2>1, ReportsKeepValues DEF LiveFollowsPoll
<1>5. CASE Parse
  <2>1. /\ pc = "stat" /\ pc' = "inventory" /\ modified' = file.modified /\ live' = live
        /\ payload' = payload /\ excused' = excused \cup Reread
    BY <1>5, SamePayload DEF Parse
  <2>2. ASSUME NEW d \in DOMAIN live \ excused', live[d].time = file.modified
        PROVE  live[d].values = payload[d]
    <3>1. file.modified # None /\ d \in Devices
      BY <1>5 DEF Parse, Usable, TypeOK, Files, Times
    <3>2. last # None /\ last.time = file.modified /\ live[d].values = last.document[d]
      BY <2>1, <2>2, <3>1 DEF LiveFollowsPoll
    <3> QED BY <2>1, <2>2, <3>1, <3>2 DEF Reread
  <2> QED BY <2>1, <2>2 DEF LiveFollowsPoll
<1>6. CASE SetDeviceInventory
  <2>1. /\ pc = "inventory" /\ pc' = "device" /\ todo' = Present /\ Present' = Present
        /\ payload' = payload /\ modified' = modified /\ excused \subseteq excused'
        /\ DOMAIN live' = Present
        /\ \A d \in Present : live'[d] = IF d \in DOMAIN live THEN live[d] ELSE Unknown
    BY <1>6, SamePayload DEF SetDeviceInventory, readVars
  <2>2. Unknown.time # modified
    BY <2>1 DEF Unknown
  <2> QED BY <2>1, <2>2 DEF LiveFollowsPoll
<1>7. ASSUME NEW d \in Devices,
             SkipUnchanged(d) \/ StoreChanged(d) \/ StoreFails(d) \/ PublishRaises(d)
      PROVE  LiveFollowsPoll'
  <2>1. /\ pc = "device" /\ pc' \in {"update", "dead"} /\ todo' = todo \ {d} /\ current' = d
        /\ current = None /\ UNCHANGED <<reading, modified, live>>
    BY <1>7 DEF SkipUnchanged, StoreChanged, StoreFails, PublishRaises, Take, readVars
  <2>2. payload' = payload /\ Present' = Present
    BY <2>1, SamePayload
  <2>3. ASSUME NEW e \in DOMAIN live \ excused', live[e].time = modified
        PROVE  live[e].values = payload[e]
    <3>1. excused \subseteq excused' \/ (excused' = excused \ {d} /\ Due(d))
      BY <1>7 DEF SkipUnchanged, StoreChanged, StoreFails, PublishRaises, storeVars
    <3>2. e \notin excused
      BY <2>3, <3>1 DEF Due
    <3> QED BY <2>1, <2>3, <3>2 DEF LiveFollowsPoll
  <2>4. todo \cup {current} \subseteq todo' \cup {current'} \cup {None} /\ None \notin Present
    BY <2>1 DEF Present
  <2> QED BY <2>1, <2>2, <2>3, <2>4 DEF LiveFollowsPoll
<1>8. CASE UpdateDeviceLive
  <2>1. /\ pc = "update" /\ pc' = "issues" /\ current \in DOMAIN live
        /\ live' = [live EXCEPT ![current] = Observed(current)]
        /\ UNCHANGED <<reading, modified, todo, current, excused>>
    BY <1>8 DEF UpdateDeviceLive, readVars, storeVars
  <2>2. payload' = payload /\ Present' = Present
    BY <2>1, SamePayload
  <2>3. /\ DOMAIN live' = DOMAIN live /\ \A d \in DOMAIN live \ {current} : live'[d] = live[d]
        /\ live'[current].time = modified /\ live'[current].values = payload[current]
    BY <2>1 DEF Observed
  <2> QED BY <2>1, <2>2, <2>3 DEF LiveFollowsPoll
<1>9. CASE ReportIssues
  <2>1. /\ pc = "issues" /\ pc' = "device" /\ current' = None
        /\ UNCHANGED <<reading, modified, todo, excused>>
    BY <1>9 DEF ReportIssues, readVars, storeVars
  <2>2. payload' = payload /\ Present' = Present
    BY <2>1, SamePayload
  <2>3. DOMAIN live' = DOMAIN live
        /\ \A d \in DOMAIN live : live'[d].time = live[d].time /\ live'[d].values = live[d].values
    BY <1>9, ReportsKeepValues
  <2>4. ASSUME NEW d \in Present \ todo
        PROVE  live[d].time = modified /\ live[d].values = payload[d]
    BY <2>1, <2>4 DEF LiveFollowsPoll
  <2> QED BY <2>1, <2>2, <2>3, <2>4 DEF LiveFollowsPoll
<1>10. CASE PollReturns
  <2>1. /\ pc = "device" /\ pc' = "open" /\ todo = {} /\ current = None
        /\ UNCHANGED <<last, live>> /\ DOMAIN live = Present
    BY <1>10 DEF PollReturns, pastVars
  <2>2. last = [time |-> modified, document |-> payload]
    BY <2>1 DEF Documented, ReadDocument
  <2>3. \A d \in DOMAIN live : live[d].time = modified /\ live[d].values = payload[d]
    <3>1. \A d \in Present : d \in Devices
      BY DEF Present
    <3> QED BY <2>1, <3>1 DEF LiveFollowsPoll
  <2>4. last # None
    BY <2>1, <2>2 DEF Pasts, TypeOK
  <2> QED BY <2>1, <2>2, <2>3, <2>4 DEF LiveFollowsPoll
<1> QED
  BY <1>1, <1>2, <1>3, <1>4, <1>5, <1>6, <1>7, <1>8, <1>9, <1>10 DEF Next, Reader

-----------------------------------------------------------------------------
\* The rows.  A change of a device that is not excused goes into a row.
LEMMA ChangedIsDue ==
  ASSUME LiveFollowsPoll, pc \in Publishing, NEW d \in DOMAIN live \ excused, Changed(d)
  PROVE  Due(d)
  BY DEF LiveFollowsPoll, Changed, Due, Reading

\* Every step keeps the newest row in step with the live values.
LEMMA RowsPreserved ==
  Types /\ Documented /\ LiveFollowsPoll /\ RowsKnown /\ LiveInHistory /\ [Next]_vars
    => RowsKnown' /\ LiveInHistory'
<1> SUFFICES ASSUME Types, Documented, LiveFollowsPoll, RowsKnown, LiveInHistory, [Next]_vars
             PROVE RowsKnown' /\ LiveInHistory'
  OBVIOUS
<1> USE PollAssumption, NoneAssumption DEF Types, PollDiscipline, Publishing, Reading
<1>1. CASE FilesChange \/ UNCHANGED vars
  <2>1. UNCHANGED <<pc, reading, modified, current, live, newest, excused>>
    BY <1>1, FilesAlone DEF vars, readVars, storeVars
  <2> QED BY <2>1, SamePayload DEF RowsKnown, LiveInHistory
<1>2. CASE Restart
  BY <1>2 DEF Restart, RowsKnown, LiveInHistory
<1>3. CASE Open \/ Parse
  <2>1. UNCHANGED <<current, live, newest>> /\ pc' \in {"stat", "inventory"} /\ excused \subseteq excused'
    BY <1>3 DEF Open, Parse, storeVars
  <2> QED BY <2>1 DEF RowsKnown, LiveInHistory
<1>4. CASE OpenFails \/ ParseFails
  <2>1. ReportFailures /\ pc' = "open" /\ UNCHANGED <<current, newest, excused>>
    BY <1>4 DEF OpenFails, ParseFails, ReportFailures, storeVars
  <2>2. ASSUME NEW d \in DOMAIN live
        PROVE /\ [live[d] EXCEPT !.connected = FALSE, !.error = "xml"].time = live[d].time
              /\ [live[d] EXCEPT !.connected = FALSE, !.error = "xml"].values = live[d].values
    <3>1. live[d] \in LiveEntries
      BY DEF TypeOK
    <3> QED BY <3>1 DEF LiveEntries
  <2>3. DOMAIN live' = DOMAIN live
        /\ \A d \in DOMAIN live : live'[d].time = live[d].time /\ live'[d].values = live[d].values
    BY <2>1, <2>2 DEF ReportFailures
  <2> QED BY <2>1, <2>3 DEF RowsKnown, LiveInHistory
<1>5. CASE SetDeviceInventory
  <2>1. /\ pc' = "device" /\ current = None /\ UNCHANGED <<current, newest>> /\ payload' = payload
        /\ excused' = excused \cup (DOMAIN live \ Present)
    BY <1>5, SamePayload DEF SetDeviceInventory, readVars
  <2>2. DOMAIN live' = Present
        /\ \A d \in Present : live'[d] = IF d \in DOMAIN live THEN live[d] ELSE Unknown
    BY <1>5 DEF SetDeviceInventory
  <2>3. Unknown.time = None
    BY DEF Unknown
  <2>4. Present \subseteq Devices /\ DOMAIN live \subseteq Devices
    BY DEF Present, TypeOK
  <2>5. RowsKnown'
    BY <2>1, <2>2, <2>3, <2>4 DEF RowsKnown
  <2>6. LiveInHistory'
    BY <2>1, <2>2, <2>3 DEF LiveInHistory
  <2> QED BY <2>5, <2>6
<1>6. ASSUME NEW d \in Devices, SkipUnchanged(d) PROVE RowsKnown' /\ LiveInHistory'
  <2>1. /\ pc = "device" /\ pc' = "update" /\ current = None /\ current' = d
        /\ UNCHANGED <<payload, modified, live, newest, excused>>
        /\ d \in DOMAIN live /\ live[d].values = payload[d] /\ payload[d] # Absent
    BY <1>6, SamePayload DEF SkipUnchanged, Take, Changed, readVars, storeVars, Present
  <2>2. live[d].time # None
    BY <2>1 DEF Documented, LiveDated, Documents
  <2>3. live[d].time <= modified /\ live[d].time \in Times /\ modified \in Times
    BY <2>1, <2>2 DEF Documented, LiveDated, TypeOK, LiveEntries
  <2>4. d \notin excused => newest[d] # None /\ newest[d].values = payload[d]
                            /\ newest[d].time <= live[d].time /\ newest[d].time \in Times
    BY <2>1, <2>2 DEF LiveInHistory, TypeOK, Rows
  <2>5. d \notin excused => newest[d].time <= modified
    BY <2>3, <2>4 DEF Times
  <2>6. RowsKnown'
    BY <2>1, <2>4, <2>5 DEF RowsKnown
  <2>7. LiveInHistory'
    BY <2>1 DEF LiveInHistory, TypeOK
  <2> QED BY <2>6, <2>7
<1>7. ASSUME NEW d \in Devices, StoreChanged(d) PROVE RowsKnown' /\ LiveInHistory'
  <2>1. /\ pc = "device" /\ pc' = "update" /\ current = None /\ current' = d
        /\ UNCHANGED <<payload, modified, live>>
        /\ d \in DOMAIN live /\ Changed(d)
    BY <1>7, SamePayload DEF StoreChanged, Take, readVars
  <2>2. CASE ~Due(d)
    <3>1. d \in excused /\ newest' = newest /\ excused' = excused
      BY <1>7, <2>1, <2>2, ChangedIsDue DEF StoreChanged, TypeOK
    <3> QED BY <2>1, <3>1 DEF RowsKnown, LiveInHistory, TypeOK
  <2>3. CASE Due(d)
    <3>1. newest' = [newest EXCEPT ![d] = Row(d)] /\ excused' = excused \ {d}
      BY <1>7, <2>3 DEF StoreChanged
    <3>2. Row(d) # None /\ newest'[d] = Row(d) /\ \A e \in Devices \ {d} : newest'[e] = newest[e]
      <4>1. Row(d) \in Rows
        BY <1>7, <2>1 DEF Row, Rows, Documents, Present
      <4>2. newest \in [Devices -> Rows \cup {None}]
        BY DEF TypeOK
      <4> QED BY <3>1, <4>1, <4>2
    <3>3. modified \in Int
      BY <2>1 DEF Times
    <3>4. RowsKnown'
      BY <2>1, <3>1, <3>2, <3>3 DEF RowsKnown, Row
    <3>5. LiveInHistory'
      BY <2>1, <3>1, <3>2 DEF LiveInHistory, TypeOK
    <3> QED BY <3>4, <3>5
  <2> QED BY <2>2, <2>3
<1>8. ASSUME NEW d \in Devices, StoreFails(d) \/ PublishRaises(d) PROVE RowsKnown' /\ LiveInHistory'
  <2>1. /\ current = None /\ current' = d /\ UNCHANGED <<payload, modified, live, newest>>
        /\ excused \subseteq excused'
        /\ pc' = "dead" \/ d \in excused'
    BY <1>8, SamePayload DEF StoreFails, PublishRaises, Take, readVars, storeVars
  <2>2. RowsKnown'
    BY <2>1 DEF RowsKnown
  <2>3. LiveInHistory'
    BY <2>1 DEF LiveInHistory, TypeOK
  <2> QED BY <2>2, <2>3
<1>9. CASE UpdateDeviceLive
  <2>1. /\ pc = "update" /\ pc' = "issues" /\ current \in DOMAIN live
        /\ live' = [live EXCEPT ![current] = Observed(current)]
        /\ UNCHANGED <<payload, modified, current, newest, excused>>
    BY <1>9, SamePayload DEF UpdateDeviceLive, readVars, storeVars
  <2>2. DOMAIN live' = DOMAIN live /\ \A d \in DOMAIN live \ {current} : live'[d] = live[d]
    BY <2>1
  <2>3. RowsKnown'
    BY <2>1, <2>2 DEF RowsKnown
  <2>4. LiveInHistory'
    BY <2>1, <2>2 DEF LiveInHistory
  <2> QED BY <2>3, <2>4
<1>10. CASE ReportIssues
  <2>1. /\ pc = "issues" /\ pc' = "device" /\ current' = None
        /\ current \in DOMAIN live /\ live[current] \in LiveEntries
        /\ UNCHANGED <<payload, modified, newest, excused>>
    BY <1>10, SamePayload DEF ReportIssues, readVars, storeVars, TypeOK
  <2>2. DOMAIN live' = DOMAIN live
        /\ \A d \in DOMAIN live : live'[d].time = live[d].time /\ live'[d].values = live[d].values
    BY <1>10, <2>1 DEF ReportIssues, LiveEntries
  <2>3. live[current].time = modified /\ live[current].values = payload[current] /\ modified # None
    BY <2>1 DEF LiveFollowsPoll, Times
  <2>4. RowsKnown'
    BY <2>1, <2>2, <2>3 DEF RowsKnown
  <2>5. LiveInHistory'
    BY <2>1, <2>2, <2>3 DEF LiveInHistory, RowsKnown
  <2> QED BY <2>4, <2>5
<1>11. CASE PollReturns
  <2>1. pc' = "open" /\ current = None /\ UNCHANGED <<current, live, newest, excused>>
    BY <1>11 DEF PollReturns, storeVars
  <2> QED BY <2>1 DEF RowsKnown, LiveInHistory
<1> QED
  BY <1>1, <1>2, <1>3, <1>4, <1>5, <1>6, <1>7, <1>8, <1>9, <1>10, <1>11
  DEF Next, Reader

\* The inductive invariant holds in every state.
THEOREM Invariance == Spec => []Inv
<1>1. Init => Inv
  <2>1. Init => Documented /\ Genuine /\ LiveFollowsPoll /\ RowsKnown /\ LiveInHistory
    BY DEF Init, Documented, FilesOrdered, ReadDocument, LiveDated, Genuine, LiveFollowsPoll,
           RowsKnown, LiveInHistory, Reading, Publishing
  <2> QED BY <2>1, TypesInitially DEF Inv
<1>2. Inv /\ [Next]_vars => Inv'
  BY TypesPreserved, FilesPreserved, ReadPreserved, DatedPreserved, GenuinePreserved,
     FollowingPreserved, RowsPreserved DEF Inv, Documented
<1> QED BY <1>1, <1>2, PTL DEF Spec

\* At every step of a poll, the values shown and stored are what a file of the
\* daemon says under a mapping there has been, and their time is that of this
\* file, or of a later one where a poll raced with the daemon.
THEOREM GenuineCorrect == Spec => []Genuine
<1>1. Spec => []Inv
  BY Invariance
<1>2. Inv => Genuine
  BY DEF Inv
<1> QED BY <1>1, <1>2, PTL

\* The last change shown is the newest row, unless its write failed, the device or
\* the process was away, or the section was read otherwise under one time.
THEOREM HistoryFollows == Spec => []LiveInHistory
<1>1. Spec => []Inv
  BY Invariance
<1>2. Inv => LiveInHistory
  BY DEF Inv
<1> QED BY <1>1, <1>2, PTL

\* A row is added for a change only, with the same exceptions.
THEOREM RowsAreChanges == Spec => OnlyOnChange
<1> DEFINE Differs(d) ==
      newest'[d] # newest[d] /\ newest[d] # None => newest'[d].values # newest[d].values
<1>1. Inv /\ [Next]_vars => [\A d \in Devices \ excused : Differs(d)]_vars
  <2> SUFFICES ASSUME Inv, Next, NEW d \in Devices \ excused PROVE Differs(d)
    OBVIOUS
  <2>1. CASE StoreChanged(d)
    <3>1. /\ pc = "device" /\ current = None /\ d \in DOMAIN live /\ live[d].values # payload[d]
      BY <2>1 DEF StoreChanged, Take, Changed, Inv, Types, PollDiscipline, Publishing
    <3>2. newest'[d] = newest[d] \/ newest'[d] = Row(d)
      BY <2>1 DEF StoreChanged, Inv, Types, TypeOK
    <3>3. newest[d] # None => newest[d].values = live[d].values
      BY <3>1, NoneAssumption DEF Inv, RowsKnown, LiveInHistory
    <3> QED BY <3>1, <3>2, <3>3 DEF Row
  <2>2. ASSUME NEW e \in Devices, e # d, StoreChanged(e) PROVE newest'[d] = newest[d]
    BY <2>2 DEF StoreChanged, Inv, Types, TypeOK
  <2>3. (\E e \in Devices : StoreChanged(e)) \/ newest' = newest
    BY FilesAlone DEF Next, Reader, Restart, Open, OpenFails,
       Parse, ParseFails, ReportFailures, SetDeviceInventory, SkipUnchanged, StoreFails,
       PublishRaises, UpdateDeviceLive, ReportIssues, PollReturns, storeVars
  <2> QED BY <2>1, <2>2, <2>3
<1>2. Spec => []Inv
  BY Invariance
<1> QED BY <1>1, <1>2, PTL DEF Spec, OnlyOnChange
===============================================================================
