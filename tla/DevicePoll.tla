------------------------------ MODULE DevicePoll ------------------------------
(***************************************************************************)
(* The life of one status.xml in the panel: poll_once loads the mapping,   *)
(* opens and parses the file, replaces the inventory, and for each section *)
(* stores a changed snapshot in SQLite before it updates the live values   *)
(* that the API returns.  The daemon replaces the file atomically and the  *)
(* API the mapping at any moment; the thread survives failed reads, and    *)
(* nothing else.                                                           *)
(*                                                                         *)
(* Only the newest row of a device matters here: HistoryStore has the      *)
(* others.  Alarms and control requests, which a poll also serves, are in  *)
(* Alarms and ControlExchange.                                             *)
(***************************************************************************)
EXTENDS Integers

CONSTANTS
  Devices,
  Contents,     \* what the section of a device may say, as it is shown
  Faulty,       \* contents with an invalid, missing or duplicate field
  Oversize,     \* contents whose snapshot exceeds 1 MB although the XML does not
  Absent,       \* the device has no section in the document
  Malformed,    \* what parse_status rejects
  Texts,        \* what the daemon may write
  Mappings,     \* what xml_mapping.json may say
  Decode,       \* parse_status: what a text says under a mapping
  None,
  StaleAfter,   \* XML_STALE_SECONDS
  MaxTime,      \* bound on the clock
  MaxEdits,     \* bound on mapping edits
  MaxFailures,  \* bound on failed history writes
  MaxRestarts   \* bound on process restarts

Times == 0..MaxTime
Documents == [Devices -> Contents \cup {Absent}]
Files == [modified : Times, text : Texts]
Readings == [file : Files, mapping : Mappings]
Pasts == [time : Times, document : Documents]
Rows == [time : Times, values : Contents]

ASSUME PollAssumption ==
  /\ Faulty \subseteq Contents /\ Oversize \subseteq Contents
  /\ Absent \notin Contents /\ None \notin Contents
  /\ Malformed \notin Documents
  /\ Decode \in [Texts \X Mappings -> Documents \cup {Malformed}]
  /\ StaleAfter \in Nat /\ MaxTime \in Nat /\ MaxEdits \in Nat
  /\ MaxFailures \in Nat /\ MaxRestarts \in Nat

ASSUME NoneAssumption ==
  /\ None \notin Times /\ None \notin Files /\ None \notin Readings /\ None \notin Pasts
  /\ None \notin Rows /\ None \notin Devices

VARIABLES
  now,
  file,        \* status.xml, None while it is missing
  mapping,     \* xml_mapping.json
  pc,          \* the step of the reader thread, "dead" once it has ended
  reading,     \* the file this poll opened and the mapping it loaded
  modified,    \* the modification time it takes for that of the file
  todo,        \* sections this poll has still to publish
  current,     \* the one it is publishing
  live,        \* state.device_live; its domain is the inventory
  newest,      \* the newest stored row of each device
  published,   \* history: files the daemon has put in place
  inForce,     \* history: mappings there have been
  raced,       \* history: times some poll gave to the text of an earlier file
  last,        \* history: the time and the document of the last poll that got one
  excused,     \* history: devices whose newest row may not be their last change
  edits,
  failures,
  restarts

fileVars == <<now, file, published, mapping, inForce, edits>>
readVars == <<reading, modified>>
pastVars == <<raced, last>>
storeVars == <<newest, excused, failures>>
vars == <<fileVars, pc, readVars, pastVars, todo, current, live, storeVars, restarts>>

Unknown == [connected |-> FALSE, error |-> "none", time |-> None, values |-> None]

Init ==
  /\ now = 0
  /\ file = None /\ published = {}
  /\ mapping \in Mappings /\ inForce = {mapping} /\ edits = 0
  /\ pc = "open"
  /\ reading = None /\ modified = None
  /\ raced = {} /\ last = None
  /\ todo = {} /\ current = None
  /\ live = [d \in {} |-> Unknown]
  /\ newest = [d \in Devices |-> None]
  /\ excused = {}
  /\ failures = 0 /\ restarts = 0

-----------------------------------------------------------------------------
Tick ==
  /\ now < MaxTime
  /\ now' = now + 1
  /\ UNCHANGED <<file, published, mapping, inForce, edits>>

\* The daemon renames a new file into place; two of its files have different
\* modification times.
ReplaceFile(x) ==
  /\ \A f \in published : f.modified < now
  /\ file' = [modified |-> now, text |-> x]
  /\ published' = published \cup {file'}
  /\ UNCHANGED <<now, mapping, inForce, edits>>

RemoveFile ==
  /\ file # None
  /\ file' = None
  /\ UNCHANGED <<now, published, mapping, inForce, edits>>

\* Through the API or by hand; a mapping that cannot be loaded, or that gives two
\* sections one key, makes every text Malformed.
EditMapping(m) ==
  /\ edits < MaxEdits
  /\ edits' = edits + 1
  /\ m # mapping
  /\ mapping' = m
  /\ inForce' = inForce \cup {m}
  /\ UNCHANGED <<now, file, published>>

-----------------------------------------------------------------------------
\* Every active device is disconnected and keeps its values.
ReportFailures ==
  /\ pc' = "open"
  /\ reading' = None /\ modified' = None
  /\ live' = [d \in DOMAIN live |-> [live[d] EXCEPT !.connected = FALSE, !.error = "xml"]]
  /\ UNCHANGED <<fileVars, pastVars, todo, current, storeVars, restarts>>

\* load_mapping and path.open: what happens to the mapping between the two might
\* as well happen after both.
Open ==
  /\ pc = "open"
  /\ file # None
  /\ pc' = "stat"
  /\ reading' = [file |-> file, mapping |-> mapping]
  /\ UNCHANGED <<fileVars, modified, pastVars, todo, current, live, storeVars, restarts>>

OpenFails ==
  /\ pc = "open"
  /\ file = None
  /\ ReportFailures

\* The file stays open while others are renamed over it: its text is fixed, and
\* its time is not known to the panel.
payload == Decode[<<reading.file.text, reading.mapping>>]

\* Mutant: the age of the file does not matter.
AnyAge == file # None /\ payload # Malformed
\* path.stat() looks the path up again: it may see a later file than open did.
Usable ==
  /\ file # None
  /\ now - file.modified <= StaleAfter
  /\ payload # Malformed

\* Devices whose section differs from what the last poll found under this very
\* time: the mapping was edited, or one of the two raced with the daemon.
Reread ==
  {d \in Devices : last # None /\ last.time = file.modified /\ last.document[d] # payload[d]}

Parse ==
  /\ pc = "stat"
  /\ Usable
  /\ pc' = "inventory"
  /\ modified' = file.modified
  /\ raced' = raced \cup (IF reading.file = file THEN {} ELSE {file.modified})
  /\ last' = [time |-> file.modified, document |-> payload]
  /\ excused' = excused \cup Reread
  /\ UNCHANGED <<fileVars, reading, todo, current, live, newest, failures, restarts>>

ParseFails ==
  /\ pc = "stat"
  /\ ~Usable
  /\ ReportFailures

Present == {d \in Devices : payload[d] # Absent}

SetDeviceInventory ==
  /\ pc = "inventory"
  /\ pc' = "device"
  /\ todo' = Present
  /\ live' = [d \in Present |-> IF d \in DOMAIN live THEN live[d] ELSE Unknown]
  /\ excused' = excused \cup (DOMAIN live \ Present)
  /\ UNCHANGED <<fileVars, readVars, pastVars, current, newest, failures, restarts>>

-----------------------------------------------------------------------------
\* Mutant: every poll publishes.
EveryPoll(d) == d \in DOMAIN live
Changed(d) == live[d].values # payload[d]

Take(d, step) ==
  /\ pc = "device"
  /\ d \in todo
  /\ todo' = todo \ {d}
  /\ current' = d
  /\ pc' = step

SkipUnchanged(d) ==
  /\ Take(d, "update")
  /\ ~Changed(d)
  /\ UNCHANGED <<fileVars, readVars, pastVars, live, storeVars, restarts>>

Row(d) == [time |-> modified, values |-> payload[d]]

\* Mutant: the first observation of a device is not stored.
LaterOnly(d) == live[d].time # None
\* A second change with the modification time of the first is not stored.
Due(d) == live[d].time # modified

StoreChanged(d) ==
  /\ Take(d, "update")
  /\ Changed(d)
  /\ payload[d] \notin Oversize
  /\ newest' = [newest EXCEPT ![d] = IF Due(d) THEN Row(d) ELSE @]
  /\ excused' = IF Due(d) THEN excused \ {d} ELSE excused
  /\ UNCHANGED <<fileVars, readVars, pastVars, live, failures, restarts>>

\* write_device_snapshot returns False; publish_snapshot goes on.
StoreFails(d) ==
  /\ Take(d, "update")
  /\ Changed(d)
  /\ payload[d] \notin Oversize
  /\ Due(d)
  /\ failures < MaxFailures
  /\ failures' = failures + 1
  /\ excused' = excused \cup {d}
  /\ UNCHANGED <<fileVars, readVars, pastVars, live, newest, restarts>>

\* The ValueError of publish_snapshot reaches xml_reader_loop, or the start of
\* the service, and nobody catches it.
PublishRaises(d) ==
  /\ Take(d, "dead")
  /\ Changed(d)
  /\ payload[d] \in Oversize
  /\ UNCHANGED <<fileVars, readVars, pastVars, live, storeVars, restarts>>

\* Mutant: the time of the observation stays.
UndatedLive(d) ==
  [connected |-> TRUE, error |-> "none", values |-> payload[d],
   time |-> IF live[d].time = None THEN modified ELSE live[d].time]
Observed(d) ==
  [connected |-> TRUE, error |-> "none", values |-> payload[d], time |-> modified]

UpdateDeviceLive ==
  /\ pc = "update"
  /\ live' = [live EXCEPT ![current] = Observed(current)]
  /\ pc' = "issues"
  /\ UNCHANGED <<fileVars, readVars, pastVars, todo, current, storeVars, restarts>>

ReportIssues ==
  /\ pc = "issues"
  /\ live' = IF payload[current] \in Faulty
               THEN [live EXCEPT ![current].error = "issues"] ELSE live
  /\ current' = None
  /\ pc' = "device"
  /\ UNCHANGED <<fileVars, readVars, pastVars, todo, storeVars, restarts>>

PollReturns ==
  /\ pc = "device"
  /\ todo = {}
  /\ pc' = "open"
  /\ reading' = None /\ modified' = None
  /\ UNCHANGED <<fileVars, pastVars, todo, current, live, storeVars, restarts>>

\* Memory is lost at any step; the rows and the file stay.
Restart ==
  /\ restarts < MaxRestarts
  /\ restarts' = restarts + 1
  /\ pc' = "open"
  /\ reading' = None /\ modified' = None
  /\ last' = None
  /\ todo' = {} /\ current' = None
  /\ live' = [d \in {} |-> Unknown]
  /\ excused' = Devices
  /\ UNCHANGED <<fileVars, raced, newest, failures>>

-----------------------------------------------------------------------------
Reader ==
  \/ Open \/ OpenFails \/ Parse \/ ParseFails
  \/ SetDeviceInventory
  \/ \E d \in Devices : SkipUnchanged(d) \/ StoreChanged(d) \/ StoreFails(d) \/ PublishRaises(d)
  \/ UpdateDeviceLive \/ ReportIssues \/ PollReturns

FilesChange ==
  /\ \/ Tick
     \/ \E x \in Texts : ReplaceFile(x)
     \/ RemoveFile
     \/ \E m \in Mappings : EditMapping(m)
  /\ UNCHANGED <<pc, readVars, pastVars, todo, current, live, storeVars, restarts>>

Next == FilesChange \/ Restart \/ Reader

Spec == Init /\ [][Next]_vars

\* The reader thread goes on while it lives.
FairSpec == Spec /\ WF_vars(Reader)

-----------------------------------------------------------------------------
LiveEntries ==
  [connected : BOOLEAN, error : {"none", "xml", "issues"},
   time : Times \cup {None}, values : Contents \cup {None}]

TypeOK ==
  /\ now \in Times
  /\ file \in Files \cup {None}
  /\ published \subseteq Files
  /\ mapping \in Mappings /\ mapping \in inForce /\ inForce \subseteq Mappings
  /\ edits \in 0..MaxEdits
  /\ pc \in {"open", "stat", "inventory", "device", "update", "issues", "dead"}
  /\ reading \in Readings \cup {None}
  /\ reading = None <=> pc = "open"
  /\ raced \subseteq Times
  /\ last \in Pasts \cup {None}
  /\ modified \in Times \cup {None}
  /\ todo \subseteq Devices
  /\ current \in Devices \cup {None}
  /\ DOMAIN live \subseteq Devices
  /\ \A d \in DOMAIN live : live[d] \in LiveEntries
  /\ newest \in [Devices -> Rows \cup {None}]
  /\ excused \subseteq Devices
  /\ failures \in 0..MaxFailures
  /\ restarts \in 0..MaxRestarts

\* Values on the screen and in the history, at every step of a poll, are what a
\* file the daemon published says under a mapping there has been.  That file is
\* the one their time belongs to, or, where a poll raced with the daemon, an
\* earlier one.
SomeDocument(d, time, values) ==
  \E f, g \in published, m \in inForce :
    /\ g.modified = time
    /\ f = g \/ (f.modified < time /\ time \in raced)
    /\ Decode[<<f.text, m>>] # Malformed /\ Decode[<<f.text, m>>][d] = values

Genuine ==
  /\ \A d \in DOMAIN live : live[d].time # None => SomeDocument(d, live[d].time, live[d].values)
  /\ \A d \in Devices : newest[d] # None => SomeDocument(d, newest[d].time, newest[d].values)

\* The last change the dashboard shows is in the history: the newest row has the
\* shown values and is not newer than what is shown.  Exceptions, until the next
\* stored change: its write failed, the device or the process was away, or the
\* section was read otherwise under one time, see Reread.
LiveInHistory ==
  \A d \in DOMAIN live \ excused :
    current # d /\ live[d].time # None =>
      newest[d] # None /\ newest[d].values = live[d].values /\ newest[d].time <= live[d].time

\* A row is added only for a change: it differs from the one before it, with
\* the same exceptions.
OnlyOnChange ==
  [][\A d \in Devices \ excused :
       newest'[d] # newest[d] /\ newest[d] # None => newest'[d].values # newest[d].values]_vars

Shown(d) == d \in DOMAIN live /\ live[d].connected

Decoded == Decode[<<file.text, mapping>>]

\* A document that stays in place and is fresh, under a mapping that stays, ends
\* up on the dashboard, and one that cannot be used disconnects every device,
\* while the thread lives.
InFile(d) ==
  /\ file # None
  /\ now - file.modified <= StaleAfter
  /\ Decoded # Malformed
  /\ Decoded[d] # Absent

FollowsFile ==
  \A d \in Devices :
    /\ <>[](InFile(d) /\ pc # "dead") => <>[](InFile(d) /\ Shown(d) /\ live[d].values = Decoded[d])
    /\ <>[](~InFile(d) /\ pc # "dead") => <>[]~Shown(d)

-----------------------------------------------------------------------------
\* The docstring of xml_reader_loop, "failed reads recover on the following poll":
\* whatever was in the file before, a usable section that stays is shown.
Recovers ==
  \A d \in Devices : <>[](InFile(d) /\ Decoded[d] \notin Oversize) => <>[]Shown(d)
=============================================================================
