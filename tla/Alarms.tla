------------------------------- MODULE Alarms -------------------------------
(***************************************************************************)
(* Alarm evaluation: the poller thread of app/services/xml_status.py loads *)
(* the mapping and status.xml, replaces the device inventory and calls     *)
(* alarms.evaluate for each device; API threads acknowledge alarms and     *)
(* change limits between any two of its steps.  state.active_alarms and    *)
(* the inventory are memory: a restart loses them, while what was already  *)
(* sent to Syslog stays sent.                                              *)
(***************************************************************************)
EXTENDS Integers

CONSTANTS
  Devices,      \* params_* sections
  Fields,       \* numeric fields of a section
  Values,       \* readings a field may carry
  Limits,       \* boundaries an operator may configure
  None,         \* no usable number: missing, duplicate, empty or not numeric
  Absent,       \* the section is not in status.xml
  Unreadable,   \* status.xml is missing, stale or malformed
  Unmapped,     \* the field is not in xml_mapping.json
  MaxEdits,     \* bound on mapping changes
  MaxRestarts   \* bound on process restarts

ASSUME NumbersAssumption ==
  /\ Values \subseteq Int
  /\ Limits \subseteq Int
  /\ None \notin Int
  /\ MaxEdits \in Nat
  /\ MaxRestarts \in Nat

ASSUME MarkersAssumption ==
  /\ Unmapped \notin [enabled : BOOLEAN, limit : [{"minimum", "maximum"} -> Limits \cup {None}]]
  /\ Absent \notin [Fields -> Values \cup {None}]
  /\ Unreadable \notin [Devices -> [Fields -> Values \cup {None}] \cup {Absent}]

Kinds == {"minimum", "maximum"}
Points == Devices \X Fields
Keys == Devices \X Fields \X Kinds
KeysOf(d) == {k \in Keys : k[1] = d}

Readings == [Fields -> Values \cup {None}] \cup {Absent}
Documents == [Devices -> Readings]

\* An alarm block validate_mapping accepts.  The block without limits that
\* update_config deletes and the default of parse_status are the same one.
ValidBlock(b) ==
  /\ b.enabled => \E kind \in Kinds : b.limit[kind] # None
  /\ (\A kind \in Kinds : b.limit[kind] # None) => b.limit["minimum"] < b.limit["maximum"]
Blocks == {b \in [enabled : BOOLEAN, limit : [Kinds -> Limits \cup {None}]] : ValidBlock(b)}
Mappings == [Points -> Blocks \cup {Unmapped}]

VARIABLES
  status,       \* status.xml, written by the device daemon
  mapping,      \* the alarm blocks of xml_mapping.json
  pc,           \* next step of the poller thread
  readMapping,  \* the mapping this poll loaded
  readStatus,   \* the document this poll parsed
  todo,         \* devices this poll has still to evaluate
  opened,       \* events evaluate collected under the lock and
  cleared,      \*   publishes after releasing it
  inventory,    \* state.device_definitions
  alarms,       \* state.active_alarms
  announced,    \* history: the last event sent for each key
  forgotten,    \* history: keys announced OPEN whose alarm the panel dropped
  edits,
  restarts

fileVars == <<status, mapping, edits>>
readVars == <<readMapping, readStatus>>
logVars == <<announced, forgotten>>
vars == <<fileVars, pc, readVars, todo, opened, cleared, inventory, alarms, logVars, restarts>>

NothingMapped == [p \in Points |-> Unmapped]
NothingRead == [d \in Devices |-> Absent]

Init ==
  /\ status = Unreadable
  /\ mapping \in Mappings
  /\ pc = "load"
  /\ readMapping = NothingMapped
  /\ readStatus = NothingRead
  /\ todo = {} /\ opened = {} /\ cleared = {}
  /\ inventory = {}
  /\ alarms = [k \in {} |-> None]
  /\ announced = [k \in Keys |-> "NONE"]
  /\ forgotten = {}
  /\ edits = 0
  /\ restarts = 0

-----------------------------------------------------------------------------
\* The device daemon replaces status.xml; reads may also start to fail.
WriteStatus ==
  /\ status' \in Documents \cup {Unreadable}
  /\ UNCHANGED <<mapping, edits, pc, readVars, todo, opened, cleared, inventory, alarms,
                 logVars, restarts>>

\* An operator saves the limits of one field of an active device.
UpdateAlarmSettings(p, b) ==
  /\ edits < MaxEdits
  /\ p[1] \in inventory
  /\ mapping[p] # Unmapped
  /\ mapping' = [mapping EXCEPT ![p] = b]
  /\ edits' = edits + 1
  /\ UNCHANGED <<status, pc, readVars, todo, opened, cleared, inventory, alarms, logVars, restarts>>

\* An administrator replaces the mapping document: fields may come and go.
UpdateXmlMapping(m) ==
  /\ edits < MaxEdits
  /\ mapping' = m
  /\ edits' = edits + 1
  /\ UNCHANGED <<status, pc, readVars, todo, opened, cleared, inventory, alarms, logVars, restarts>>

-----------------------------------------------------------------------------
\* poll_once, until the status document is parsed.
LoadMapping ==
  /\ pc = "load"
  /\ pc' = "read"
  /\ readMapping' = mapping
  /\ UNCHANGED <<fileVars, readStatus, todo, opened, cleared, inventory, alarms, logVars, restarts>>

ReadStatus ==
  /\ pc = "read"
  /\ status # Unreadable
  /\ pc' = "inventory"
  /\ readStatus' = status
  /\ UNCHANGED <<fileVars, readMapping, todo, opened, cleared, inventory, alarms, logVars, restarts>>

\* A failed read marks the devices disconnected and keeps every alarm.
ReadFails ==
  /\ pc = "read"
  /\ status = Unreadable
  /\ pc' = "load"
  /\ readMapping' = NothingMapped
  /\ UNCHANGED <<fileVars, readStatus, todo, opened, cleared, inventory, alarms, logVars, restarts>>

Present == {d \in Devices : readStatus[d] # Absent}

Kept(k) == k[1] \in Present

SetDeviceInventory ==
  /\ pc = "inventory"
  /\ pc' = "evaluate"
  /\ inventory' = Present
  /\ todo' = Present
  /\ alarms' = [k \in {k \in DOMAIN alarms : Kept(k)} |-> alarms[k]]
  /\ forgotten' = forgotten \cup {k \in Keys : k[1] \notin Present /\ announced[k] = "OPEN"}
  /\ UNCHANGED <<fileVars, readVars, opened, cleared, announced, restarts>>

-----------------------------------------------------------------------------
\* alarms.evaluate: every key of the device is compared with this poll's
\* reading and limits, then active_alarms changes under state_lock.
Reading(k) == readStatus[k[1]][k[2]]
Block(k) == readMapping[<<k[1], k[2]>>]
Limit(k) == Block(k).limit[k[3]]

Violates(kind, value, limit) ==
  /\ value # None
  /\ limit # None
  /\ \/ kind = "minimum" /\ value < limit
     \/ kind = "maximum" /\ value > limit

Current(d) ==
  {k \in KeysOf(d) : /\ Block(k) # Unmapped
                     /\ Block(k).enabled
                     /\ Violates(k[3], Reading(k), Limit(k))}

Active(k) == k \in DOMAIN alarms /\ alarms[k].condition
Normalised(d) == {k \in KeysOf(d) : Active(k)} \ Current(d)

\* Mutant: every repeated violation is announced again.
RaisedAgain(d) == Current(d)
Raised(d) == {k \in Current(d) : ~Active(k)}

\* Mutant: an alarm goes as soon as it is normal.
SettledUnseen(d) == Normalised(d)
Settled(d) == {k \in Normalised(d) : alarms[k].acknowledged}

NewAlarm(k) ==
  [condition |-> TRUE, acknowledged |-> FALSE, value |-> Reading(k),
   limit |-> Limit(k), target |-> Limit(k)]

\* Mutant: an alarm that is still violated keeps the limit of its first message.
SameMessage(k) ==
  [alarms[k] EXCEPT !.value = Reading(k), !.condition = TRUE,
                    !.acknowledged = @ /\ Active(k)]
\* A known alarm takes the new message, whose limit this is, and not the target.
UpdatedAlarm(k) ==
  [alarms[k] EXCEPT !.value = Reading(k), !.limit = Limit(k), !.condition = TRUE,
                    !.acknowledged = @ /\ Active(k)]

\* Mutant: the condition flag of a normal value is not reset.
StillActive(k) ==
  [alarms[k] EXCEPT !.value = IF Block(k) = Unmapped THEN @ ELSE Reading(k)]
NormalAlarm(k) ==
  [alarms[k] EXCEPT !.condition = FALSE,
                    !.value = IF Block(k) = Unmapped THEN @ ELSE Reading(k)]

Evaluate(d) ==
  /\ pc = "evaluate"
  /\ d \in todo
  /\ pc' = "publish"
  /\ todo' = todo \ {d}
  /\ alarms' = [k \in (DOMAIN alarms \cup Current(d)) \ Settled(d) |->
                  CASE k \in Current(d) \ DOMAIN alarms -> NewAlarm(k)
                    [] k \in Current(d) \cap DOMAIN alarms -> UpdatedAlarm(k)
                    [] k \in Normalised(d) -> NormalAlarm(k)
                    [] OTHER -> alarms[k]]
  /\ opened' = Raised(d)
  /\ cleared' = Normalised(d)
  /\ UNCHANGED <<fileVars, readVars, inventory, logVars, restarts>>

\* After the lock is released: the OPEN events and their traps, then CLEARED.
\* The order within each group is left open.
PublishOpened(k) ==
  /\ pc = "publish"
  /\ k \in opened
  /\ opened' = opened \ {k}
  /\ announced' = [announced EXCEPT ![k] = "OPEN"]
  /\ forgotten' = forgotten \ {k}
  /\ UNCHANGED <<fileVars, pc, readVars, todo, cleared, inventory, alarms, restarts>>

PublishCleared(k) ==
  /\ pc = "publish"
  /\ opened = {}
  /\ k \in cleared
  /\ cleared' = cleared \ {k}
  /\ announced' = [announced EXCEPT ![k] = "CLEARED"]
  /\ UNCHANGED <<fileVars, pc, readVars, todo, opened, inventory, alarms, forgotten, restarts>>

EvaluateReturns ==
  /\ pc = "publish"
  /\ opened = {} /\ cleared = {}
  /\ pc' = "evaluate"
  /\ UNCHANGED <<fileVars, readVars, todo, opened, cleared, inventory, alarms, logVars, restarts>>

PollReturns ==
  /\ pc = "evaluate"
  /\ todo = {}
  /\ pc' = "load"
  /\ readMapping' = NothingMapped
  /\ readStatus' = NothingRead
  /\ UNCHANGED <<fileVars, todo, opened, cleared, inventory, alarms, logVars, restarts>>

-----------------------------------------------------------------------------
\* An operator acknowledges an alarm.  The handler's inventory check adds
\* nothing: AlarmsOfInventory is proved of every reachable state.
\* Mutant: a normal alarm is marked but not removed.
AcknowledgeKeeps(k) ==
  /\ k \in DOMAIN alarms
  /\ alarms' = [alarms EXCEPT ![k].acknowledged = TRUE]
  /\ UNCHANGED <<fileVars, pc, readVars, todo, opened, cleared, inventory, logVars, restarts>>
Acknowledge(k) ==
  /\ k \in DOMAIN alarms
  /\ alarms' = IF alarms[k].condition
                 THEN [alarms EXCEPT ![k].acknowledged = TRUE]
                 ELSE [j \in DOMAIN alarms \ {k} |-> alarms[j]]
  /\ UNCHANGED <<fileVars, pc, readVars, todo, opened, cleared, inventory, logVars, restarts>>

\* The process stops anywhere and starts again: memory is lost, files stay.
Restart ==
  /\ restarts < MaxRestarts
  /\ restarts' = restarts + 1
  /\ pc' = "load"
  /\ readMapping' = NothingMapped
  /\ readStatus' = NothingRead
  /\ todo' = {} /\ opened' = {} /\ cleared' = {}
  /\ inventory' = {}
  /\ alarms' = [k \in {} |-> None]
  /\ forgotten' = forgotten \cup {k \in Keys : announced[k] = "OPEN"}
  /\ UNCHANGED <<fileVars, announced>>

-----------------------------------------------------------------------------
Environment ==
  \/ WriteStatus
  \/ \E p \in Points, b \in Blocks : UpdateAlarmSettings(p, b)
  \/ \E m \in Mappings : UpdateXmlMapping(m)
  \/ \E k \in Keys : Acknowledge(k)
  \/ Restart

Poller ==
  \/ LoadMapping \/ ReadStatus \/ ReadFails \/ SetDeviceInventory
  \/ \E d \in Devices : Evaluate(d)
  \/ \E k \in Keys : PublishOpened(k) \/ PublishCleared(k)
  \/ EvaluateReturns \/ PollReturns

Next == Environment \/ Poller

Spec == Init /\ [][Next]_vars

\* The poller thread loops until the process stops.
FairSpec == Spec /\ WF_vars(Poller)

-----------------------------------------------------------------------------
AlarmRecords ==
  [condition : BOOLEAN, acknowledged : BOOLEAN, value : Values \cup {None},
   limit : Limits, target : Limits]

\* Every variable holds a value of its kind, and an alarm, a pending event or
\* a device to evaluate always belongs to an active device.
TypeOK ==
  /\ status \in Documents \cup {Unreadable}
  /\ mapping \in Mappings
  /\ pc \in {"load", "read", "inventory", "evaluate", "publish"}
  /\ readMapping \in Mappings
  /\ readStatus \in Documents
  /\ inventory \in SUBSET Devices
  /\ todo \in SUBSET inventory
  /\ opened \in SUBSET Keys
  /\ cleared \in SUBSET Keys
  /\ DOMAIN alarms \subseteq Keys
  /\ \A k \in DOMAIN alarms : alarms[k] \in AlarmRecords
  /\ announced \in [Keys -> {"NONE", "OPEN", "CLEARED"}]
  /\ forgotten \in SUBSET Keys
  /\ edits \in 0..MaxEdits
  /\ restarts \in 0..MaxRestarts

\* set_device_inventory and evaluate together keep the list free of alarms of
\* devices that are not shown any more.
AlarmsOfInventory == \A k \in DOMAIN alarms : k[1] \in inventory

\* The poller's program counter governs its local variables: nothing is left to
\* publish outside "publish", and only sections of the document it read are
\* left to evaluate.
PollerDiscipline ==
  /\ pc # "publish" => opened = {} /\ cleared = {}
  /\ pc \notin {"evaluate", "publish"} => todo = {}
  /\ \A d \in todo : readStatus[d] # Absent

\* No acknowledged alarm is left behind once its value is normal, whichever of
\* acknowledge and evaluate came last.
NoSettledAlarm == \A k \in DOMAIN alarms : alarms[k].condition \/ ~alarms[k].acknowledged

\* The value and the limit in the message of an active alarm belong together: the value
\* violates that limit, across repeated readings and changed limits.
Explained ==
  \A k \in DOMAIN alarms :
    alarms[k].condition => Violates(k[3], alarms[k].value, alarms[k].limit)

\* Syslog and the alarm list tell the same story for every key: its last event
\* is OPEN exactly when its alarm is active, it is announced OPEN or CLEARED
\* only after the opposite event, and the exceptions are the keys whose alarm
\* was dropped with its device or with the process.
EventsAgree ==
  \A k \in Keys :
    /\ k \in opened => Active(k) /\ (announced[k] # "OPEN" \/ k \in forgotten)
    /\ k \in cleared => ~Active(k) /\ announced[k] = "OPEN" /\ k \notin forgotten
    /\ k \notin opened \cup cleared =>
         (Active(k) <=> announced[k] = "OPEN" /\ k \notin forgotten)

\* While its device stays, an alarm leaves the list only when it is normal and
\* acknowledged: by acknowledging a normal one, or when evaluate finds an
\* acknowledged one normal.
LeavesWhenSettled ==
  [][\A k \in DOMAIN alarms \ DOMAIN alarms' :
       k[1] \in inventory' => (alarms[k].condition <=> alarms[k].acknowledged)]_vars

\* Repeated readings of a violated value never withdraw an acknowledgement.
AcknowledgedStays ==
  [][\A k \in DOMAIN alarms \cap DOMAIN alarms' :
       alarms[k].acknowledged => alarms'[k].acknowledged]_vars

\* The four states of AlarmLatch, read off active_alarms.
LatchState(k) ==
  IF k \notin DOMAIN alarms THEN "absent"
  ELSE IF ~alarms[k].condition THEN "normal"
  ELSE IF alarms[k].acknowledged THEN "acknowledged" ELSE "raised"

Latch == INSTANCE AlarmLatch
  WITH Owners <- Devices, Owned <- KeysOf, latch <- [k \in Keys |-> LatchState(k)]

\* The interleaved evaluation, inventory and acknowledgements implement the
\* latch, one alarm at a time.
ImplementsLatch == Latch!Spec

\* Does the file, read with the mapping, violate the limit of k?
InFile(k) ==
  /\ status # Unreadable
  /\ status[k[1]] # Absent
  /\ mapping[<<k[1], k[2]>>] # Unmapped
  /\ mapping[<<k[1], k[2]>>].enabled
  /\ Violates(k[3], status[k[1]][k[2]], mapping[<<k[1], k[2]>>].limit[k[3]])

\* A violation that lasts is raised and announced; one that is gone for good
\* from a readable file does not stay active.
ViolationsReported ==
  \A k \in Keys :
    /\ <>[]InFile(k) => <>[](Active(k) /\ announced[k] = "OPEN")
    /\ <>[](status # Unreadable /\ ~InFile(k)) => <>[](~Active(k))
=============================================================================
