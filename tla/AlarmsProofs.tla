---------------------------- MODULE AlarmsProofs ----------------------------
(***************************************************************************)
(* Proofs for Alarms: type correctness, the inductive invariant behind the *)
(* agreement of Syslog and the alarm list, the two action properties, and  *)
(* the implementation of AlarmLatch.                                       *)
(***************************************************************************)
EXTENDS Alarms, TLAPS

IInv ==
  /\ TypeOK
  /\ PollerDiscipline
  /\ AlarmsOfInventory
  /\ NoSettledAlarm
  /\ Explained
  /\ EventsAgree

\* A key is a device, a field and a kind.
LEMMA KeyParts ==
  ASSUME NEW k \in Keys
  PROVE  /\ k[1] \in Devices /\ k[2] \in Fields /\ k[3] \in Kinds
         /\ <<k[1], k[2]>> \in Points
         /\ k \in KeysOf(k[1])
  BY DEF Keys, Points, KeysOf

\* The limit of a mapped, violated key is one of the configured numbers.
LEMMA CurrentKeys ==
  ASSUME TypeOK, NEW d \in Devices, readStatus[d] # Absent, NEW k \in Current(d)
  PROVE  /\ k \in Keys /\ k[1] = d
         /\ Reading(k) \in Values \cup {None}
         /\ Limit(k) \in Limits
         /\ Violates(k[3], Reading(k), Limit(k))
<1>1. k \in Keys /\ k[1] = d /\ Block(k) # Unmapped /\ Violates(k[3], Reading(k), Limit(k))
  BY DEF Current, KeysOf
<1>2. k[2] \in Fields /\ k[3] \in Kinds /\ <<k[1], k[2]>> \in Points
  BY <1>1, KeyParts
<1>3. readStatus[d] \in [Fields -> Values \cup {None}]
  BY DEF TypeOK, Documents, Readings
<1>4. Block(k) \in Blocks
  BY <1>1, <1>2 DEF TypeOK, Mappings, Block
<1>5. Block(k).limit \in [Kinds -> Limits \cup {None}]
  BY <1>4 DEF Blocks
<1>6. Limit(k) \in Limits \cup {None}
  BY <1>2, <1>5 DEF Limit
<1>. QED BY <1>1, <1>2, <1>3, <1>6 DEF Violates, Reading

\* An empty alarm list, with no poll begun, satisfies the invariant.
LEMMA InitIInv == Init => IInv
<1>. SUFFICES ASSUME Init PROVE IInv
  OBVIOUS
<1>1. NothingMapped \in Mappings /\ NothingRead \in Documents
  BY DEF NothingMapped, NothingRead, Mappings, Documents, Readings
<1>2. TypeOK
  BY <1>1, NumbersAssumption DEF Init, TypeOK
<1>. QED
  BY <1>2 DEF Init, IInv, PollerDiscipline, AlarmsOfInventory, NoSettledAlarm, Explained,
              EventsAgree, Active

\* The actions that leave the alarm list and its events alone.
LEMMA FileSteps ==
  ASSUME IInv,
         \/ WriteStatus
         \/ \E p \in Points, b \in Blocks : UpdateAlarmSettings(p, b)
         \/ \E m \in Mappings : UpdateXmlMapping(m)
  PROVE  IInv'
<1>1. TypeOK'
  <2>1. CASE WriteStatus
    BY <2>1 DEF IInv, TypeOK, WriteStatus, readVars, logVars
  <2>2. ASSUME NEW p \in Points, NEW b \in Blocks, UpdateAlarmSettings(p, b) PROVE TypeOK'
    <3>1. mapping' \in Mappings
      BY <2>2 DEF IInv, TypeOK, UpdateAlarmSettings, Mappings
    <3>. QED BY <3>1, <2>2, NumbersAssumption
      DEF IInv, TypeOK, UpdateAlarmSettings, readVars, logVars
  <2>3. ASSUME NEW m \in Mappings, UpdateXmlMapping(m) PROVE TypeOK'
    BY <2>3, NumbersAssumption DEF IInv, TypeOK, UpdateXmlMapping, readVars, logVars
  <2>. QED BY <2>1, <2>2, <2>3
<1>2. UNCHANGED <<pc, readVars, todo, opened, cleared, inventory, alarms, logVars>>
  BY DEF WriteStatus, UpdateAlarmSettings, UpdateXmlMapping
<1>. QED
  BY <1>1, <1>2 DEF IInv, PollerDiscipline, AlarmsOfInventory, NoSettledAlarm, Explained,
                    EventsAgree, Active, readVars, logVars

\* The poller's own bookkeeping: alarms and events do not change.
LEMMA ReadSteps ==
  ASSUME IInv, LoadMapping \/ ReadStatus \/ ReadFails \/ EvaluateReturns \/ PollReturns
  PROVE  IInv'
<1>1. NothingMapped \in Mappings /\ NothingRead \in Documents
  BY DEF NothingMapped, NothingRead, Mappings, Documents, Readings
<1>2. TypeOK'
  BY <1>1 DEF IInv, TypeOK, LoadMapping, ReadStatus, ReadFails, EvaluateReturns, PollReturns,
              fileVars, readVars, logVars
<1>3. PollerDiscipline'
  BY DEF IInv, PollerDiscipline, TypeOK, LoadMapping, ReadStatus, ReadFails, EvaluateReturns,
         PollReturns, fileVars, readVars, logVars
<1>4. UNCHANGED <<opened, cleared, inventory, alarms, logVars>>
  BY DEF LoadMapping, ReadStatus, ReadFails, EvaluateReturns, PollReturns
<1>. QED
  BY <1>2, <1>3, <1>4 DEF IInv, AlarmsOfInventory, NoSettledAlarm, Explained, EventsAgree,
                          Active, logVars

\* set_device_inventory drops the alarms of devices that left, and no others.
LEMMA InventoryStep == IInv /\ SetDeviceInventory => IInv'
<1>. SUFFICES ASSUME IInv, SetDeviceInventory PROVE IInv'
  OBVIOUS
<1>. USE DEF IInv, SetDeviceInventory, Kept
<1>1. DOMAIN alarms' = {k \in DOMAIN alarms : k[1] \in Present}
      /\ \A k \in DOMAIN alarms' : alarms'[k] = alarms[k]
  OBVIOUS
<1>2. \A k : Active(k)' <=> Active(k) /\ k[1] \in Present
  BY <1>1 DEF Active
<1>3. TypeOK'
  BY <1>1 DEF TypeOK, Present, fileVars, readVars
<1>4. PollerDiscipline'
  BY DEF PollerDiscipline, Present, readVars
<1>5. AlarmsOfInventory' /\ NoSettledAlarm' /\ Explained'
  BY <1>1 DEF AlarmsOfInventory, NoSettledAlarm, Explained
<1>6. EventsAgree'
  <2>1. opened = {} /\ cleared = {} /\ opened' = {} /\ cleared' = {}
    BY DEF PollerDiscipline
  <2>2. \A k \in Keys : Active(k) <=> announced[k] = "OPEN" /\ k \notin forgotten
    BY <2>1 DEF EventsAgree
  <2>. QED BY <1>2, <2>1, <2>2 DEF EventsAgree
<1>. QED BY <1>3, <1>4, <1>5, <1>6

\* The three records evaluate stores.
LEMMA StoredRecords ==
  ASSUME NEW k, Reading(k) \in Values \cup {None}
  PROVE  /\ Limit(k) \in Limits =>
              /\ NewAlarm(k) \in AlarmRecords
              /\ NewAlarm(k).condition = TRUE /\ NewAlarm(k).acknowledged = FALSE
              /\ NewAlarm(k).value = Reading(k) /\ NewAlarm(k).limit = Limit(k)
         /\ alarms[k] \in AlarmRecords /\ Limit(k) \in Limits =>
              /\ UpdatedAlarm(k) \in AlarmRecords
              /\ UpdatedAlarm(k).condition = TRUE
              /\ UpdatedAlarm(k).value = Reading(k) /\ UpdatedAlarm(k).limit = Limit(k)
         /\ alarms[k] \in AlarmRecords =>
              /\ NormalAlarm(k) \in AlarmRecords
              /\ NormalAlarm(k).condition = FALSE
              /\ NormalAlarm(k).acknowledged = alarms[k].acknowledged
<1>1. ASSUME Limit(k) \in Limits
      PROVE  /\ NewAlarm(k) \in AlarmRecords
             /\ NewAlarm(k).condition = TRUE /\ NewAlarm(k).acknowledged = FALSE
             /\ NewAlarm(k).value = Reading(k) /\ NewAlarm(k).limit = Limit(k)
  BY <1>1 DEF NewAlarm, AlarmRecords
<1>2. ASSUME alarms[k] \in AlarmRecords, Limit(k) \in Limits
      PROVE  /\ UpdatedAlarm(k) \in AlarmRecords
             /\ UpdatedAlarm(k).condition = TRUE
             /\ UpdatedAlarm(k).value = Reading(k) /\ UpdatedAlarm(k).limit = Limit(k)
  BY <1>2 DEF UpdatedAlarm, AlarmRecords, Active
<1>3. ASSUME alarms[k] \in AlarmRecords
      PROVE  /\ NormalAlarm(k) \in AlarmRecords
             /\ NormalAlarm(k).condition = FALSE
             /\ NormalAlarm(k).acknowledged = alarms[k].acknowledged
  BY <1>3 DEF NormalAlarm, AlarmRecords
<1>. QED BY <1>1, <1>2, <1>3

\* What evaluate leaves in active_alarms, key by key.
LEMMA EvaluatedAlarms ==
  ASSUME NEW d \in Devices, Evaluate(d)
  PROVE  /\ DOMAIN alarms' = (DOMAIN alarms \cup Current(d)) \ Settled(d)
         /\ \A k \in Current(d) \ DOMAIN alarms :
              k \in DOMAIN alarms' /\ alarms'[k] = NewAlarm(k)
         /\ \A k \in Current(d) \cap DOMAIN alarms :
              k \in DOMAIN alarms' /\ alarms'[k] = UpdatedAlarm(k)
         /\ \A k \in Normalised(d) \ Settled(d) :
              k \in DOMAIN alarms' /\ alarms'[k] = NormalAlarm(k)
         /\ \A k \in DOMAIN alarms \ (Current(d) \cup Normalised(d)) :
              k \in DOMAIN alarms' /\ alarms'[k] = alarms[k]
<1>1. \A k \in Normalised(d) : k \in DOMAIN alarms /\ k \notin Current(d)
  BY DEF Normalised, Active
<1>2. Settled(d) \subseteq Normalised(d)
  BY DEF Settled
<1>. QED BY <1>1, <1>2 DEF Evaluate

\* evaluate: what the lock protects keeps list, limits and log in agreement.
LEMMA EvaluateStep ==
  ASSUME IInv, NEW d \in Devices, Evaluate(d)
  PROVE  IInv'
<1>1. d \in todo /\ readStatus[d] # Absent /\ d \in inventory /\ opened = {} /\ cleared = {}
  BY DEF IInv, TypeOK, PollerDiscipline, Evaluate
<1>2. \A k \in Current(d) : /\ k \in Keys /\ k[1] = d
                            /\ Reading(k) \in Values \cup {None}
                            /\ Limit(k) \in Limits
                            /\ Violates(k[3], Reading(k), Limit(k))
  BY <1>1, CurrentKeys DEF IInv
<1>3. \A k \in Normalised(d) : /\ k \in Keys /\ k[1] = d /\ k \in DOMAIN alarms
                               /\ alarms[k].condition /\ k \notin Current(d)
                               /\ Reading(k) \in Values \cup {None}
  <2>1. readStatus[d] \in [Fields -> Values \cup {None}]
    BY <1>1 DEF IInv, TypeOK, Documents, Readings
  <2>. QED BY <2>1, KeyParts DEF Normalised, KeysOf, Active, Reading
<1>4. DOMAIN alarms' = (DOMAIN alarms \cup Current(d)) \ Settled(d)
  BY EvaluatedAlarms
<1>5. \A k \in Current(d) \ DOMAIN alarms : k \in DOMAIN alarms' /\ alarms'[k] = NewAlarm(k)
  BY EvaluatedAlarms
<1>6. \A k \in Current(d) \cap DOMAIN alarms :
        k \in DOMAIN alarms' /\ alarms'[k] = UpdatedAlarm(k)
  BY EvaluatedAlarms
<1>7. \A k \in Normalised(d) \ Settled(d) :
        k \in DOMAIN alarms' /\ alarms'[k] = NormalAlarm(k) /\ ~alarms[k].acknowledged
  BY EvaluatedAlarms DEF Settled
<1>8. \A k \in DOMAIN alarms \ (Current(d) \cup Normalised(d)) :
        k \in DOMAIN alarms' /\ alarms'[k] = alarms[k]
  BY EvaluatedAlarms
<1>9. \A k \in DOMAIN alarms' : \/ k \in Current(d) \ DOMAIN alarms
                                \/ k \in Current(d) \cap DOMAIN alarms
                                \/ k \in Normalised(d) \ Settled(d)
                                \/ k \in DOMAIN alarms \ (Current(d) \cup Normalised(d))
  BY <1>4
<1>10. \A k \in DOMAIN alarms : /\ k \in Keys
                                /\ alarms[k] \in AlarmRecords
                                /\ k[1] \in inventory
  BY DEF IInv, TypeOK, AlarmsOfInventory
<1>11. \A k \in Keys : Active(k)' <=> \/ k \in Current(d)
                                      \/ Active(k) /\ k \notin Normalised(d)
  <2>1. ASSUME NEW k \in Current(d) PROVE Active(k)'
    <3>1. CASE k \notin DOMAIN alarms
      BY <3>1, <1>2, <1>5, StoredRecords DEF Active
    <3>2. CASE k \in DOMAIN alarms
      BY <3>2, <1>2, <1>6, <1>10, StoredRecords DEF Active
    <3>. QED BY <3>1, <3>2
  <2>2. ASSUME NEW k \in Normalised(d) PROVE ~Active(k)'
    <3>1. CASE k \in Settled(d)
      BY <3>1, <1>3, <1>4 DEF Active
    <3>2. CASE k \notin Settled(d)
      BY <3>2, <1>3, <1>7, <1>10, StoredRecords DEF Active
    <3>. QED BY <3>1, <3>2
  <2>3. ASSUME NEW k \in Keys, k \notin Current(d), k \notin Normalised(d)
        PROVE  Active(k)' <=> Active(k)
    <3>1. CASE k \in DOMAIN alarms
      BY <2>3, <3>1, <1>8 DEF Active
    <3>2. CASE k \notin DOMAIN alarms
      BY <2>3, <3>2, <1>4 DEF Active
    <3>. QED BY <3>1, <3>2
  <2>. QED BY <2>1, <2>2, <2>3
<1>12. TypeOK'
  <2>1. ASSUME NEW k \in DOMAIN alarms' PROVE k \in Keys /\ alarms'[k] \in AlarmRecords
    <3>1. CASE k \in Current(d) \ DOMAIN alarms
      BY <3>1, <1>2, <1>5, StoredRecords
    <3>2. CASE k \in Current(d) \cap DOMAIN alarms
      BY <3>2, <1>2, <1>6, <1>10, StoredRecords
    <3>3. CASE k \in Normalised(d) \ Settled(d)
      BY <3>3, <1>3, <1>7, <1>10, StoredRecords
    <3>4. CASE k \in DOMAIN alarms \ (Current(d) \cup Normalised(d))
      BY <3>4, <1>8, <1>10
    <3>. QED BY <1>9, <3>1, <3>2, <3>3, <3>4
  <2>2. Raised(d) \subseteq Keys /\ Normalised(d) \subseteq Keys
    BY <1>2, <1>3 DEF Raised
  <2>. QED BY <2>1, <2>2 DEF IInv, TypeOK, Evaluate, fileVars, readVars, logVars
<1>13. PollerDiscipline'
  BY DEF IInv, PollerDiscipline, Evaluate, readVars
<1>14. AlarmsOfInventory'
  BY <1>1, <1>2, <1>4, <1>10 DEF AlarmsOfInventory, Evaluate
<1>15. ASSUME NEW k \in DOMAIN alarms'
       PROVE  /\ alarms'[k].condition \/ ~alarms'[k].acknowledged
              /\ alarms'[k].condition => Violates(k[3], alarms'[k].value, alarms'[k].limit)
  <2>1. CASE k \in Current(d) \ DOMAIN alarms
    BY <2>1, <1>2, <1>5, StoredRecords
  <2>2. CASE k \in Current(d) \cap DOMAIN alarms
    <3>1. alarms'[k] = UpdatedAlarm(k) /\ alarms[k] \in AlarmRecords
      BY <2>2, <1>6, <1>10
    <3>2. /\ UpdatedAlarm(k).condition = TRUE
          /\ UpdatedAlarm(k).value = Reading(k) /\ UpdatedAlarm(k).limit = Limit(k)
      BY <2>2, <3>1, <1>2, StoredRecords
    <3>. QED BY <2>2, <3>1, <3>2, <1>2
  <2>3. CASE k \in Normalised(d) \ Settled(d)
    BY <2>3, <1>3, <1>7, <1>10, StoredRecords
  <2>4. CASE k \in DOMAIN alarms \ (Current(d) \cup Normalised(d))
    BY <2>4, <1>8 DEF IInv, NoSettledAlarm, Explained
  <2>. QED BY <1>9, <2>1, <2>2, <2>3, <2>4
<1>16. NoSettledAlarm' /\ Explained'
  BY <1>15 DEF NoSettledAlarm, Explained, Violates
<1>17. EventsAgree'
  <2>1. \A k \in Keys : Active(k) <=> announced[k] = "OPEN" /\ k \notin forgotten
    BY <1>1 DEF IInv, EventsAgree
  <2>2. opened' = Raised(d) /\ cleared' = Normalised(d) /\ UNCHANGED <<announced, forgotten>>
    BY DEF Evaluate, logVars
  <2>3. \A k \in Keys : k \in Raised(d) <=> k \in Current(d) /\ ~Active(k)
    BY DEF Raised
  <2>4. \A k \in Normalised(d) : Active(k) /\ k \notin Current(d)
    BY DEF Normalised
  <2>. QED BY <1>11, <2>1, <2>2, <2>3, <2>4 DEF EventsAgree
<1>. QED BY <1>12, <1>13, <1>14, <1>16, <1>17 DEF IInv

\* The events collected by evaluate, sent after the lock is released.
LEMMA PublishSteps ==
  ASSUME IInv, NEW k \in Keys, PublishOpened(k) \/ PublishCleared(k)
  PROVE  IInv'
<1>1. TypeOK' /\ PollerDiscipline'
  BY DEF IInv, TypeOK, PollerDiscipline, PublishOpened, PublishCleared, fileVars, readVars
<1>2. UNCHANGED <<inventory, alarms>> /\ \A j : Active(j)' <=> Active(j)
  BY DEF PublishOpened, PublishCleared, Active
<1>3. AlarmsOfInventory' /\ NoSettledAlarm' /\ Explained'
  BY <1>2 DEF IInv, AlarmsOfInventory, NoSettledAlarm, Explained
<1>4. EventsAgree'
  <2>1. CASE PublishOpened(k)
    BY <2>1, <1>2 DEF IInv, TypeOK, EventsAgree, PublishOpened
  <2>2. CASE PublishCleared(k)
    BY <2>2, <1>2 DEF IInv, TypeOK, EventsAgree, PublishCleared
  <2>. QED BY <2>1, <2>2
<1>. QED BY <1>1, <1>3, <1>4 DEF IInv

\* acknowledge: a normal alarm leaves, an active one stays acknowledged.
LEMMA AcknowledgeStep ==
  ASSUME IInv, NEW k \in Keys, Acknowledge(k)
  PROVE  IInv'
<1>1. k \in DOMAIN alarms /\ \A j \in DOMAIN alarms : alarms[j] \in AlarmRecords
  BY DEF IInv, TypeOK, Acknowledge
<1>2. CASE alarms[k].condition
  <2>1. /\ DOMAIN alarms' = DOMAIN alarms
        /\ \A j \in DOMAIN alarms : j # k => alarms'[j] = alarms[j]
        /\ alarms'[k] = [alarms[k] EXCEPT !.acknowledged = TRUE]
    BY <1>1, <1>2 DEF Acknowledge
  <2>2. /\ alarms'[k] \in AlarmRecords
        /\ alarms'[k].condition = alarms[k].condition
        /\ alarms'[k].value = alarms[k].value
        /\ alarms'[k].limit = alarms[k].limit
    BY <1>1, <2>1 DEF AlarmRecords
  <2>3. \A j \in DOMAIN alarms :
          /\ alarms'[j] \in AlarmRecords
          /\ alarms'[j].condition = alarms[j].condition
          /\ alarms'[j].value = alarms[j].value
          /\ alarms'[j].limit = alarms[j].limit
    BY <1>1, <2>1, <2>2
  <2>4. \A j : Active(j)' <=> Active(j)
    BY <2>1, <2>3 DEF Active
  <2>5. TypeOK' /\ PollerDiscipline' /\ AlarmsOfInventory'
    BY <2>1, <2>3 DEF IInv, Acknowledge, TypeOK, PollerDiscipline, AlarmsOfInventory, fileVars,
                      readVars, logVars
  <2>6. NoSettledAlarm'
    BY <1>2, <2>1, <2>3 DEF IInv, NoSettledAlarm
  <2>7. Explained'
    BY <2>1, <2>3 DEF IInv, Explained, Violates
  <2>8. EventsAgree'
    BY <2>4 DEF IInv, EventsAgree, Acknowledge, logVars
  <2>. QED BY <2>5, <2>6, <2>7, <2>8 DEF IInv
<1>3. CASE ~alarms[k].condition
  <2>1. /\ DOMAIN alarms' = DOMAIN alarms \ {k}
        /\ \A j \in DOMAIN alarms' : alarms'[j] = alarms[j]
    BY <1>1, <1>3 DEF Acknowledge
  <2>2. \A j : Active(j)' <=> Active(j)
    BY <1>3, <2>1 DEF Active
  <2>. QED BY <2>1, <2>2
    DEF IInv, Acknowledge, TypeOK, PollerDiscipline, AlarmsOfInventory, NoSettledAlarm, Explained,
        EventsAgree, Violates, fileVars, readVars, logVars
<1>. QED BY <1>2, <1>3

\* A restart forgets the alarms and the poll, and keeps the files.
LEMMA RestartStep == IInv /\ Restart => IInv'
<1>. SUFFICES ASSUME IInv, Restart PROVE IInv'
  OBVIOUS
<1>1. NothingMapped \in Mappings /\ NothingRead \in Documents
  BY DEF NothingMapped, NothingRead, Mappings, Documents, Readings
<1>2. DOMAIN alarms' = {}
  BY DEF Restart
<1>3. TypeOK'
  BY <1>1, <1>2, NumbersAssumption DEF IInv, TypeOK, Restart, fileVars
<1>. QED BY <1>2, <1>3 DEF IInv, Restart, PollerDiscipline, AlarmsOfInventory, NoSettledAlarm,
                           Explained, EventsAgree, Active

\* Every step keeps the invariant.
LEMMA NextIInv == IInv /\ [Next]_vars => IInv'
<1>. SUFFICES ASSUME IInv, [Next]_vars PROVE IInv'
  OBVIOUS
<1>1. CASE UNCHANGED vars
  BY <1>1 DEF IInv, vars, fileVars, readVars, logVars, TypeOK, PollerDiscipline, AlarmsOfInventory,
              NoSettledAlarm, Explained, EventsAgree, Active, Violates
<1>2. CASE Environment
  BY <1>2, FileSteps, AcknowledgeStep, RestartStep DEF Environment
<1>3. CASE Poller
  BY <1>3, ReadSteps, InventoryStep, EvaluateStep, PublishSteps DEF Poller
<1>. QED BY <1>1, <1>2, <1>3 DEF Next

\* The inductive invariant: the five statements below hold together, and none
\* of the last two is inductive without the poller's discipline.
THEOREM Invariance == Spec => []IInv
  BY InitIInv, NextIInv, PTL DEF Spec

\* Every variable keeps its type, and pending work belongs to active devices.
THEOREM TypeCorrect == Spec => []TypeOK
<1>1. IInv => TypeOK
  BY DEF IInv
<1>. QED BY <1>1, Invariance, PTL

\* Alarms only exist for devices that are shown.
THEOREM InventoryCorrect == Spec => []AlarmsOfInventory
<1>1. IInv => AlarmsOfInventory
  BY DEF IInv
<1>. QED BY <1>1, Invariance, PTL

\* An acknowledged alarm does not outlive its condition.
THEOREM SettledCorrect == Spec => []NoSettledAlarm
<1>1. IInv => NoSettledAlarm
  BY DEF IInv
<1>. QED BY <1>1, Invariance, PTL

\* The value and the limit of an active alarm contradict each other.
THEOREM ExplainedCorrect == Spec => []Explained
<1>1. IInv => Explained
  BY DEF IInv
<1>. QED BY <1>1, Invariance, PTL

\* Syslog and the alarm list agree, for any number of devices, fields, polls,
\* mapping changes and restarts.
THEOREM EventsCorrect == Spec => []EventsAgree
<1>1. IInv => EventsAgree
  BY DEF IInv
<1>. QED BY <1>1, Invariance, PTL

\* Which alarms a step removes, and why: the only two ways out of the list.
LEMMA Removals ==
  ASSUME IInv, [Next]_vars, NEW k \in DOMAIN alarms \ DOMAIN alarms'
  PROVE  k[1] \in inventory' => (alarms[k].condition <=> alarms[k].acknowledged)
<1>1. k \in Keys /\ alarms[k].condition \in BOOLEAN /\ alarms[k].acknowledged \in BOOLEAN
  BY DEF IInv, TypeOK, AlarmRecords
<1>2. CASE alarms' = alarms
  BY <1>2
<1>3. CASE SetDeviceInventory
  BY <1>3 DEF SetDeviceInventory, Kept
<1>4. ASSUME NEW d \in Devices, Evaluate(d)
      PROVE  alarms[k].condition /\ alarms[k].acknowledged
  <2>1. k \in Settled(d)
    BY <1>4, EvaluatedAlarms
  <2>. QED BY <2>1 DEF Settled, Normalised, Active
<1>5. ASSUME NEW j \in Keys, Acknowledge(j)
      PROVE  ~alarms[k].condition /\ ~alarms[k].acknowledged
  <2>1. ~alarms[k].condition
    BY <1>5 DEF Acknowledge
  <2>. QED BY <2>1, <1>1 DEF IInv, NoSettledAlarm
<1>6. CASE Restart
  BY <1>6 DEF Restart
<1>. QED
  BY <1>2, <1>3, <1>4, <1>5, <1>6
  DEF Next, Environment, Poller, vars, WriteStatus, UpdateAlarmSettings, UpdateXmlMapping,
      LoadMapping, ReadStatus, ReadFails, PublishOpened, PublishCleared, EvaluateReturns, PollReturns

\* While its device is shown, an alarm leaves the list only once it is both
\* acknowledged and normal.
THEOREM LeavesCorrect == Spec => LeavesWhenSettled
<1>1. IInv /\ [Next]_vars =>
        [\A k \in DOMAIN alarms \ DOMAIN alarms' :
           k[1] \in inventory' => (alarms[k].condition <=> alarms[k].acknowledged)]_vars
  BY Removals
<1>. QED BY <1>1, Invariance, PTL DEF Spec, LeavesWhenSettled

\* An acknowledged alarm that stays in the list is still acknowledged.
LEMMA AcknowledgementKept ==
  ASSUME IInv, [Next]_vars, NEW k \in DOMAIN alarms \cap DOMAIN alarms', alarms[k].acknowledged
  PROVE  alarms'[k].acknowledged
<1>1. /\ k \in Keys /\ alarms[k] \in AlarmRecords
      /\ alarms[k].condition
  BY DEF IInv, TypeOK, NoSettledAlarm
<1>2. CASE alarms' = alarms
  BY <1>2
<1>3. CASE SetDeviceInventory
  BY <1>3 DEF SetDeviceInventory
<1>4. ASSUME NEW d \in Devices, Evaluate(d) PROVE alarms'[k].acknowledged
  <2>1. k \notin Settled(d)
    BY <1>4, EvaluatedAlarms
  <2>2. k \notin Normalised(d)
    BY <2>1 DEF Settled
  <2>3. CASE k \in Current(d)
    <3>1. alarms'[k] = UpdatedAlarm(k)
      BY <1>4, <2>3, EvaluatedAlarms
    <3>2. UpdatedAlarm(k).acknowledged = (alarms[k].acknowledged /\ Active(k))
      BY <1>1 DEF UpdatedAlarm, AlarmRecords
    <3>. QED BY <1>1, <3>1, <3>2 DEF Active
  <2>4. CASE k \notin Current(d)
    BY <1>4, <2>2, <2>4, EvaluatedAlarms
  <2>. QED BY <2>3, <2>4
<1>5. ASSUME NEW j \in Keys, Acknowledge(j) PROVE alarms'[k].acknowledged
  <2>1. CASE alarms[j].condition /\ j = k
    <3>1. alarms'[k] = [alarms[k] EXCEPT !.acknowledged = TRUE]
      BY <1>5, <2>1 DEF Acknowledge
    <3>. QED BY <1>1, <3>1 DEF AlarmRecords
  <2>2. CASE ~(alarms[j].condition /\ j = k)
    BY <1>5, <2>2 DEF Acknowledge
  <2>. QED BY <2>1, <2>2
<1>6. CASE Restart
  BY <1>6 DEF Restart
<1>. QED
  BY <1>2, <1>3, <1>4, <1>5, <1>6
  DEF Next, Environment, Poller, vars, WriteStatus, UpdateAlarmSettings, UpdateXmlMapping,
      LoadMapping, ReadStatus, ReadFails, PublishOpened, PublishCleared, EvaluateReturns, PollReturns

\* However often the poller sees the same violation, the acknowledgement holds.
THEOREM AcknowledgedCorrect == Spec => AcknowledgedStays
<1>1. IInv /\ [Next]_vars =>
        [\A k \in DOMAIN alarms \cap DOMAIN alarms' :
           alarms[k].acknowledged => alarms'[k].acknowledged]_vars
  BY AcknowledgementKept
<1>. QED BY <1>1, Invariance, PTL DEF Spec, AcknowledgedStays

-----------------------------------------------------------------------------
latched == [k \in Keys |-> LatchState(k)]

\* The first state is the latch's: no alarm.
LEMMA LatchInit == Init => Latch!Init
<1>. SUFFICES ASSUME Init PROVE Latch!Init
  OBVIOUS
<1>1. \A k \in Keys : LatchState(k) = "absent"
  BY DEF Init, LatchState
<1>. QED BY <1>1 DEF Latch!Init

\* One evaluation is one observation of the latch: the keys of the device move
\* by After, all others stay.
LEMMA LatchObserve ==
  ASSUME IInv, NEW d \in Devices, Evaluate(d)
  PROVE  Latch!Observe(d, Current(d))
<1>1. d \in todo /\ readStatus[d] # Absent
  BY DEF IInv, PollerDiscipline, Evaluate
<1>2. \A k \in Current(d) : k[1] = d /\ Reading(k) \in Values \cup {None} /\ Limit(k) \in Limits
  BY <1>1, CurrentKeys DEF IInv
<1>3. \A k \in DOMAIN alarms : alarms[k] \in AlarmRecords
  BY DEF IInv, TypeOK
<1>4. ASSUME NEW k \in Keys, k \in KeysOf(d)
      PROVE  LatchState(k)' = Latch!After(LatchState(k), k \in Current(d))
  <2>1. CASE k \in Current(d) \ DOMAIN alarms
    <3>1. k \in DOMAIN alarms' /\ alarms'[k] = NewAlarm(k)
      BY <2>1, EvaluatedAlarms
    <3>2. NewAlarm(k).condition = TRUE /\ NewAlarm(k).acknowledged = FALSE
      BY <2>1, <1>2, StoredRecords
    <3>. QED BY <2>1, <3>1, <3>2 DEF LatchState, Latch!After
  <2>2. CASE k \in Current(d) \cap DOMAIN alarms
    <3>1. k \in DOMAIN alarms' /\ alarms'[k] = UpdatedAlarm(k)
      BY <2>2, EvaluatedAlarms
    <3>2. UpdatedAlarm(k).condition = TRUE
          /\ UpdatedAlarm(k).acknowledged = (alarms[k].acknowledged /\ Active(k))
      BY <2>2, <1>3 DEF UpdatedAlarm, AlarmRecords
    <3>. QED BY <2>2, <1>3, <3>1, <3>2 DEF LatchState, Latch!After, Active, AlarmRecords
  <2>3. CASE k \in Settled(d)
    <3>1. k \notin DOMAIN alarms'
      BY <2>3, EvaluatedAlarms
    <3>. QED BY <2>3, <3>1 DEF Settled, Normalised, Active, LatchState, Latch!After
  <2>4. CASE k \in Normalised(d) \ Settled(d)
    <3>1. /\ k \in DOMAIN alarms' /\ alarms'[k].condition = FALSE
          /\ k \in DOMAIN alarms /\ alarms[k].condition /\ ~alarms[k].acknowledged
          /\ k \notin Current(d)
      <4>1. Reading(k) \in Values \cup {None}
        <5>1. k[1] = d /\ k[2] \in Fields
          BY <1>4, KeyParts DEF KeysOf
        <5>2. readStatus[d] \in [Fields -> Values \cup {None}]
          BY <1>1 DEF IInv, TypeOK, Documents, Readings
        <5>. QED BY <5>1, <5>2 DEF Reading
      <4>2. /\ k \in DOMAIN alarms' /\ alarms'[k] = NormalAlarm(k)
            /\ k \in DOMAIN alarms /\ alarms[k].condition /\ k \notin Current(d)
        BY <2>4, EvaluatedAlarms DEF Normalised, Active
      <4>3. ~alarms[k].acknowledged
        BY <2>4 DEF Settled
      <4>4. NormalAlarm(k).condition = FALSE
        BY <4>1, <4>2, <1>3, StoredRecords
      <4>. QED BY <4>2, <4>3, <4>4
    <3>. QED BY <3>1 DEF LatchState, Latch!After
  <2>5. CASE k \in DOMAIN alarms \ (Current(d) \cup Normalised(d))
    <3>1. ~alarms[k].condition /\ k \notin Current(d)
      BY <2>5, <1>4 DEF Normalised, Active
    <3>. QED BY <2>5, <3>1, EvaluatedAlarms DEF LatchState, Latch!After
  <2>6. CASE k \notin DOMAIN alarms \cup Current(d)
    BY <2>6, EvaluatedAlarms DEF LatchState, Latch!After
  <2>. QED BY <2>1, <2>2, <2>3, <2>4, <2>5, <2>6
<1>5. ASSUME NEW k \in Keys, k \notin KeysOf(d) PROVE LatchState(k)' = LatchState(k)
  <2>1. k \notin Current(d) /\ k \notin Normalised(d)
    BY <1>5 DEF Current, Normalised
  <2>2. k \in DOMAIN alarms' <=> k \in DOMAIN alarms
    BY <2>1, EvaluatedAlarms DEF Settled
  <2>. QED BY <2>1, <2>2, EvaluatedAlarms DEF LatchState
<1>. QED BY <1>4, <1>5 DEF Latch!Observe

\* acknowledge is the latch's acknowledgement.
LEMMA LatchAcknowledge ==
  ASSUME IInv, NEW k \in Keys, Acknowledge(k)
  PROVE  Latch!Acknowledge(k)
<1>1. k \in DOMAIN alarms /\ \A j \in DOMAIN alarms : alarms[j] \in AlarmRecords
  BY DEF IInv, TypeOK, Acknowledge
<1>2. ASSUME NEW j \in Keys, j # k PROVE LatchState(j)' = LatchState(j)
  BY <1>2 DEF Acknowledge, LatchState
<1>3. LatchState(k) # "absent"
      /\ LatchState(k)' = IF LatchState(k) = "normal" THEN "absent" ELSE "acknowledged"
  <2>1. CASE alarms[k].condition
    <3>1. k \in DOMAIN alarms' /\ alarms'[k] = [alarms[k] EXCEPT !.acknowledged = TRUE]
      BY <1>1, <2>1 DEF Acknowledge
    <3>2. alarms'[k].condition /\ alarms'[k].acknowledged
      BY <1>1, <2>1, <3>1 DEF AlarmRecords
    <3>. QED BY <1>1, <2>1, <3>1, <3>2 DEF LatchState
  <2>2. CASE ~alarms[k].condition
    <3>1. k \notin DOMAIN alarms'
      BY <2>2 DEF Acknowledge
    <3>. QED BY <1>1, <2>2, <3>1 DEF LatchState
  <2>. QED BY <2>1, <2>2
<1>. QED BY <1>2, <1>3 DEF Latch!Acknowledge

\* Losing the device or the process is the latch's Forget.
LEMMA LatchForget ==
  ASSUME SetDeviceInventory \/ Restart
  PROVE  \E gone \in SUBSET Devices : Latch!Forget(gone)
<1>1. CASE SetDeviceInventory
  <2>1. ASSUME NEW k \in Keys
        PROVE  LatchState(k)' = IF \E d \in Devices \ Present : k \in KeysOf(d)
                                  THEN "absent" ELSE LatchState(k)
    <3>1. (\E d \in Devices \ Present : k \in KeysOf(d)) <=> k[1] \notin Present
      BY KeyParts DEF KeysOf
    <3>. QED BY <1>1, <3>1 DEF SetDeviceInventory, Kept, LatchState
  <2>2. Latch!Forget(Devices \ Present)
    BY <2>1 DEF Latch!Forget
  <2>. QED BY <2>2
<1>2. CASE Restart
  <2>1. ASSUME NEW k \in Keys
        PROVE  LatchState(k)' = "absent" /\ \E d \in Devices : k \in KeysOf(d)
    BY <1>2, KeyParts DEF Restart, LatchState
  <2>2. Latch!Forget(Devices)
    BY <2>1 DEF Latch!Forget
  <2>. QED BY <2>2
<1>. QED BY <1>1, <1>2

\* Every step of the poller is a step of the latch or leaves it alone.
LEMMA LatchStep == IInv /\ [Next]_vars => [Latch!Next]_latched
<1>. SUFFICES ASSUME IInv, [Next]_vars PROVE [Latch!Next]_latched
  OBVIOUS
<1>1. CASE alarms' = alarms
  BY <1>1 DEF latched, LatchState
<1>2. ASSUME NEW d \in Devices, Evaluate(d) PROVE Latch!Next
  <2>1. Current(d) \in SUBSET KeysOf(d)
    BY DEF Current
  <2>. QED BY <1>2, <2>1, LatchObserve DEF Latch!Next
<1>3. ASSUME NEW k \in Keys, Acknowledge(k) PROVE Latch!Next
  BY <1>3, LatchAcknowledge DEF Latch!Next
<1>4. CASE SetDeviceInventory \/ Restart
  BY <1>4, LatchForget DEF Latch!Next
<1>. QED
  BY <1>1, <1>2, <1>3, <1>4
  DEF Next, Environment, Poller, vars, WriteStatus, UpdateAlarmSettings, UpdateXmlMapping,
      LoadMapping, ReadStatus, ReadFails, PublishOpened, PublishCleared, EvaluateReturns, PollReturns

\* The panel, with its polls, inventories, API calls and restarts in any order,
\* implements the four-state latch of every alarm.
THEOREM LatchImplemented == Spec => ImplementsLatch
<1>1. Init => Latch!Init
  BY LatchInit
<1>2. IInv /\ [Next]_vars => [Latch!Next]_([k \in Keys |-> LatchState(k)])
  BY LatchStep DEF latched
<1>. QED BY <1>1, <1>2, Invariance, PTL DEF Spec, ImplementsLatch, Latch!Spec
=============================================================================
