---------------------------- MODULE ControlProofs ----------------------------
(***************************************************************************)
(* Proofs for ControlExchange: type correctness, the honesty of the        *)
(* request history, its agreement with the audit trail, its order and its  *)
(* limit, for any number of requests, devices, API threads, failures and   *)
(* crashes.                                                                *)
(***************************************************************************)
EXTENDS ControlExchange, FiniteSetTheorems, WellFoundedInduction, TLAPS

\* A request a handler is still working on has no row, nobody else handles it,
\* and when it is about to be recorded it was audited.
HandlersFresh ==
  /\ \A t \in Threads : handler[t] # Idle =>
       /\ handler[t].id \notin DOMAIN rows
       /\ pc = "audit" => verdict.id # handler[t].id
       /\ handler[t].step = "record" => audited[handler[t].id] = "awaiting"
  /\ \A t, u \in Threads :
       t # u /\ handler[t] # Idle /\ handler[u] # Idle => handler[t].id # handler[u].id

\* What the poller is about to store, or has stored and is about to audit.
VerdictHonest ==
  /\ pc \in {"update", "audit"} =>
       /\ verdict.state \in Outcomes => [id |-> verdict.id, outcome |-> verdict.state] \in acked
       /\ verdict.state = "timeout" => now - issued[verdict.id].created > Timeout
  /\ pc = "audit" /\ verdict.id \in DOMAIN rows => rows[verdict.id].state = verdict.state

IInv == TypeOK /\ HandlersFresh /\ VerdictHonest /\ HistoryHonest /\ AuditedOnce

-----------------------------------------------------------------------------
\* Recording a request adds its row and keeps or deletes every other one.
LEMMA Recorded ==
  ASSUME NEW t \in Threads, TypeOK, RecordControlRequest(t)
  PROVE  /\ handler[t].id \in DOMAIN issued /\ handler[t].step = "record"
         /\ DOMAIN rows' \subseteq DOMAIN rows \cup {handler[t].id}
         /\ \A j \in DOMAIN rows' : j # handler[t].id => j \in DOMAIN rows /\ rows'[j] = rows[j]
         /\ handler[t].id \in DOMAIN rows' =>
              /\ rows'[handler[t].id] \in Rows
              /\ rows'[handler[t].id].state = "awaiting"
<1>. DEFINE i == handler[t].id
            d == issued[i].device
<1>1. handler[t].step = "record" /\ i \in DOMAIN issued /\ d \in Devices
  BY DEF TypeOK, RecordControlRequest, Idle
<1>2. PICK c \in Candidates(d) :
        rows' = Pruned(WithRow(i, [device |-> d, created |-> c, state |-> "awaiting"]))
  BY DEF RecordControlRequest
<1>3. c \in Nat
  BY <1>2 DEF Candidates, RowsOf, TypeOK, Rows
<1>. DEFINE row == [device |-> d, created |-> c, state |-> "awaiting"]
            table == WithRow(i, row)
<1>4. row \in Rows /\ row.state = "awaiting"
  BY <1>1, <1>3 DEF Rows, States
<1>5. /\ DOMAIN table = DOMAIN rows \cup {i} /\ table[i] = row
      /\ \A j \in DOMAIN rows : j # i => table[j] = rows[j]
  BY DEF WithRow
<1>6. /\ DOMAIN rows' \subseteq DOMAIN table
      /\ \A j \in DOMAIN rows' : rows'[j] = table[j]
  BY <1>2 DEF Pruned
<1>. HIDE DEF row, table
<1>. QED BY <1>1, <1>4, <1>5, <1>6

\* Without requests the invariant holds.
LEMMA InitIInv == Init => IInv
<1>. SUFFICES ASSUME Init PROVE IInv
  OBVIOUS
<1>1. TypeOK
  BY ControlAssumption DEF Init, TypeOK, Idle, States
<1>. QED BY <1>1 DEF Init, IInv, HandlersFresh, VerdictHonest, HistoryHonest, AuditedOnce, Idle

\* Every step keeps the types.
LEMMA TypeStep == TypeOK /\ [Next]_vars => TypeOK'
<1>. SUFFICES ASSUME TypeOK, [Next]_vars PROVE TypeOK'
  OBVIOUS
<1>. USE DEF deviceVars, pollVars, boundVars
<1>1. CASE UNCHANGED vars
  BY <1>1 DEF vars, TypeOK
<1>2. CASE Tick
  BY <1>2 DEF Tick, TypeOK
<1>3. ASSUME NEW t \in Threads, NEW i \in Ids, NEW d \in Devices, BuildControl(t, i, d)
      PROVE  TypeOK'
  <2>1. /\ DOMAIN issued' = DOMAIN issued \cup {i}
        /\ issued'[i] = [device |-> d, created |-> now]
        /\ \A j \in DOMAIN issued : issued'[j] = issued[j]
    BY <1>3 DEF BuildControl
  <2>2. \A j \in DOMAIN issued' : issued'[j] \in [device : Devices, created : Nat]
    BY <2>1 DEF TypeOK
  <2>3. \A u \in Threads :
          handler'[u] = Idle \/ handler'[u] \in [step : {"write", "audit", "record"},
                                                 id : DOMAIN issued']
    BY <1>3, <2>1 DEF BuildControl, TypeOK
  <2>4. handler' = [u \in Threads |-> handler'[u]]
    BY <1>3 DEF BuildControl, TypeOK
  <2>5. verdict' = verdict /\ pc' = pc /\ rows' = rows
    BY <1>3 DEF BuildControl
  <2>6. pc \in {"update", "audit"} => verdict \in [id : DOMAIN issued', state : States]
    BY <2>1 DEF TypeOK
  <2>. QED BY <1>3, <2>1, <2>2, <2>3, <2>4, <2>5, <2>6 DEF BuildControl, TypeOK
<1>4. ASSUME NEW t \in Threads, WriteControl(t) \/ WriteFails(t) \/ RecordFails(t) PROVE TypeOK'
  <2>1. handler[t] \in [step : {"write", "audit", "record"}, id : DOMAIN issued]
    BY <1>4 DEF TypeOK, Idle, WriteControl, WriteFails, RecordFails
  <2>2. handler[t].id \in DOMAIN issued
    BY <2>1
  <2>3. \A u \in Threads :
          handler'[u] = Idle \/ handler'[u] \in [step : {"write", "audit", "record"},
                                                 id : DOMAIN issued]
    BY <1>4, <2>1 DEF TypeOK, WriteControl, WriteFails, RecordFails
  <2>4. handler' = [u \in Threads |-> handler'[u]]
    BY <1>4 DEF TypeOK, WriteControl, WriteFails, RecordFails
  <2>5. failures' \in 0..MaxFailures
    BY <1>4, ControlAssumption DEF TypeOK, WriteControl, WriteFails, RecordFails
  <2>6. control' \in DOMAIN issued \cup {None}
    BY <1>4, <2>2 DEF TypeOK, WriteControl, WriteFails, RecordFails
  <2>. QED BY <1>4, <2>3, <2>4, <2>5, <2>6 DEF TypeOK, WriteControl, WriteFails, RecordFails
<1>5. ASSUME NEW t \in Threads, AuditRequest(t) PROVE TypeOK'
  <2>1. handler[t] \in [step : {"write", "audit", "record"}, id : DOMAIN issued]
    BY <1>5 DEF TypeOK, Idle, AuditRequest
  <2>2. \A u \in Threads :
          handler'[u] = Idle \/ handler'[u] \in [step : {"write", "audit", "record"},
                                                 id : DOMAIN issued]
    BY <1>5, <2>1 DEF TypeOK, AuditRequest
  <2>3. handler' = [u \in Threads |-> handler'[u]]
    BY <1>5 DEF TypeOK, AuditRequest
  <2>4. audited' \in [Ids -> States \cup {"none"}]
    BY <1>5 DEF TypeOK, AuditRequest, States
  <2>. QED BY <1>5, <2>2, <2>3, <2>4 DEF TypeOK, AuditRequest
<1>6. ASSUME NEW t \in Threads, RecordControlRequest(t) PROVE TypeOK'
  <2>1. DOMAIN rows' \subseteq DOMAIN issued /\ \A i \in DOMAIN rows' : rows'[i] \in Rows
    BY <1>6, Recorded DEF TypeOK
  <2>2. /\ \A u \in Threads : handler'[u] = Idle \/ handler'[u] = handler[u]
        /\ handler' = [u \in Threads |-> handler'[u]]
    BY <1>6 DEF TypeOK, RecordControlRequest
  <2>. QED BY <1>6, <2>1, <2>2 DEF RecordControlRequest, TypeOK
<1>7. ASSUME DeviceReads \/ AckVanishes \/ StatusChanges \/ \E o \in Outcomes : DeviceAnswers(o) PROVE TypeOK'
  <2>1. CASE DeviceReads \/ AckVanishes \/ StatusChanges
    BY <2>1 DEF DeviceReads, AckVanishes, StatusChanges, TypeOK
  <2>2. ASSUME NEW o \in Outcomes, DeviceAnswers(o) PROVE TypeOK'
    <3>1. ack' \in Answers
      BY <2>2 DEF DeviceAnswers, TypeOK, Answers
    <3>. QED BY <2>2, <3>1 DEF DeviceAnswers, TypeOK
  <2>. QED BY <1>7, <2>1, <2>2
<1>8. CASE ReadAcknowledgement
  BY <1>8 DEF ReadAcknowledgement, TypeOK
<1>9. CASE GetControlStatus
  <2>1. ControlState(control) \in States
    BY DEF ControlState, Matches, States, TypeOK, Answers
  <2>. QED BY <1>9, <2>1 DEF GetControlStatus, TypeOK
<1>10. CASE UpdateRow
  <2>1. verdict \in [id : DOMAIN issued, state : States]
    BY <1>10 DEF UpdateRow, TypeOK
  <2>2. DOMAIN rows' = DOMAIN rows /\ \A i \in DOMAIN rows : rows'[i] \in Rows
    BY <1>10, <2>1 DEF UpdateRow, TypeOK, Rows
  <2>. QED BY <1>10, <2>1, <2>2 DEF UpdateRow, TypeOK
<1>11. CASE UpdateFails
  BY <1>11, ControlAssumption DEF UpdateFails, TypeOK
<1>12. CASE AuditTransition
  <2>1. verdict \in [id : DOMAIN issued, state : States]
    BY <1>12 DEF AuditTransition, TypeOK
  <2>. QED BY <1>12, <2>1 DEF AuditTransition, TypeOK
<1>13. CASE Crash
  BY <1>13, ControlAssumption DEF Crash, TypeOK
<1>. QED
  BY <1>1, <1>2, <1>3, <1>4, <1>5, <1>6, <1>7, <1>8, <1>9, <1>10, <1>11, <1>12, <1>13
  DEF Next, Request, Reconcile

\* Every variable keeps its type; handlers, rows and control.xml refer to
\* documents that were really built.
THEOREM TypeCorrect == Spec => []TypeOK
<1>1. Init => TypeOK
  BY InitIInv DEF IInv
<1>. QED BY <1>1, TypeStep, PTL DEF Spec

-----------------------------------------------------------------------------
\* Steps after which rows, audit trail and poller are as before.
LEMMA OutsideSteps ==
  ASSUME IInv, TypeOK',
         \/ Tick \/ DeviceReads \/ AckVanishes \/ StatusChanges
         \/ \E o \in Outcomes : DeviceAnswers(o)
         \/ ReadAcknowledgement
  PROVE  IInv'
<1>1. /\ UNCHANGED <<issued, handler, rows, audited, verdict, lost>>
      /\ acked \subseteq acked'
      /\ now \in Nat /\ now' \in Nat /\ now <= now'
      /\ pc' \in {"update", "audit"} => pc' = pc
      /\ pc \in {"update", "audit"} => pc' = pc
  <2>. USE DEF IInv, TypeOK, deviceVars, pollVars, boundVars
  <2>1. CASE Tick
    BY <2>1 DEF Tick
  <2>2. CASE DeviceReads \/ AckVanishes \/ StatusChanges
    BY <2>2 DEF DeviceReads, AckVanishes, StatusChanges
  <2>3. ASSUME NEW o \in Outcomes, DeviceAnswers(o)
        PROVE  UNCHANGED <<issued, handler, rows, audited, verdict, lost, now, pc>>
               /\ acked \subseteq acked'
    BY <2>3 DEF DeviceAnswers
  <2>4. CASE ReadAcknowledgement
    BY <2>4 DEF ReadAcknowledgement
  <2>. QED BY <2>1, <2>2, <2>3, <2>4
<1>2. \A i \in DOMAIN issued : issued[i].created \in Nat
  BY DEF IInv, TypeOK
<1>3. pc \in {"update", "audit"} => verdict.id \in DOMAIN issued
  BY DEF IInv, TypeOK
<1>4. HandlersFresh'
  BY <1>1 DEF IInv, HandlersFresh
<1>5. VerdictHonest'
  BY <1>1, <1>2, <1>3, ControlAssumption DEF IInv, VerdictHonest
<1>6. HistoryHonest'
  <2>1. \A i \in DOMAIN rows : i \in DOMAIN issued
    BY DEF IInv, TypeOK
  <2>2. ASSUME NEW i \in DOMAIN rows, rows[i].state = "timeout"
        PROVE  now' - issued[i].created > Timeout
    <3>1. now - issued[i].created > Timeout /\ issued[i].created \in Nat
      BY <1>2, <2>1, <2>2 DEF IInv, HistoryHonest
    <3>. QED BY <3>1, <1>1, ControlAssumption
  <2>. QED BY <1>1, <2>2 DEF IInv, HistoryHonest
<1>7. AuditedOnce'
  BY <1>1 DEF IInv, AuditedOnce
<1>. QED BY <1>4, <1>5, <1>6, <1>7 DEF IInv

\* The handler's steps before it records the request.
LEMMA HandlerSteps ==
  ASSUME IInv, TypeOK', NEW t \in Threads,
         \/ \E i \in Ids, d \in Devices : BuildControl(t, i, d)
         \/ WriteControl(t) \/ WriteFails(t) \/ AuditRequest(t) \/ RecordFails(t)
  PROVE  IInv'
<1>1. UNCHANGED <<now, acked, rows, pc, verdict, lost>>
  BY DEF BuildControl, WriteControl, WriteFails, AuditRequest, RecordFails, deviceVars, pollVars
<1>2. \A i \in DOMAIN issued : i \in DOMAIN issued' /\ issued'[i] = issued[i]
  BY DEF BuildControl, WriteControl, WriteFails, AuditRequest, RecordFails
<1>3. \A u \in Threads : u # t => handler'[u] = handler[u]
  BY DEF IInv, TypeOK, BuildControl, WriteControl, WriteFails, AuditRequest, RecordFails
<1>4. \A u \in Threads : handler[u] # Idle => handler[u].id \in DOMAIN issued
  BY DEF IInv, TypeOK
<1>5. pc \in {"update", "audit"} => verdict.id \in DOMAIN issued
  BY DEF IInv, TypeOK
<1>6. \A i \in DOMAIN rows : i \in DOMAIN issued
  BY DEF IInv, TypeOK
<1>7. HandlersFresh' /\ AuditedOnce'
  <2>1. ASSUME NEW i \in Ids, NEW d \in Devices, BuildControl(t, i, d)
        PROVE  HandlersFresh' /\ AuditedOnce'
    <3>1. i \notin DOMAIN issued /\ audited' = audited /\ handler'[t] = [step |-> "write", id |-> i]
      BY <2>1 DEF BuildControl, IInv, TypeOK
    <3>2. HandlersFresh'
      BY <3>1, <1>1, <1>3, <1>4, <1>5, <1>6 DEF IInv, HandlersFresh
    <3>3. AuditedOnce'
      BY <3>1, <1>1 DEF IInv, AuditedOnce
    <3>. QED BY <3>2, <3>3
  <2>2. CASE WriteControl(t)
    <3>1. /\ handler[t] # Idle /\ handler'[t].id = handler[t].id /\ audited' = audited
          /\ handler'[t].step = "audit"
      BY <2>2 DEF WriteControl, Idle, IInv, TypeOK
    <3>2. HandlersFresh'
      BY <3>1, <1>1, <1>3 DEF IInv, HandlersFresh
    <3>3. AuditedOnce'
      BY <3>1, <1>1 DEF IInv, AuditedOnce
    <3>. QED BY <3>2, <3>3
  <2>3. CASE WriteFails(t) \/ RecordFails(t)
    <3>1. handler'[t] = Idle /\ audited' = audited
      BY <2>3 DEF WriteFails, RecordFails, IInv, TypeOK
    <3>2. HandlersFresh'
      BY <3>1, <1>1, <1>3 DEF IInv, HandlersFresh
    <3>3. AuditedOnce'
      BY <3>1, <1>1 DEF IInv, AuditedOnce
    <3>. QED BY <3>2, <3>3
  <2>4. CASE AuditRequest(t)
    <3>1. /\ handler[t] # Idle /\ handler'[t].id = handler[t].id
          /\ audited' = [audited EXCEPT ![handler[t].id] = "awaiting"]
      BY <2>4 DEF AuditRequest, Idle, IInv, TypeOK
    <3>2. handler[t].id \in Ids
      BY <3>1, <1>4 DEF IInv, TypeOK
    <3>3. audited'[handler[t].id] = "awaiting"
          /\ \A i \in Ids : i # handler[t].id => audited'[i] = audited[i]
      BY <3>1, <3>2 DEF IInv, TypeOK
    <3>4. \A i \in DOMAIN rows : i \in Ids /\ i # handler[t].id
      BY <3>1 DEF IInv, HandlersFresh, TypeOK
    <3>5. pc = "audit" => verdict.id \in Ids /\ verdict.id # handler[t].id
      BY <3>1, <1>5 DEF IInv, HandlersFresh, TypeOK
    <3>6. \A u \in Threads : handler[u] # Idle => handler[u].id \in Ids
      BY <1>4 DEF IInv, TypeOK
    <3>7. HandlersFresh'
      BY <3>1, <3>3, <3>6, <1>1, <1>3 DEF IInv, HandlersFresh
    <3>8. AuditedOnce'
      BY <3>3, <3>4, <3>5, <1>1 DEF IInv, AuditedOnce
    <3>. QED BY <3>7, <3>8
  <2>. QED BY <2>1, <2>2, <2>3, <2>4
<1>8. VerdictHonest' /\ HistoryHonest'
  BY <1>1, <1>2, <1>5, <1>6 DEF IInv, VerdictHonest, HistoryHonest
<1>. QED BY <1>7, <1>8 DEF IInv

\* record_control_request: the new row is awaiting and was audited so.
LEMMA RecordStep ==
  ASSUME IInv, TypeOK', NEW t \in Threads, RecordControlRequest(t)
  PROVE  IInv'
<1>1. /\ UNCHANGED <<now, issued, acked, audited, pc, verdict, lost>>
      /\ handler'[t] = Idle /\ \A u \in Threads : u # t => handler'[u] = handler[u]
  BY DEF RecordControlRequest, deviceVars, pollVars, IInv, TypeOK
<1>2. /\ handler[t] # Idle /\ handler[t].step = "record"
      /\ DOMAIN rows' \subseteq DOMAIN rows \cup {handler[t].id}
      /\ \A j \in DOMAIN rows' : j # handler[t].id => j \in DOMAIN rows /\ rows'[j] = rows[j]
      /\ handler[t].id \in DOMAIN rows' => rows'[handler[t].id].state = "awaiting"
  BY Recorded DEF IInv, Idle
<1>3. HandlersFresh'
  BY <1>1, <1>2 DEF IInv, HandlersFresh
<1>4. VerdictHonest'
  BY <1>1, <1>2 DEF IInv, VerdictHonest, HandlersFresh
<1>5. HistoryHonest'
  <2>1. "awaiting" \notin Outcomes
    BY ControlAssumption DEF Outcomes
  <2>. QED BY <2>1, <1>1, <1>2 DEF IInv, HistoryHonest
<1>6. AuditedOnce'
  BY <1>1, <1>2 DEF IInv, AuditedOnce, HandlersFresh
<1>. QED BY <1>3, <1>4, <1>5, <1>6 DEF IInv

\* The verdict of a reconcile is honest when it is formed: the answer was read
\* from the device, and the age is taken from the document itself.
LEMMA VerdictStep ==
  ASSUME IInv, TypeOK', GetControlStatus
  PROVE  IInv'
<1>1. UNCHANGED <<now, issued, acked, handler, rows, audited, lost>> /\ pc = "control"
  BY DEF GetControlStatus, deviceVars
<1>2. pc' # "audit"
  BY DEF GetControlStatus
<1>3. VerdictHonest'
  <2>1. CASE control = None
    BY <2>1 DEF GetControlStatus, VerdictHonest
  <2>2. CASE control # None
    <3>1. verdict'.id = control /\ verdict'.state = ControlState(control)
      BY <2>2 DEF GetControlStatus
    <3>2. "awaiting" \notin Outcomes /\ "timeout" \notin Outcomes
      BY ControlAssumption DEF Outcomes
    <3>3. readAck # None => readAck \in acked /\ readAck \in Answers
      BY DEF IInv, TypeOK
    <3>4. CASE Matches(control)
      <4>1. readAck = [id |-> control, outcome |-> readAck.outcome] /\ readAck.outcome \in Outcomes
        BY <3>3, <3>4 DEF Matches, Answers
      <4>. QED BY <4>1, <3>1, <3>2, <3>3, <3>4, <1>1, <1>2 DEF ControlState, VerdictHonest, Matches
    <3>5. CASE ~Matches(control)
      BY <3>1, <3>2, <3>5, <1>1, <1>2 DEF ControlState, TimedOut, VerdictHonest
    <3>. QED BY <3>4, <3>5
  <2>. QED BY <2>1, <2>2
<1>4. HandlersFresh' /\ HistoryHonest' /\ AuditedOnce'
  BY <1>1, <1>2 DEF IInv, HandlersFresh, HistoryHonest, AuditedOnce
<1>. QED BY <1>3, <1>4 DEF IInv

\* update_control_request_status: the row says what the verdict says.
LEMMA UpdateStep ==
  ASSUME IInv, TypeOK', UpdateRow
  PROVE  IInv'
<1>1. UNCHANGED <<now, issued, acked, handler, audited, lost>> /\ pc = "update"
  BY DEF UpdateRow, deviceVars
<1>2. CASE ~Changed
  <2>1. pc' = "idle" /\ rows' = rows
    BY <1>2 DEF UpdateRow
  <2>. QED BY <2>1, <1>1
    DEF IInv, HandlersFresh, VerdictHonest, HistoryHonest, AuditedOnce
<1>3. CASE Changed
  <2>1. pc' = "audit" /\ verdict' = verdict
    BY <1>3 DEF UpdateRow
  <2>2. /\ DOMAIN rows' = DOMAIN rows
        /\ rows'[verdict.id].state = verdict.state
        /\ \A i \in DOMAIN rows : i # verdict.id => rows'[i] = rows[i]
    BY <1>3 DEF UpdateRow, Changed, IInv, TypeOK, Rows
  <2>3. verdict = [id |-> verdict.id, state |-> verdict.state]
    BY <1>1 DEF IInv, TypeOK
  <2>4. HandlersFresh'
    BY <1>1, <1>3, <2>1, <2>2 DEF Changed, IInv, HandlersFresh
  <2>5. VerdictHonest'
    BY <1>1, <2>1, <2>2 DEF IInv, VerdictHonest
  <2>6. HistoryHonest'
    BY <1>1, <2>1, <2>2 DEF IInv, HistoryHonest, VerdictHonest
  <2>7. AuditedOnce'
    BY <1>1, <1>3, <2>1, <2>2, <2>3 DEF Changed, IInv, AuditedOnce
  <2>. QED BY <2>4, <2>5, <2>6, <2>7 DEF IInv
<1>. QED BY <1>2, <1>3

\* The audit of a transition reports the row that was committed.
LEMMA AuditStep ==
  ASSUME IInv, TypeOK', AuditTransition
  PROVE  IInv'
<1>1. UNCHANGED <<now, issued, acked, handler, rows>> /\ pc = "audit" /\ pc' = "idle"
  BY DEF AuditTransition, deviceVars
<1>2. verdict.id \in Ids /\ \A i \in DOMAIN rows : i \in Ids
  BY <1>1 DEF IInv, TypeOK
<1>3. audited'[verdict.id] = verdict.state /\ \A i \in Ids : i # verdict.id => audited'[i] = audited[i]
  BY <1>2 DEF AuditTransition, IInv, TypeOK
<1>4. \A i : i # verdict.id => (i \in lost <=> i \in lost')
  BY DEF AuditTransition
<1>5. \A t \in Threads : handler[t] # Idle => handler[t].id \in Ids
  BY DEF IInv, TypeOK
<1>6. HandlersFresh'
  BY <1>1, <1>3, <1>5 DEF IInv, HandlersFresh
<1>7. VerdictHonest' /\ HistoryHonest'
  BY <1>1 DEF IInv, VerdictHonest, HistoryHonest
<1>8. AuditedOnce'
  BY <1>1, <1>2, <1>3, <1>4 DEF IInv, AuditedOnce, VerdictHonest
<1>. QED BY <1>6, <1>7, <1>8 DEF IInv

\* A failed update or a crash: the audit trail misses at most what was about to
\* be audited.
LEMMA FailureSteps ==
  ASSUME IInv, TypeOK', UpdateFails \/ Crash
  PROVE  IInv'
<1>1. UNCHANGED <<now, issued, acked, rows, audited>> /\ pc' = "idle"
  BY DEF UpdateFails, Crash, deviceVars
<1>2. \A t \in Threads : handler'[t] = Idle \/ handler'[t] = handler[t]
  BY DEF UpdateFails, Crash
<1>3. lost \subseteq lost' /\ (pc = "audit" => verdict.id \in lost')
  BY DEF UpdateFails, Crash
<1>4. HandlersFresh'
  BY <1>1, <1>2 DEF IInv, HandlersFresh
<1>5. VerdictHonest' /\ HistoryHonest'
  BY <1>1 DEF IInv, VerdictHonest, HistoryHonest
<1>6. AuditedOnce'
  BY <1>1, <1>3 DEF IInv, AuditedOnce
<1>. QED BY <1>4, <1>5, <1>6 DEF IInv

\* Every step keeps the invariant.
LEMMA NextIInv == IInv /\ [Next]_vars => IInv'
<1>. SUFFICES ASSUME IInv, [Next]_vars PROVE IInv'
  OBVIOUS
<1>1. TypeOK'
  BY TypeStep DEF IInv
<1>2. CASE UNCHANGED vars
  BY <1>2, <1>1 DEF vars, deviceVars, pollVars, boundVars, IInv, HandlersFresh, VerdictHonest,
                    HistoryHonest, AuditedOnce
<1>3. CASE Next
  BY <1>3, <1>1, OutsideSteps, HandlerSteps, RecordStep, VerdictStep, UpdateStep, AuditStep,
     FailureSteps DEF Next, Request, Reconcile
<1>. QED BY <1>2, <1>3

\* The inductive invariant behind the two results below.
THEOREM Invariance == Spec => []IInv
  BY InitIInv, NextIInv, PTL DEF Spec

\* The history never claims an answer the device did not give to that request,
\* nor a timeout before the deadline.
THEOREM HistoryIsHonest == Spec => []HistoryHonest
<1>1. IInv => HistoryHonest
  BY DEF IInv
<1>. QED BY <1>1, Invariance, PTL

\* Every transition of the history is audited once, up to a crash between the
\* commit and the audit.
THEOREM AuditIsComplete == Spec => []AuditedOnce
<1>1. IInv => AuditedOnce
  BY DEF IInv
<1>. QED BY <1>1, Invariance, PTL

-----------------------------------------------------------------------------
\* The order of the history.  A table with finitely many rows whose times differ
\* has no more rows of a device left than the limit once it is pruned.
TimesDiffer(table) ==
  \A i, j \in DOMAIN table :
    i # j /\ table[i].device = table[j].device => table[i].created # table[j].created

\* A set of rows has an oldest one.
LEMMA Oldest ==
  ASSUME NEW table, NEW S, S # {}, \A i \in S : table[i].created \in Nat
  PROVE  \E k \in S : \A i \in S : ~(table[i].created < table[k].created)
<1>. DEFINE T == {n \in Nat : \E i \in S : table[i].created = n}
<1>1. T \subseteq Nat /\ T # {}
  OBVIOUS
<1>2. \E x \in T : \A y \in T : ~(<<y, x>> \in OpToRel(<, Nat))
  <2>. HIDE DEF T
  <2>. QED BY <1>1, NatLessThanWellFounded, WFMin
<1>3. PICK x \in T : \A y \in T : ~(y < x)
  BY <1>2 DEF OpToRel
<1>4. PICK k \in S : table[k].created = x
  BY <1>3
<1>. QED BY <1>3, <1>4

LEMMA PrunedToLimit ==
  ASSUME NEW table, IsFiniteSet(DOMAIN table), TimesDiffer(table),
         \A i \in DOMAIN table : table[i].created \in Nat, NEW d
  PROVE  IsFiniteSet(RowsOf(Pruned(table), d)) /\ Cardinality(RowsOf(Pruned(table), d)) <= HistoryLimit
<1>. DEFINE K == RowsOf(Pruned(table), d)
<1>1. K \subseteq {i \in DOMAIN table : table[i].device = d /\ Cardinality(Newer(table, i)) < HistoryLimit}
  BY DEF RowsOf, Pruned
<1>2. IsFiniteSet(K)
  BY <1>1, FS_Subset
<1>3. CASE K = {}
  BY <1>3, FS_EmptySet, ControlAssumption
<1>4. CASE K # {}
  <2>1. PICK k \in K : \A i \in K : ~(table[i].created < table[k].created)
    BY <1>1, <1>4, Oldest
  <2>2. K \ {k} \subseteq Newer(table, k)
    <3>. SUFFICES ASSUME NEW j \in K, j # k PROVE j \in Newer(table, k)
      OBVIOUS
    <3>1. /\ j \in DOMAIN table /\ k \in DOMAIN table
          /\ table[j].device = d /\ table[k].device = d
      BY <1>1
    <3>2. table[j].created > table[k].created
      <4>1. table[j].created # table[k].created
        BY <3>1 DEF TimesDiffer
      <4>2. ~(table[j].created < table[k].created)
        BY <2>1
      <4>3. table[j].created \in Nat /\ table[k].created \in Nat
        BY <3>1
      <4>. QED BY <4>1, <4>2, <4>3
    <3>. QED BY <3>1, <3>2 DEF Newer, RowsOf
  <2>3. IsFiniteSet(Newer(table, k)) /\ Cardinality(Newer(table, k)) \in Nat
    <3>1. Newer(table, k) \subseteq DOMAIN table
      BY DEF Newer, RowsOf
    <3>. QED BY <3>1, FS_Subset, FS_CardinalityType
  <2>4. Cardinality(K \ {k}) <= Cardinality(Newer(table, k))
    BY <2>2, <2>3, FS_Subset
  <2>5. Cardinality(K \ {k}) = Cardinality(K) - 1 /\ Cardinality(K) \in Nat
    BY <1>2, <2>1, FS_RemoveElement, FS_CardinalityType
  <2>6. Cardinality(Newer(table, k)) < HistoryLimit
    BY <1>1, <2>1
  <2>. QED BY <1>2, <2>3, <2>4, <2>5, <2>6, ControlAssumption
<1>. QED BY <1>3, <1>4

Ordered == IsFiniteSet(DOMAIN rows) /\ TimesDiffer(rows) /\ HistoryOrdered

LEMMA OrderedInit == Init => Ordered
<1>. SUFFICES ASSUME Init PROVE Ordered
  OBVIOUS
<1>1. DOMAIN rows = {}
  BY DEF Init
<1>2. \A d : RowsOf(rows, d) = {}
  BY <1>1 DEF RowsOf
<1>3. IsFiniteSet({}) /\ Cardinality({}) = 0
  BY FS_EmptySet
<1>4. IsFiniteSet(DOMAIN rows) /\ TimesDiffer(rows)
  BY <1>1, <1>3 DEF TimesDiffer
<1>5. \A d : Cardinality(RowsOf(rows, d)) = 0 /\ 0 <= HistoryLimit
  BY <1>2, <1>3, ControlAssumption
<1>6. HistoryOrdered
  BY <1>2, <1>5 DEF HistoryOrdered
<1>. QED BY <1>4, <1>6 DEF Ordered

\* A recorded request is later than every row of its device.
LEMMA OrderedRecord ==
  ASSUME IInv, Ordered, NEW t \in Threads, RecordControlRequest(t)
  PROVE  Ordered'
<1>. DEFINE i == handler[t].id
            d == issued[i].device
<1>1. TypeOK /\ i \notin DOMAIN rows
  BY DEF IInv, HandlersFresh, RecordControlRequest, Idle
<1>2. PICK c \in Candidates(d) :
        /\ NextCreated(c, d)
        /\ rows' = Pruned(WithRow(i, [device |-> d, created |-> c, state |-> "awaiting"]))
  BY DEF RecordControlRequest
<1>3. c \in Nat
  BY <1>1, <1>2 DEF Candidates, RowsOf, TypeOK, Rows
<1>. PICK table : table = WithRow(i, [device |-> d, created |-> c, state |-> "awaiting"])
  OBVIOUS
<1>4. /\ DOMAIN table = DOMAIN rows \cup {i}
      /\ table[i].device = d /\ table[i].created = c
      /\ \A j \in DOMAIN rows : table[j] = rows[j]
  BY <1>1 DEF WithRow
<1>5. IsFiniteSet(DOMAIN table)
  BY <1>4, FS_AddElement DEF Ordered
<1>6. \A j \in DOMAIN table : table[j].created \in Nat
  BY <1>1, <1>3, <1>4 DEF TypeOK, Rows
<1>7. TimesDiffer(table)
  <2>1. \A j \in DOMAIN rows : rows[j].device = d => c > rows[j].created
    BY <1>2 DEF NextCreated, RowsOf
  <2>2. \A j \in DOMAIN table : j # i =>
          j \in DOMAIN rows /\ (table[j].device = d => c > table[j].created)
    BY <1>4, <2>1
  <2>3. \A j, k \in DOMAIN rows :
          j # k /\ table[j].device = table[k].device => table[j].created # table[k].created
    BY <1>4 DEF Ordered, TimesDiffer
  <2>. HIDE DEF i, d
  <2>4. \A j \in DOMAIN table :
          j # i /\ table[j].device = table[i].device => table[j].created # table[i].created
    BY <1>3, <1>4, <1>6, <2>2
  <2>. QED BY <2>2, <2>3, <2>4 DEF TimesDiffer
<1>8. rows' = Pruned(table) /\ DOMAIN rows' \subseteq DOMAIN table
      /\ \A j \in DOMAIN rows' : rows'[j] = table[j]
  BY <1>2 DEF Pruned
<1>9. IsFiniteSet(DOMAIN rows')
  BY <1>5, <1>8, FS_Subset
<1>10. TimesDiffer(rows')
  <2>. DEFINE later == rows'
  <2>1. DOMAIN later \subseteq DOMAIN table /\ \A j \in DOMAIN later : later[j] = table[j]
    BY <1>8
  <2>. HIDE DEF later
  <2>2. TimesDiffer(later)
    BY <1>7, <2>1 DEF TimesDiffer
  <2>. QED BY <2>2 DEF later
<1>11. \A e \in Devices : Cardinality(RowsOf(rows', e)) <= HistoryLimit
  BY <1>5, <1>6, <1>7, <1>8, PrunedToLimit
<1>12. HistoryOrdered'
  BY <1>10, <1>11 DEF HistoryOrdered, TimesDiffer, RowsOf
<1>. QED BY <1>9, <1>10, <1>12 DEF Ordered, TimesDiffer

LEMMA OrderedStep == IInv /\ Ordered /\ [Next]_vars => Ordered'
<1>. SUFFICES ASSUME IInv, Ordered, [Next]_vars PROVE Ordered'
  OBVIOUS
<1>1. ASSUME NEW t \in Threads, RecordControlRequest(t) PROVE Ordered'
  BY <1>1, OrderedRecord
<1>2. CASE /\ DOMAIN rows' = DOMAIN rows
           /\ \A j \in DOMAIN rows : rows'[j].device = rows[j].device /\ rows'[j].created = rows[j].created
  <2>1. \A e : RowsOf(rows, e)' = RowsOf(rows, e)
    BY <1>2 DEF RowsOf
  <2>. QED BY <1>2, <2>1 DEF Ordered, TimesDiffer, HistoryOrdered, RowsOf
<1>3. CASE rows' = rows
  BY <1>2, <1>3
<1>4. CASE UpdateRow
  <2>1. rows' = rows \/ rows' = [rows EXCEPT ![verdict.id].state = verdict.state]
    BY <1>4 DEF UpdateRow
  <2>2. \A j \in DOMAIN rows : rows[j] \in Rows
    BY DEF IInv, TypeOK
  <2>. QED BY <1>2, <2>1, <2>2 DEF Rows
<1>. QED
  BY <1>1, <1>3, <1>4
  DEF Next, Request, Reconcile, Tick, BuildControl, WriteControl, WriteFails, AuditRequest, RecordFails,
      DeviceReads, DeviceAnswers, AckVanishes, StatusChanges, ReadAcknowledgement, GetControlStatus, UpdateFails,
      AuditTransition, Crash, vars

\* The rows of a device have different times and are no more than the limit:
\* pruning keeps those that have fewer newer ones than the limit.
THEOREM HistoryIsOrdered == Spec => []HistoryOrdered
<1>1. Ordered => HistoryOrdered
  BY DEF Ordered
<1>. QED BY <1>1, OrderedInit, OrderedStep, Invariance, PTL DEF Spec

-----------------------------------------------------------------------------
\* Final answers.  A document is written once, so the device that has answered
\* the request in control.xml reads it still; its final answer is the only one;
\* and what the poller has read of it is no older than what the row has.
Unanswered(i) == seen # i /\ control # i /\ \A a \in acked : a.id # i
WritersFresh == \A t \in Threads : handler[t].step = "write" => Unanswered(handler[t].id)
Finality ==
  /\ WritersFresh
  /\ \A i \in Ids \ DOMAIN issued : Unanswered(i)
  /\ \A a \in acked : a.id = control => seen = control /\ ack # None /\ ack.id = control
  /\ \A a, b \in acked : a.id = b.id /\ a.outcome \in Finals /\ b.outcome \in Finals => a = b
  /\ ack # None /\ Settled(ack.id) => ack.outcome \in Finals

ShownFinal(i) == i \in DOMAIN rows /\ rows[i].state \in Finals
PollerCurrent ==
  /\ pc = "control" /\ ShownFinal(control) =>
       readAck # None /\ readAck.id = control /\ readAck.outcome \in Finals
  /\ pc = "update" /\ ShownFinal(verdict.id) => verdict.state = rows[verdict.id].state

LEMMA FinalsAre == Finals \subseteq Outcomes /\ "accepted" \notin Finals
                   /\ "awaiting" \notin Finals /\ "timeout" \notin Finals
  BY ControlAssumption DEF Outcomes

LEMMA FinalityInit == Init => Finality /\ PollerCurrent
<1>. SUFFICES ASSUME Init PROVE Finality /\ PollerCurrent
  OBVIOUS
<1>1. \A i \in Ids : Unanswered(i)
  BY ControlAssumption DEF Init, Unanswered
<1>2. Finality
  BY <1>1, ControlAssumption DEF Init, Finality, WritersFresh, Idle
<1>3. PollerCurrent
  BY DEF Init, PollerCurrent
<1>. QED BY <1>2, <1>3

LEMMA FinalityStep == IInv /\ Finality /\ ~Vanishing /\ [Next]_vars => Finality'
<1>. SUFFICES ASSUME IInv, Finality, ~Vanishing, [Next]_vars PROVE Finality'
  OBVIOUS
<1>. USE DEF deviceVars, pollVars, boundVars
<1>1. TypeOK /\ TypeOK'
  BY TypeStep DEF IInv
<1>2. ASSUME NEW t \in Threads, NEW i \in Ids, NEW d \in Devices, BuildControl(t, i, d)
      PROVE  Finality'
  <2>1. DOMAIN issued' = DOMAIN issued \cup {i} /\ i \notin DOMAIN issued
    BY <1>2 DEF BuildControl
  <2>2. \A u \in Threads : handler'[u] = handler[u] \/ handler'[u].id = i
    BY <1>1, <1>2 DEF BuildControl, TypeOK
  <2>3. UNCHANGED <<control, seen, ack, acked>>
    BY <1>2 DEF BuildControl
  <2>4. Unanswered(i)
    BY <2>1 DEF Finality
  <2>5. WritersFresh'
    BY <2>2, <2>3, <2>4 DEF Finality, WritersFresh, Unanswered
  <2>6. (\A j \in Ids \ DOMAIN issued : Unanswered(j))'
    BY <2>1, <2>3 DEF Finality, Unanswered
  <2>. QED BY <2>3, <2>5, <2>6 DEF Finality, Settled
<1>3. ASSUME NEW t \in Threads, WriteControl(t) PROVE Finality'
  <2>. PICK i : i = handler[t].id
    OBVIOUS
  <2>1. control' = i /\ UNCHANGED <<issued, seen, ack, acked>>
    BY <1>3 DEF WriteControl
  <2>2. i \in DOMAIN issued /\ handler[t] # Idle
    BY <1>1, <1>3 DEF WriteControl, TypeOK, Idle
  <2>3. Unanswered(i)
    BY <1>3 DEF WriteControl, Finality, WritersFresh
  <2>4. \A u \in Threads : handler'[u].step = "write" => handler'[u] = handler[u] /\ u # t
    BY <1>1, <1>3 DEF WriteControl, TypeOK, Idle
  <2>5. \A u \in Threads : handler'[u].step = "write" => handler'[u] = handler[u] /\ handler[u].id # i
    BY <2>2, <2>4 DEF IInv, HandlersFresh, Idle
  <2>6. WritersFresh'
    BY <2>1, <2>5 DEF Finality, WritersFresh, Unanswered
  <2>7. (\A j \in Ids \ DOMAIN issued : Unanswered(j))'
    BY <2>1, <2>2 DEF Finality, Unanswered
  <2>8. \A a \in acked' : a.id # control'
    BY <2>1, <2>3 DEF Unanswered
  <2>. QED BY <2>1, <2>6, <2>7, <2>8 DEF Finality, Settled
<1>4. CASE DeviceReads
  <2>1. seen' = control /\ control # None /\ UNCHANGED <<issued, control, ack, acked, handler>>
    BY <1>4 DEF DeviceReads
  <2>2. WritersFresh' /\ (\A j \in Ids \ DOMAIN issued : Unanswered(j))'
    BY <2>1 DEF Finality, WritersFresh, Unanswered
  <2>3. (\A a \in acked : a.id = control => seen = control /\ ack # None /\ ack.id = control)'
    BY <2>1 DEF Finality
  <2>. QED BY <2>1, <2>2, <2>3 DEF Finality, Settled
<1>5. ASSUME NEW o \in Outcomes, DeviceAnswers(o) PROVE Finality'
  <2>. PICK n : n = [id |-> seen, outcome |-> o]
    OBVIOUS
  <2>1. ack' = n /\ acked' = acked \cup {n} /\ UNCHANGED <<issued, control, seen, handler>>
        /\ n.id = seen /\ n.outcome = o /\ seen # None
    BY <1>5 DEF DeviceAnswers
  <2>2. Settled(seen) => n \in acked /\ o \in Finals
    BY <1>5 DEF DeviceAnswers
  <2>3. n # None
    BY <1>1, <2>1, ControlAssumption DEF TypeOK, Answers
  <2>4. WritersFresh' /\ (\A j \in Ids \ DOMAIN issued : Unanswered(j))'
    BY <2>1 DEF Finality, WritersFresh, Unanswered
  <2>5. \A a \in acked' : a.id = control' => seen' = control' /\ ack' # None /\ ack'.id = control'
    BY <2>1, <2>3 DEF Finality
  <2>6. \A a, b \in acked' : a.id = b.id /\ a.outcome \in Finals /\ b.outcome \in Finals => a = b
    BY <2>1, <2>2 DEF Finality, Settled
  <2>7. (Settled(ack.id) => ack.outcome \in Finals)'
    BY <2>1, <2>2 DEF Settled
  <2>. QED BY <2>4, <2>5, <2>6, <2>7 DEF Finality
<1>6. CASE /\ UNCHANGED <<issued, control, seen, ack, acked>>
           /\ \A t \in Threads : handler'[t].step = "write" => handler'[t] = handler[t]
  <2>1. WritersFresh' /\ (\A j \in Ids \ DOMAIN issued : Unanswered(j))'
    BY <1>6 DEF Finality, WritersFresh, Unanswered
  <2>. QED BY <1>6, <2>1 DEF Finality, Settled
<1>7. ASSUME NEW t \in Threads,
             WriteFails(t) \/ AuditRequest(t) \/ RecordControlRequest(t) \/ RecordFails(t)
      PROVE  Finality'
  <2>1. UNCHANGED <<issued, control, seen, ack, acked>>
    BY <1>7 DEF WriteFails, AuditRequest, RecordControlRequest, RecordFails
  <2>2. \A u \in Threads : handler'[u].step = "write" => handler'[u] = handler[u]
    BY <1>1, <1>7 DEF WriteFails, AuditRequest, RecordControlRequest, RecordFails, TypeOK, Idle
  <2>. QED BY <1>6, <2>1, <2>2
<1>8. CASE Tick \/ StatusChanges \/ Reconcile \/ UNCHANGED vars
  BY <1>6, <1>8
  DEF Tick, StatusChanges, Reconcile, ReadAcknowledgement, GetControlStatus, UpdateRow, UpdateFails, AuditTransition, vars
<1>9. CASE Crash
  BY <1>6, <1>9 DEF Crash, Idle
<1>. QED
  BY <1>2, <1>3, <1>4, <1>5, <1>7, <1>8, <1>9 DEF Next, Request, AckVanishes

\* A row that gets a final answer gets it from the only one there is.
LEMMA PollerStep == IInv /\ Finality /\ PollerCurrent /\ ~Vanishing /\ [Next]_vars => PollerCurrent'
<1>. SUFFICES ASSUME IInv, Finality, PollerCurrent, ~Vanishing, [Next]_vars PROVE PollerCurrent'
  OBVIOUS
<1>. USE DEF deviceVars, pollVars, boundVars
<1>1. TypeOK
  BY DEF IInv
<1>2. ASSUME UNCHANGED <<rows, pollVars>>, control' = control \/ control' \notin DOMAIN rows
      PROVE  PollerCurrent'
  BY <1>2 DEF PollerCurrent, ShownFinal
<1>3. ASSUME NEW t \in Threads, WriteControl(t) PROVE PollerCurrent'
  <2>1. control' = handler[t].id /\ UNCHANGED <<rows, pollVars>>
    BY <1>3 DEF WriteControl
  <2>2. handler[t].id \notin DOMAIN rows
    BY <1>3 DEF WriteControl, Idle, IInv, HandlersFresh
  <2>. QED BY <1>2, <2>1, <2>2
<1>4. ASSUME NEW t \in Threads, RecordControlRequest(t) PROVE PollerCurrent'
  <2>1. UNCHANGED <<control, pollVars>>
    BY <1>4 DEF RecordControlRequest
  <2>2. ASSUME NEW j, ShownFinal(j)' PROVE ShownFinal(j) /\ rows'[j] = rows[j]
    BY <1>1, <1>4, <2>2, Recorded, FinalsAre DEF ShownFinal
  <2>. QED BY <2>1, <2>2 DEF PollerCurrent
<1>5. CASE ReadAcknowledgement
  <2>1. pc' = "control" /\ readAck' = ack /\ UNCHANGED <<control, rows>>
    BY <1>5 DEF ReadAcknowledgement
  <2>2. ASSUME ShownFinal(control)
        PROVE  ack # None /\ ack.id = control /\ ack.outcome \in Finals
    <3>1. [id |-> control, outcome |-> rows[control].state] \in acked
      BY <2>2, FinalsAre DEF ShownFinal, IInv, HistoryHonest
    <3>2. Settled(control)
      BY <2>2, <3>1 DEF Settled, ShownFinal
    <3>. QED BY <3>1, <3>2 DEF Finality
  <2>. QED BY <2>1, <2>2 DEF PollerCurrent, ShownFinal
<1>6. CASE GetControlStatus
  <2>1. pc = "control" /\ pc' # "control" /\ UNCHANGED <<control, rows>>
    BY <1>6 DEF GetControlStatus
  <2>2. ASSUME ShownFinal(verdict'.id), pc' = "update"
        PROVE  verdict'.state = rows[verdict'.id].state
    <3>1. verdict'.id = control /\ verdict'.state = ControlState(control)
      BY <1>6, <2>2 DEF GetControlStatus
    <3>2. readAck # None /\ readAck.id = control /\ readAck.outcome \in Finals
      BY <2>1, <2>2, <3>1 DEF PollerCurrent
    <3>3. [id |-> control, outcome |-> rows[control].state] \in acked /\ rows[control].state \in Finals
      BY <2>2, <3>1, FinalsAre DEF ShownFinal, IInv, HistoryHonest
    <3>4. readAck.outcome = rows[control].state
      BY <1>1, <3>2, <3>3 DEF Finality, TypeOK
    <3>. QED BY <3>1, <3>2, <3>4 DEF ControlState, Matches
  <2>. QED BY <2>1, <2>2 DEF PollerCurrent, ShownFinal
<1>7. CASE UpdateRow \/ UpdateFails \/ AuditTransition \/ Crash
  BY <1>7 DEF UpdateRow, UpdateFails, AuditTransition, Crash, PollerCurrent
<1>8. CASE UNCHANGED <<control, rows, pollVars>>
  BY <1>2, <1>8
<1>9. ASSUME NEW t \in Threads, WriteFails(t) \/ AuditRequest(t) \/ RecordFails(t) PROVE PollerCurrent'
  BY <1>8, <1>9 DEF WriteFails, AuditRequest, RecordFails
<1>10. ASSUME NEW t \in Threads, NEW i \in Ids, NEW d \in Devices, BuildControl(t, i, d)
       PROVE  PollerCurrent'
  BY <1>8, <1>10 DEF BuildControl
<1>11. CASE Tick \/ DeviceReads \/ StatusChanges \/ UNCHANGED vars
  BY <1>8, <1>11 DEF Tick, DeviceReads, StatusChanges, vars
<1>12. ASSUME NEW o \in Outcomes, DeviceAnswers(o) PROVE PollerCurrent'
  BY <1>8, <1>12 DEF DeviceAnswers
<1>. QED
  BY <1>3, <1>4, <1>5, <1>6, <1>7, <1>9, <1>10, <1>11, <1>12 DEF Next, Request, Reconcile, AckVanishes

\* A step changes the state of no row that shows a final answer.
LEMMA FinalKept ==
  ASSUME IInv, PollerCurrent, [Next]_vars, NEW i \in DOMAIN rows \cap DOMAIN rows', ShownFinal(i)
  PROVE  rows'[i].state = rows[i].state
<1>. USE DEF deviceVars, pollVars, boundVars
<1>1. CASE rows' = rows
  BY <1>1
<1>2. ASSUME NEW t \in Threads, RecordControlRequest(t) PROVE rows'[i].state = rows[i].state
  <2>1. handler[t] # Idle
    BY <1>2 DEF RecordControlRequest, Idle
  <2>2. handler[t].id # i
    BY <2>1 DEF IInv, HandlersFresh
  <2>3. TypeOK
    BY DEF IInv
  <2>4. rows'[i] = rows[i]
    BY <1>2, <2>2, <2>3, Recorded
  <2>. QED BY <2>4
<1>3. CASE UpdateRow
  <2>1. CASE Changed
    <3>1. verdict.id # i
      BY <1>3, <2>1 DEF UpdateRow, Changed, PollerCurrent
    <3>. QED BY <1>3, <2>1, <3>1 DEF UpdateRow
  <2>. QED BY <1>1, <1>3, <2>1 DEF UpdateRow
<1>4. ASSUME NEW t \in Threads, WriteControl(t) \/ WriteFails(t) \/ AuditRequest(t) \/ RecordFails(t)
      PROVE  rows' = rows
  BY <1>4 DEF WriteControl, WriteFails, AuditRequest, RecordFails
<1>5. ASSUME NEW t \in Threads, NEW j \in Ids, NEW d \in Devices, BuildControl(t, j, d)
      PROVE  rows' = rows
  BY <1>5 DEF BuildControl
<1>6. ASSUME NEW o \in Outcomes, DeviceAnswers(o) PROVE rows' = rows
  BY <1>6 DEF DeviceAnswers
<1>7. CASE \/ Tick \/ DeviceReads \/ AckVanishes \/ StatusChanges \/ Crash \/ UNCHANGED vars
           \/ ReadAcknowledgement \/ GetControlStatus \/ UpdateFails \/ AuditTransition
  BY <1>1, <1>7 DEF Tick, DeviceReads, AckVanishes, StatusChanges, Crash, vars,
    ReadAcknowledgement, GetControlStatus, UpdateFails, AuditTransition
<1>. QED
  BY <1>1, <1>2, <1>3, <1>4, <1>5, <1>6, <1>7 DEF Next, Request, Reconcile

\* With a device that keeps its acknowledgement in status.xml, a final answer in
\* the history is never taken back by a later reconcile.
THEOREM FinalStaysCorrect == ASSUME ~Vanishing PROVE Spec => FinalStays
<1>1. Init => IInv /\ Finality /\ PollerCurrent
  BY InitIInv, FinalityInit
<1>2. IInv /\ Finality /\ PollerCurrent /\ [Next]_vars => (IInv /\ Finality /\ PollerCurrent)'
  BY NextIInv, FinalityStep, PollerStep
<1>3. IInv /\ PollerCurrent /\ [Next]_vars =>
        [\A i \in DOMAIN rows \cap DOMAIN rows' :
           rows[i].state \in Finals => rows'[i].state = rows[i].state]_vars
  BY FinalKept DEF ShownFinal
<1>. QED
  BY <1>1, <1>2, <1>3, PTL DEF Spec, FinalStays
=============================================================================
